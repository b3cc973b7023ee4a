------------------------------ MODULE CashAlert ------------------------------
(***************************************************************************)
(* The low-available-cash alert of one user.                               *)
(*                                                                         *)
(* Every planning transaction ends in persistSnapshot, which stores the    *)
(* plan's Available to use under the fingerprint of its inputs and calls   *)
(* evaluate_available_cash_alert.  A fall below the user's threshold opens *)
(* an episode; the worker turns an open episode into one event with its    *)
(* delivery, and checks the episode again when it claims the delivery.     *)
(*                                                                         *)
(* Transactions are ordered by the instant they BEGIN (now() in            *)
(* PostgreSQL) but commit in any order.  A transaction reads the           *)
(* preferences before it waits for the advisory lock that serialises       *)
(* evaluations, so an update of the preferences may commit in between.     *)
(***************************************************************************)
EXTENDS Integers, Sequences, FiniteSets

CONSTANTS
    Writers,        \* planning transactions in flight: API requests and syncs
    Choices,        \* the sets of accounts the user may include in the plan
    ManualChoices,  \* those with no connected account
    Amounts,        \* values of Available to use, in minor units
    Thresholds,     \* thresholds the user may choose, in minor units
    None,           \* the null of a column
    MaxClock,       \* bound on transactions
    MaxObserved,    \* bound on the balance observations
    MaxVersion      \* bound on notification_preferences.version

ASSUME ManualAssumption == ManualChoices \subseteq Choices
ASSUME AmountsAssumption == Amounts \subseteq Int /\ Thresholds \subseteq Nat
ASSUME BoundsAssumption == {MaxClock, MaxObserved, MaxVersion} \subseteq Nat

VARIABLES
    clock,          \* instants handed to transactions so far
    plan,           \* what the plan is computed from: choice, observed, available
    aged,           \* observations older than 36 hours (connected) or 7 days
    snapshots,      \* calculation_snapshots
    writer,         \* the planning transactions
    preference,     \* the user's row of notification_preferences
    saving,         \* the transaction of updatePreferences, or None
    alert,          \* the row of available_cash_alert_states, or None
    episodes,       \* available_cash_alert_episodes, each with its delivery
    rearmed         \* history: episodes followed by a rise over the hysteresis

planVars == <<clock, plan, aged, snapshots, writer>>
alertVars == <<alert, episodes, rearmed>>
vars == <<planVars, preference, saving, alertVars>>

\* The fingerprint of a snapshot is the hash of its inputs: the accounts, their
\* observations and the freshness status.
Snapshot == [choice : Choices, observed : Nat, freshness : {"current", "manual", "stale"},
             available : Amounts, at : Nat]

Preference == [on : BOOLEAN, version : Nat, threshold : Thresholds]

Episode == [status : {"open", "recovered", "unavailable", "cancelled"},
            revision : Nat, grace : BOOLEAN,
            delivery : {"none", "queued", "sending", "sent", "suppressed"}]

Inputs == [choice : Choices, observed : 0 .. MaxObserved, available : [Choices -> Amounts]]

AlertRow == [status : {"above", "below", "unavailable"}, armed : BOOLEAN,
             episode : Nat \cup {None}, at : Nat]

\* A null is no number and no row.
ASSUME NoneAssumption == None \notin Nat \cup AlertRow

Resting == [stage |-> "idle", at |-> 0]

WriterState == {Resting} \cup [stage : {"begun"}, at : Nat]
    \cup [stage : {"computed"}, at : Nat, plan : Inputs, seen : Preference, external : BOOLEAN]

TypeOK ==
    /\ clock \in 0 .. MaxClock
    /\ plan \in Inputs
    /\ aged \subseteq 0 .. MaxObserved
    /\ snapshots \subseteq Snapshot
    /\ writer \in [Writers -> WriterState]
    /\ preference \in Preference
    /\ \/ saving = None
       \/ saving \in [to : Preference, locked : SUBSET DOMAIN episodes,
                      quieted : SUBSET DOMAIN episodes, latest : snapshots \cup {None}]
    /\ \/ alert = None
       \/ alert \in AlertRow /\ alert.episode \in DOMAIN episodes \cup {None}
    /\ episodes \in Seq(Episode)
    /\ rearmed \subseteq DOMAIN episodes

\* The plan has no snapshot yet; alerts may have been switched on before it.
Init ==
    /\ clock = 0
    /\ \E choice \in Choices, available \in [Choices -> Amounts] :
        plan = [choice |-> choice, observed |-> 0, available |-> available]
    /\ aged = {}
    /\ snapshots = {}
    /\ writer = [t \in Writers |-> Resting]
    /\ \E on \in BOOLEAN, t \in Thresholds :
        preference = [on |-> on, version |-> 1, threshold |-> t]
    /\ saving = None
    /\ alert = None
    /\ episodes = <<>>
    /\ rearmed = {}

------------------------------------------------------------------------------
(* Snapshots.                                                              *)

\* plan.freshness of buildBootstrap.
Freshness(p) ==
    IF p.observed \in aged THEN "stale"
    ELSE IF p.choice \in ManualChoices THEN "manual" ELSE "current"

\* INSERT ... ON CONFLICT (household_id, input_fingerprint) DO NOTHING: equal
\* inputs keep the snapshot, and the instant, of the first transaction.
SnapshotOf(p, at) ==
    LET same == {s \in snapshots : /\ s.choice = p.choice
                                   /\ s.observed = p.observed
                                   /\ s.freshness = Freshness(p)}
    IN  IF same # {} THEN CHOOSE s \in same : TRUE
        ELSE [choice |-> p.choice, observed |-> p.observed, freshness |-> Freshness(p),
              available |-> p.available[p.choice], at |-> at]

\* ORDER BY calculated_at DESC LIMIT 1.
Latest == LET last == {s \in snapshots : \A other \in snapshots : other.at <= s.at}
          IN  IF last = {} THEN None ELSE CHOOSE s \in last : TRUE

\* v_fresh: a snapshot of connected balances counts as fresh whatever its age now.
IsFresh(s) == \/ s.freshness = "current"
              \/ s.freshness = "manual" /\ s.observed \notin aged

\* What the worker asks of the latest snapshot.
LatestIsFresh == Latest # None /\ Latest.freshness # "stale" /\ Latest.observed \notin aged

------------------------------------------------------------------------------
(* evaluate_available_cash_alert.                                          *)

Least(a, b) == IF a < b THEN a ELSE b
Greatest(a, b) == IF a < b THEN b ELSE a

Hysteresis(threshold) == Least(2500, Greatest(100, threshold \div 10))

\* The episode ends in "status" if it is still open, and a queued delivery of
\* it is suppressed.
Closed(row, status) ==
    [row EXCEPT !.status = IF @ = "open" THEN status ELSE @,
                !.delivery = IF @ = "queued" THEN "suppressed" ELSE @]

Close(eps, e, status) == IF e = None THEN eps ELSE [eps EXCEPT ![e] = Closed(@, status)]

Current == IF alert = None THEN None ELSE alert.episode

\* The current episode was opened under another version of the preferences.
PreferenceChanged(seen) ==
    Current # None /\ episodes[Current].revision # seen.version

Continued(seen) == IF PreferenceChanged(seen) THEN None ELSE Current

Kept(seen) == IF PreferenceChanged(seen) THEN Close(episodes, Current, "cancelled")
              ELSE episodes

Armed(seen) == IF alert = None THEN TRUE ELSE PreferenceChanged(seen) \/ alert.armed

\* The row keeps its own "armed" when it exists: the update of the conflicting
\* row does not write the column.
Unavailable(s, seen) ==
    /\ ~IsFresh(s)
    /\ episodes' = Close(Kept(seen), Continued(seen), "unavailable")
    /\ alert' = [status |-> "unavailable", armed |-> alert = None \/ alert.armed,
                 episode |-> None, at |-> s.at]
    /\ UNCHANGED rearmed

Opened(seen, external) ==
    [status |-> "open", revision |-> seen.version, grace |-> ~external, delivery |-> "none"]

FallsBelow(s, seen, external) ==
    /\ IsFresh(s) /\ s.available < seen.threshold
    /\ Armed(seen)
    /\ episodes' = Append(Kept(seen), Opened(seen, external))
    /\ alert' = [status |-> "below", armed |-> FALSE,
                 episode |-> Len(episodes) + 1, at |-> s.at]
    /\ UNCHANGED rearmed

StaysBelow(s, seen) ==
    /\ IsFresh(s) /\ s.available < seen.threshold
    /\ ~Armed(seen)
    /\ alert' = [status |-> "below", armed |-> FALSE, episode |-> Current, at |-> s.at]
    /\ UNCHANGED <<episodes, rearmed>>

\* Mutant: any rise over the threshold arms the alert again.
RearmsAtThreshold(s, seen) == s.available >= seen.threshold

Rearms(s, seen) == s.available >= seen.threshold + Hysteresis(seen.threshold)

Above(s, seen) ==
    /\ IsFresh(s) /\ s.available >= seen.threshold
    /\ episodes' = Close(Kept(seen), Continued(seen), "recovered")
    /\ alert' = [status |-> "above", armed |-> Rearms(s, seen), episode |-> None, at |-> s.at]
    /\ rearmed' = IF s.available >= seen.threshold + Hysteresis(seen.threshold)
                  THEN DOMAIN episodes ELSE rearmed

\* The early returns: alerts are off, or a later transaction was evaluated.
Ignored(s, seen) == seen.on => (IF alert = None THEN FALSE ELSE s.at < alert.at)

Evaluate(s, seen, external) ==
    \/ Ignored(s, seen) /\ UNCHANGED alertVars
    \/ /\ ~Ignored(s, seen)
       /\ \/ Unavailable(s, seen)
          \/ FallsBelow(s, seen, external)
          \/ StaysBelow(s, seen)
          \/ Above(s, seen)

------------------------------------------------------------------------------
(* Planning transactions.                                                  *)

Begin(t) ==
    /\ writer[t].stage = "idle" /\ clock < MaxClock
    /\ clock' = clock + 1
    /\ writer' = [writer EXCEPT ![t] = [stage |-> "begun", at |-> clock + 1]]
    /\ UNCHANGED <<plan, aged, snapshots, preference, saving, alertVars>>

\* The inputs a transaction leaves: another choice of accounts, or the balances
\* of a new observation.
Included == {[plan EXCEPT !.choice = choice] : choice \in Choices}

Observed == {[plan EXCEPT !.observed = @ + 1, !.available = available] :
                available \in [Choices -> Amounts]}

\* The transaction takes the household's planning lock, changes the plan's
\* inputs, and reads the preferences.
Compute(t) ==
    /\ writer[t].stage = "begun"
    /\ \A other \in Writers : writer[other].stage # "computed"
    /\ \E p \in Included \cup Observed, external \in BOOLEAN :
        /\ p.observed <= MaxObserved
        /\ external => p \in Observed /\ plan.choice \notin ManualChoices
        /\ writer' = [writer EXCEPT ![t] = [stage |-> "computed", at |-> @.at, plan |-> p,
                                            seen |-> preference, external |-> external]]
    /\ UNCHANGED <<clock, plan, aged, snapshots, preference, saving, alertVars>>

\* It waits while updatePreferences has locked the current episode.
Blocked == saving # None /\ Current \in saving.locked

PersistSnapshot(t) ==
    /\ writer[t].stage = "computed" /\ ~Blocked
    /\ LET s == SnapshotOf(writer[t].plan, writer[t].at)
       IN  /\ snapshots' = snapshots \cup {s}
           /\ Evaluate(s, writer[t].seen, writer[t].external)
    /\ plan' = writer[t].plan
    /\ writer' = [writer EXCEPT ![t] = Resting]
    /\ UNCHANGED <<clock, aged, preference, saving>>

\* The transaction is refused or fails, or is the victim of a deadlock.
Rollback(t) ==
    /\ writer[t].stage # "idle"
    /\ writer' = [writer EXCEPT ![t] = Resting]
    /\ UNCHANGED <<clock, plan, aged, snapshots, preference, saving, alertVars>>

\* The balances of the plan pass the age at which they count as stale.
Age ==
    /\ plan.observed \notin aged
    /\ aged' = aged \cup {plan.observed}
    /\ UNCHANGED <<clock, plan, snapshots, writer, preference, saving, alertVars>>

------------------------------------------------------------------------------
(* Preferences.                                                            *)

\* The row is locked; the open episodes and the queued deliveries are those the
\* statements find when alerts go off, the snapshot is the latest when they are on.
BeginUpdatePreferences ==
    /\ saving = None /\ preference.version < MaxVersion
    /\ \E on \in BOOLEAN, threshold \in Thresholds :
        saving' = [to |-> [on |-> on, version |-> preference.version + 1, threshold |-> threshold],
                   locked |-> {e \in DOMAIN episodes : ~on /\ episodes[e].status = "open"},
                   quieted |-> {e \in DOMAIN episodes : ~on /\ episodes[e].delivery = "queued"},
                   latest |-> IF on THEN Latest ELSE None]
    /\ UNCHANGED <<planVars, preference, alertVars>>

\* Alerts are on: the latest snapshot is evaluated under the new version.
Reevaluate == IF saving.latest = None THEN UNCHANGED alertVars
              ELSE Evaluate(saving.latest, saving.to, FALSE)

SwitchOff ==
    /\ episodes' = [e \in DOMAIN episodes |->
                        [episodes[e] EXCEPT
                            !.status = IF e \in saving.locked THEN "cancelled" ELSE @,
                            !.delivery = IF e \in saving.quieted /\ @ = "queued"
                                         THEN "suppressed" ELSE @]]
    /\ alert' = IF alert = None THEN None
                ELSE [alert EXCEPT !.status = "unavailable", !.armed = TRUE, !.episode = None]
    /\ UNCHANGED rearmed

CommitUpdatePreferences ==
    /\ saving # None
    /\ IF saving.to.on THEN Reevaluate ELSE SwitchOff
    /\ preference' = saving.to
    /\ saving' = None
    /\ UNCHANGED planVars

\* ensurePreferences: a verified e-mail address is stored, the trigger bumps
\* the version, and nothing is evaluated.
EnsurePreferences ==
    /\ saving = None /\ preference.version < MaxVersion
    /\ preference' = [preference EXCEPT !.version = @ + 1]
    /\ UNCHANGED <<planVars, saving, alertVars>>

------------------------------------------------------------------------------
(* The worker.                                                             *)

\* The 24 hours in which a user's own change raises no alert are over.  No
\* transaction lasts that long.
GraceEnds(e) ==
    /\ episodes[e].grace
    /\ saving = None /\ \A t \in Writers : writer[t].stage = "idle"
    /\ episodes' = [episodes EXCEPT ![e].grace = FALSE]
    /\ UNCHANGED <<planVars, preference, saving, alert, rearmed>>

IsAlerting(e) ==
    /\ preference.on
    /\ alert # None /\ alert.episode = e /\ alert.status = "below"
    /\ episodes[e].status = "open"
    /\ LatestIsFresh

\* generate_available_cash_events: one event for an episode and a revision.
Generate(e) ==
    /\ IsAlerting(e)
    /\ ~episodes[e].grace
    /\ episodes[e].revision = preference.version
    /\ episodes[e].delivery = "none"
    /\ episodes' = [episodes EXCEPT ![e].delivery = "queued"]
    /\ UNCHANGED <<planVars, preference, saving, alert, rearmed>>

\* Mutant: the claim compares the preferences only.
SupersededByPreference(e) == episodes[e].revision # preference.version \/ ~preference.on

\* The condition under which claim_notification_delivery suppresses.
Superseded(e) == episodes[e].revision # preference.version \/ ~IsAlerting(e)

\* Every queued delivery that no longer holds is suppressed; one that does is
\* handed to the worker.
Claim ==
    LET queued == {e \in DOMAIN episodes : episodes[e].delivery = "queued"}
        Checked(e) == IF e \in queued /\ Superseded(e)
                      THEN [episodes[e] EXCEPT !.delivery = "suppressed"] ELSE episodes[e]
    IN  /\ queued # {}
        /\ \/ /\ \A e \in queued : Superseded(e)
              /\ episodes' = [e \in DOMAIN episodes |-> Checked(e)]
           \/ \E e \in queued :
              /\ ~Superseded(e)
              /\ episodes' = [[o \in DOMAIN episodes |-> Checked(o)]
                                 EXCEPT ![e].delivery = "sending"]
        /\ UNCHANGED <<planVars, preference, saving, alert, rearmed>>

\* finish_notification_delivery, or the lease of a lost worker running out.
Finish(e) ==
    /\ episodes[e].delivery = "sending"
    /\ \E outcome \in {"sent", "queued"} :
        episodes' = [episodes EXCEPT ![e].delivery = outcome]
    /\ UNCHANGED <<planVars, preference, saving, alert, rearmed>>

------------------------------------------------------------------------------
Next ==
    \/ \E t \in Writers : Begin(t) \/ Compute(t) \/ PersistSnapshot(t) \/ Rollback(t)
    \/ Age
    \/ BeginUpdatePreferences \/ CommitUpdatePreferences \/ EnsurePreferences
    \/ \E e \in DOMAIN episodes : GraceEnds(e) \/ Generate(e) \/ Finish(e)
    \/ Claim

Spec == Init /\ [][Next]_vars

------------------------------------------------------------------------------
\* The alert a person sees on Today is the open episode of their own state: an
\* episode that ended is never the current one, whatever update of the
\* preferences, sync or request came in between (035:162-225).
CurrentIsOpen == Current # None => alert.status = "below" /\ episodes[Current].status = "open"

\* Two alerts under the same preferences are separated by a rise to the
\* threshold and the hysteresis: cash that moves around the threshold, balances
\* that go stale and come back, and late transactions raise no second alert.
AlertsAreSpaced ==
    \A i, j \in DOMAIN episodes :
        /\ i < j /\ episodes[i].revision = episodes[j].revision
        /\ episodes[i].delivery # "none" /\ episodes[j].delivery # "none"
        => i \in rearmed

\* Both, with the types: what the table of episodes tells is one history.
EpisodesAreInOrder == TypeOK /\ CurrentIsOpen /\ AlertsAreSpaced

\* Behind it (AlertInv is inductive).  An evaluation knows the preferences in
\* force or earlier ones; those of a version are never two.
SeenInOrder ==
    /\ \A t \in Writers : writer[t].stage = "computed" =>
          /\ writer[t].seen.version <= preference.version
          /\ writer[t].seen.version = preference.version => writer[t].seen = preference
          /\ \A other \in Writers \ {t} : writer[other].stage # "computed"
    /\ saving # None => saving.to.version = preference.version + 1
    /\ \A e \in DOMAIN episodes : episodes[e].revision <= preference.version

\* The current episode is the last one, and while there is one the alert is not
\* armed.
CurrentIsLast ==
    /\ alert = None => episodes = <<>>
    /\ Current # None => Current = Len(episodes) /\ ~alert.armed

Delivered(e) == episodes[e].delivery # "none"
Under(e, p) == episodes[e].revision = p.version

\* While an evaluation with earlier preferences is under way, no event under
\* those in force has been generated: their episodes are still in their grace.
StaleEvaluationsFirst ==
    /\ \A e \in DOMAIN episodes : Delivered(e) => ~episodes[e].grace
    /\ \A t \in Writers :
          writer[t].stage = "computed" /\ writer[t].seen.version # preference.version
          => \A e \in DOMAIN episodes : Under(e, preference) => episodes[e].grace

\* After an event under the preferences p no episode is opened under others,
\* and the next one of its own waits for a rise.
SpacedUnder(p) ==
    /\ \A i, j \in DOMAIN episodes : i < j /\ Delivered(i) /\ Under(i, p) => Under(j, p)
    /\ \A i, j \in DOMAIN episodes :
          /\ i < j /\ episodes[i].revision = episodes[j].revision
          /\ Delivered(i) /\ (Delivered(j) \/ Under(j, p))
          => i \in rearmed
    /\ alert # None /\ alert.armed =>
          \A e \in DOMAIN episodes : Delivered(e) /\ Under(e, p) => e \in rearmed

\* The current episode was evaluated last, below the threshold of p.
BelowUnder(p) ==
    Current # None /\ Under(Current, p) =>
        \E s \in snapshots : s.at = alert.at /\ s.available < p.threshold

AlertInv ==
    /\ TypeOK
    /\ CurrentIsOpen
    /\ SeenInOrder
    /\ CurrentIsLast
    /\ StaleEvaluationsFirst
    /\ SpacedUnder(preference)
    /\ BelowUnder(preference)

Claimed(e) == episodes[e].delivery = "queued" /\ episodes'[e].delivery = "sending"

\* A delivery goes out only while alerts are on and the snapshot that was
\* evaluated last is below the threshold of the preferences in force, however
\* long ago its event was generated (035:267-330).
ClaimFollowsEvaluation ==
    [][\A e \in DOMAIN episodes : Claimed(e) =>
          /\ preference.on
          /\ \E s \in snapshots : s.at = alert.at /\ s.available < preference.threshold]_vars

\* What docs/PRODUCT_ARCHITECTURE.md says of evaluations ("serialized per
\* user"): an open episode is the one the user's state points to, also when the
\* alerts are switched off while a sync is being evaluated.
OpenIsCurrent == \A e \in DOMAIN episodes : episodes[e].status = "open" => Current = e

\* What docs/PRODUCT_ARCHITECTURE.md says of the alert: it is sent while the
\* projection shown on Today is below the threshold.
AlertIsTrue ==
    [][\A e \in DOMAIN episodes :
          Claimed(e) => plan.available[plan.choice] < preference.threshold]_vars

\* What the settings page says: with alerts on, Available to use below the
\* amount the user chose has opened an episode for that choice.
FallIsAlerted ==
    (preference.on /\ alert # None /\ alert.status = "below") =>
        \E e \in DOMAIN episodes : episodes[e].revision = preference.version
=============================================================================
