---------------------- MODULE NotificationDeliveryProofs ----------------------
(***************************************************************************)
(* Proofs about NotificationDelivery, for any workers, devices and bounds: *)
(* the compare-and-swap on the lease token keeps late workers out.         *)
(***************************************************************************)
EXTENDS NotificationDelivery, TLAPS

WorkerRecord ==
    [stage : {"idle", "claimed", "accepted", "refused", "unwanted", "disabled"},
     holds : Delivery \cup {NoDelivery}, token : 0 .. MaxAttempts]

------------------------------------------------------------------------------
(* Types.                                                                  *)

LEMMA EventType ==
    ASSUME TypeOK
    PROVE  Current \in Event
BY DEF TypeOK, Current, Event

LEMMA DeliveryParts ==
    ASSUME NEW d \in Delivery
    PROVE  d.event \in Event /\ d.target \in Targets
BY DEF Delivery

\* Taking a lease back, or reviewing a delivery, changes its state only.
LEMMA ReviewedType ==
    ASSUME TypeOK, NEW d \in Delivery
    PROVE  /\ Reviewed(d) \in Row
           /\ Reviewed(d).attempts = delivery[d].attempts
           /\ Reviewed(d).due = delivery[d].due
           /\ IsWaiting(Reviewed(d)) => Reviewed(d).attempts < MaxAttempts
<1>1. delivery[d] \in Row /\ MaxAttempts \in Nat
  BY BoundsAssumption DEF TypeOK
<1>2. /\ Recovered(delivery[d]) \in Row
      /\ Recovered(delivery[d]).attempts = delivery[d].attempts
      /\ Recovered(delivery[d]).due = delivery[d].due
  BY <1>1 DEF Recovered, Row
<1> QED
  BY <1>1, <1>2 DEF Reviewed, IsWaiting, Row

\* A review leaves what has ended, what was never queued and what is leased.
LEMMA ReviewedState ==
    ASSUME TypeOK, NEW d \in Delivery
    PROVE  /\ delivery[d].state \in Terminal \cup {"none"} =>
                  Reviewed(d) = delivery[d] /\ ~IsWaiting(Reviewed(d))
           /\ delivery[d].state = "sending" /\ ~delivery[d].due =>
                  Reviewed(d) = delivery[d] /\ ~IsWaiting(Reviewed(d))
           /\ Reviewed(d).state = "none" => delivery[d].state = "none"
           /\ Reviewed(d).state = "sent" => delivery[d].state = "sent"
<1>1. delivery[d] \in Row
  BY DEF TypeOK
<1>2. /\ delivery[d].state # "sending" \/ ~delivery[d].due => Recovered(delivery[d]) = delivery[d]
      /\ delivery[d].state = "sending" => Recovered(delivery[d]).state \in {"sending", "retry"}
      /\ Recovered(delivery[d]) \in Row
  BY <1>1 DEF Recovered, Row
<1> QED
  BY <1>1, <1>2 DEF Reviewed, IsWaiting, Terminal, Row

------------------------------------------------------------------------------
(* Steps of the user, of time and of the generator.                        *)

\* What the invariant says beyond types rests on workers, deliveries and what
\* was accepted; attempts may grow, and what was claimed stays claimed.
LEMMA QuietStep ==
    ASSUME DeliveryInv, TypeOK', UNCHANGED <<worker, accepted>>,
           \A d \in Delivery : /\ delivery[d].state # "none" =>
                                     /\ delivery'[d].state # "none"
                                     /\ delivery'[d].attempts = delivery[d].attempts
                               /\ delivery'[d].state = "sent" => delivery[d].state = "sent"
    PROVE  DeliveryInv'
<1>1. \A w \in Workers : ClaimInv(w)'
  BY DEF DeliveryInv, ClaimInv
<1>2. TokensDiffer' /\ SentWasAccepted'
  BY DEF DeliveryInv, TokensDiffer, SentWasAccepted
<1> QED
  BY <1>1, <1>2 DEF DeliveryInv

LEMMA UserStep ==
    ASSUME DeliveryInv,
           \/ ChangeOccurrence \/ UpdatePreferences
           \/ \E d \in Devices : RegisterEndpoint(d) \/ DisableEndpoint(d)
           \/ Elapse
    PROVE  DeliveryInv'
<1>1. MaxRevision \in Nat /\ MaxVersion \in Nat
  BY BoundsAssumption
<1>2. CASE ChangeOccurrence
  <2>1. TypeOK'
    BY <1>1, <1>2 DEF DeliveryInv, TypeOK, ChangeOccurrence
  <2> QED
    BY <1>2, <2>1, QuietStep DEF ChangeOccurrence
<1>3. CASE UpdatePreferences
  <2>1. TypeOK'
    BY <1>1, <1>3 DEF DeliveryInv, TypeOK, UpdatePreferences
  <2> QED
    BY <1>3, <2>1, QuietStep DEF UpdatePreferences
<1>4. ASSUME NEW d \in Devices, RegisterEndpoint(d) \/ DisableEndpoint(d)
      PROVE  DeliveryInv'
  <2>1. TypeOK'
    BY <1>4 DEF DeliveryInv, TypeOK, RegisterEndpoint, DisableEndpoint
  <2> QED
    BY <1>4, <2>1, QuietStep DEF RegisterEndpoint, DisableEndpoint
<1>5. CASE Elapse
  <2>1. TypeOK'
    BY <1>5, EventType DEF DeliveryInv, TypeOK, Elapse, userVars
  <2> QED
    BY <1>5, <2>1, QuietStep DEF Elapse
<1> QED
  BY <1>2, <1>3, <1>4, <1>5

LEMMA GenerateStep ==
    ASSUME DeliveryInv, Generate
    PROVE  DeliveryInv'
<1> DEFINE fresh == [state |-> "queued", due |-> TRUE, attempts |-> 0]
<1>1. fresh \in Row /\ fresh.state = "queued"
  BY BoundsAssumption DEF Row
<1>2. delivery' = [d \in Delivery |->
          IF d.event = Current /\ Reachable(d.target) /\ delivery[d].state = "none"
          THEN fresh ELSE delivery[d]]
  BY DEF Generate
<1> HIDE DEF fresh
<1>3. TypeOK'
  <2>1. UNCHANGED <<occurrence, preference, device, elapsed, worker, accepted>>
    BY DEF Generate, userVars
  <2> QED
    BY <1>1, <1>2, <2>1 DEF DeliveryInv, TypeOK
<1>4. \A d \in Delivery : \/ delivery'[d] = delivery[d]
                         \/ /\ delivery[d].state = "none"
                            /\ delivery'[d].state = "queued"
  BY <1>1, <1>2
<1> QED
  BY <1>3, <1>4, QuietStep DEF Generate

LEMMA TimePassesStep ==
    ASSUME DeliveryInv, NEW d \in Delivery, TimePasses(d)
    PROVE  DeliveryInv'
<1>1. delivery \in [Delivery -> Row]
  BY DEF DeliveryInv, TypeOK
<1>2. delivery' \in [Delivery -> Row]
      /\ \A e \in Delivery : /\ delivery'[e].state = delivery[e].state
                            /\ delivery'[e].attempts = delivery[e].attempts
  BY <1>1 DEF TimePasses, Row
<1>3. TypeOK'
  BY <1>2 DEF DeliveryInv, TypeOK, TimePasses, userVars
<1> QED
  BY <1>2, <1>3, QuietStep DEF TimePasses

------------------------------------------------------------------------------
(* The claim.                                                              *)

\* A review that finds nothing to lease.
LEMMA ReviewStep ==
    ASSUME DeliveryInv, delivery' = [d \in Delivery |-> Reviewed(d)],
           UNCHANGED <<userVars, elapsed, worker, accepted>>
    PROVE  DeliveryInv'
<1>1. TypeOK'
  BY ReviewedType DEF DeliveryInv, TypeOK, userVars
<1>2. \A d \in Delivery : /\ delivery[d].state # "none" =>
                                /\ delivery'[d].state # "none"
                                /\ delivery'[d].attempts = delivery[d].attempts
                          /\ delivery'[d].state = "sent" => delivery[d].state = "sent"
  BY ReviewedType, ReviewedState DEF DeliveryInv
<1> QED
  BY <1>1, <1>2, QuietStep

\* The row of a delivery that is leased.
LEMMA LeasedRow ==
    ASSUME NEW r \in Row, r.attempts < MaxAttempts, NEW row,
           row = [r EXCEPT !.state = "sending", !.due = FALSE, !.attempts = @ + 1]
    PROVE  row \in Row /\ row.state = "sending" /\ row.attempts = r.attempts + 1
<1>1. r.attempts \in Nat /\ MaxAttempts \in Nat /\ r.attempts + 1 <= MaxAttempts
  BY BoundsAssumption DEF Row
<1>2. row = [state |-> "sending", due |-> FALSE, attempts |-> r.attempts + 1]
  BY DEF Row
<1>3. r.attempts + 1 \in 0 .. MaxAttempts
  BY <1>1
<1>4. row \in Row
  BY <1>2, <1>3 DEF Row
<1> QED
  BY <1>2, <1>4

\* A lease: the new token is above every token given out for the delivery.
LEMMA LeaseStep ==
    ASSUME DeliveryInv, NEW w \in Workers, NEW d \in Delivery,
           NEW row \in Row, NEW h \in WorkerRecord,
           row.state = "sending", row.attempts = delivery[d].attempts + 1,
           h.stage = "claimed", h.holds = d, h.token = row.attempts,
           delivery' = [e \in Delivery |-> IF e = d THEN row ELSE Reviewed(e)],
           worker' = [worker EXCEPT ![w] = h],
           UNCHANGED <<userVars, elapsed, accepted>>
    PROVE  DeliveryInv'
<1>1. worker \in [Workers -> WorkerRecord] /\ delivery \in [Delivery -> Row]
  BY DEF DeliveryInv, TypeOK, WorkerRecord
<1>2. delivery' \in [Delivery -> Row] /\ accepted' = accepted
  BY ReviewedType DEF DeliveryInv
<1>3. worker' \in [Workers -> WorkerRecord] /\ worker'[w] = h
      /\ \A v \in Workers \ {w} : worker'[v] = worker[v]
  BY <1>1
<1>4. TypeOK'
  BY <1>2, <1>3 DEF DeliveryInv, TypeOK, userVars, WorkerRecord
<1>5. \A e \in Delivery : delivery[e].attempts \in Nat /\ delivery'[e].attempts \in Nat
  BY <1>1, <1>2, BoundsAssumption DEF Row
<1>6. \A e \in Delivery : /\ delivery[e].state # "none" =>
                                /\ delivery'[e].state # "none"
                                /\ delivery[e].attempts <= delivery'[e].attempts
                          /\ delivery'[e].state = "sent" => delivery[e].state = "sent"
  BY <1>5, ReviewedType, ReviewedState DEF DeliveryInv
<1>7. \A v \in Workers : worker[v].token \in Nat
  BY <1>1, BoundsAssumption DEF WorkerRecord
<1>8. ASSUME NEW v \in Workers \ {w}
      PROVE  ClaimInv(v)'
  <2>1. ClaimInv(v) /\ worker'[v] = worker[v]
    BY <1>3 DEF DeliveryInv
  <2>2. CASE worker[v].stage = "idle"
    BY <2>1, <2>2 DEF ClaimInv, Idle
  <2>3. CASE worker[v].stage # "idle"
    <3>1. /\ worker[v].holds \in Delivery
          /\ delivery[worker[v].holds].state # "none"
          /\ worker[v].token <= delivery[worker[v].holds].attempts
          /\ worker[v].stage = "accepted" => worker[v].holds \in accepted
      BY <2>1, <2>3 DEF ClaimInv
    <3>2. /\ delivery'[worker[v].holds].state # "none"
          /\ worker[v].token <= delivery'[worker[v].holds].attempts
      BY <1>5, <1>6, <1>7, <3>1
    <3> QED
      BY <1>2, <2>1, <2>3, <3>1, <3>2 DEF ClaimInv
  <2> QED
    BY <2>2, <2>3
<1>9. ClaimInv(w)'
  <2>1. delivery'[d] = row
    OBVIOUS
  <2>2. row.attempts \in Nat
    BY <1>5, <2>1
  <2> QED
    BY <1>3, <2>1, <2>2 DEF ClaimInv
<1>10. \A v \in Workers \ {w} : worker[v].stage # "idle" /\ worker[v].holds = d =>
          worker[v].token # h.token
  BY <1>5, <1>7 DEF DeliveryInv, ClaimInv
<1>11. TokensDiffer'
  BY <1>3, <1>10 DEF DeliveryInv, TokensDiffer
<1>12. SentWasAccepted'
  BY <1>2, <1>6 DEF DeliveryInv, SentWasAccepted
<1> QED
  BY <1>4, <1>8, <1>9, <1>11, <1>12 DEF DeliveryInv

LEMMA ClaimStep ==
    ASSUME DeliveryInv, NEW w \in Workers, Claim(w)
    PROVE  DeliveryInv'
<1> DEFINE table == [e \in Delivery |-> Reviewed(e)]
           ready == {e \in Delivery : IsWaiting(table[e]) /\ table[e].due}
<1>1. CASE delivery' = table /\ UNCHANGED worker
  BY <1>1, ReviewStep DEF Claim
<1>2. ASSUME NEW d \in ready,
             delivery' = [table EXCEPT ![d].state = "sending", ![d].due = FALSE,
                                       ![d].attempts = @ + 1],
             worker' = [worker EXCEPT ![w] = [stage |-> "claimed", holds |-> d,
                                              token |-> table[d].attempts + 1]]
      PROVE  DeliveryInv'
  <2> DEFINE row == [table[d] EXCEPT !.state = "sending", !.due = FALSE, !.attempts = @ + 1]
             h == [stage |-> "claimed", holds |-> d, token |-> table[d].attempts + 1]
  <2>1. d \in Delivery /\ table[d] = Reviewed(d) /\ IsWaiting(Reviewed(d))
    OBVIOUS
  <2>2. /\ table[d] \in Row /\ table[d].attempts = delivery[d].attempts
        /\ table[d].attempts < MaxAttempts /\ MaxAttempts \in Nat
    BY <2>1, ReviewedType, BoundsAssumption DEF DeliveryInv
  <2>3. delivery' = [table EXCEPT ![d] = row]
    BY <1>2
  <2>4. delivery' = [e \in Delivery |-> IF e = d THEN row ELSE Reviewed(e)]
    BY <2>3
  <2>5. row \in Row /\ row.state = "sending" /\ row.attempts = table[d].attempts + 1
    BY <2>2, LeasedRow
  <2>6. h \in WorkerRecord /\ h.stage = "claimed" /\ h.holds = d
        /\ h.token = table[d].attempts + 1
    BY <2>1, <2>2 DEF WorkerRecord, Row
  <2>7. worker' = [worker EXCEPT ![w] = h] /\ UNCHANGED <<userVars, elapsed, accepted>>
    BY <1>2 DEF Claim
  <2> HIDE DEF row, h, table
  <2> QED
    BY <2>1, <2>2, <2>4, <2>5, <2>6, <2>7, LeaseStep
<1> QED
  BY <1>1, <1>2 DEF Claim

------------------------------------------------------------------------------
(* Steps of a worker.                                                      *)

\* A worker moves on with the delivery it holds, or lets go of it.
LEMMA WorkerStep ==
    ASSUME DeliveryInv, NEW w \in Workers, NEW h \in WorkerRecord,
           worker' = [worker EXCEPT ![w] = h],
           \/ h = Idle
           \/ /\ worker[w].stage # "idle" /\ h.stage # "idle"
              /\ h.holds = worker[w].holds /\ h.token = worker[w].token
              /\ h.stage = "accepted" => h.holds \in accepted',
           delivery' \in [Delivery -> Row],
           \A d \in Delivery :
               /\ delivery'[d].attempts = delivery[d].attempts
               /\ delivery[d].state # "none" => delivery'[d].state # "none"
               /\ delivery'[d].state = "sent" => delivery[d].state = "sent" \/ d \in accepted',
           accepted \subseteq accepted', accepted' \subseteq Delivery,
           device' \in [Devices -> {"absent", "enabled", "disabled"}],
           UNCHANGED <<occurrence, preference, elapsed>>
    PROVE  DeliveryInv'
<1>1. worker \in [Workers -> WorkerRecord]
  BY DEF DeliveryInv, TypeOK, WorkerRecord
<1>2. worker' \in [Workers -> WorkerRecord] /\ worker'[w] = h
      /\ \A v \in Workers \ {w} : worker'[v] = worker[v]
  BY <1>1
<1>3. TypeOK'
  BY <1>2 DEF DeliveryInv, TypeOK, WorkerRecord
<1>4. \A v \in Workers \ {w} : ClaimInv(v)'
  BY <1>2 DEF DeliveryInv, ClaimInv, Idle
<1>5. ClaimInv(w)'
  <2>1. CASE h = Idle
    BY <1>2, <2>1 DEF ClaimInv, Idle
  <2>2. CASE worker[w].stage # "idle" /\ h.stage # "idle"
             /\ h.holds = worker[w].holds /\ h.token = worker[w].token
             /\ (h.stage = "accepted" => h.holds \in accepted')
    BY <1>2, <2>2 DEF DeliveryInv, ClaimInv
  <2> QED
    BY <2>1, <2>2
<1>6. TokensDiffer'
  BY <1>2 DEF DeliveryInv, TokensDiffer, Idle
<1>7. SentWasAccepted'
  BY DEF DeliveryInv, SentWasAccepted
<1> QED
  BY <1>3, <1>4, <1>5, <1>6, <1>7 DEF DeliveryInv

LEMMA IdleType == Idle \in WorkerRecord
BY BoundsAssumption DEF Idle, WorkerRecord

\* The record of a worker after Move.
LEMMA MoveType ==
    ASSUME DeliveryInv, NEW w \in Workers, Move(w, "refused") \/ Move(w, "accepted")
                                           \/ Move(w, "unwanted") \/ Move(w, "disabled")
    PROVE  \E h \in WorkerRecord :
              /\ worker' = [worker EXCEPT ![w] = h]
              /\ h.stage # "idle" /\ h.holds = worker[w].holds /\ h.token = worker[w].token
              /\ h.stage = "accepted" => Move(w, "accepted")
<1>1. worker \in [Workers -> WorkerRecord] /\ worker[w] \in WorkerRecord
  BY DEF DeliveryInv, TypeOK, WorkerRecord
<1>2. PICK stage \in {"accepted", "refused", "unwanted", "disabled"} : Move(w, stage)
  OBVIOUS
<1> DEFINE h == [worker[w] EXCEPT !.stage = stage]
<1>3. worker' = [worker EXCEPT ![w] = h]
  BY <1>1, <1>2 DEF Move
<1>4. h \in WorkerRecord /\ h.stage = stage /\ h.holds = worker[w].holds
      /\ h.token = worker[w].token
  BY <1>1 DEF WorkerRecord
<1> QED
  BY <1>2, <1>3, <1>4

\* What the compare-and-swap writes: nothing without the lease.
LEMMA WrittenEffect ==
    ASSUME DeliveryInv, NEW w \in Workers, worker[w].stage # "idle",
           NEW state \in {"sent", "retry", "dead"}
    PROVE  /\ Written(w, state) \in [Delivery -> Row]
           /\ \A d \in Delivery :
                 \/ Written(w, state)[d] = delivery[d]
                 \/ /\ d = worker[w].holds /\ HoldsLease(w)
                    /\ Written(w, state)[d].attempts = delivery[d].attempts
                    /\ Written(w, state)[d].state \in {state, "dead"}
<1> DEFINE d == worker[w].holds
           row == [delivery[d] EXCEPT !.state = Ended(delivery[d], state), !.due = FALSE]
<1>1. d \in Delivery /\ delivery \in [Delivery -> Row] /\ delivery[d] \in Row
  BY DEF DeliveryInv, ClaimInv, TypeOK
<1>2. Ended(delivery[d], state) \in {state, "dead"}
  BY DEF Ended
<1>3. row \in Row /\ row.attempts = delivery[d].attempts
      /\ row.state = Ended(delivery[d], state)
  BY <1>1, <1>2 DEF Row
<1>4. Written(w, state) = IF HoldsLease(w) THEN [delivery EXCEPT ![d] = row] ELSE delivery
  BY <1>1 DEF Written
<1> HIDE DEF row, d
<1>5. CASE HoldsLease(w)
  BY <1>1, <1>2, <1>3, <1>4, <1>5 DEF d
<1>6. CASE ~HoldsLease(w)
  BY <1>1, <1>4, <1>6
<1> QED
  BY <1>5, <1>6

LEMMA AnswerStep ==
    ASSUME DeliveryInv, NEW w \in Workers,
           ProviderAccepts(w) \/ ProviderRefuses(w) \/ DisableRefused(w)
    PROVE  DeliveryInv'
<1>1. /\ worker[w].stage # "idle" /\ worker[w].holds \in Delivery
      /\ delivery \in [Delivery -> Row] /\ accepted \subseteq Delivery
      /\ device \in [Devices -> {"absent", "enabled", "disabled"}]
  BY DEF DeliveryInv, ClaimInv, TypeOK, ProviderAccepts, ProviderRefuses, DisableRefused
<1>2. CASE ProviderAccepts(w)
  <2>1. PICK h \in WorkerRecord :
            /\ worker' = [worker EXCEPT ![w] = h]
            /\ h.stage # "idle" /\ h.holds = worker[w].holds /\ h.token = worker[w].token
    BY <1>2, MoveType DEF ProviderAccepts
  <2>2. /\ accepted' = accepted \cup {worker[w].holds}
        /\ UNCHANGED <<occurrence, preference, device, elapsed, delivery>>
    BY <1>2 DEF ProviderAccepts, userVars
  <2> QED
    BY <1>1, <2>1, <2>2, WorkerStep
<1>3. CASE ProviderRefuses(w) \/ DisableRefused(w)
  <2>1. PICK h \in WorkerRecord :
            /\ worker' = [worker EXCEPT ![w] = h]
            /\ h.stage # "idle" /\ h.holds = worker[w].holds /\ h.token = worker[w].token
            /\ h.stage # "accepted"
    <3>1. worker[w] \in WorkerRecord /\ worker \in [Workers -> WorkerRecord]
      BY DEF DeliveryInv, TypeOK, WorkerRecord
    <3>2. ~Move(w, "accepted")
      BY <1>3, <3>1 DEF ProviderRefuses, DisableRefused, Move, WorkerRecord
    <3> QED
      BY <1>3, <3>2, MoveType DEF ProviderRefuses, DisableRefused
  <2>2. device' \in [Devices -> {"absent", "enabled", "disabled"}]
    BY <1>1, <1>3 DEF ProviderRefuses, DisableRefused, userVars
  <2>3. UNCHANGED <<occurrence, preference, elapsed, delivery, accepted>>
    BY <1>3 DEF ProviderRefuses, DisableRefused, userVars
  <2> QED
    BY <1>1, <2>1, <2>2, <2>3, WorkerStep
<1> QED
  BY <1>2, <1>3

\* The three ways in which a worker may write what became of its delivery.
LEMMA WriteStep ==
    ASSUME DeliveryInv, NEW w \in Workers, Finish(w) \/ FinishThrows(w)
    PROVE  DeliveryInv'
<1>1. /\ worker[w].stage \in {"accepted", "refused", "disabled"}
      /\ UNCHANGED <<occurrence, preference, device, elapsed, accepted>>
  BY DEF Finish, FinishThrows, userVars
<1>2. PICK state \in {"sent", "retry", "dead"} :
          /\ delivery' = Written(w, state) \/ delivery' = delivery
          /\ state = "sent" => worker[w].stage = "accepted"
  BY <1>1 DEF Finish, FinishThrows, Outcome
<1>3. /\ delivery' \in [Delivery -> Row]
      /\ \A d \in Delivery :
            \/ delivery'[d] = delivery[d]
            \/ /\ d = worker[w].holds /\ delivery[d].state = "sending"
               /\ delivery'[d].attempts = delivery[d].attempts
               /\ delivery'[d].state \in {state, "dead"}
  <2>1. delivery \in [Delivery -> Row]
    BY DEF DeliveryInv, TypeOK
  <2> QED
    BY <1>1, <1>2, <2>1, WrittenEffect DEF HoldsLease
<1>4. worker[w].stage = "accepted" => worker[w].holds \in accepted
  BY DEF DeliveryInv, ClaimInv
<1>5. PICK h \in WorkerRecord :
          /\ worker' = [worker EXCEPT ![w] = h]
          /\ \/ h = Idle
             \/ /\ h.stage # "idle" /\ h.stage # "accepted"
                /\ h.holds = worker[w].holds /\ h.token = worker[w].token
  <2>1. CASE Finish(w)
    BY <2>1, IdleType DEF Finish
  <2>2. CASE FinishThrows(w)
    <3>1. worker[w] \in WorkerRecord /\ worker \in [Workers -> WorkerRecord]
      BY DEF DeliveryInv, TypeOK, WorkerRecord
    <3>2. ~Move(w, "accepted")
      BY <2>2, <3>1 DEF FinishThrows, Move, WorkerRecord
    <3> QED
      BY <2>2, <3>2, MoveType DEF FinishThrows
  <2> QED
    BY <2>1, <2>2
<1>6. device \in [Devices -> {"absent", "enabled", "disabled"}] /\ accepted \subseteq Delivery
  BY DEF DeliveryInv, TypeOK
<1> QED
  BY <1>1, <1>2, <1>3, <1>4, <1>5, <1>6, WorkerStep

LEMMA CrashStep ==
    ASSUME DeliveryInv, NEW w \in Workers, Crash(w)
    PROVE  DeliveryInv'
<1>1. delivery \in [Delivery -> Row] /\ accepted \subseteq Delivery
      /\ device \in [Devices -> {"absent", "enabled", "disabled"}]
  BY DEF DeliveryInv, TypeOK
<1>2. UNCHANGED <<occurrence, preference, device, elapsed, delivery, accepted>>
      /\ worker' = [worker EXCEPT ![w] = Idle]
  BY DEF Crash, userVars
<1> QED
  BY <1>1, <1>2, IdleType, WorkerStep

------------------------------------------------------------------------------
(* The invariant.                                                          *)

LEMMA InitInv == Init => DeliveryInv
<1> SUFFICES ASSUME Init
             PROVE  DeliveryInv
  OBVIOUS
<1>1. MaxAttempts \in Nat /\ 1 \in 1 .. MaxRevision /\ 1 \in 1 .. MaxVersion
  BY BoundsAssumption
<1>2. TypeOK
  <2>1. delivery \in [Delivery -> Row] /\ worker \in [Workers -> WorkerRecord]
    <3>1. [state |-> "none", due |-> FALSE, attempts |-> 0] \in Row
      BY <1>1 DEF Row
    <3> QED
      BY <3>1, IdleType DEF Init
  <2>2. /\ occurrence \in [revision : 1 .. MaxRevision, expected : BOOLEAN]
        /\ preference \in [version : 1 .. MaxVersion, push : BOOLEAN, email : BOOLEAN,
                           reminders : BOOLEAN]
    BY <1>1 DEF Init
  <2>3. /\ device \in [Devices -> {"absent", "enabled", "disabled"}]
        /\ elapsed \subseteq Event /\ accepted \subseteq Delivery
    BY DEF Init
  <2> QED
    BY <2>1, <2>2, <2>3 DEF TypeOK, WorkerRecord
<1>3. (\A w \in Workers : ClaimInv(w)) /\ TokensDiffer /\ SentWasAccepted
  BY DEF Init, ClaimInv, TokensDiffer, SentWasAccepted, Idle
<1> QED
  BY <1>2, <1>3 DEF DeliveryInv

LEMMA NextInv == DeliveryInv /\ [Next]_vars => DeliveryInv'
<1> SUFFICES ASSUME DeliveryInv, [Next]_vars
             PROVE  DeliveryInv'
  OBVIOUS
<1>1. CASE UNCHANGED vars
  <2>1. TypeOK'
    BY <1>1 DEF DeliveryInv, TypeOK, vars, userVars
  <2> QED
    BY <1>1, <2>1, QuietStep DEF vars
<1> QED
  BY <1>1, UserStep, GenerateStep, TimePassesStep, ClaimStep, AnswerStep, WriteStep, CrashStep
  DEF Next, Advance

\* A busy worker holds a delivery under a token of its own, and what is called
\* sent was accepted.
THEOREM Invariant == Spec => []DeliveryInv
BY InitInv, NextInv, PTL DEF Spec

\* Every variable keeps its type: attempts never pass the limit.
THEOREM TypeCorrect == Spec => []TypeOK
<1>1. DeliveryInv => TypeOK
  BY DEF DeliveryInv
<1> QED
  BY <1>1, Invariant, PTL

\* A delivery recorded as sent is one the provider has taken.
THEOREM SentMeansAccepted == Spec => []SentWasAccepted
<1>1. DeliveryInv => SentWasAccepted
  BY DEF DeliveryInv
<1> QED
  BY <1>1, Invariant, PTL

------------------------------------------------------------------------------
(* What a step may never do.                                               *)

\* Steps that leave deliveries alone, or only queue them and let time pass.
LEMMA OtherSteps ==
    ASSUME DeliveryInv,
           \/ ChangeOccurrence \/ UpdatePreferences \/ Generate \/ Elapse
           \/ \E d \in Devices : RegisterEndpoint(d) \/ DisableEndpoint(d)
           \/ \E d \in Delivery : TimePasses(d)
           \/ \E w \in Workers : ProviderAccepts(w) \/ ProviderRefuses(w)
                                \/ DisableRefused(w) \/ Crash(w)
           \/ UNCHANGED vars,
           NEW d \in Delivery, delivery[d].state # "none"
    PROVE  delivery'[d].state = delivery[d].state
<1>1. delivery \in [Delivery -> Row]
  BY DEF DeliveryInv, TypeOK
<1>2. CASE Generate
  BY <1>2 DEF Generate
<1>3. ASSUME NEW e \in Delivery, TimePasses(e)
      PROVE  delivery'[d].state = delivery[d].state
  BY <1>1, <1>3 DEF TimePasses, Row
<1> QED
  BY <1>2, <1>3 DEF ChangeOccurrence, UpdatePreferences, Elapse, RegisterEndpoint,
     DisableEndpoint, ProviderAccepts, ProviderRefuses, DisableRefused, Crash, vars

\* What a claim leaves alone: what has ended, and what is leased.
LEMMA ClaimSpares ==
    ASSUME DeliveryInv, NEW w \in Workers, Claim(w), NEW d \in Delivery,
           \/ delivery[d].state \in Terminal
           \/ delivery[d].state = "sending" /\ ~delivery[d].due
    PROVE  delivery'[d] = delivery[d]
<1> DEFINE table == [e \in Delivery |-> Reviewed(e)]
           ready == {e \in Delivery : IsWaiting(table[e]) /\ table[e].due}
<1>1. table[d] = delivery[d] /\ ~IsWaiting(table[d])
  BY ReviewedState DEF DeliveryInv
<1>2. d \notin ready
  BY <1>1
<1>3. CASE delivery' = table
  BY <1>1, <1>3
<1>4. ASSUME NEW e \in ready,
             delivery' = [table EXCEPT ![e].state = "sending", ![e].due = FALSE,
                                       ![e].attempts = @ + 1]
      PROVE  delivery'[d] = delivery[d]
  <2>1. e # d /\ d \in DOMAIN table
    BY <1>2
  <2>2. delivery'[d] = table[d]
    BY <1>4, <2>1
  <2> QED
    BY <1>1, <2>2
<1> QED
  BY <1>3, <1>4 DEF Claim

\* A worker writes the delivery it has the lease of, and no other.
LEMMA WritesItsOwn ==
    ASSUME DeliveryInv, NEW w \in Workers, Finish(w) \/ FinishThrows(w),
           NEW d \in Delivery, delivery'[d] # delivery[d]
    PROVE  /\ d = worker[w].holds /\ worker[w].stage # "idle"
           /\ delivery[d].state = "sending" /\ delivery[d].attempts = worker[w].token
<1>1. worker[w].stage \in {"accepted", "refused", "disabled"}
  BY DEF Finish, FinishThrows
<1>2. \E state \in {"sent", "retry", "dead"} :
          delivery' = Written(w, state) \/ delivery' = delivery
  BY <1>1 DEF Finish, FinishThrows, Outcome
<1> QED
  BY <1>1, <1>2, WrittenEffect DEF HoldsLease

LEMMA TerminalStep ==
    ASSUME DeliveryInv, [Next]_vars, NEW d \in Delivery, delivery[d].state \in Terminal
    PROVE  delivery'[d].state = delivery[d].state
<1>1. delivery[d].state # "none" /\ delivery[d].state # "sending"
  BY DEF Terminal
<1>2. ASSUME NEW w \in Workers, Finish(w) \/ FinishThrows(w)
      PROVE  delivery'[d].state = delivery[d].state
  BY <1>1, <1>2, WritesItsOwn
<1> QED
  BY <1>1, <1>2, OtherSteps, ClaimSpares DEF Next, Advance

\* Two workers never have the same token for a delivery, so the one that writes
\* is the one that has the lease, and it moves.
LEMMA LeaseStepKeeps ==
    ASSUME DeliveryInv, [Next]_vars, NEW w \in Workers, NEW d \in Delivery,
           worker[w].holds = d, worker[w].token = delivery[d].attempts,
           delivery[d].state = "sending", ~delivery[d].due
    PROVE  delivery'[d].state = "sending" \/ worker'[w] # worker[w]
<1>1. worker \in [Workers -> WorkerRecord] /\ worker[w].stage # "idle"
  BY NoDeliveryAssumption DEF DeliveryInv, TypeOK, ClaimInv, Idle, WorkerRecord
<1>2. ASSUME NEW v \in Workers, Finish(v) \/ FinishThrows(v)
      PROVE  delivery'[d].state = "sending" \/ worker'[w] # worker[w]
  <2>1. CASE delivery'[d] = delivery[d]
    BY <2>1
  <2>2. CASE delivery'[d] # delivery[d]
    <3>1. v = w
      BY <1>1, <1>2, <2>2, WritesItsOwn DEF DeliveryInv, TokensDiffer
    <3>2. worker'[w].stage \in {"idle", "refused"}
      BY <1>1, <1>2, <3>1 DEF Finish, FinishThrows, Idle, Move, WorkerRecord
    <3>3. CASE Finish(w)
      BY <1>1, <3>3 DEF Finish, Idle
    <3>4. CASE FinishThrows(w)
      <4>1. worker[w].stage = "accepted"
        BY <3>4 DEF FinishThrows
      <4> QED
        BY <3>2, <4>1
    <3> QED
      BY <1>2, <3>1, <3>3, <3>4
  <2> QED
    BY <2>1, <2>2
<1> QED
  BY <1>2, OtherSteps, ClaimSpares DEF Next, Advance

\* No late worker, retry or review changes a delivery that has ended, and while a
\* lease lasts nobody but its worker ends or releases the delivery
\* (finish_notification_delivery, 033:546-549).
THEOREM LateWorkersChangeNothing == Spec => OthersWorkStands
<1>1. DeliveryInv /\ [Next]_vars =>
          [\A d \in Delivery :
              delivery[d].state \in Terminal => delivery'[d].state = delivery[d].state]_vars
  BY TerminalStep
<1>2. DeliveryInv /\ [Next]_vars =>
          [\A w \in Workers, d \in Delivery :
              /\ worker[w].holds = d /\ worker[w].token = delivery[d].attempts
              /\ delivery[d].state = "sending" /\ ~delivery[d].due
              => delivery'[d].state = "sending" \/ worker'[w] # worker[w]]_vars
  BY LeaseStepKeeps
<1> QED
  BY <1>1, <1>2, Invariant, PTL DEF Spec, OthersWorkStands, TerminalIsFinal, LeaseIsKept

=============================================================================
