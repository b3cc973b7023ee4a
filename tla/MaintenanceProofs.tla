--------------------------- MODULE MaintenanceProofs ---------------------------
(***************************************************************************)
(* Proofs about the leases of the maintenance sweep, for any number of     *)
(* worker processes, households and plans.                                 *)
(*                                                                         *)
(* TypeOK of ScheduleMaintenance is inductive: a household in the queue is *)
(* leased to nobody, and the claim hands out one from the queue or one     *)
(* whose lease has run out.  LeaseIsKept follows from it.  The sweep with  *)
(* plans implements the sweep without them, so both hold of PlanSpec too.  *)
(***************************************************************************)
EXTENDS PlanMaintenance, SequenceTheorems, FiniteSetTheorems, TLAPS

\* What a claim may find in its queue: the jobs that were due, and those whose
\* lease has run out (033:709-713).
LEMMA LineTypes ==
    ASSUME TypeOK, NEW line \in Lines
    PROVE  /\ line \in Seq(Households)
           /\ IsInjective(line)
           /\ \A i \in DOMAIN line : line[i] \in ToSet(due) \cup Expired
<1>1. PICK tail \in SetToSeqs(Expired) : line = due \o tail
    BY DEF Lines
<1>2. due \in Seq(Households) /\ IsInjective(due)
    BY DEF TypeOK
<1>3. IsFiniteSet(Expired)
    BY FS_Subset, HouseholdsAssumption DEF Expired
<1>4. Cardinality(Expired) \in Nat
    BY <1>3, FS_CardinalityType
<1>5. tail \in [1 .. Cardinality(Expired) -> Expired]
      /\ \A i, j \in 1 .. Cardinality(Expired) : i # j => tail[i] # tail[j]
    BY <1>1 DEF SetToSeqs
<1>6. Expired \subseteq Households
    BY DEF Expired
<1>7. tail \in Seq(Households) /\ Len(tail) = Cardinality(Expired)
    BY <1>4, <1>5, <1>6
<1>8. \A i \in DOMAIN due : due[i] \in ToSet(due)
    BY DEF ToSet
<1>9. \A h \in ToSet(due) : h \notin Expired
    BY DEF TypeOK, Expired
<1>10. /\ line \in Seq(Households)
       /\ Len(line) = Len(due) + Len(tail)
       /\ \A i \in 1 .. Len(due) + Len(tail) :
             line[i] = IF i <= Len(due) THEN due[i] ELSE tail[i - Len(due)]
    BY <1>1, <1>2, <1>7, ConcatProperties
<1>11. DOMAIN line = 1 .. Len(due) + Len(tail)
    BY <1>10, LenProperties
<1>12. Len(due) \in Nat /\ DOMAIN due = 1 .. Len(due)
    BY <1>2, LenProperties
<1>13. \A i \in DOMAIN line :
          \/ i \in DOMAIN due /\ line[i] = due[i] /\ line[i] \in ToSet(due)
          \/ /\ i - Len(due) \in 1 .. Cardinality(Expired)
             /\ line[i] = tail[i - Len(due)] /\ line[i] \in Expired
    <2> SUFFICES ASSUME NEW i \in DOMAIN line
                 PROVE  \/ i \in DOMAIN due /\ line[i] = due[i] /\ line[i] \in ToSet(due)
                        \/ /\ i - Len(due) \in 1 .. Cardinality(Expired)
                           /\ line[i] = tail[i - Len(due)] /\ line[i] \in Expired
        OBVIOUS
    <2>1. CASE i <= Len(due)
        BY <2>1, <1>8, <1>10, <1>11, <1>12
    <2>2. CASE ~(i <= Len(due))
        <3>1. i - Len(due) \in 1 .. Cardinality(Expired)
            BY <2>2, <1>4, <1>7, <1>11, <1>12
        <3> QED BY <2>2, <3>1, <1>5, <1>10, <1>11
    <2> QED BY <2>1, <2>2
<1>14. ASSUME NEW i \in DOMAIN line, NEW j \in DOMAIN line, line[i] = line[j]
       PROVE  i = j
    <2>1. CASE i \in DOMAIN due /\ line[i] = due[i] /\ line[i] \in ToSet(due)
        BY <2>1, <1>2, <1>9, <1>13, <1>14 DEF IsInjective
    <2>2. CASE /\ i - Len(due) \in 1 .. Cardinality(Expired)
               /\ line[i] = tail[i - Len(due)] /\ line[i] \in Expired
        <3>1. /\ j - Len(due) \in 1 .. Cardinality(Expired)
              /\ line[j] = tail[j - Len(due)]
            BY <2>2, <1>9, <1>13, <1>14
        <3>2. i - Len(due) = j - Len(due)
            BY <2>2, <3>1, <1>5, <1>14
        <3> QED BY <3>2, <1>11, <1>12, <1>7, <1>4
    <2> QED BY <2>1, <2>2, <1>13
<1> QED BY <1>10, <1>13, <1>14 DEF IsInjective

\* A queue without one of its jobs is a queue of the others.
LEMMA RemovedFromLine ==
    ASSUME NEW S, NEW line \in Seq(S), IsInjective(line), NEW i \in DOMAIN line
    PROVE  /\ RemoveAt(line, i) \in Seq(S)
           /\ IsInjective(RemoveAt(line, i))
           /\ \A h \in ToSet(RemoveAt(line, i)) : h # line[i] /\ \E j \in DOMAIN line : h = line[j]
<1> DEFINE left == SubSeq(line, 1, i - 1)
           right == SubSeq(line, i + 1, Len(line))
           rest == RemoveAt(line, i)
<1>1. Len(line) \in Nat /\ DOMAIN line = 1 .. Len(line) /\ i \in 1 .. Len(line)
    BY LenProperties
<1>2. /\ left \in Seq(S) /\ Len(left) = i - 1
      /\ \A j \in 1 .. i - 1 : left[j] = line[j]
    BY <1>1
<1>3. /\ right \in Seq(S) /\ Len(right) = Len(line) - i
      /\ \A j \in 1 .. Len(line) - i : right[j] = line[j + i]
    BY <1>1
<1>4. rest = left \o right
    BY DEF RemoveAt
<1> HIDE DEF left, right, rest
<1>5. /\ rest \in Seq(S) /\ Len(rest) = Len(line) - 1
      /\ \A j \in 1 .. Len(line) - 1 :
            rest[j] = IF j <= i - 1 THEN left[j] ELSE right[j - (i - 1)]
    <2>1. /\ rest \in Seq(S) /\ Len(rest) = Len(left) + Len(right)
          /\ \A j \in 1 .. Len(left) + Len(right) :
                rest[j] = IF j <= Len(left) THEN left[j] ELSE right[j - Len(left)]
        BY <1>2, <1>3, <1>4, ConcatProperties
    <2>2. Len(left) + Len(right) = Len(line) - 1
        BY <1>1, <1>2, <1>3
    <2> QED BY <2>1, <2>2, <1>2
<1>6. DOMAIN rest = 1 .. Len(line) - 1
    BY <1>5, LenProperties
<1>7. \A j \in DOMAIN rest : rest[j] = IF j < i THEN line[j] ELSE line[j + 1]
    <2> SUFFICES ASSUME NEW j \in 1 .. Len(line) - 1
                 PROVE  rest[j] = IF j < i THEN line[j] ELSE line[j + 1]
        BY <1>6
    <2>1. CASE j < i
        BY <2>1, <1>1, <1>2, <1>5
    <2>2. CASE ~(j < i)
        <3>1. j - (i - 1) \in 1 .. Len(line) - i /\ (j - (i - 1)) + i = j + 1
            BY <2>2, <1>1
        <3>2. rest[j] = right[j - (i - 1)]
            BY <2>2, <1>1, <1>5
        <3> QED BY <2>2, <3>1, <3>2, <1>3
    <2> QED BY <2>1, <2>2
<1>8. ASSUME NEW j \in DOMAIN rest
      PROVE  \E k \in DOMAIN line : k # i /\ rest[j] = line[k] /\ k = IF j < i THEN j ELSE j + 1
    BY <1>1, <1>6, <1>7
<1>9. \A h \in ToSet(rest) : h # line[i] /\ \E j \in DOMAIN line : h = line[j]
    BY <1>8 DEF ToSet, IsInjective
<1>10. IsInjective(rest)
    <2> SUFFICES ASSUME NEW j \in DOMAIN rest, NEW k \in DOMAIN rest, rest[j] = rest[k]
                 PROVE  j = k
        BY DEF IsInjective
    <2>1. PICK l \in DOMAIN line : rest[j] = line[l] /\ l = IF j < i THEN j ELSE j + 1
        BY <1>8
    <2>2. PICK m \in DOMAIN line : rest[k] = line[m] /\ m = IF k < i THEN k ELSE k + 1
        BY <1>8
    <2>3. l = m
        BY <2>1, <2>2 DEF IsInjective
    <2> QED BY <2>1, <2>2, <2>3, <1>1, <1>6
<1> QED BY <1>5, <1>9, <1>10 DEF rest

------------------------------------------------------------------------------
LEMMA InitTypes == Init => TypeOK
<1> SUFFICES ASSUME Init PROVE TypeOK
    OBVIOUS
<1> DEFINE S == Households \ deleted
<1>1. IsFiniteSet(S)
    BY FS_Subset, HouseholdsAssumption
<1>2. Cardinality(S) \in Nat
    BY <1>1, FS_CardinalityType
<1>3. due \in [1 .. Cardinality(S) -> S]
      /\ \A i, j \in 1 .. Cardinality(S) : i # j => due[i] # due[j]
    BY DEF Init, SetToSeqs
<1>4. due \in Seq(Households) /\ IsInjective(due)
    <2>1. DOMAIN due = 1 .. Cardinality(S)
        BY <1>3
    <2>2. due \in [1 .. Cardinality(S) -> Households]
        BY <1>3
    <2> HIDE DEF S
    <2>3. due \in Seq(Households)
        BY <1>2, <2>2
    <2> QED BY <1>3, <2>1, <2>3 DEF IsInjective
<1>5. \A h \in ToSet(due) : h \in Households
    BY <1>3 DEF ToSet
<1>6. job \in [Households -> Job] /\ \A h \in Households : job[h].lease = Nobody
    BY BoundsAssumption DEF Init, Job
<1>7. worker \in [Workers -> Sweeper]
      /\ \A w \in Workers : worker[w].stage \in {"working", "failed"} <=> worker[w].holds # {}
    BY BoundsAssumption DEF Init, Polling, Sweeper
<1> QED BY <1>4, <1>5, <1>6, <1>7 DEF Init, TypeOK

LEMMA ReleasedTypes ==
    ASSUME NEW row \in Job
    PROVE  /\ Released(row) \in Job /\ Released(row).lease = Nobody
           /\ [Released(row) EXCEPT !.attempts = 0] \in Job
           /\ [Released(row) EXCEPT !.attempts = 0].lease = Nobody
<1> DEFINE unleased == [row EXCEPT !.lease = Nobody]
           freed == [unleased EXCEPT !.expired = FALSE]
<1>1. unleased \in Job /\ unleased.lease = Nobody
    BY DEF Job
<1>2. freed = Released(row)
    BY DEF Released
<1> HIDE DEF unleased
<1>3. freed \in Job /\ freed.lease = Nobody
    BY <1>1 DEF Job
<1> HIDE DEF freed
<1>4. 0 \in 0 .. MaxAttempts
    BY BoundsAssumption
<1>5. [freed EXCEPT !.attempts = 0] \in Job /\ [freed EXCEPT !.attempts = 0].lease = Nobody
    BY <1>3, <1>4 DEF Job
<1> QED BY <1>2, <1>3, <1>5

LEMMA LeasedTypes ==
    ASSUME NEW row \in Job, NEW w \in Workers
    PROVE  Leased(row, w) \in Job
<1>1. row.attempts \in 0 .. MaxAttempts /\ MaxAttempts \in Nat
    BY BoundsAssumption DEF Job
<1>2. (IF row.attempts < MaxAttempts THEN row.attempts + 1 ELSE MaxAttempts) \in 0 .. MaxAttempts
    BY <1>1
<1> QED BY <1>2 DEF Leased, Job

LEMMA PollingTypes == Polling \in Sweeper /\ Polling.stage = "polling" /\ Polling.holds = {}
BY BoundsAssumption DEF Polling, Sweeper

------------------------------------------------------------------------------
(* One lemma for each step that writes more than the state of a worker.     *)

\* What TypeOK says of the workers, and of the queue with the leases.
LEMMA SweeperTypes ==
    ASSUME TypeOK, NEW w \in Workers, NEW after \in Sweeper,
           after.stage \in {"working", "failed"} <=> after.holds # {},
           worker' = [worker EXCEPT ![w] = after]
    PROVE  /\ worker' \in [Workers -> Sweeper]
           /\ \A v \in Workers : worker'[v].stage \in {"working", "failed"} <=> worker'[v].holds # {}
BY DEF TypeOK

LEMMA TypesOfTheOthers ==
    ASSUME TypeOK, UNCHANGED <<due, job, deleted>>,
           worker' \in [Workers -> Sweeper],
           \A v \in Workers : worker'[v].stage \in {"working", "failed"} <=> worker'[v].holds # {}
    PROVE  TypeOK'
BY DEF TypeOK

\* The queue a claim leaves, and the household it hands out, when it does.
LEMMA ClaimTypes ==
    ASSUME TypeOK, NEW w \in Workers, Claim(w)
    PROVE  /\ TypeOK'
           /\ \A h \in Households : job[h].lease # Nobody /\ ~job[h].expired => job'[h] = job[h]
<1> DEFINE table == [h \in Households |-> IF h \in Expired THEN Released(job[h]) ELSE job[h]]
<1>1. /\ table \in [Households -> Job]
      /\ \A h \in Expired : table[h].lease = Nobody
      /\ \A h \in Households \ Expired : table[h] = job[h]
    BY ReleasedTypes DEF TypeOK, Expired
<1>2. \A h \in ToSet(due) \cup Expired : h \in Households /\ table[h].lease = Nobody
    <2>1. \A h \in ToSet(due) : h \in Households /\ job[h].lease = Nobody /\ h \notin Expired
        BY LenProperties DEF TypeOK, ToSet, Expired
    <2> QED BY <1>1, <2>1 DEF Expired
<1>3. deleted' = deleted /\ deleted \subseteq Households
    BY DEF Claim, TypeOK
<1>4. PICK line \in Lines :
         \/ /\ Claimable(line) = {}
            /\ due' = line
            /\ job' = table
            /\ worker' = [worker EXCEPT ![w] = Polling]
         \/ \E i \in Claimable(line) :
            /\ due' = RemoveAt(line, i)
            /\ job' = [table EXCEPT ![line[i]] = Leased(@, w)]
            /\ worker' = [worker EXCEPT ![w] =
                  [stage |-> "working", items |-> @.items + 1, holds |-> {line[i]}]]
    BY DEF Claim
<1> HIDE DEF table
<1>5. /\ line \in Seq(Households) /\ IsInjective(line)
      /\ \A i \in DOMAIN line : line[i] \in ToSet(due) \cup Expired
    BY LineTypes
<1>6. CASE /\ due' = line
           /\ job' = table
           /\ worker' = [worker EXCEPT ![w] = Polling]
    <2>1. \A h \in ToSet(due') : job'[h].lease = Nobody
        BY <1>2, <1>5, <1>6 DEF ToSet
    <2>2. /\ worker' \in [Workers -> Sweeper]
          /\ \A v \in Workers : worker'[v].stage \in {"working", "failed"} <=> worker'[v].holds # {}
        BY <1>6, PollingTypes, SweeperTypes
    <2>3. TypeOK'
        BY <1>1, <1>3, <1>5, <1>6, <2>1, <2>2 DEF TypeOK
    <2>4. \A h \in Households : ~job[h].expired => job'[h] = job[h]
        BY <1>1, <1>6 DEF Expired
    <2> QED BY <2>3, <2>4
<1>7. ASSUME NEW i \in Claimable(line),
             due' = RemoveAt(line, i),
             job' = [table EXCEPT ![line[i]] = Leased(@, w)],
             worker' = [worker EXCEPT ![w] =
                  [stage |-> "working", items |-> @.items + 1, holds |-> {line[i]}]]
      PROVE  /\ TypeOK'
             /\ \A h \in Households : job[h].lease # Nobody /\ ~job[h].expired => job'[h] = job[h]
    <2>1. i \in DOMAIN line
        BY DEF Claimable
    <2>2. line[i] \in ToSet(due) \cup Expired /\ line[i] \in Households
        BY <1>2, <1>5, <2>1
    <2>3. /\ due' \in Seq(Households) /\ IsInjective(due)'
          /\ \A h \in ToSet(due') : h # line[i] /\ \E j \in DOMAIN line : h = line[j]
        BY <1>5, <1>7, <2>1, RemovedFromLine DEF IsInjective
    <2>4. Leased(table[line[i]], w) \in Job
        BY <1>1, <2>2, LeasedTypes
    <2>5. job' \in [Households -> Job] /\ \A h \in Households : h # line[i] => job'[h] = table[h]
        BY <1>1, <1>7, <2>2, <2>4
    <2>6. \A h \in ToSet(due') : job'[h].lease = Nobody
        BY <1>2, <1>5, <2>3, <2>5
    <2> DEFINE after == [stage |-> "working", items |-> worker[w].items + 1, holds |-> {line[i]}]
    <2>7. after \in Sweeper /\ after.stage = "working" /\ after.holds # {}
        <3>1. worker[w].items \in 0 .. MaxItems /\ worker[w].items < MaxItems
            BY DEF TypeOK, Sweeper, Claim
        <3>2. worker[w].items + 1 \in 0 .. MaxItems
            BY <3>1, BoundsAssumption
        <3> QED BY <3>2, <2>2 DEF Sweeper
    <2>8. worker' = [worker EXCEPT ![w] = after]
        BY <1>7
    <2> HIDE DEF after
    <2>9. /\ worker' \in [Workers -> Sweeper]
          /\ \A v \in Workers : worker'[v].stage \in {"working", "failed"} <=> worker'[v].holds # {}
        BY <2>7, <2>8, SweeperTypes
    <2>10. TypeOK'
        BY <1>3, <2>3, <2>5, <2>6, <2>9 DEF TypeOK
    <2>11. ASSUME NEW h \in Households, job[h].lease # Nobody, ~job[h].expired
           PROVE  job'[h] = job[h]
        <3>1. h \notin Expired /\ h \notin ToSet(due)
            BY <2>11 DEF TypeOK, Expired
        <3>2. h # line[i]
            BY <3>1, <2>2
        <3> QED BY <3>1, <3>2, <2>5, <1>1
    <2> QED BY <2>10, <2>11
<1> QED BY <1>4, <1>6, <1>7

\* A job that is handed back, or whose lease expires, stays out of the queue.
LEMMA JobTypes ==
    ASSUME TypeOK, NEW h \in Households, NEW row \in Job,
           job[h].lease # Nobody \/ row.lease = Nobody,
           job' = [job EXCEPT ![h] = row], UNCHANGED <<due, deleted>>,
           worker' \in [Workers -> Sweeper],
           \A v \in Workers : worker'[v].stage \in {"working", "failed"} <=> worker'[v].holds # {}
    PROVE  TypeOK'
BY DEF TypeOK

LEMMA HandBackTypes ==
    ASSUME TypeOK, NEW w \in Workers, NEW h \in Households, NEW row \in Job, row.lease = Nobody,
           worker[w].stage \in {"working", "failed"}, GoesOn(w),
           job' = IF HoldsLease(w, h) THEN [job EXCEPT ![h] = row] ELSE job,
           UNCHANGED <<due, deleted>>
    PROVE  TypeOK'
<1> DEFINE after == [[worker[w] EXCEPT !.stage = "sweeping"] EXCEPT !.holds = {}]
<1>1. after \in Sweeper /\ after.stage = "sweeping" /\ after.holds = {}
    BY DEF TypeOK, Sweeper
<1>2. worker' = [worker EXCEPT ![w] = after]
    BY DEF GoesOn, TypeOK
<1> HIDE DEF after
<1>3. /\ worker' \in [Workers -> Sweeper]
      /\ \A v \in Workers : worker'[v].stage \in {"working", "failed"} <=> worker'[v].holds # {}
    BY <1>1, <1>2, SweeperTypes
<1>4. CASE HoldsLease(w, h)
    BY <1>3, <1>4, JobTypes
<1>5. CASE ~HoldsLease(w, h)
    BY <1>3, <1>5, TypesOfTheOthers
<1> QED BY <1>4, <1>5

LEMMA NextTypes == TypeOK /\ [Next]_vars => TypeOK'
<1> SUFFICES ASSUME TypeOK, [Next]_vars PROVE TypeOK'
    OBVIOUS
<1>1. ASSUME NEW w \in Workers, NEW stage \in {"sweeping", "failed"},
             worker' = [worker EXCEPT ![w].stage = stage],
             stage = "failed" <=> worker[w].holds # {}, UNCHANGED <<due, job, deleted>>
      PROVE  TypeOK'
    <2>1. [worker[w] EXCEPT !.stage = stage] \in Sweeper
          /\ [worker[w] EXCEPT !.stage = stage].stage = stage
          /\ [worker[w] EXCEPT !.stage = stage].holds = worker[w].holds
        BY DEF TypeOK, Sweeper
    <2> QED BY <1>1, <2>1, SweeperTypes, TypesOfTheOthers
<1>2. ASSUME NEW w \in Workers, worker' = [worker EXCEPT ![w] = Polling],
             UNCHANGED <<due, job, deleted>>
      PROVE  TypeOK'
    BY <1>2, PollingTypes, SweeperTypes, TypesOfTheOthers
<1>3. ASSUME NEW w \in Workers, StartSweep(w) PROVE TypeOK'
    <2>1. worker[w].holds = {}
        BY <1>3 DEF StartSweep, TypeOK
    <2> QED BY <1>1, <1>3, <2>1 DEF StartSweep
<1>4. ASSUME NEW w \in Workers, Claim(w) PROVE TypeOK'
    BY <1>4, ClaimTypes
<1>5. ASSUME NEW w \in Workers, EndSweep(w) PROVE TypeOK'
    BY <1>2, <1>5 DEF EndSweep
<1>6. ASSUME NEW w \in Workers, MaintenanceFails(w) PROVE TypeOK'
    <2>1. worker[w].holds # {}
        BY <1>6 DEF MaintenanceFails, TypeOK
    <2> QED BY <1>1, <1>6, <2>1 DEF MaintenanceFails
<1>7. ASSUME NEW w \in Workers, Finish(w) PROVE TypeOK'
    <2>1. PICK h \in worker[w].holds :
             job' = IF HoldsLease(w, h) THEN [job EXCEPT ![h] = [Released(@) EXCEPT !.attempts = 0]]
                                        ELSE job
        BY <1>7 DEF Finish
    <2>2. h \in Households /\ job[h] \in Job
        BY DEF TypeOK, Sweeper
    <2> DEFINE row == [Released(job[h]) EXCEPT !.attempts = 0]
    <2>3. row \in Job /\ row.lease = Nobody
        BY <2>2, ReleasedTypes
    <2>4. job' = IF HoldsLease(w, h) THEN [job EXCEPT ![h] = row] ELSE job
        BY <2>1
    <2> HIDE DEF row
    <2> QED BY <1>7, <2>2, <2>3, <2>4, HandBackTypes DEF Finish
<1>8. ASSUME NEW w \in Workers, FinishFailed(w) PROVE TypeOK'
    <2>1. PICK h \in worker[w].holds :
             job' = IF HoldsLease(w, h) THEN [job EXCEPT ![h] = Released(@)] ELSE job
        BY <1>8 DEF FinishFailed
    <2>2. h \in Households /\ job[h] \in Job
        BY DEF TypeOK, Sweeper
    <2> DEFINE row == Released(job[h])
    <2>3. row \in Job /\ row.lease = Nobody
        BY <2>2, ReleasedTypes
    <2>4. job' = IF HoldsLease(w, h) THEN [job EXCEPT ![h] = row] ELSE job
        BY <2>1
    <2> HIDE DEF row
    <2> QED BY <1>8, <2>2, <2>3, <2>4, HandBackTypes DEF FinishFailed
<1>9. ASSUME NEW w \in Workers, FinishThrows(w) PROVE TypeOK'
    <2> DEFINE after == [Polling EXCEPT !.stage = "thrown"]
    <2>1. after \in Sweeper /\ after.stage = "thrown" /\ after.holds = {}
        BY BoundsAssumption DEF Polling, Sweeper
    <2>2. worker' = [worker EXCEPT ![w] = after]
        BY <1>9 DEF FinishThrows
    <2> HIDE DEF after
    <2> QED BY <1>9, <2>1, <2>2, SweeperTypes, TypesOfTheOthers DEF FinishThrows
<1>10. ASSUME NEW w \in Workers, Restart(w) PROVE TypeOK'
    BY <1>2, <1>10 DEF Restart
<1>11. ASSUME NEW w \in Workers, Crash(w) PROVE TypeOK'
    BY <1>2, <1>11 DEF Crash
<1>12. ASSUME NEW h \in Households, Expire(h) PROVE TypeOK'
    <2> DEFINE row == [job[h] EXCEPT !.expired = TRUE]
    <2>1. row \in Job
        BY DEF TypeOK, Job
    <2>2. job' = [job EXCEPT ![h] = row]
        BY <1>12 DEF Expire, TypeOK
    <2> HIDE DEF row
    <2>3. worker' = worker /\ UNCHANGED <<due, deleted>> /\ job[h].lease # Nobody
        BY <1>12 DEF Expire
    <2> QED BY <2>1, <2>2, <2>3, JobTypes DEF TypeOK
<1>13. ASSUME NEW h \in Households, BecomeDue(h) PROVE TypeOK'
    <2>1. /\ due \in Seq(Households) /\ due' = Append(due, h)
          /\ UNCHANGED <<job, deleted, worker>>
          /\ job[h].lease = Nobody /\ h \notin ToSet(due)
        BY <1>13 DEF BecomeDue, TypeOK
    <2>2. /\ due' \in Seq(Households) /\ Len(due') = Len(due) + 1 /\ Len(due) \in Nat
          /\ due'[Len(due) + 1] = h /\ \A i \in 1 .. Len(due) : due'[i] = due[i]
        BY <2>1
    <2>3. DOMAIN due = 1 .. Len(due) /\ DOMAIN due' = 1 .. Len(due) + 1
        BY <2>1, <2>2, LenProperties
    <2>4. \A i \in DOMAIN due : due[i] # h
        BY <2>1 DEF ToSet
    <2>5. \A i \in DOMAIN due' : (i \in DOMAIN due /\ due'[i] = due[i]) \/ (i = Len(due) + 1 /\ due'[i] = h)
        BY <2>2, <2>3
    <2>6. IsInjective(due)'
        BY <2>4, <2>5 DEF IsInjective, TypeOK
    <2>7. \A g \in ToSet(due') : job[g].lease = Nobody
        <3>1. \A i \in DOMAIN due : job[due[i]].lease = Nobody
            BY DEF TypeOK, ToSet
        <3> QED BY <2>1, <2>5, <3>1 DEF ToSet
    <2> QED BY <2>1, <2>2, <2>6, <2>7 DEF TypeOK
<1>14. ASSUME NEW h \in Households, Delete(h) PROVE TypeOK'
    BY <1>14 DEF Delete, TypeOK
<1>15. CASE UNCHANGED vars
    BY <1>15 DEF vars, TypeOK
<1> QED
    BY <1>3, <1>4, <1>5, <1>6, <1>7, <1>8, <1>9, <1>10, <1>11, <1>12, <1>13, <1>14, <1>15
    DEF Next, Advance

\* The types of the queue, the leases and the workers (033:681-689).
THEOREM TypeCorrect == Spec => []TypeOK
BY InitTypes, NextTypes, PTL DEF Spec

------------------------------------------------------------------------------
(* A lease that has not run out.                                            *)
KeepsLease ==
    \A w \in Workers, h \in Households :
        job[h].lease = w /\ ~job[h].expired
        => job'[h].lease = w \/ (h \in worker[w].holds /\ h \notin worker'[w].holds)

LEMMA NextKeepsLeases == TypeOK /\ [Next]_vars => KeepsLease
<1> SUFFICES ASSUME TypeOK, [Next]_vars,
                    NEW w \in Workers, NEW h \in Households,
                    job[h].lease = w, ~job[h].expired
             PROVE  job'[h].lease = w \/ (h \in worker[w].holds /\ h \notin worker'[w].holds)
    BY DEF KeepsLease
<1> DEFINE Goal == job'[h].lease = w \/ (h \in worker[w].holds /\ h \notin worker'[w].holds)
<1>1. ASSUME job' = job PROVE Goal
    BY <1>1
<1>2. ASSUME NEW v \in Workers, Claim(v) PROVE Goal
    BY <1>2, ClaimTypes, NobodyAssumption
<1>3. ASSUME NEW v \in Workers, NEW g \in worker[v].holds, NEW row, GoesOn(v),
             job' = IF HoldsLease(v, g) THEN [job EXCEPT ![g] = row] ELSE job
      PROVE  Goal
    <2>1. g \in Households /\ job \in [Households -> Job] /\ worker \in [Workers -> Sweeper]
        BY DEF TypeOK, Sweeper
    <2>2. CASE g = h /\ HoldsLease(v, g)
        <3>1. v = w
            BY <2>2 DEF HoldsLease
        <3>2. worker'[w].holds = {}
            BY <1>3, <2>1, <3>1 DEF GoesOn, Sweeper
        <3> QED BY <1>3, <2>2, <3>1, <3>2
    <2>3. CASE ~(g = h /\ HoldsLease(v, g))
        BY <1>3, <2>1, <2>3
    <2> QED BY <2>2, <2>3
<1>4. ASSUME NEW v \in Workers, Finish(v) PROVE Goal
    <2>1. PICK g \in worker[v].holds :
             job' = IF HoldsLease(v, g) THEN [job EXCEPT ![g] = [Released(@) EXCEPT !.attempts = 0]]
                                        ELSE job
        BY <1>4 DEF Finish
    <2> DEFINE row == [Released(job[g]) EXCEPT !.attempts = 0]
    <2>2. job' = IF HoldsLease(v, g) THEN [job EXCEPT ![g] = row] ELSE job
        BY <2>1
    <2> HIDE DEF row
    <2> QED BY <1>3, <1>4, <2>2 DEF Finish
<1>5. ASSUME NEW v \in Workers, FinishFailed(v) PROVE Goal
    <2>1. PICK g \in worker[v].holds :
             job' = IF HoldsLease(v, g) THEN [job EXCEPT ![g] = Released(@)] ELSE job
        BY <1>5 DEF FinishFailed
    <2> DEFINE row == Released(job[g])
    <2>2. job' = IF HoldsLease(v, g) THEN [job EXCEPT ![g] = row] ELSE job
        BY <2>1
    <2> HIDE DEF row
    <2> QED BY <1>3, <1>5, <2>2 DEF FinishFailed
<1>6. ASSUME NEW g \in Households, Expire(g) PROVE Goal
    <2>1. job \in [Households -> Job] /\ job' = [job EXCEPT ![g].expired = TRUE]
        BY <1>6 DEF Expire, TypeOK
    <2>2. job'[h].lease = job[h].lease
        BY <2>1 DEF Job
    <2> QED BY <2>2
<1>7. ASSUME NEW v \in Workers,
             StartSweep(v) \/ EndSweep(v) \/ MaintenanceFails(v) \/ FinishThrows(v)
                \/ Restart(v) \/ Crash(v)
      PROVE  Goal
    BY <1>1, <1>7 DEF StartSweep, EndSweep, MaintenanceFails, FinishThrows, Restart, Crash
<1>8. ASSUME NEW g \in Households, BecomeDue(g) \/ Delete(g) PROVE Goal
    BY <1>1, <1>8 DEF BecomeDue, Delete
<1>9. CASE UNCHANGED vars
    BY <1>1, <1>9 DEF vars
<1> QED
    BY <1>2, <1>4, <1>5, <1>6, <1>7, <1>8, <1>9 DEF Next, Advance

\* While a lease lasts no other worker's claim, late end or failure touches it,
\* however many workers sweep (033:727).
THEOREM LeasesAreKept == Spec => LeaseIsKept
<1>1. TypeOK /\ [Next]_vars => [KeepsLease]_vars
    BY NextKeepsLeases
<1>2. Spec => []TypeOK
    BY TypeCorrect
<1> QED BY <1>1, <1>2, PTL DEF Spec, LeaseIsKept, KeepsLease

------------------------------------------------------------------------------
(* The sweep with the plans of PlanMaintenance.                             *)

WorldOK == world \in Worlds

LEMMA PlanNextIsNext ==
    WorldOK /\ [PlanNext]_allvars => WorldOK' /\ [Next]_vars
<1> SUFFICES ASSUME WorldOK, [PlanNext]_allvars PROVE WorldOK' /\ [Next]_vars
    OBVIOUS
<1>1. world.workers \subseteq Workers /\ world.households \subseteq Households
    BY WorldsAssumption DEF WorldOK
<1>2. ASSUME UNCHANGED <<vars, world>> PROVE WorldOK' /\ [Next]_vars
    BY <1>2 DEF WorldOK
<1>3. ASSUME NEW w \in world.workers, WorkOn(w) PROVE WorldOK' /\ [Next]_vars
    <2>1. world' = world
        BY <1>3 DEF WorkOn, HandBack, plan
    <2>2. Advance(w)
        BY <1>3 DEF WorkOn, HandBack, Advance
    <2> QED BY <1>1, <2>1, <2>2 DEF WorldOK, Next
<1>4. ASSUME NEW w \in world.workers, FailInMaintenance(w) PROVE WorldOK' /\ [Next]_vars
    BY <1>1, <1>4 DEF FailInMaintenance, WorldOK, Next
<1>5. ASSUME NEW w \in world.workers, LoseWorker(w) PROVE WorldOK' /\ [Next]_vars
    BY <1>1, <1>5 DEF LoseWorker, WorldOK, Next
<1>6. ASSUME NEW w \in world.workers, EndSweep(w) /\ UNCHANGED plan PROVE WorldOK' /\ [Next]_vars
    BY <1>1, <1>6 DEF plan, WorldOK, Next
<1>7. ASSUME NEW h \in world.households, (Expire(h) \/ BecomeDue(h) \/ Delete(h)) /\ UNCHANGED plan
      PROVE  WorldOK' /\ [Next]_vars
    BY <1>1, <1>7 DEF plan, WorldOK, Next
<1>8. CASE NextDay
    BY <1>2, <1>8 DEF NextDay
<1>9. ASSUME NEW a, NEW b, NEW c, NEW d, Replan(a, b, c, d) PROVE WorldOK' /\ [Next]_vars
    BY <1>2, <1>9 DEF Replan
<1>10. CASE ReceiveIncome
    <2>1. CASE HasRule
        BY <1>9, <1>10, <2>1 DEF ReceiveIncome
    <2>2. CASE ~HasRule
        BY <1>2, <1>10, <2>2 DEF ReceiveIncome
    <2> QED BY <2>1, <2>2
<1>11. ASSUME NEW d, NEW n, SaveRule(d, n) PROVE WorldOK' /\ [Next]_vars
    BY <1>9, <1>11 DEF SaveRule
<1>12. ASSUME NEW r, MarkNotDue(r) PROVE WorldOK' /\ [Next]_vars
    BY <1>2, <1>12 DEF MarkNotDue
<1>13. CASE UNCHANGED allvars
    BY <1>2, <1>13 DEF allvars, plan
<1> QED
    BY <1>3, <1>4, <1>5, <1>6, <1>7, <1>8, <1>10, <1>11, <1>12, <1>13 DEF PlanNext

\* Edits of a plan, deposits, refusals and nightly maintenance leave the leases
\* to the sweep: with plans it is still a sweep (033:703-729).
THEOREM PlansFollowSweep == PlanSpec => Spec
<1>1. PlanInit => Init /\ WorldOK
    BY DEF PlanInit, StartOfPlan, WorldOK
<1> QED BY <1>1, PlanNextIsNext, PTL DEF PlanSpec, Spec

\* So its leases are kept as well, whatever the plans are.
THEOREM LeasesAreKeptWithPlans == PlanSpec => LeaseIsKept
BY PlansFollowSweep, LeasesAreKept
===============================================================================
