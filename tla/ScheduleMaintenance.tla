------------------------- MODULE ScheduleMaintenance -------------------------
(***************************************************************************)
(* The leases of the maintenance sweep: workers lease one household at a   *)
(* time, maintain it and hand it back with a delay.  What the maintenance  *)
(* calls do to the plan of the household is in PlanMaintenance, which      *)
(* extends this module; here they succeed or fail.                         *)
(***************************************************************************)
EXTENDS Integers, SequencesExt

CONSTANTS
    Workers,        \* worker processes
    Households,
    Nobody,         \* the holder of a job that is not leased
    MaxItems,       \* WORKER_JOB_MAX_ITEMS
    MaxInteger,     \* the largest integer of the database (2^31 - 1)
    MaxAttempts     \* the counter stays there: one more claim changes nothing

ASSUME NobodyAssumption == Nobody \notin Workers
ASSUME HouseholdsAssumption == IsFiniteSet(Households)
ASSUME BoundsAssumption == {MaxItems, MaxInteger, MaxAttempts} \subseteq Nat \ {0}

VARIABLES
    due,        \* unleased jobs whose available_at has passed, in its order
    job,        \* the lease of each household's job and its attempts
    deleted,    \* households whose deleted_at is set
    worker      \* what each process is doing

vars == <<due, job, deleted, worker>>

\* A claim writes a new lease token.  A process holds one claim at a time and
\* forgets it when it ends, so the process stands for its token.
Job == [lease : Workers \cup {Nobody}, expired : BOOLEAN, attempts : 0 .. MaxAttempts]

Polling == [stage |-> "polling", items |-> 0, holds |-> {}]

Sweeper == [stage : {"polling", "sweeping", "working", "failed", "thrown"},
            items : 0 .. MaxItems, holds : SUBSET Households]

TypeOK ==
    /\ due \in Seq(Households) /\ IsInjective(due)
    /\ job \in [Households -> Job]
    /\ \A h \in ToSet(due) : job[h].lease = Nobody
    /\ deleted \subseteq Households
    /\ worker \in [Workers -> Sweeper]
    /\ \A w \in Workers : worker[w].stage \in {"working", "failed"} <=> worker[w].holds # {}

Init ==
    /\ deleted \in SUBSET Households
    /\ due \in SetToSeqs(Households \ deleted)
    /\ job = [h \in Households |-> [lease |-> Nobody, expired |-> FALSE, attempts |-> 0]]
    /\ worker = [w \in Workers |-> Polling]

------------------------------------------------------------------------------
Released(row) == [row EXCEPT !.lease = Nobody, !.expired = FALSE]

\* A lease of five minutes has run out.
Expired == {h \in Households : job[h].lease # Nobody /\ job[h].expired}

\* Mutant: the claim orders by nothing.
LinesInAnyOrder == SetToSeqs(ToSet(due) \cup Expired)

\* Due jobs in the order of available_at; what a claim takes back joins them now.
Lines == {due \o tail : tail \in SetToSeqs(Expired)}

\* The place of the first job in line whose household nobody deleted.
Claimable(line) ==
    {i \in DOMAIN line : line[i] \notin deleted /\ \A j \in 1 .. i - 1 : line[j] \in deleted}

Leased(row, w) ==
    [lease |-> w, expired |-> FALSE,
     attempts |-> IF row.attempts < MaxAttempts THEN row.attempts + 1 ELSE MaxAttempts]

StartSweep(w) ==
    /\ worker[w].stage = "polling"
    /\ worker' = [worker EXCEPT ![w].stage = "sweeping"]
    /\ UNCHANGED <<due, job, deleted>>

Claim(w) ==
    /\ worker[w].stage = "sweeping"
    /\ worker[w].items < MaxItems
    /\ \E line \in Lines :
        LET table == [h \in Households |-> IF h \in Expired THEN Released(job[h]) ELSE job[h]]
        IN  \/ /\ Claimable(line) = {}
               /\ due' = line
               /\ job' = table
               /\ worker' = [worker EXCEPT ![w] = Polling]
            \/ \E i \in Claimable(line) :
               /\ due' = RemoveAt(line, i)
               /\ job' = [table EXCEPT ![line[i]] = Leased(@, w)]
               /\ worker' = [worker EXCEPT ![w] =
                     [stage |-> "working", items |-> @.items + 1, holds |-> {line[i]}]]
    /\ UNCHANGED deleted

\* The deadline passes, the limit is reached, or the process is told to stop.
EndSweep(w) ==
    /\ worker[w].stage = "sweeping" /\ worker[w].items > 0
    /\ worker' = [worker EXCEPT ![w] = Polling]
    /\ UNCHANGED <<due, job, deleted>>

MaintenanceFails(w) ==
    /\ worker[w].stage = "working"
    /\ worker' = [worker EXCEPT ![w].stage = "failed"]
    /\ UNCHANGED <<due, job, deleted>>

------------------------------------------------------------------------------
(* finish_schedule_maintenance: a compare-and-swap on the lease token.     *)

\* Mutant: any lease of the household will do.
HoldsLeaseById(w, h) == job[h].lease # Nobody

HoldsLease(w, h) == job[h].lease = w

GoesOn(w) == worker' = [worker EXCEPT ![w].stage = "sweeping", ![w].holds = {}]

Finish(w) ==
    /\ worker[w].stage = "working"
    /\ \E h \in worker[w].holds :
        job' = IF HoldsLease(w, h) THEN [job EXCEPT ![h] = [Released(@) EXCEPT !.attempts = 0]]
                                   ELSE job
    /\ GoesOn(w)
    /\ UNCHANGED <<due, deleted>>

\* 30 * (2 ^ (attempts - 1))::integer is computed before the maximum of an hour
\* is applied to it.
Overflows(attempts) == 30 * 2 ^ (attempts - 1) > MaxInteger

FinishFailed(w) ==
    /\ worker[w].stage = "failed"
    /\ \E h \in worker[w].holds :
        /\ ~(HoldsLease(w, h) /\ Overflows(job[h].attempts))
        /\ job' = IF HoldsLease(w, h) THEN [job EXCEPT ![h] = Released(@)] ELSE job
    /\ GoesOn(w)
    /\ UNCHANGED <<due, deleted>>

\* "integer out of range": the call is made in the catch block, so the exception
\* ends the process.
FinishThrows(w) ==
    /\ worker[w].stage = "failed"
    /\ \E h \in worker[w].holds : HoldsLease(w, h) /\ Overflows(job[h].attempts)
    /\ worker' = [worker EXCEPT ![w] = [Polling EXCEPT !.stage = "thrown"]]
    /\ UNCHANGED <<due, job, deleted>>

------------------------------------------------------------------------------
(* The scheduler starts a new process.                                     *)
Restart(w) ==
    /\ worker[w].stage = "thrown"
    /\ worker' = [worker EXCEPT ![w] = Polling]
    /\ UNCHANGED <<due, job, deleted>>

\* The process is killed, or its connection is lost, with a household in hand.
Crash(w) ==
    /\ worker[w].holds # {}
    /\ worker' = [worker EXCEPT ![w] = Polling]
    /\ UNCHANGED <<due, job, deleted>>

Expire(h) ==
    /\ job[h].lease # Nobody /\ ~job[h].expired
    /\ job' = [job EXCEPT ![h].expired = TRUE]
    /\ UNCHANGED <<due, deleted, worker>>

\* The delay of an hour, or of the backoff, is over.
BecomeDue(h) ==
    /\ job[h].lease = Nobody /\ h \notin ToSet(due)
    /\ due' = Append(due, h)
    /\ UNCHANGED <<job, deleted, worker>>

Delete(h) ==
    /\ deleted' = deleted \cup {h}
    /\ UNCHANGED <<due, job, worker>>

Advance(w) == StartSweep(w) \/ Claim(w) \/ Finish(w) \/ FinishFailed(w)
              \/ FinishThrows(w) \/ Restart(w)

Next ==
    \/ \E w \in Workers : Advance(w) \/ EndSweep(w) \/ MaintenanceFails(w) \/ Crash(w)
    \/ \E h \in Households : Expire(h) \/ BecomeDue(h) \/ Delete(h)

Spec == Init /\ [][Next]_vars

------------------------------------------------------------------------------
\* While its lease lasts, only the worker that claimed a household hands it back
\* (033:727).
LeaseIsKept ==
    [][\A w \in Workers, h \in Households :
          job[h].lease = w /\ ~job[h].expired
          => job'[h].lease = w \/ (h \in worker[w].holds /\ h \notin worker'[w].holds)]_vars

\* However often the others fail or end their worker, every household is taken
\* up again and again (033:713, the order of the claim).
EveryHouseholdIsMaintained ==
    \A h \in Households :
        []<>(h \in deleted \/ \E w \in Workers : h \in worker[w].holds)

\* Refuted.  A failure that ends the worker leaves no other household waiting:
\* docs/PRODUCT_ARCHITECTURE.md:60, "one busy or broken household cannot block
\* the full sweep"; the overflow of 033:725 is raised in the catch block.
SweepGoesOn ==
    [][\A w \in Workers : worker[w].stage = "failed" /\ worker'[w].stage = "thrown"
                         => Claimable(due) = {}]_vars
=============================================================================
