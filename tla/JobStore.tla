------------------------------ MODULE JobStore ------------------------------
(****************************************************************************)
(* The bounded, insertion-ordered job table of src/jobs/job_store.cpp.      *)
(* Every operation is one call on the shared object; the module that drives *)
(* the store says which thread makes which call and when.  The payload      *)
(* fields of a record (request type, model, tool and template ids) are left *)
(* out: no operation of the store reads them.  A result is named by the     *)
(* provider request that produced it, NoResult being the empty string.      *)
(****************************************************************************)
EXTENDS Naturals, Sequences, FiniteSets

CONSTANT MaxJobs        \* AppConfig::max_jobs, the argument of the constructor

ASSUME MaxJobsAssumption == MaxJobs \in Nat

VARIABLES
    order,              \* JobStore::order_, ids from oldest to newest
    jobs,               \* JobStore::jobs_, a function from the ids it holds
    nextJobId,          \* JobStore::next_job_id_
    nextTick            \* JobStore::next_tick_

storeVars == <<order, jobs, nextJobId, nextTick>>

\* A store of size zero is given one place.
Capacity == IF MaxJobs = 0 THEN 1 ELSE MaxJobs

NoResult == 0
Statuses == {"QUEUED", "RUNNING", "WAITING", "COMPLETE", "FAILED"}
Terminal == {"COMPLETE", "FAILED"}

JobRecord == [request : Nat \ {0}, created : Nat \ {0}, status : Statuses,
              result : Nat, taken : BOOLEAN]

StoreInit ==
    /\ order = << >>
    /\ jobs = [j \in {} |-> NoResult]
    /\ nextJobId = 1
    /\ nextTick = 1
-----------------------------------------------------------------------------
Stored == DOMAIN jobs

\* Mutant: the first tick is 0.
NewJobTickZero(request) ==
    [request |-> request, created |-> nextTick - 1, status |-> "QUEUED",
     result |-> NoResult, taken |-> FALSE]

\* The record a newly created job starts with.
NewJob(request) ==
    [request |-> request, created |-> nextTick, status |-> "QUEUED",
     result |-> NoResult, taken |-> FALSE]

\* Mutants: the table grows one past its size, or never fills up.
ExcessLate(grown) ==
    IF Len(grown) > Capacity + 1 THEN Len(grown) - Capacity - 1 ELSE 0
ExcessEarly(grown) ==
    IF Len(grown) >= Capacity THEN Len(grown) - Capacity + 1 ELSE 0

\* How many of the oldest ids of a grown table EvictIfNeeded removes.
Excess(grown) ==
    IF Len(grown) > Capacity THEN Len(grown) - Capacity ELSE 0

\* Mutant: the table evicts from the wrong end.
CreateEvictsNewest(request) ==
    LET grown == Append(order, nextJobId)
        gone  == {order[i] : i \in (Len(order) + 1 - Excess(grown)) .. Len(order)}
    IN  /\ order' = SelectSeq(grown, LAMBDA j : j \notin gone)
        /\ jobs' = [j \in (Stored \cup {nextJobId}) \ gone |->
                       IF j = nextJobId THEN NewJob(request) ELSE jobs[j]]
        /\ nextJobId' = nextJobId + 1
        /\ nextTick' = nextTick + 1

\* Create appends the job, then evicts from the front until the table fits.
Create(request) ==
    LET grown == Append(order, nextJobId)
        gone  == {grown[i] : i \in 1 .. Excess(grown)}
    IN  /\ order' = SubSeq(grown, Excess(grown) + 1, Len(grown))
        /\ jobs' = [j \in (Stored \cup {nextJobId}) \ gone |->
                       IF j = nextJobId THEN NewJob(request) ELSE jobs[j]]
        /\ nextJobId' = nextJobId + 1
        /\ nextTick' = nextTick + 1

\* The status is overwritten whatever it was; an unknown id changes nothing.
UpdateStatus(id, status) ==
    /\ jobs' = IF id \in Stored THEN [jobs EXCEPT ![id].status = status] ELSE jobs
    /\ UNCHANGED <<order, nextJobId, nextTick>>

SetResult(id, result, failed) ==
    /\ jobs' = IF id \in Stored
                 THEN [jobs EXCEPT ![id].result = result,
                                   ![id].status = IF failed THEN "FAILED" ELSE "COMPLETE"]
                 ELSE jobs
    /\ UNCHANGED <<order, nextJobId, nextTick>>

\* Mutant: a result is handed out again.
TakeableAgain(id) == id \in Stored /\ jobs[id].result # NoResult

\* TakeResult answers with the record exactly when the result can be handed out.
Takeable(id) ==
    /\ id \in Stored
    /\ jobs[id].result # NoResult
    /\ ~ jobs[id].taken

\* Mutants: the mark is set whether or not there is a result, or the job starts
\* over once its result is gone.
TakeResultMarksAll(id) ==
    /\ jobs' = IF id \in Stored THEN [jobs EXCEPT ![id].taken = TRUE] ELSE jobs
    /\ UNCHANGED <<order, nextJobId, nextTick>>
TakeResultResets(id) ==
    /\ jobs' = IF Takeable(id)
                 THEN [jobs EXCEPT ![id].taken = TRUE, ![id].status = "WAITING"] ELSE jobs
    /\ UNCHANGED <<order, nextJobId, nextTick>>

TakeResult(id) ==
    /\ jobs' = IF Takeable(id) THEN [jobs EXCEPT ![id].taken = TRUE] ELSE jobs
    /\ UNCHANGED <<order, nextJobId, nextTick>>

\* The places of the order whose id has a record.
Held == {i \in 1 .. Len(order) : order[i] \in Stored}

ListLength(limit) == IF limit < Cardinality(Held) THEN limit ELSE Cardinality(Held)

\* Mutant: the listing starts from the oldest.
ListRecentOldestFirst(limit) ==
    [n \in 1 .. ListLength(limit) |->
        order[CHOOSE i \in Held : Cardinality({k \in Held : k <= i}) = n]]

\* The ids ListRecent(limit) answers with: newest first, ids without a record
\* skipped, never more than limit.
ListRecent(limit) ==
    [n \in 1 .. ListLength(limit) |->
        order[CHOOSE i \in Held : Cardinality({k \in Held : k >= i}) = n]]
-----------------------------------------------------------------------------
StoreTypeOK ==
    /\ order \in Seq(Nat \ {0})
    /\ nextJobId \in Nat \ {0}
    /\ nextTick \in Nat \ {0}
    /\ Stored \subseteq Nat \ {0}
    /\ jobs \in [Stored -> JobRecord]

\* Retention: the table holds exactly the newest jobs, as many as fit, in the
\* order they were created, and the two containers of the store agree.
\* (CONTRACT.md: the store is bounded by max_jobs, ids are monotonic.)
Retention ==
    /\ Len(order) = IF nextJobId - 1 < Capacity THEN nextJobId - 1 ELSE Capacity
    /\ \A i \in 1 .. Len(order) : order[i] = nextJobId - 1 - Len(order) + i
    /\ Stored = {order[i] : i \in 1 .. Len(order)}

\* NewestFirst: whatever the limit, a listing is the newest jobs in strictly
\* decreasing order of creation, as many of them as there are, up to the limit.
\* (CONTRACT.md: the list endpoint returns newest-first deterministic ordering.)
NewestFirst ==
    \A limit \in 0 .. Capacity + 1 :
        LET ids == ListRecent(limit)
        IN  /\ Len(ids) = IF limit < Len(order) THEN limit ELSE Len(order)
            /\ \A i \in 1 .. Len(ids) :
                 /\ \A k \in 1 .. i - 1 : jobs[ids[k]].created > jobs[ids[i]].created
                 /\ \A j \in Stored : jobs[j].created > jobs[ids[i]].created
                                        => \E k \in 1 .. i - 1 : ids[k] = j
=============================================================================
