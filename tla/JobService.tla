----------------------------- MODULE JobService -----------------------------
(****************************************************************************)
(* The job routes of src/routes/routes.cpp over one JobStore and one        *)
(* ProviderBridge.  A worker is a thread of the HTTP server's pool; it      *)
(* serves one request at a time, and every call it makes on a shared        *)
(* object is a step of its own, so what one handler read before a call may  *)
(* be changed by another handler before it is used.                         *)
(*                                                                          *)
(* No class of the program takes a lock.  The calls themselves are          *)
(* indivisible here: these are the executions in which no two of them       *)
(* overlap, the only ones C++ gives a meaning to.  Admission.tla takes the  *)
(* calls that every request makes apart.                                    *)
(****************************************************************************)
EXTENDS JobStore, ProviderBridge, FiniteSets

CONSTANTS
    Workers,            \* the threads of the server's pool
    MaxSubmits,         \* bound: jobs ever created
    PollCadence,        \* AppConfig::poll_cadence_ms
    RequestTimeout,     \* AppConfig::request_timeout_ms
    Word,               \* a parsed number is a number modulo Word (2^64)
    Timeouts,           \* values a request may give the timeout_ms parameter
    Absent,             \* a wait request without that parameter
    Malformed           \* a wait request whose parameter is not a number

ASSUME WorkersAssumption == Workers # {}
ASSUME BoundAssumption == MaxSubmits \in Nat \ {0}
ASSUME WaitAssumption ==
    /\ PollCadence \in Nat \ {0}
    /\ Word \in Nat \ {0}
    /\ RequestTimeout \in 0 .. Word - 1
    /\ Timeouts \subseteq Nat \cup {Absent, Malformed}
    /\ Absent \notin Nat
    /\ Malformed \notin Nat
    /\ Absent # Malformed

VARIABLES
    pc,                 \* the call each worker makes next
    op,                 \* the route it serves
    job,                \* the job id in the path, or the id of the created job
    req,                \* the provider request id it read or was given
    asked,              \* the timeout_ms parameter
    left,               \* timeout_ms - elapsed, the time a wait still polls for
    reply,              \* the response it has decided on
    handed,             \* history: jobs whose result a response carries
    up                  \* the process runs

workerVars == <<pc, op, job, req, asked, left, reply>>
vars == <<storeVars, bridgeVars, workerVars, handed, up>>

Routes == {"none", "submit", "get", "wait", "take"}
Places == {"idle", "create", "mark", "poll", "lookup", "apply", "fetch",
           "store", "recheck", "reread", "collect", "respond"}
Replies == {"none", "created", "not_found", "bad_timeout", "already_taken",
            "not_ready", "result", "undefined"} \cup Statuses

NoJob == 0
NoRequest == 0
JobIds == 1 .. MaxSubmits

Init ==
    /\ StoreInit
    /\ BridgeInit
    /\ pc = [w \in Workers |-> "idle"]
    /\ op = [w \in Workers |-> "none"]
    /\ job = [w \in Workers |-> NoJob]
    /\ req = [w \in Workers |-> NoRequest]
    /\ asked = [w \in Workers |-> 0]
    /\ left = [w \in Workers |-> 0]
    /\ reply = [w \in Workers |-> "none"]
    /\ handed = {}
    /\ up = TRUE
-----------------------------------------------------------------------------
GoTo(w, place) == pc' = [pc EXCEPT ![w] = place]

Answer(w, r) ==
    /\ reply' = [reply EXCEPT ![w] = r]
    /\ GoTo(w, "respond")

\* operator* on an empty optional: the handler answers from storage that holds
\* no record, or the process dies.
AnswerFromNothing(w) ==
    /\ Answer(w, "undefined")
    /\ up' \in BOOLEAN

\* A handler that reads the record back answers with it, or with nothing.
AnswerWithJob(w) ==
    \/ /\ job[w] \in Stored
       /\ Answer(w, jobs[job[w]].status)
       /\ UNCHANGED up
    \/ /\ job[w] \notin Stored
       /\ AnswerFromNothing(w)

\* The response is written and the thread returns to the pool.
Respond(w) ==
    /\ pc[w] = "respond"
    /\ GoTo(w, "idle")
    /\ op' = [op EXCEPT ![w] = "none"]
    /\ job' = [job EXCEPT ![w] = NoJob]
    /\ req' = [req EXCEPT ![w] = NoRequest]
    /\ asked' = [asked EXCEPT ![w] = 0]
    /\ left' = [left EXCEPT ![w] = 0]
    /\ reply' = [reply EXCEPT ![w] = "none"]
    /\ UNCHANGED <<storeVars, bridgeVars, handed, up>>
-----------------------------------------------------------------------------
(* POST /v1/chat, /v1/tool and /v1/build, once the body is accepted.        *)

Submit(w) ==
    /\ pc[w] = "idle"
    /\ nextRequestId <= MaxSubmits
    /\ SubmitRequest
    /\ GoTo(w, "create")
    /\ op' = [op EXCEPT ![w] = "submit"]
    /\ req' = [req EXCEPT ![w] = nextRequestId]
    /\ UNCHANGED <<storeVars, job, asked, left, reply, handed, up>>

\* Mutant: the job is given the latest request instead of the handler's own.
CreateJobLatest(w) ==
    /\ pc[w] = "create"
    /\ Create(nextRequestId - 1)
    /\ GoTo(w, "mark")
    /\ job' = [job EXCEPT ![w] = nextJobId]
    /\ UNCHANGED <<bridgeVars, op, req, asked, left, reply, handed, up>>

CreateJob(w) ==
    /\ pc[w] = "create"
    /\ Create(req[w])
    /\ GoTo(w, "mark")
    /\ job' = [job EXCEPT ![w] = nextJobId]
    /\ UNCHANGED <<bridgeVars, op, req, asked, left, reply, handed, up>>

MarkWaiting(w) ==
    /\ pc[w] = "mark"
    /\ UpdateStatus(job[w], "WAITING")
    /\ Answer(w, "created")
    /\ UNCHANGED <<bridgeVars, op, job, req, asked, left, handed, up>>
-----------------------------------------------------------------------------
(* The routes of one job.  The id comes from the URL: any number.           *)

Arrive(w, route, id, timeout) ==
    /\ pc[w] = "idle"
    /\ GoTo(w, IF route = "get" THEN "poll" ELSE "lookup")
    /\ op' = [op EXCEPT ![w] = route]
    /\ job' = [job EXCEPT ![w] = id]
    /\ asked' = [asked EXCEPT ![w] = timeout]
    /\ UNCHANGED <<storeVars, bridgeVars, req, left, reply, handed, up>>

BeginGet(w) == \E id \in JobIds : Arrive(w, "get", id, 0)
BeginTake(w) == \E id \in JobIds : Arrive(w, "take", id, 0)
BeginWait(w) ==
    \E id \in JobIds, t \in Timeouts : Arrive(w, "wait", id, t)

\* Mutant: a get works on a job it has not looked up.
PollThenApply(w) ==
    /\ pc[w] = "poll"
    /\ Poll
    /\ GoTo(w, "apply")
    /\ UNCHANGED <<storeVars, op, job, req, asked, left, reply, handed, up>>

\* A get polls before it looks the job up, a wait in every round of its loop.
PollProvider(w) ==
    /\ pc[w] = "poll"
    /\ Poll
    /\ GoTo(w, IF op[w] = "get" THEN "lookup" ELSE "apply")
    /\ UNCHANGED <<storeVars, op, job, req, asked, left, reply, handed, up>>

\* ParseNumericParam, of a number: it clears the value it was given as a default
\* before it looks for the parameter, and a number too long for the type wraps.
ParseNumericParam(raw) == IF raw = Absent THEN 0 ELSE raw % Word

\* Mutant: a timeout that is too long is not cut but cleared.
EffectiveCleared(timeout) ==
    IF ParseNumericParam(timeout) > RequestTimeout THEN 0
    ELSE ParseNumericParam(timeout)

\* A timeout longer than the host's is cut.
EffectiveTimeout(timeout) ==
    IF ParseNumericParam(timeout) > RequestTimeout THEN RequestTimeout
    ELSE ParseNumericParam(timeout)

\* The loop of a wait runs while some of the timeout is left.
WaitLoop(time) == IF time > 0 THEN "poll" ELSE "reread"

LookupMissing(w) ==
    /\ pc[w] = "lookup"
    /\ job[w] \notin Stored
    /\ Answer(w, "not_found")
    /\ UNCHANGED <<storeVars, bridgeVars, op, job, req, asked, left, handed, up>>

LookupMalformed(w) ==
    /\ pc[w] = "lookup"
    /\ job[w] \in Stored
    /\ asked[w] = Malformed
    /\ Answer(w, "bad_timeout")
    /\ UNCHANGED <<storeVars, bridgeVars, op, job, req, asked, left, handed, up>>

Lookup(w) ==
    /\ pc[w] = "lookup"
    /\ job[w] \in Stored
    /\ asked[w] # Malformed
    /\ IF op[w] = "wait"
         THEN /\ left' = [left EXCEPT ![w] = EffectiveTimeout(asked[w])]
              /\ GoTo(w, WaitLoop(EffectiveTimeout(asked[w])))
         ELSE /\ UNCHANGED left
              /\ GoTo(w, "apply")
    /\ UNCHANGED <<storeVars, bridgeVars, op, job, req, asked, reply, handed, up>>
-----------------------------------------------------------------------------
(* ApplyProviderResult: Get, then TakeResult of the bridge, then SetResult. *)

Apply(w) ==
    /\ pc[w] = "apply"
    /\ IF job[w] \in Stored
         THEN /\ req' = [req EXCEPT ![w] = jobs[job[w]].request]
              /\ GoTo(w, "fetch")
         ELSE /\ UNCHANGED req
              /\ GoTo(w, "recheck")
    /\ UNCHANGED <<storeVars, bridgeVars, op, job, asked, left, reply, handed, up>>

\* req leaves its scope with ApplyProviderResult.
Fetch(w) ==
    /\ pc[w] = "fetch"
    /\ TakeReady(req[w])
    /\ IF IsReadyFor(req[w])
         THEN GoTo(w, "store") /\ UNCHANGED req
         ELSE GoTo(w, "recheck") /\ req' = [req EXCEPT ![w] = NoRequest]
    /\ UNCHANGED <<storeVars, op, job, asked, left, reply, handed, up>>

\* Mutant: the result goes to the newest job.
StoreInNewest(w) ==
    /\ pc[w] = "store"
    /\ SetResult(nextJobId - 1, req[w], FALSE)
    /\ GoTo(w, "recheck")
    /\ req' = [req EXCEPT ![w] = NoRequest]
    /\ UNCHANGED <<bridgeVars, op, job, asked, left, reply, handed, up>>

StoreResult(w) ==
    /\ pc[w] = "store"
    /\ SetResult(job[w], req[w], FALSE)
    /\ GoTo(w, "recheck")
    /\ req' = [req EXCEPT ![w] = NoRequest]
    /\ UNCHANGED <<bridgeVars, op, job, asked, left, reply, handed, up>>
-----------------------------------------------------------------------------
(* What each route does with the record it reads back.                      *)

RecheckGet(w) ==
    /\ pc[w] = "recheck"
    /\ op[w] = "get"
    /\ AnswerWithJob(w)
    /\ UNCHANGED <<storeVars, bridgeVars, op, job, req, asked, left, handed>>

IsTerminal(id) == id \in Stored /\ jobs[id].status \in Terminal

RecheckWaitDone(w) ==
    /\ pc[w] = "recheck"
    /\ op[w] = "wait"
    /\ IsTerminal(job[w])
    /\ Answer(w, jobs[job[w]].status)
    /\ UNCHANGED <<storeVars, bridgeVars, op, job, req, asked, left, handed, up>>

\* Mutant: the time slept is not counted.
SleepUncounted(w) ==
    /\ pc[w] = "recheck"
    /\ op[w] = "wait"
    /\ ~ IsTerminal(job[w])
    /\ GoTo(w, WaitLoop(left[w]))
    /\ UNCHANGED <<storeVars, bridgeVars, op, job, req, asked, left, reply, handed, up>>

\* The thread sleeps for one cadence and counts it as elapsed.
RecheckWaitSleep(w) ==
    LET rest == IF left[w] > PollCadence THEN left[w] - PollCadence ELSE 0
    IN  /\ pc[w] = "recheck"
        /\ op[w] = "wait"
        /\ ~ IsTerminal(job[w])
        /\ left' = [left EXCEPT ![w] = rest]
        /\ GoTo(w, WaitLoop(rest))
        /\ UNCHANGED <<storeVars, bridgeVars, op, job, req, asked, reply, handed, up>>

Reread(w) ==
    /\ pc[w] = "reread"
    /\ AnswerWithJob(w)
    /\ UNCHANGED <<storeVars, bridgeVars, op, job, req, asked, left, handed>>

\* Mutants: a finished job is taken for a taken one, or none is.
IsFinished(id) == id \in Stored /\ jobs[id].result # NoResult
IsNeverTaken(id) == FALSE

IsTaken(id) == id \in Stored /\ jobs[id].taken

RecheckTakeTaken(w) ==
    /\ pc[w] = "recheck"
    /\ op[w] = "take"
    /\ IsTaken(job[w])
    /\ Answer(w, "already_taken")
    /\ UNCHANGED <<storeVars, bridgeVars, op, job, req, asked, left, handed, up>>

RecheckTake(w) ==
    /\ pc[w] = "recheck"
    /\ op[w] = "take"
    /\ ~ IsTaken(job[w])
    /\ GoTo(w, "collect")
    /\ UNCHANGED <<storeVars, bridgeVars, op, job, req, asked, left, reply, handed, up>>

Collect(w) ==
    /\ pc[w] = "collect"
    /\ TakeResult(job[w])
    /\ IF Takeable(job[w])
         THEN Answer(w, "result") /\ handed' = handed \cup {job[w]}
         ELSE Answer(w, "not_ready") /\ UNCHANGED handed
    /\ UNCHANGED <<bridgeVars, op, job, req, asked, left, up>>
-----------------------------------------------------------------------------
\* A new request: nothing obliges a client to send one.
Begin(w) == Submit(w) \/ BeginGet(w) \/ BeginTake(w) \/ BeginWait(w)

\* The next step of a handler that is running.
Continue(w) ==
    \/ CreateJob(w) \/ MarkWaiting(w)
    \/ PollProvider(w) \/ LookupMissing(w) \/ LookupMalformed(w) \/ Lookup(w)
    \/ Apply(w) \/ Fetch(w) \/ StoreResult(w)
    \/ RecheckGet(w) \/ RecheckWaitDone(w) \/ RecheckWaitSleep(w) \/ Reread(w)
    \/ RecheckTakeTaken(w) \/ RecheckTake(w) \/ Collect(w)
    \/ Respond(w)

Step(w) == Begin(w) \/ Continue(w)

Next == up /\ \E w \in Workers : Step(w)

Spec == Init /\ [][Next]_vars

\* No handler waits for another one, and the operating system runs every
\* thread that can run.
Fairness == \A w \in Workers : WF_vars(up /\ Continue(w))

FairSpec == Spec /\ Fairness
-----------------------------------------------------------------------------
TypeOK ==
    /\ StoreTypeOK
    /\ BridgeTypeOK
    /\ pc \in [Workers -> Places]
    /\ op \in [Workers -> Routes]
    /\ job \in [Workers -> Nat]
    /\ req \in [Workers -> Nat]
    /\ asked \in [Workers -> Nat \cup {Absent, Malformed}]
    /\ left \in [Workers -> Nat]
    /\ reply \in [Workers -> Replies]
    /\ handed \subseteq Nat \ {0}
    /\ up \in BOOLEAN

\* NoLostResult: the answer to a retained job that has none yet is always still
\* on its way: its request is pending, its result is ready, or a worker that took
\* the result from the bridge is about to store it in that very job.
NoLostResult ==
    \A j \in Stored : jobs[j].result = NoResult =>
        \/ jobs[j].request \in InBridge
        \/ \E w \in Workers :
              pc[w] = "store" /\ job[w] = j /\ req[w] = jobs[j].request

\* OwnResult: a job only ever holds the result of the request that was submitted
\* for it, however the handlers of several jobs interleave.
OwnResult ==
    \A j \in Stored : jobs[j].result \in {NoResult, jobs[j].request}

\* OneOwner: a provider request belongs to one job, and its result exists once:
\* the bridge never holds an id twice, and two jobs never share a request.
OneOwner ==
    /\ OnceInBridge
    /\ \A j, k \in Stored : jobs[j].request = jobs[k].request => j = k

\* Requests in the bridge whose job is gone: nobody can fetch their results.
Orphans ==
    {r \in InBridge : /\ \A j \in Stored : jobs[j].request # r
                      /\ \A w \in Workers : ~ (pc[w] = "create" /\ req[w] = r)}

\* OrphansOnlyByEviction: what piles up in the bridge for ever is at most one
\* request for every job that was evicted.
OrphansOnlyByEviction == Cardinality(Orphans) <= nextJobId - 1 - Len(order)

\* TakenMeansHanded: a retained job is marked taken exactly when a response
\* carries its result: the mark is neither lost nor set for nothing.
TakenMeansHanded ==
    \A j \in Stored : jobs[j].taken <=> j \in handed

Answers(w, r) == reply[w] # r /\ reply'[w] = r

\* TakeOnce: a take answers with a result only if no earlier response carried
\* it.  (CONTRACT.md: take returns the result once.)
TakeOnce == [][\A w \in Workers : Answers(w, "result") => job[w] \notin handed]_vars

\* SaysTakenTruly: a client is told already_taken only when some response did
\* carry the result.
SaysTakenTruly ==
    [][\A w \in Workers : Answers(w, "already_taken") => job[w] \in handed]_vars

\* LateTakeSaysTaken: a take that comes after the result was handed out is
\* answered already_taken (or not_found), never not_ready.  (CONTRACT.md:35.)
LateTakeSaysTaken ==
    [][\A w \in Workers : Answers(w, "not_ready") => job[w] \notin handed]_vars

\* TerminalStable: a job that reached a terminal state stays there for as long
\* as it is retained.  (CONTRACT.md:33.)
TerminalStable ==
    [][\A j \in Stored \cap Stored' :
          jobs[j].status \in Terminal => jobs'[j].status \in Terminal]_vars

\* NoUndefined: no handler answers from a record that is not there; a job that
\* is gone is answered not_found.  (CONTRACT.md:26.)
NoUndefined == \A w \in Workers : reply[w] # "undefined"

\* DanglingOnlyWhenEvicted: a handler reads an absent record back only for a job
\* that was created and that Capacity newer jobs have since pushed out.
DanglingOnlyWhenEvicted ==
    \A w \in Workers : reply[w] = "undefined" =>
        job[w] # NoJob /\ job[w] + Capacity < nextJobId

\* EveryCallAnswered: while the process runs, every request is answered: a wait
\* ends even if the job is evicted or never finishes.
EveryCallAnswered ==
    \A w \in Workers : (pc[w] # "idle") ~> (pc[w] = "idle" \/ ~ up)

\* PollingWaitEnds: with one worker and a host timeout above zero, a wait that was
\* given time to poll answers with a terminal job, unless its number is so long
\* that it wraps to nothing.
\* (CONTRACT.md:34, the in-memory provider being immediate.)
PollingWaitEnds ==
    \A w \in Workers :
        op[w] = "wait" /\ reply[w] \in Statuses /\ asked[w] \in Nat
                       /\ asked[w] % Word # 0
            => reply[w] \in Terminal

\* DefaultWaitEnds: the same of a wait that leaves timeout_ms to the host, which
\* is configured with a timeout of RequestTimeout.
DefaultWaitEnds ==
    \A w \in Workers :
        op[w] = "wait" /\ reply[w] \in Statuses /\ asked[w] = Absent
            => reply[w] \in Terminal
-----------------------------------------------------------------------------
(* The inductive invariant: what the handlers in progress rely on.          *)

\* Ids that were given out are below the counters.
Issued ==
    /\ \A r \in InBridge : r < nextRequestId
    /\ \A j \in Stored : jobs[j].request < nextRequestId
    /\ \A j \in Stored : jobs[j].created = j
    /\ \A j \in handed : j < nextJobId
    /\ nextTick = nextJobId

\* A request that has no job yet is in the bridge and nobody else knows its id.
Creating ==
    \A w \in Workers : pc[w] = "create" =>
        /\ req[w] \in InBridge
        /\ \A j \in Stored : jobs[j].request # req[w]
        /\ \A v \in Workers \ {w} :
             pc[v] \in {"create", "fetch", "store"} => req[v] # req[w]

\* A worker that carries a result out of the bridge carries that of its job.
Carrying ==
    \A w \in Workers : pc[w] \in {"fetch", "store"} =>
        /\ req[w] \in 1 .. nextRequestId - 1
        /\ job[w] \in Stored => jobs[job[w]].request = req[w]
        /\ \A j \in Stored : jobs[j].request = req[w] => j = job[w]

\* Past its lookup, a handler works on a job that was created.
Known ==
    \A w \in Workers :
        (\/ pc[w] \in {"mark", "apply", "fetch", "store", "recheck", "reread", "collect"}
         \/ pc[w] = "poll" /\ op[w] # "get")
            => job[w] \in 1 .. nextJobId - 1

\* A response that is decided on is the last thing a handler has to do.
Replying == \A w \in Workers : reply[w] # "none" => pc[w] = "respond"

Bookkeeping == Issued /\ Creating /\ Carrying /\ Known /\ Replying

IInv ==
    /\ TypeOK
    /\ Retention
    /\ OneOwner
    /\ Bookkeeping
    /\ NoLostResult
    /\ OwnResult
    /\ TakenMeansHanded
    /\ DanglingOnlyWhenEvicted
-----------------------------------------------------------------------------
\* The routes over the store and the bridge implement the contract of the host.
Contract ==
    INSTANCE JobContract
      WITH last      <- nextJobId - 1,
           finished  <- {j \in Stored : jobs[j].result # NoResult},
           delivered <- handed

ImplementsContract == Contract!ContractSpec
=============================================================================
