----------------------------- MODULE Admission -----------------------------
(****************************************************************************)
(* What every request does around its handler: RequestScope of              *)
(* src/routes/routes.cpp admits it against max_inflight and counts it, its  *)
(* response takes the next number of the request sequence, and the end of   *)
(* the scope gives the place back.  The counters are plain members of       *)
(* AppState that all threads of the pool update without a lock, so an       *)
(* update is a load and a store, and another thread may run in between.     *)
(*                                                                          *)
(* Overlapping = FALSE keeps the executions in which no two calls on        *)
(* AppState overlap; TRUE adds the outcomes of the data races.              *)
(****************************************************************************)
EXTENDS Integers, FiniteSets

CONSTANTS
    Workers,            \* the threads of the server's pool
    MaxInflight,        \* AppConfig::max_inflight
    Word,               \* the counters are numbers modulo Word (2^64)
    MaxRequests,        \* bound: requests ever received
    Overlapping,        \* may calls on AppState overlap?
    Nobody              \* no worker, no value

ASSUME SizesAssumption ==
    /\ Word \in Nat \ {0}
    /\ MaxInflight \in 0 .. Word - 1
    /\ MaxRequests \in Nat \ {0}
    /\ 2 * MaxRequests + 1 < Word
ASSUME WorkersAssumption == IsFiniteSet(Workers) /\ Nobody \notin Workers
ASSUME OverlapAssumption == Overlapping \in BOOLEAN
ASSUME NobodyAssumption == Nobody \notin Nat

VARIABLES
    counter,            \* HostMetrics and AppState::next_request_sequence_
    pc,                 \* the memory access each worker makes next
    held,               \* the value it loaded and will store back
    seen,               \* the gauge as the call's condition read it
    accepted,           \* RequestScope::accepted_
    isError,            \* RequestScope::is_error_
    stamps,             \* sequence numbers the response still has to take
    inside,             \* the worker that is inside a call of AppState
    sent,               \* requests received so far
    issued,             \* history: the sequence numbers taken
    failed              \* history: how many requests ended in an error

admissionVars == <<counter, pc, held, seen, accepted, isError, stamps, inside, sent, issued,
                   failed>>

Counters == {"requests_inflight", "requests_total", "rejected_inflight_total",
             "errors_total", "next_request_sequence"}
Places == {"idle", "check", "refuse", "count", "raise", "handle", "stamp",
           "respond", "finish", "lower", "blame"}

\* The updates, by the counter each one changes.
Target == [refuse |-> "rejected_inflight_total", count |-> "requests_total",
           raise |-> "requests_inflight", lower |-> "requests_inflight",
           stamp |-> "next_request_sequence", blame |-> "errors_total"]
Updates == DOMAIN Target

AdmissionInit ==
    /\ counter = [c \in Counters |-> IF c = "next_request_sequence" THEN 1 ELSE 0]
    /\ pc = [w \in Workers |-> "idle"]
    /\ held = [w \in Workers |-> Nobody]
    /\ seen = [w \in Workers |-> 0]
    /\ accepted = [w \in Workers |-> FALSE]
    /\ isError = [w \in Workers |-> FALSE]
    /\ stamps = [w \in Workers |-> 0]
    /\ inside = Nobody
    /\ sent = 0
    /\ issued = {}
    /\ failed = 0
-----------------------------------------------------------------------------
\* Without overlapping, a call runs from its first access to its last one.
Inside(w) ==
    /\ Overlapping \/ inside \in {Nobody, w}
    /\ inside' = IF Overlapping THEN Nobody ELSE w

GoTo(w, place) == pc' = [pc EXCEPT ![w] = place]

Return(w, place) == GoTo(w, place) /\ inside' = Nobody

\* A request reaches a thread of the pool.
Arrive(w) ==
    /\ pc[w] = "idle"
    /\ sent < MaxRequests
    /\ sent' = sent + 1
    /\ GoTo(w, "check")
    /\ UNCHANGED <<counter, held, seen, accepted, isError, stamps, inside, issued, failed>>

\* OnRequestStart compares the gauge with the limit.
Admits(gauge) == gauge < MaxInflight

Check(w) ==
    /\ pc[w] = "check"
    /\ Inside(w)
    /\ seen' = [seen EXCEPT ![w] = counter["requests_inflight"]]
    /\ GoTo(w, IF Admits(counter["requests_inflight"]) THEN "count" ELSE "refuse")
    /\ UNCHANGED <<counter, held, accepted, isError, stamps, sent, issued, failed>>

\* The load half of an update.  The compiler may keep the gauge it has just
\* compared instead of loading it again.
Load(w) ==
    /\ pc[w] \in Updates
    /\ held[w] = Nobody
    /\ Inside(w)
    /\ \/ held' = [held EXCEPT ![w] = counter[Target[pc[w]]]]
       \/ /\ pc[w] \in {"raise", "lower"}
          /\ held' = [held EXCEPT ![w] = seen[w]]
    /\ UNCHANGED <<counter, pc, seen, accepted, isError, stamps, sent, issued, failed>>

\* The store half, at a given place.
StoreBack(w, place, delta) ==
    /\ pc[w] = place
    /\ held[w] # Nobody
    /\ Overlapping \/ inside \in {Nobody, w}
    /\ counter' = [counter EXCEPT ![Target[place]] = (held[w] + delta) % Word]
    /\ held' = [held EXCEPT ![w] = Nobody]

Refuse(w) ==
    /\ StoreBack(w, "refuse", 1)
    /\ Return(w, "handle")
    /\ UNCHANGED <<seen, accepted, isError, stamps, sent, issued, failed>>

CountRequest(w) ==
    /\ StoreBack(w, "count", 1)
    /\ GoTo(w, "raise")
    /\ UNCHANGED <<seen, accepted, isError, stamps, inside, sent, issued, failed>>

Raise(w) ==
    /\ StoreBack(w, "raise", 1)
    /\ accepted' = [accepted EXCEPT ![w] = TRUE]
    /\ Return(w, "handle")
    /\ UNCHANGED <<seen, isError, stamps, sent, issued, failed>>

\* /status takes a sequence number for its body as well.
StampsTaken(error) == IF error THEN {1} ELSE {1, 2}

\* The handler: a request that was not accepted is answered 429, any other one
\* succeeds or fails.
Handle(w) ==
    /\ pc[w] = "handle"
    /\ \E error \in BOOLEAN : \E n \in StampsTaken(error) :
         /\ ~ accepted[w] => error
         /\ isError' = [isError EXCEPT ![w] = error]
         /\ failed' = IF error THEN failed + 1 ELSE failed
         /\ stamps' = [stamps EXCEPT ![w] = n]
    /\ GoTo(w, "stamp")
    /\ UNCHANGED <<counter, held, seen, accepted, inside, sent, issued>>

\* Mutants: the sequence stands still, or the last number is taken twice over.
StampStale(w) ==
    /\ StoreBack(w, "stamp", 0)
    /\ issued' = issued \cup {held[w]}
    /\ stamps' = [stamps EXCEPT ![w] = stamps[w] - 1]
    /\ Return(w, IF stamps[w] = 1 THEN "finish" ELSE "stamp")
    /\ UNCHANGED <<seen, accepted, isError, sent, failed>>
StampOffByOne(w) ==
    /\ StoreBack(w, "stamp", 1)
    /\ issued' = issued \cup {held[w]}
    /\ stamps' = [stamps EXCEPT ![w] = stamps[w] - 1]
    /\ Return(w, IF stamps[w] = 0 THEN "finish" ELSE "stamp")
    /\ UNCHANGED <<seen, accepted, isError, sent, failed>>

\* NextRequestSequence: the value before the increment goes into the response.
Stamp(w) ==
    /\ StoreBack(w, "stamp", 1)
    /\ issued' = issued \cup {held[w]}
    /\ stamps' = [stamps EXCEPT ![w] = stamps[w] - 1]
    /\ Return(w, IF stamps[w] = 1 THEN "finish" ELSE "stamp")
    /\ UNCHANGED <<seen, accepted, isError, sent, failed>>

\* Mutants: a refused request gives a place back, or a failed one does not.
ReleasesRefused(w) == counter["requests_inflight"] > 0
ReleasesOnSuccess(w) == accepted[w] /\ ~ isError[w] /\ counter["requests_inflight"] > 0
\* Mutant: every request gives a place back.
ReleasesAlways(w) == TRUE

\* OnRequestEnd, from the destructor of the scope.
Releases(w) == accepted[w] /\ counter["requests_inflight"] > 0

\* Mutant: an error is counted only if no place is given back.
AfterReleaseElse(w) == IF isError[w] /\ ~ accepted[w] THEN "blame" ELSE "idle"

AfterRelease(w) == IF isError[w] THEN "blame" ELSE "idle"

\* The call goes on to the errors or returns.
LeaveRelease(w) ==
    IF AfterRelease(w) = "idle"
      THEN Return(w, "idle")
      ELSE GoTo(w, AfterRelease(w)) /\ inside' = IF Overlapping THEN Nobody ELSE w

Finish(w) ==
    /\ pc[w] = "finish"
    /\ Inside(w)
    /\ seen' = [seen EXCEPT ![w] = counter["requests_inflight"]]
    /\ Releases(w)
    /\ GoTo(w, "lower")
    /\ UNCHANGED <<counter, held, accepted, isError, stamps, sent, issued, failed>>

FinishUnreleased(w) ==
    /\ pc[w] = "finish"
    /\ Overlapping \/ inside \in {Nobody, w}
    /\ ~ Releases(w)
    /\ accepted' = [accepted EXCEPT ![w] = FALSE]
    /\ LeaveRelease(w)
    /\ UNCHANGED <<counter, held, seen, isError, stamps, sent, issued, failed>>

Lower(w) ==
    /\ StoreBack(w, "lower", -1)
    /\ accepted' = [accepted EXCEPT ![w] = FALSE]
    /\ LeaveRelease(w)
    /\ UNCHANGED <<seen, isError, stamps, sent, issued, failed>>

CountError(w) ==
    /\ StoreBack(w, "blame", 1)
    /\ isError' = [isError EXCEPT ![w] = FALSE]
    /\ Return(w, "idle")
    /\ UNCHANGED <<seen, accepted, stamps, sent, issued, failed>>
-----------------------------------------------------------------------------
AdmissionStep(w) ==
    \/ Arrive(w) \/ Check(w) \/ Load(w) \/ Refuse(w) \/ CountRequest(w) \/ Raise(w)
    \/ Handle(w) \/ Stamp(w) \/ Finish(w) \/ FinishUnreleased(w) \/ Lower(w)
    \/ CountError(w)

AdmissionNext == \E w \in Workers : AdmissionStep(w)

AdmissionSpec == AdmissionInit /\ [][AdmissionNext]_admissionVars
-----------------------------------------------------------------------------
AdmissionTypeOK ==
    /\ counter \in [Counters -> 0 .. Word - 1]
    /\ pc \in [Workers -> Places]
    /\ held \in [Workers -> (0 .. Word - 1) \cup {Nobody}]
    /\ seen \in [Workers -> 0 .. Word - 1]
    /\ accepted \in [Workers -> BOOLEAN]
    /\ isError \in [Workers -> BOOLEAN]
    /\ stamps \in [Workers -> 0 .. 2]
    /\ inside \in Workers \cup {Nobody}
    /\ sent \in 0 .. MaxRequests
    /\ issued \subseteq 0 .. Word - 1
    /\ failed \in 0 .. MaxRequests

\* The requests that hold a place: admitted and not yet given back.
InService == {w \in Workers : accepted[w]}

\* GaugeExact: between two calls the gauge is the number of requests that hold
\* a place, never more than max_inflight; a refused request gives nothing back.
GaugeExact ==
    inside = Nobody =>
        /\ counter["requests_inflight"] = Cardinality(InService)
        /\ Cardinality(InService) <= MaxInflight

\* IdleAdmits: a host that serves nobody accepts the next request, so 429 is
\* only ever said of requests that are in flight.  (CHANGELOG.md:19.)
IdleAdmits ==
    (\A w \in Workers : pc[w] = "idle") /\ MaxInflight > 0
        => Admits(counter["requests_inflight"])

\* MetricsAddUp: in a quiet host every request received so far has been counted
\* once, as admitted or as rejected, and every one that ended in an error, admitted
\* or not, has been counted as one exactly once.
MetricsAddUp ==
    (\A w \in Workers : pc[w] = "idle") =>
        /\ counter["requests_total"] + counter["rejected_inflight_total"] = sent
        /\ counter["errors_total"] = failed
        /\ counter["rejected_inflight_total"] <= failed

\* A step changes a counter by one, and only the gauge goes down.
Moves(c) == IF c = "requests_inflight" THEN {-1, 0, 1} ELSE {0, 1}

CountersMove == \A c \in Counters : counter'[c] - counter[c] \in Moves(c)

\* CountersNeverWrap: no counter jumps: no total falls, and the unsigned gauge is
\* never taken below zero, whichever way a request ends (app_state.cpp:42).
CountersNeverWrap == [][CountersMove]_admissionVars

TakesStamp(w) == pc[w] = "stamp" /\ stamps'[w] < stamps[w]

StampsRise == \A w \in Workers : TakesStamp(w) => \A n \in issued : n < held[w]

\* UniqueStamps: no two responses carry the same sequence number, and a later
\* call gets a higher one.  (docs/CONTRACT.md:19.)
UniqueStamps == [][StampsRise]_admissionVars
=============================================================================
