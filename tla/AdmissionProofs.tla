--------------------------- MODULE AdmissionProofs ---------------------------
(****************************************************************************)
(* Theorems about Admission when no two calls on AppState overlap, for any  *)
(* finite set of threads, any limit and any number of requests that the     *)
(* counters can hold.                                                       *)
(****************************************************************************)
EXTENDS Admission, FiniteSetTheorems, TLAPS

Gauge == counter["requests_inflight"]
Total == counter["requests_total"]
Rejected == counter["rejected_inflight_total"]
Errors == counter["errors_total"]
NextSequence == counter["next_request_sequence"]

\* A call is a critical section: who is inside has read what is still there.
Undivided ==
    \A w \in Workers :
        /\ pc[w] \in {"refuse", "count", "raise", "lower"} =>
              inside = w /\ seen[w] = Gauge
        /\ pc[w] \in {"count", "raise"} => seen[w] < MaxInflight
        /\ pc[w] = "lower" => seen[w] > 0
        /\ held[w] # Nobody =>
              /\ inside = w
              /\ pc[w] \in Updates
              /\ held[w] = counter[Target[pc[w]]]

\* Who holds a place, by where it is.
Accepting ==
    \A w \in Workers :
        /\ pc[w] \in {"idle", "check", "refuse", "count", "raise", "blame"} => ~ accepted[w]
        /\ pc[w] = "lower" => accepted[w]
        /\ pc[w] = "stamp" => stamps[w] \in {1, 2}
        /\ pc[w] = "blame" => isError[w]

\* The requests that are not counted yet, that have not ended in an error but may,
\* that were refused and must, that did and are not blamed yet, and that will take
\* at least one or two sequence numbers.
Early == {"check", "refuse", "count", "raise", "handle"}
Uncounted == {w \in Workers : pc[w] \in {"check", "refuse", "count"}}
Undecided == {w \in Workers : pc[w] \in Early}
Turned == {w \in Workers : pc[w] = "handle" /\ ~ accepted[w]}
Doomed ==
    {w \in Workers : pc[w] \in {"stamp", "finish", "lower", "blame"} /\ isError[w]}
Owing == {w \in Workers : pc[w] \in Early \cup {"stamp"}}
OwingTwo == {w \in Workers : \/ pc[w] \in Early
                             \/ pc[w] = "stamp" /\ stamps[w] = 2}

GaugeCount ==
    Gauge = Cardinality(InService) /\ Cardinality(InService) <= MaxInflight

RequestCount == Total + Rejected + Cardinality(Uncounted) = sent

ErrorCount ==
    /\ Errors + Cardinality(Doomed) = failed
    /\ failed + Cardinality(Undecided) <= sent
    /\ Rejected <= failed + Cardinality(Turned)

SequenceCount ==
    /\ NextSequence + Cardinality(Owing) + Cardinality(OwingTwo) <= 2 * sent + 1
    /\ \A n \in issued : n < NextSequence

AInv ==
    /\ AdmissionTypeOK
    /\ Undivided
    /\ Accepting
    /\ GaugeCount
    /\ RequestCount
    /\ ErrorCount
    /\ SequenceCount
-----------------------------------------------------------------------------
\* A number that fits into a word is left as it is.
LEMMA Small == \A n \in 0 .. Word - 1 : n % Word = n
BY SizesAssumption

\* The counter that each update is of.
LEMMA Targets ==
    /\ Updates = {"refuse", "count", "raise", "lower", "stamp", "blame"}
    /\ Target["refuse"] = "rejected_inflight_total"
    /\ Target["count"] = "requests_total"
    /\ Target["raise"] = "requests_inflight"
    /\ Target["lower"] = "requests_inflight"
    /\ Target["stamp"] = "next_request_sequence"
    /\ Target["blame"] = "errors_total"
BY DEF Updates, Target

\* A set of threads is finite, and not empty if it has a member.
LEMMA CardMember ==
    ASSUME NEW S \in SUBSET Workers
    PROVE  /\ Cardinality(S) \in Nat
           /\ \A w \in S : Cardinality(S) >= 1
<1>1. IsFiniteSet(S) /\ Cardinality(S) \in Nat
  BY WorkersAssumption, FS_Subset, FS_CardinalityType
<1>2. S # {} => Cardinality(S) # 0
  BY <1>1, FS_EmptySet
<1> QED  BY <1>1, <1>2

\* A worker that joins or leaves a set changes its size by one.
LEMMA CardChange ==
    ASSUME NEW S \in SUBSET Workers, NEW T \in SUBSET Workers, NEW w \in Workers,
           \A v \in Workers \ {w} : v \in S <=> v \in T
    PROVE  /\ Cardinality(S) \in Nat
           /\ Cardinality(T) \in Nat
           /\ w \in S /\ w \notin T => Cardinality(T) = Cardinality(S) - 1
           /\ w \notin S /\ w \in T => Cardinality(T) = Cardinality(S) + 1
           /\ (w \in S <=> w \in T) => Cardinality(T) = Cardinality(S)
<1>1. IsFiniteSet(S) /\ IsFiniteSet(T)
  BY WorkersAssumption, FS_Subset
<1>2. CASE w \in S /\ w \notin T
  <2>1. T = S \ {w}
    BY <1>2
  <2> QED  BY <1>1, <1>2, <2>1, FS_RemoveElement, FS_CardinalityType
<1>3. CASE w \notin S /\ w \in T
  <2>1. T = S \cup {w}
    BY <1>3
  <2> QED  BY <1>1, <1>3, <2>1, FS_AddElement, FS_CardinalityType
<1>4. CASE w \in S <=> w \in T
  <2>1. T = S
    BY <1>4
  <2> QED  BY <1>1, <1>4, <2>1, FS_CardinalityType
<1> QED  BY <1>2, <1>3, <1>4
-----------------------------------------------------------------------------
(* One step of one worker.                                                  *)

\* It leaves the other workers alone.
LEMMA OthersKeep ==
    ASSUME AdmissionTypeOK, NEW w \in Workers, AdmissionStep(w),
           NEW v \in Workers, v # w
    PROVE  /\ pc'[v] = pc[v] /\ held'[v] = held[v] /\ seen'[v] = seen[v]
           /\ accepted'[v] = accepted[v] /\ isError'[v] = isError[v]
           /\ stamps'[v] = stamps[v]
<1> USE DEF AdmissionTypeOK, GoTo, Return, StoreBack, LeaveRelease
<1>1. CASE Arrive(w) \/ Check(w) \/ Load(w) \/ Handle(w) \/ Finish(w) \/ FinishUnreleased(w)
  BY <1>1 DEF Arrive, Check, Load, Handle, Finish, FinishUnreleased
<1>2. CASE Refuse(w) \/ CountRequest(w) \/ Raise(w) \/ Stamp(w) \/ Lower(w) \/ CountError(w)
  BY <1>2 DEF Refuse, CountRequest, Raise, Stamp, Lower, CountError
<1> QED  BY <1>1, <1>2 DEF AdmissionStep

\* No update wraps: each counter is bounded by what has been received.
LEMMA InRange ==
    ASSUME AInv, NEW w \in Workers
    PROVE  /\ pc[w] = "refuse" => Rejected + 1 \in 0 .. Word - 1
           /\ pc[w] = "count" => Total + 1 \in 0 .. Word - 1
           /\ pc[w] = "raise" => Gauge + 1 \in 0 .. Word - 1
           /\ pc[w] = "lower" => Gauge - 1 \in 0 .. Word - 1
           /\ pc[w] = "stamp" => NextSequence + 1 \in 0 .. Word - 1
           /\ pc[w] = "blame" => Errors + 1 \in 0 .. Word - 1
<1>1. /\ Gauge \in 0 .. Word - 1 /\ Total \in Nat /\ Rejected \in Nat /\ Errors \in Nat
      /\ NextSequence \in Nat /\ sent \in 0 .. MaxRequests /\ failed \in Nat
      /\ seen[w] \in 0 .. Word - 1
  BY SizesAssumption
     DEF AInv, AdmissionTypeOK, Counters, Gauge, Total, Rejected, Errors, NextSequence
<1>2. /\ Cardinality(Uncounted) \in Nat /\ Cardinality(Undecided) \in Nat
      /\ Cardinality(Doomed) \in Nat
      /\ Cardinality(Owing) \in Nat /\ Cardinality(OwingTwo) \in Nat
      /\ w \in Uncounted => Cardinality(Uncounted) >= 1
      /\ w \in Doomed => Cardinality(Doomed) >= 1
      /\ w \in Owing => Cardinality(Owing) >= 1
  BY CardMember DEF Uncounted, Undecided, Doomed, Owing, OwingTwo
<1>3. pc[w] \in {"refuse", "count"} => w \in Uncounted
  BY DEF Uncounted
<1>4. pc[w] = "blame" => w \in Doomed
  BY DEF AInv, Accepting, Doomed
<1>5. pc[w] = "stamp" => w \in Owing
  BY DEF Owing
<1>6. pc[w] \in {"refuse", "count"} => Rejected + 1 <= sent /\ Total + 1 <= sent
  BY <1>1, <1>2, <1>3 DEF AInv, RequestCount
<1>7. pc[w] = "blame" => Errors + 1 <= sent
  BY <1>1, <1>2, <1>4 DEF AInv, ErrorCount
<1>8. pc[w] = "stamp" => NextSequence + 1 <= 2 * sent + 1
  BY <1>1, <1>2, <1>5 DEF AInv, SequenceCount
<1>9. /\ pc[w] = "raise" => Gauge < MaxInflight
      /\ pc[w] = "lower" => Gauge > 0
  BY DEF AInv, Undivided
<1> QED  BY <1>1, <1>6, <1>7, <1>8, <1>9, SizesAssumption

\* So the store half of an update changes its counter by exactly one.
LEMMA Exact ==
    ASSUME AInv, NEW w \in Workers
    PROVE  /\ Refuse(w) => counter' = [counter EXCEPT !["rejected_inflight_total"] = @ + 1]
           /\ CountRequest(w) => counter' = [counter EXCEPT !["requests_total"] = @ + 1]
           /\ Raise(w) => counter' = [counter EXCEPT !["requests_inflight"] = @ + 1]
           /\ Lower(w) => counter' = [counter EXCEPT !["requests_inflight"] = @ - 1]
           /\ Stamp(w) => counter' = [counter EXCEPT !["next_request_sequence"] = @ + 1]
           /\ CountError(w) => counter' = [counter EXCEPT !["errors_total"] = @ + 1]
<1>1. /\ Rejected + 1 \in 0 .. Word - 1 => (Rejected + 1) % Word = Rejected + 1
      /\ Total + 1 \in 0 .. Word - 1 => (Total + 1) % Word = Total + 1
      /\ Gauge + 1 \in 0 .. Word - 1 => (Gauge + 1) % Word = Gauge + 1
      /\ Gauge + (-1) \in 0 .. Word - 1 => (Gauge + (-1)) % Word = Gauge + (-1)
      /\ NextSequence + 1 \in 0 .. Word - 1 => (NextSequence + 1) % Word = NextSequence + 1
      /\ Errors + 1 \in 0 .. Word - 1 => (Errors + 1) % Word = Errors + 1
  BY Small
<1>2. Gauge \in Int /\ Gauge - 1 = Gauge + (-1)
  BY DEF AInv, AdmissionTypeOK, Counters, Gauge
<1>3. /\ pc[w] = "refuse" /\ held[w] # Nobody => held[w] = Rejected
      /\ pc[w] = "count" /\ held[w] # Nobody => held[w] = Total
      /\ pc[w] \in {"raise", "lower"} /\ held[w] # Nobody => held[w] = Gauge
      /\ pc[w] = "stamp" /\ held[w] # Nobody => held[w] = NextSequence
      /\ pc[w] = "blame" /\ held[w] # Nobody => held[w] = Errors
  BY Targets DEF AInv, Undivided, Gauge, Total, Rejected, Errors, NextSequence
<1>4. Refuse(w) => counter' = [counter EXCEPT !["rejected_inflight_total"] = @ + 1]
  BY <1>1, <1>3, InRange, Targets DEF Refuse, StoreBack, Rejected
<1>5. CountRequest(w) => counter' = [counter EXCEPT !["requests_total"] = @ + 1]
  BY <1>1, <1>3, InRange, Targets DEF CountRequest, StoreBack, Total
<1>6. Raise(w) => counter' = [counter EXCEPT !["requests_inflight"] = @ + 1]
  BY <1>1, <1>3, InRange, Targets DEF Raise, StoreBack, Gauge
<1>7. Lower(w) => counter' = [counter EXCEPT !["requests_inflight"] = @ - 1]
  BY <1>1, <1>2, <1>3, InRange, Targets DEF Lower, StoreBack, Gauge
<1>8. Stamp(w) => counter' = [counter EXCEPT !["next_request_sequence"] = @ + 1]
  BY <1>1, <1>3, InRange, Targets DEF Stamp, StoreBack, NextSequence
<1>9. CountError(w) => counter' = [counter EXCEPT !["errors_total"] = @ + 1]
  BY <1>1, <1>3, InRange, Targets DEF CountError, StoreBack, Errors
<1> QED  BY <1>4, <1>5, <1>6, <1>7, <1>8, <1>9
-----------------------------------------------------------------------------
(* Each part of the invariant survives every step.                          *)

\* Every step keeps the types.
LEMMA TypeStep ==
    ASSUME AInv, NEW w \in Workers, AdmissionStep(w)
    PROVE  AdmissionTypeOK'
<1>0. AdmissionTypeOK /\ \A n \in Int : n % Word \in 0 .. Word - 1
  BY SizesAssumption DEF AInv
<1> USE <1>0, SizesAssumption, Targets
    DEF AdmissionTypeOK, GoTo, Return, Inside, Places, Counters
<1>1. CASE Arrive(w)
  BY <1>1 DEF Arrive
<1>2. CASE Check(w)
  BY <1>2 DEF Check
<1>3. CASE Load(w)
  <2>1. counter[Target[pc[w]]] \in 0 .. Word - 1 /\ seen[w] \in 0 .. Word - 1
    BY <1>3 DEF Load
  <2> QED  BY <1>3, <2>1 DEF Load
<1>4. CASE Handle(w)
  <2>1. failed + 1 \in 0 .. MaxRequests
    <3>1. w \in Undecided
      BY <1>4 DEF Handle, Undecided, Early
    <3>2. Cardinality(Undecided) \in Nat /\ Cardinality(Undecided) >= 1
      BY <3>1, CardMember DEF Undecided
    <3>3. failed + Cardinality(Undecided) <= sent
      BY DEF AInv, ErrorCount
    <3>4. failed \in 0 .. MaxRequests /\ sent \in 0 .. MaxRequests /\ MaxRequests \in Nat
      OBVIOUS
    <3> QED  BY ONLY <3>2, <3>3, <3>4
  <2> QED  BY <1>4, <2>1 DEF Handle, StampsTaken
<1>11. ASSUME LeaveRelease(w)
      PROVE  pc' \in [Workers -> Places] /\ inside' \in Workers \cup {Nobody}
  BY <1>11 DEF LeaveRelease, AfterRelease
<1>5. CASE Finish(w) \/ FinishUnreleased(w)
  <2>1. CASE Finish(w)
    BY <2>1 DEF Finish
  <2>2. CASE FinishUnreleased(w)
    <3>1. LeaveRelease(w)
      BY <2>2 DEF FinishUnreleased
    <3>2. accepted' \in [Workers -> BOOLEAN]
      BY <2>2 DEF FinishUnreleased
    <3>3. UNCHANGED <<counter, held, seen, isError, stamps, sent, issued, failed>>
      BY <2>2 DEF FinishUnreleased
    <3> QED  BY <1>11, <3>1, <3>2, <3>3
  <2> QED  BY <1>5, <2>1, <2>2
<1>6. ASSUME NEW place \in Updates, NEW delta \in Int, StoreBack(w, place, delta)
      PROVE  /\ counter' \in [Counters -> 0 .. Word - 1]
             /\ held' \in [Workers -> (0 .. Word - 1) \cup {Nobody}]
             /\ held[w] \in 0 .. Word - 1
  <2>1. held[w] \in 0 .. Word - 1
    BY <1>6 DEF StoreBack
  <2>2. held[w] + delta \in Int
    <3>1. Word \in Nat
      OBVIOUS
    <3> QED  BY ONLY <1>6, <2>1, <3>1
  <2>3. (held[w] + delta) % Word \in 0 .. Word - 1
    BY ONLY <1>0, <2>2
  <2>4. counter' \in [Counters -> 0 .. Word - 1]
    BY <1>6, <2>3 DEF StoreBack
  <2>5. held' \in [Workers -> (0 .. Word - 1) \cup {Nobody}]
    BY <1>6 DEF StoreBack
  <2> QED  BY <2>1, <2>4, <2>5
<1>7. CASE Refuse(w) \/ CountRequest(w) \/ Raise(w)
  <2>1. CASE Refuse(w)
    BY <1>6, <2>1 DEF Refuse
  <2>2. CASE CountRequest(w)
    BY <1>6, <2>2 DEF CountRequest
  <2>3. CASE Raise(w)
    BY <1>6, <2>3 DEF Raise
  <2> QED  BY <1>7, <2>1, <2>2, <2>3
<1>8. CASE Stamp(w)
  <2>1. stamps[w] \in {1, 2}
    BY <1>8 DEF AInv, Accepting, Stamp, StoreBack
  <2>2. /\ stamps' \in [Workers -> 0 .. 2]
        /\ pc' \in [Workers -> Places]
        /\ inside' = Nobody
    BY <1>8, <2>1 DEF Stamp
  <2>3. StoreBack(w, "stamp", 1) /\ issued' = issued \cup {held[w]}
    BY <1>8 DEF Stamp
  <2>4. /\ counter' \in [Counters -> 0 .. Word - 1]
        /\ held' \in [Workers -> (0 .. Word - 1) \cup {Nobody}]
        /\ held[w] \in 0 .. Word - 1
    BY ONLY <2>3, <1>6, Targets
  <2>5. UNCHANGED <<seen, accepted, isError, sent, failed>>
    BY <1>8 DEF Stamp
  <2> QED  BY <2>2, <2>3, <2>4, <2>5
<1>9. CASE Lower(w)
  <2>1. StoreBack(w, "lower", -1) /\ LeaveRelease(w)
    BY <1>9 DEF Lower
  <2>2. /\ counter' \in [Counters -> 0 .. Word - 1]
        /\ held' \in [Workers -> (0 .. Word - 1) \cup {Nobody}]
    BY ONLY <2>1, <1>6, Targets
  <2>3. accepted' \in [Workers -> BOOLEAN]
    BY <1>9 DEF Lower
  <2>4. UNCHANGED <<seen, isError, stamps, sent, issued, failed>>
    BY <1>9 DEF Lower
  <2> QED  BY <1>11, <2>1, <2>2, <2>3, <2>4
<1>10. CASE CountError(w)
  BY <1>6, <1>10 DEF CountError
<1> QED  BY <1>1, <1>2, <1>3, <1>4, <1>5, <1>7, <1>8, <1>9, <1>10
   DEF AdmissionStep

\* Only one thread at a time is inside a call; the others have read nothing.
LEMMA UndividedStep ==
    ASSUME AInv, NEW w \in Workers, AdmissionStep(w), Overlapping = FALSE
    PROVE  Undivided'
<1>0. AdmissionTypeOK /\ Undivided /\ Nobody \notin Workers
      /\ \A v \in Workers : seen[v] \in 0 .. Word - 1
  BY WorkersAssumption DEF AInv, AdmissionTypeOK
<1> DEFINE Good(v) ==
             /\ pc[v] \in {"refuse", "count", "raise", "lower"} =>
                   inside = v /\ seen[v] = Gauge
             /\ pc[v] \in {"count", "raise"} => seen[v] < MaxInflight
             /\ pc[v] = "lower" => seen[v] > 0
             /\ held[v] # Nobody =>
                   /\ inside = v
                   /\ pc[v] \in Updates
                   /\ held[v] = counter[Target[pc[v]]]
<1>1. ASSUME NEW v \in Workers, v # w
      PROVE  Good(v)'
  <2>1. pc'[v] = pc[v] /\ held'[v] = held[v] /\ seen'[v] = seen[v]
    BY <1>0, <1>1, OthersKeep
  <2>2. CASE inside = v
    <3>1. Arrive(w) \/ Handle(w)
      BY <1>0, <1>1, <2>2 DEF AdmissionStep, Check, Load, Refuse, CountRequest, Raise, Stamp,
         Finish, FinishUnreleased, Lower, CountError, Inside, StoreBack
    <3>2. counter' = counter /\ inside' = inside
      BY <3>1 DEF Arrive, Handle
    <3> QED  BY <1>0, <2>1, <3>2 DEF Undivided, Gauge
  <2>3. CASE inside # v
    <3>1. pc[v] \notin {"refuse", "count", "raise", "lower"} /\ held[v] = Nobody
      BY <1>0, <2>3 DEF Undivided
    <3> QED  BY <2>1, <3>1
  <2> QED  BY <2>2, <2>3
<1>2. Good(w)'
  <2> USE <1>0, Targets DEF AdmissionTypeOK, GoTo, Return, Inside, StoreBack, Gauge
  <2>1. CASE Arrive(w)
    BY <2>1 DEF Arrive, Undivided
  <2>2. CASE Check(w)
    BY <2>2 DEF Check, Undivided, Admits
  <2>3. CASE Load(w)
    BY <2>3 DEF Load, Undivided
  <2>4. CASE Handle(w)
    BY <2>4 DEF Handle, Undivided
  <2>5. CASE Finish(w)
    <3>1. Gauge \in Nat
      BY DEF Counters
    <3> QED  BY <2>5, <3>1 DEF Finish, Releases, Undivided
  <2>6. CASE FinishUnreleased(w)
    BY <2>6 DEF FinishUnreleased, LeaveRelease, AfterRelease, Undivided
  <2>7. CASE Refuse(w) \/ Raise(w) \/ Stamp(w)
    BY <2>7 DEF Refuse, Raise, Stamp
  <2>8. CASE CountRequest(w)
    <3>1. counter'["requests_inflight"] = counter["requests_inflight"]
      BY <2>8 DEF CountRequest
    <3> QED  BY <2>8, <3>1 DEF CountRequest, Undivided
  <2>9. CASE Lower(w) \/ CountError(w)
    BY <2>9 DEF Lower, CountError, LeaveRelease, AfterRelease
  <2> QED  BY <2>1, <2>2, <2>3, <2>4, <2>5, <2>6, <2>7, <2>8, <2>9 DEF AdmissionStep
<1> QED  BY <1>1, <1>2 DEF Undivided

\* Every step keeps it known, from where a thread is, whether it holds a place.
LEMMA AcceptingStep ==
    ASSUME AInv, NEW w \in Workers, AdmissionStep(w)
    PROVE  Accepting'
<1>0. AdmissionTypeOK /\ Accepting /\ GaugeCount
  BY DEF AInv
<1>1. ASSUME NEW v \in Workers
      PROVE  /\ pc'[v] \in {"idle", "check", "refuse", "count", "raise", "blame"} => ~ accepted'[v]
             /\ pc'[v] = "lower" => accepted'[v]
             /\ pc'[v] = "stamp" => stamps'[v] \in {1, 2}
             /\ pc'[v] = "blame" => isError'[v]
  <2>1. CASE v # w
    BY <1>0, <2>1, OthersKeep DEF Accepting
  <2>2. CASE v = w
    <3> USE <1>0, <2>2 DEF AdmissionTypeOK, Accepting, GoTo, Return, StoreBack
    <3>1. CASE Arrive(w) \/ Check(w) \/ Load(w) \/ Handle(w)
      BY <3>1 DEF Arrive, Check, Load, Handle, StampsTaken
    <3>2. CASE Refuse(w) \/ CountRequest(w) \/ Raise(w) \/ Stamp(w)
      BY <3>2 DEF Refuse, CountRequest, Raise, Stamp
    <3>3. CASE Finish(w) \/ FinishUnreleased(w) \/ Lower(w) \/ CountError(w)
      BY <3>3 DEF Finish, FinishUnreleased, Lower, CountError, LeaveRelease, AfterRelease, Releases
    <3> QED  BY <3>1, <3>2, <3>3 DEF AdmissionStep
  <2> QED  BY <2>1, <2>2
<1> QED  BY <1>1 DEF Accepting

\* What a step does to the counters, by its kind.
LEMMA CounterStep ==
    ASSUME AInv, NEW w \in Workers, AdmissionStep(w)
    PROVE  /\ Gauge' = IF Raise(w) THEN Gauge + 1 ELSE IF Lower(w) THEN Gauge - 1 ELSE Gauge
           /\ Total' = IF CountRequest(w) THEN Total + 1 ELSE Total
           /\ Rejected' = IF Refuse(w) THEN Rejected + 1 ELSE Rejected
           /\ Errors' = IF CountError(w) THEN Errors + 1 ELSE Errors
           /\ NextSequence' = IF Stamp(w) THEN NextSequence + 1 ELSE NextSequence
<1>0. counter \in [Counters -> 0 .. Word - 1]
  BY DEF AInv, AdmissionTypeOK
<1>1. /\ Refuse(w) => pc[w] = "refuse"
      /\ CountRequest(w) => pc[w] = "count"
      /\ Raise(w) => pc[w] = "raise"
      /\ Lower(w) => pc[w] = "lower"
      /\ Stamp(w) => pc[w] = "stamp"
      /\ CountError(w) => pc[w] = "blame"
  BY DEF Refuse, CountRequest, Raise, Lower, Stamp, CountError, StoreBack
<1> USE DEF Gauge, Total, Rejected, Errors, NextSequence, Counters
<1>2. CASE Refuse(w)
  BY <1>0, <1>1, <1>2, Exact
<1>3. CASE CountRequest(w)
  BY <1>0, <1>1, <1>3, Exact
<1>4. CASE Raise(w)
  BY <1>0, <1>1, <1>4, Exact
<1>5. CASE Lower(w)
  BY <1>0, <1>1, <1>5, Exact
<1>6. CASE Stamp(w)
  BY <1>0, <1>1, <1>6, Exact
<1>7. CASE CountError(w)
  BY <1>0, <1>1, <1>7, Exact
<1>8. CASE /\ Arrive(w) \/ Check(w) \/ Load(w) \/ Handle(w) \/ Finish(w) \/ FinishUnreleased(w)
           /\ ~ (Refuse(w) \/ CountRequest(w) \/ Raise(w) \/ Lower(w) \/ Stamp(w) \/ CountError(w))
  <2>1. counter' = counter
    BY <1>8 DEF Arrive, Check, Load, Handle, Finish, FinishUnreleased
  <2> QED  BY <1>8, <2>1
<1> QED  BY <1>2, <1>3, <1>4, <1>5, <1>6, <1>7, <1>8 DEF AdmissionStep

\* The gauge follows the places that are held.
LEMMA GaugeStep ==
    ASSUME AInv, NEW w \in Workers, AdmissionStep(w)
    PROVE  GaugeCount'
<1>0. AdmissionTypeOK /\ Undivided /\ Accepting /\ GaugeCount /\ Gauge \in Nat
  BY DEF AInv, AdmissionTypeOK, Counters, Gauge
<1>1. /\ Cardinality(InService) \in Nat
      /\ Cardinality(InService') \in Nat
      /\ w \in InService /\ w \notin InService' =>
            Cardinality(InService') = Cardinality(InService) - 1
      /\ w \notin InService /\ w \in InService' =>
            Cardinality(InService') = Cardinality(InService) + 1
      /\ (w \in InService <=> w \in InService') =>
            Cardinality(InService') = Cardinality(InService)
  <2>1. InService \in SUBSET Workers /\ InService' \in SUBSET Workers
    BY DEF InService
  <2>2. \A v \in Workers \ {w} : v \in InService <=> v \in InService'
    BY <1>0, OthersKeep DEF InService
  <2> QED  BY <2>1, <2>2, CardChange
<1>2. (w \in InService <=> accepted[w]) /\ (w \in InService' <=> accepted'[w])
  BY DEF InService
<1>3. /\ accepted[w] => Cardinality(InService) >= 1
      /\ Cardinality(InService) = Gauge /\ Gauge <= MaxInflight
  BY <1>0, <1>2, CardMember DEF GaugeCount, InService
<1>4. CASE Raise(w)
  <2>1. pc[w] = "raise" /\ accepted'[w] /\ ~ Lower(w)
    BY <1>0, <1>4 DEF Raise, Lower, StoreBack, AdmissionTypeOK
  <2>2. ~ accepted[w] /\ Gauge < MaxInflight
    BY <1>0, <2>1 DEF Accepting, Undivided
  <2>3. Gauge' = Gauge + 1
    BY <1>4, CounterStep
  <2> QED  BY <1>0, <1>1, <1>2, <1>3, <2>1, <2>2, <2>3, SizesAssumption DEF GaugeCount
<1>5. CASE Lower(w)
  <2>1. pc[w] = "lower" /\ ~ accepted'[w] /\ ~ Raise(w)
    BY <1>0, <1>5 DEF Raise, Lower, StoreBack, AdmissionTypeOK
  <2>2. accepted[w]
    BY <1>0, <2>1 DEF Accepting
  <2>3. Gauge' = Gauge - 1
    BY <1>5, <2>1, CounterStep
  <2> QED  BY <1>0, <1>1, <1>2, <1>3, <2>1, <2>2, <2>3, SizesAssumption DEF GaugeCount
<1>6. CASE ~ Raise(w) /\ ~ Lower(w)
  <2>1. accepted'[w] = accepted[w]
    <3>1. CASE FinishUnreleased(w)
      <4>1. ~ Releases(w) /\ accepted' = [accepted EXCEPT ![w] = FALSE]
        BY <3>1 DEF FinishUnreleased
      <4>2. ~ accepted[w]
        BY <1>0, <1>3, <4>1 DEF Releases, Gauge
      <4> QED  BY <1>0, <4>1, <4>2 DEF AdmissionTypeOK
    <3>2. CASE ~ FinishUnreleased(w)
      BY <1>6, <3>2 DEF AdmissionStep, Arrive, Check, Load, Handle, Finish, Refuse,
         CountRequest, Stamp, CountError
    <3> QED  BY <3>1, <3>2
  <2>2. Gauge' = Gauge
    BY <1>6, CounterStep
  <2> QED  BY <1>1, <1>2, <1>3, <2>1, <2>2 DEF GaugeCount
<1> QED  BY <1>4, <1>5, <1>6

\* Where a step starts and ends, and which requests it brings in.
LEMMA PlaceStep ==
    ASSUME AInv, NEW w \in Workers, AdmissionStep(w)
    PROVE  /\ Arrive(w) => pc[w] = "idle" /\ pc'[w] = "check" /\ sent' = sent + 1
           /\ ~ Arrive(w) => pc[w] # "idle" /\ sent' = sent
           /\ Refuse(w) => pc[w] = "refuse" /\ pc'[w] = "handle"
           /\ CountRequest(w) => pc[w] = "count" /\ pc'[w] = "raise"
           /\ CountError(w) => pc[w] = "blame" /\ pc'[w] = "idle"
           /\ Stamp(w) => /\ pc[w] = "stamp"
                          /\ \/ stamps[w] = 1 /\ pc'[w] = "finish"
                             \/ stamps[w] = 2 /\ pc'[w] = "stamp" /\ stamps'[w] = 1
           /\ ~ (Arrive(w) \/ Refuse(w) \/ CountRequest(w) \/ CountError(w) \/ Stamp(w)) =>
                \/ pc[w] = "check" /\ pc'[w] \in {"count", "refuse"}
                \/ pc[w] = "raise" /\ pc'[w] = "handle" /\ accepted'[w]
                \/ /\ pc[w] = "handle" /\ pc'[w] = "stamp"
                   /\ accepted[w] \/ isError'[w]
                   /\ stamps'[w] \in {1, 2}
                \/ pc[w] = "finish" /\ pc'[w] = "lower" /\ isError'[w] = isError[w]
                \/ /\ pc[w] \in {"finish", "lower"} /\ isError'[w] = isError[w]
                   /\ pc'[w] = IF isError[w] THEN "blame" ELSE "idle"
                \/ pc[w] \in Updates /\ pc'[w] = pc[w] /\ UNCHANGED <<accepted, isError, stamps>>
<1>0. AdmissionTypeOK /\ Accepting
  BY DEF AInv
<1> USE <1>0 DEF AdmissionTypeOK, GoTo, Return, StoreBack
<1>1. CASE Arrive(w)
  BY <1>1 DEF Arrive, Refuse, CountRequest, CountError, Stamp
<1>2. CASE Check(w) \/ Load(w) \/ Handle(w) \/ Finish(w)
  <2>1. ~ Arrive(w) /\ sent' = sent /\ pc[w] # "idle"
    BY <1>2, Targets DEF Arrive, Check, Load, Handle, Finish
  <2>2. ~ (Refuse(w) \/ CountRequest(w) \/ CountError(w) \/ Stamp(w))
    BY <1>2 DEF Refuse, CountRequest, CountError, Stamp, Check, Load, Handle, Finish
  <2>3. CASE Check(w)
    BY <2>1, <2>2, <2>3 DEF Check
  <2>4. CASE Load(w)
    BY <2>1, <2>2, <2>4 DEF Load
  <2>5. CASE Handle(w)
    BY <2>1, <2>2, <2>5 DEF Handle, StampsTaken
  <2>6. CASE Finish(w)
    BY <2>1, <2>2, <2>6 DEF Finish
  <2> QED  BY <1>2, <2>3, <2>4, <2>5, <2>6
<1>3. CASE FinishUnreleased(w) \/ Lower(w) \/ Raise(w)
  <2>1. /\ ~ (Arrive(w) \/ Refuse(w) \/ CountRequest(w) \/ CountError(w) \/ Stamp(w))
        /\ sent' = sent /\ pc[w] # "idle"
    BY <1>3 DEF Arrive, Refuse, CountRequest, CountError, Stamp, FinishUnreleased, Lower, Raise
  <2> QED  BY <1>3, <2>1 DEF FinishUnreleased, Lower, Raise, LeaveRelease, AfterRelease
<1>4. CASE Refuse(w)
  BY <1>4 DEF Refuse, CountRequest, CountError, Stamp, Arrive
<1>5. CASE CountRequest(w)
  BY <1>5 DEF Refuse, CountRequest, CountError, Stamp, Arrive
<1>6. CASE CountError(w)
  BY <1>6 DEF Refuse, CountRequest, CountError, Stamp, Arrive
<1>7. CASE Stamp(w)
  <2>1. pc[w] = "stamp" /\ stamps[w] \in {1, 2}
    BY <1>7 DEF Stamp, Accepting
  <2> QED  BY <1>7, <2>1 DEF Refuse, CountRequest, CountError, Stamp, Arrive
<1> QED  BY <1>1, <1>2, <1>3, <1>4, <1>5, <1>6, <1>7 DEF AdmissionStep

\* Every request is counted once, as admitted or as rejected.
LEMMA RequestStep ==
    ASSUME AInv, NEW w \in Workers, AdmissionStep(w)
    PROVE  RequestCount'
<1>0. /\ AdmissionTypeOK /\ RequestCount
      /\ Total \in Nat /\ Rejected \in Nat /\ sent \in Nat
  BY DEF AInv, AdmissionTypeOK, Counters, Total, Rejected
<1>1. /\ Cardinality(Uncounted) \in Nat
      /\ Cardinality(Uncounted') \in Nat
      /\ w \in Uncounted /\ w \notin Uncounted' =>
            Cardinality(Uncounted') = Cardinality(Uncounted) - 1
      /\ w \notin Uncounted /\ w \in Uncounted' =>
            Cardinality(Uncounted') = Cardinality(Uncounted) + 1
      /\ (w \in Uncounted <=> w \in Uncounted') =>
            Cardinality(Uncounted') = Cardinality(Uncounted)
  <2>1. Uncounted \in SUBSET Workers /\ Uncounted' \in SUBSET Workers
    BY DEF Uncounted
  <2>2. \A v \in Workers \ {w} : v \in Uncounted <=> v \in Uncounted'
    BY <1>0, OthersKeep DEF Uncounted
  <2> QED  BY <2>1, <2>2, CardChange
<1>2. /\ w \in Uncounted <=> pc[w] \in {"check", "refuse", "count"}
      /\ w \in Uncounted' <=> pc'[w] \in {"check", "refuse", "count"}
  BY DEF Uncounted
<1>3. CASE Arrive(w)
  <2>1. ~ CountRequest(w) /\ ~ Refuse(w)
    BY <1>3, PlaceStep
  <2> QED  BY <1>0, <1>1, <1>2, <1>3, <2>1, PlaceStep, CounterStep DEF RequestCount
<1>4. CASE Refuse(w)
  <2>1. ~ CountRequest(w) /\ ~ Arrive(w)
    BY <1>4, PlaceStep
  <2> QED  BY <1>0, <1>1, <1>2, <1>4, <2>1, PlaceStep, CounterStep DEF RequestCount
<1>5. CASE CountRequest(w)
  <2>1. ~ Refuse(w) /\ ~ Arrive(w)
    BY <1>5, PlaceStep
  <2> QED  BY <1>0, <1>1, <1>2, <1>5, <2>1, PlaceStep, CounterStep DEF RequestCount
<1>6. CASE ~ Arrive(w) /\ ~ Refuse(w) /\ ~ CountRequest(w)
  <2>1. w \in Uncounted <=> w \in Uncounted'
    BY <1>2, <1>6, PlaceStep
  <2>2. sent' = sent /\ Total' = Total /\ Rejected' = Rejected
    BY <1>6, PlaceStep, CounterStep
  <2> QED  BY <1>0, <1>1, <2>1, <2>2 DEF RequestCount
<1> QED  BY <1>3, <1>4, <1>5, <1>6

\* A request fails, if it does, in its handler, and there only once.
LEMMA FailStep ==
    ASSUME AInv, NEW w \in Workers, AdmissionStep(w)
    PROVE  /\ Handle(w) =>
                /\ pc[w] = "handle" /\ pc'[w] = "stamp"
                /\ accepted[w] \/ isError'[w]
                /\ failed' = IF isError'[w] THEN failed + 1 ELSE failed
                /\ ~ (Arrive(w) \/ Refuse(w) \/ CountError(w))
           /\ ~ Handle(w) => failed' = failed
           /\ Arrive(w) \/ Refuse(w) => ~ CountError(w)
           /\ Arrive(w) => ~ Refuse(w)
<1>1. isError \in [Workers -> BOOLEAN] /\ pc \in [Workers -> Places]
  BY DEF AInv, AdmissionTypeOK
<1>2. Handle(w) =>
          /\ pc[w] = "handle" /\ pc'[w] = "stamp"
          /\ accepted[w] \/ isError'[w]
          /\ failed' = IF isError'[w] THEN failed + 1 ELSE failed
  BY <1>1 DEF Handle, GoTo
<1>3. ~ Handle(w) => failed' = failed
  BY DEF AdmissionStep, Arrive, Check, Load, Refuse, CountRequest, Raise, Stamp, Finish,
     FinishUnreleased, Lower, CountError
<1>4. /\ Arrive(w) => pc[w] = "idle"
      /\ Refuse(w) => pc[w] = "refuse"
      /\ CountError(w) => pc[w] = "blame"
  BY DEF Arrive, Refuse, CountError, StoreBack
<1> QED  BY <1>2, <1>3, <1>4

\* The errors and those still to be counted are the requests that failed.
LEMMA ErrorStep ==
    ASSUME AInv, NEW w \in Workers, AdmissionStep(w)
    PROVE  ErrorCount'
<1>0. /\ AdmissionTypeOK /\ Accepting /\ ErrorCount
      /\ Errors \in Nat /\ Rejected \in Nat /\ sent \in Nat /\ failed \in Nat
  BY DEF AInv, AdmissionTypeOK, Counters, Errors, Rejected
<1>1. /\ Cardinality(Doomed) \in Nat
      /\ Cardinality(Doomed') \in Nat
      /\ w \in Doomed /\ w \notin Doomed' =>
            Cardinality(Doomed') = Cardinality(Doomed) - 1
      /\ w \notin Doomed /\ w \in Doomed' =>
            Cardinality(Doomed') = Cardinality(Doomed) + 1
      /\ (w \in Doomed <=> w \in Doomed') =>
            Cardinality(Doomed') = Cardinality(Doomed)
  <2>1. Doomed \in SUBSET Workers /\ Doomed' \in SUBSET Workers
    BY DEF Doomed
  <2>2. \A v \in Workers \ {w} : v \in Doomed <=> v \in Doomed'
    BY <1>0, OthersKeep DEF Doomed
  <2> QED  BY <2>1, <2>2, CardChange
<1>2. /\ Cardinality(Undecided) \in Nat
      /\ Cardinality(Undecided') \in Nat
      /\ w \in Undecided /\ w \notin Undecided' =>
            Cardinality(Undecided') = Cardinality(Undecided) - 1
      /\ w \notin Undecided /\ w \in Undecided' =>
            Cardinality(Undecided') = Cardinality(Undecided) + 1
      /\ (w \in Undecided <=> w \in Undecided') =>
            Cardinality(Undecided') = Cardinality(Undecided)
  <2>1. Undecided \in SUBSET Workers /\ Undecided' \in SUBSET Workers
    BY DEF Undecided
  <2>2. \A v \in Workers \ {w} : v \in Undecided <=> v \in Undecided'
    BY <1>0, OthersKeep DEF Undecided
  <2> QED  BY <2>1, <2>2, CardChange
<1>3. /\ Cardinality(Turned) \in Nat
      /\ Cardinality(Turned') \in Nat
      /\ w \in Turned /\ w \notin Turned' =>
            Cardinality(Turned') = Cardinality(Turned) - 1
      /\ w \notin Turned /\ w \in Turned' =>
            Cardinality(Turned') = Cardinality(Turned) + 1
      /\ (w \in Turned <=> w \in Turned') =>
            Cardinality(Turned') = Cardinality(Turned)
  <2>1. Turned \in SUBSET Workers /\ Turned' \in SUBSET Workers
    BY DEF Turned
  <2>2. \A v \in Workers \ {w} : v \in Turned <=> v \in Turned'
    BY <1>0, OthersKeep DEF Turned
  <2> QED  BY <2>1, <2>2, CardChange
<1>4. /\ w \in Doomed <=> pc[w] \in {"stamp", "finish", "lower", "blame"} /\ isError[w]
      /\ w \in Doomed' <=> pc'[w] \in {"stamp", "finish", "lower", "blame"} /\ isError'[w]
      /\ w \in Undecided <=> pc[w] \in {"check", "refuse", "count", "raise", "handle"}
      /\ w \in Undecided' <=> pc'[w] \in {"check", "refuse", "count", "raise", "handle"}
      /\ w \in Turned <=> pc[w] = "handle" /\ ~ accepted[w]
      /\ w \in Turned' <=> pc'[w] = "handle" /\ ~ accepted'[w]
  BY DEF Doomed, Undecided, Turned, Early
<1>5. CASE Arrive(w)
  <2>1. /\ pc[w] = "idle" /\ pc'[w] = "check" /\ sent' = sent + 1
        /\ failed' = failed /\ Errors' = Errors /\ Rejected' = Rejected
    BY <1>5, PlaceStep, FailStep, CounterStep
  <2> QED  BY <1>0, <1>1, <1>2, <1>3, <1>4, <2>1 DEF ErrorCount
<1>6. CASE Refuse(w)
  <2>1. /\ pc[w] = "refuse" /\ pc'[w] = "handle" /\ sent' = sent
        /\ failed' = failed /\ Errors' = Errors /\ Rejected' = Rejected + 1
    BY <1>6, PlaceStep, FailStep, CounterStep
  <2>2. ~ accepted'[w]
    BY <1>0, <1>6, <2>1 DEF Refuse, Accepting
  <2> QED  BY <1>0, <1>1, <1>2, <1>3, <1>4, <2>1, <2>2 DEF ErrorCount
<1>7. CASE Handle(w)
  <2>1. /\ pc[w] = "handle"
        /\ pc'[w] = "stamp"
        /\ accepted[w] \/ isError'[w]
        /\ failed' = IF isError'[w] THEN failed + 1 ELSE failed
        /\ sent' = sent /\ Errors' = Errors /\ Rejected' = Rejected
    BY <1>7, PlaceStep, FailStep, CounterStep
  <2>2. w \notin Doomed /\ w \in Undecided /\ w \notin Undecided' /\ w \notin Turned'
    BY <1>4, <2>1
  <2>5. sent' = sent /\ Errors' = Errors /\ Rejected' = Rejected
    BY <2>1
  <2>3. CASE isError'[w]
    <3>1. w \in Doomed' /\ failed' = failed + 1
      BY <1>4, <2>1, <2>3
    <3>2. /\ Cardinality(Doomed') = Cardinality(Doomed) + 1
          /\ Cardinality(Undecided') = Cardinality(Undecided) - 1
          /\ Cardinality(Turned') + 1 >= Cardinality(Turned)
      BY ONLY <1>1, <1>2, <1>3, <2>2, <3>1
    <3> QED  BY ONLY <1>0, <1>1, <1>2, <1>3, <2>5, <3>1, <3>2 DEF ErrorCount
  <2>4. CASE ~ isError'[w]
    <3>1. w \notin Doomed' /\ w \notin Turned /\ failed' = failed
      BY <1>4, <2>1, <2>4
    <3>2. /\ Cardinality(Doomed') = Cardinality(Doomed)
          /\ Cardinality(Undecided') = Cardinality(Undecided) - 1
          /\ Cardinality(Turned') = Cardinality(Turned)
      BY ONLY <1>1, <1>2, <1>3, <2>2, <3>1
    <3> QED  BY ONLY <1>0, <1>1, <1>2, <1>3, <2>5, <3>1, <3>2 DEF ErrorCount
  <2> QED  BY <2>3, <2>4
<1>8. CASE CountError(w)
  <2>1. /\ pc[w] = "blame" /\ pc'[w] = "idle" /\ sent' = sent
        /\ failed' = failed /\ Errors' = Errors + 1 /\ Rejected' = Rejected
    BY <1>8, PlaceStep, FailStep, CounterStep
  <2>2. isError[w]
    BY <1>0, <2>1 DEF Accepting
  <2> QED  BY <1>0, <1>1, <1>2, <1>3, <1>4, <2>1, <2>2 DEF ErrorCount
<1>9. CASE ~ (Arrive(w) \/ Refuse(w) \/ Handle(w) \/ CountError(w))
  <2>1. sent' = sent /\ failed' = failed /\ Errors' = Errors /\ Rejected' = Rejected
    BY <1>9, PlaceStep, FailStep, CounterStep
  <2>2. /\ w \in Doomed <=> w \in Doomed'
        /\ w \in Undecided <=> w \in Undecided'
        /\ w \in Turned <=> w \in Turned'
    <3>1. CASE CountRequest(w)
      <4>1. pc[w] = "count" /\ pc'[w] = "raise"
        BY <3>1, PlaceStep
      <4> QED  BY <1>4, <4>1
    <3>2. CASE Stamp(w)
      <4>1. pc[w] = "stamp" /\ pc'[w] \in {"stamp", "finish"} /\ isError' = isError
        BY <3>2, PlaceStep DEF Stamp
      <4> QED  BY <1>4, <4>1
    <3>3. CASE ~ CountRequest(w) /\ ~ Stamp(w)
      <4>1. ~ (pc[w] = "handle" /\ pc'[w] = "stamp")
        BY <1>0, <1>9, <3>3 DEF AdmissionStep, Check, Load, Raise, Finish, FinishUnreleased,
           Lower, StoreBack, Updates, Target
      <4> QED  BY <1>4, <1>9, <3>3, <4>1, PlaceStep, Targets
    <3> QED  BY <3>1, <3>2, <3>3
  <2> QED  BY <1>0, <1>1, <1>2, <1>3, <2>1, <2>2 DEF ErrorCount
<1> QED  BY <1>5, <1>6, <1>7, <1>8, <1>9

\* The sequence never runs past what the requests may take, and every number
\* that has been taken lies below it.
LEMMA SequenceStep ==
    ASSUME AInv, NEW w \in Workers, AdmissionStep(w)
    PROVE  SequenceCount'
<1>0. /\ AdmissionTypeOK /\ Undivided /\ SequenceCount
      /\ NextSequence \in Nat /\ sent \in Nat /\ issued \subseteq Nat
  BY SizesAssumption DEF AInv, AdmissionTypeOK, Counters, NextSequence
<1>1. /\ Cardinality(Owing) \in Nat
      /\ Cardinality(Owing') \in Nat
      /\ w \in Owing /\ w \notin Owing' =>
            Cardinality(Owing') = Cardinality(Owing) - 1
      /\ w \notin Owing /\ w \in Owing' =>
            Cardinality(Owing') = Cardinality(Owing) + 1
      /\ (w \in Owing <=> w \in Owing') =>
            Cardinality(Owing') = Cardinality(Owing)
  <2>1. Owing \in SUBSET Workers /\ Owing' \in SUBSET Workers
    BY DEF Owing
  <2>2. \A v \in Workers \ {w} : v \in Owing <=> v \in Owing'
    BY <1>0, OthersKeep DEF Owing
  <2> QED  BY <2>1, <2>2, CardChange
<1>2. /\ Cardinality(OwingTwo) \in Nat
      /\ Cardinality(OwingTwo') \in Nat
      /\ w \in OwingTwo /\ w \notin OwingTwo' =>
            Cardinality(OwingTwo') = Cardinality(OwingTwo) - 1
      /\ w \notin OwingTwo /\ w \in OwingTwo' =>
            Cardinality(OwingTwo') = Cardinality(OwingTwo) + 1
      /\ (w \in OwingTwo <=> w \in OwingTwo') =>
            Cardinality(OwingTwo') = Cardinality(OwingTwo)
  <2>1. OwingTwo \in SUBSET Workers /\ OwingTwo' \in SUBSET Workers
    BY DEF OwingTwo
  <2>2. \A v \in Workers \ {w} : v \in OwingTwo <=> v \in OwingTwo'
    BY <1>0, OthersKeep DEF OwingTwo
  <2> QED  BY <2>1, <2>2, CardChange
<1>3. /\ w \in Owing <=>
            pc[w] \in {"check", "refuse", "count", "raise", "handle", "stamp"}
      /\ w \in Owing' <=>
            pc'[w] \in {"check", "refuse", "count", "raise", "handle", "stamp"}
      /\ w \in OwingTwo <=>
            \/ pc[w] \in {"check", "refuse", "count", "raise", "handle"}
            \/ pc[w] = "stamp" /\ stamps[w] = 2
      /\ w \in OwingTwo' <=>
            \/ pc'[w] \in {"check", "refuse", "count", "raise", "handle"}
            \/ pc'[w] = "stamp" /\ stamps'[w] = 2
  <2>1. /\ \A p : p \in Early \cup {"stamp"} <=>
                p \in {"check", "refuse", "count", "raise", "handle", "stamp"}
        /\ \A p : p \in Early <=> p \in {"check", "refuse", "count", "raise", "handle"}
    BY DEF Early
  <2>2. /\ w \in Owing <=> pc[w] \in Early \cup {"stamp"}
        /\ w \in Owing' <=> pc'[w] \in Early \cup {"stamp"}
    BY DEF Owing
  <2>3. /\ w \in OwingTwo <=> (pc[w] \in Early \/ (pc[w] = "stamp" /\ stamps[w] = 2))
        /\ w \in OwingTwo' <=> (pc'[w] \in Early \/ (pc'[w] = "stamp" /\ stamps'[w] = 2))
    BY DEF OwingTwo
  <2> QED  BY <2>1, <2>2, <2>3
<1>4. CASE Arrive(w)
  <2>1. ~ Stamp(w) /\ issued' = issued
    BY <1>4, PlaceStep DEF Arrive
  <2>2. w \notin Owing /\ w \in Owing' /\ w \notin OwingTwo /\ w \in OwingTwo'
    BY <1>3, <1>4, PlaceStep
  <2> QED  BY <1>0, <1>1, <1>2, <1>4, <2>1, <2>2, PlaceStep, CounterStep DEF SequenceCount
<1>5. CASE Stamp(w)
  <2>1. ~ Arrive(w) /\ issued' = issued \cup {NextSequence}
    <3>1. ~ Arrive(w) /\ pc[w] = "stamp" /\ held[w] # Nobody /\ issued' = issued \cup {held[w]}
      BY <1>5, PlaceStep DEF Stamp, StoreBack
    <3> QED  BY <1>0, <3>1, Targets DEF Undivided, NextSequence
  <2>2. sent' = sent /\ NextSequence' = NextSequence + 1
    BY <1>5, <2>1, PlaceStep, CounterStep
  <2>3. \A n \in issued' : n < NextSequence'
    BY <1>0, <2>1, <2>2 DEF SequenceCount
  <2>4. CASE stamps[w] = 1 /\ pc'[w] = "finish"
    <3>1. w \in Owing /\ w \notin Owing' /\ w \notin OwingTwo /\ w \notin OwingTwo'
      BY <1>3, <1>5, <2>4, PlaceStep
    <3> QED  BY <1>0, <1>1, <1>2, <2>2, <2>3, <3>1 DEF SequenceCount
  <2>5. CASE stamps[w] = 2 /\ pc'[w] = "stamp" /\ stamps'[w] = 1
    <3>1. w \in Owing /\ w \in Owing' /\ w \in OwingTwo /\ w \notin OwingTwo'
      BY <1>3, <1>5, <2>5, PlaceStep
    <3> QED  BY <1>0, <1>1, <1>2, <2>2, <2>3, <3>1 DEF SequenceCount
  <2> QED  BY <1>5, <2>4, <2>5, PlaceStep
<1>6. CASE ~ Arrive(w) /\ ~ Stamp(w)
  <2>1. sent' = sent /\ NextSequence' = NextSequence
    BY <1>6, PlaceStep, CounterStep
  <2>2. issued' = issued
    BY <1>6 DEF AdmissionStep, Check, Load, Refuse, CountRequest, Raise, Handle, Finish,
       FinishUnreleased, Lower, CountError
  <2>3. (w \in Owing' => w \in Owing) /\ (w \in OwingTwo' => w \in OwingTwo)
    <3>1. CASE Refuse(w) \/ CountRequest(w) \/ CountError(w)
      BY <1>3, <3>1, PlaceStep
    <3>2. CASE ~ (Refuse(w) \/ CountRequest(w) \/ CountError(w))
      BY <1>3, <1>6, <3>2, PlaceStep, Targets
    <3> QED  BY <3>1, <3>2
  <2>4. /\ Cardinality(Owing') <= Cardinality(Owing)
        /\ Cardinality(OwingTwo') <= Cardinality(OwingTwo)
    BY <1>1, <1>2, <2>3
  <2> QED  BY <1>0, <1>1, <1>2, <2>1, <2>2, <2>4 DEF SequenceCount
<1> QED  BY <1>4, <1>5, <1>6
-----------------------------------------------------------------------------
(* The invariant of the specification.                                      *)

\* The invariant holds at the start.
LEMMA InitInv == AdmissionInit => AInv
<1> SUFFICES ASSUME AdmissionInit PROVE AInv
  OBVIOUS
<1>1. 2 * MaxRequests + 1 \in Nat /\ 1 \in 0 .. Word - 1 /\ 0 \in 0 .. Word - 1
  BY SizesAssumption
<1>2. AdmissionTypeOK
  BY <1>1, SizesAssumption DEF AdmissionInit, AdmissionTypeOK, Counters, Places
<1>3. Undivided /\ Accepting
  BY DEF AdmissionInit, Undivided, Accepting
<1>4. /\ Gauge = 0 /\ Total = 0 /\ Rejected = 0 /\ Errors = 0 /\ NextSequence = 1
      /\ sent = 0 /\ issued = {} /\ failed = 0
  BY DEF AdmissionInit, Counters, Gauge, Total, Rejected, Errors, NextSequence
<1>5. /\ InService = {} /\ Uncounted = {} /\ Undecided = {} /\ Turned = {} /\ Doomed = {}
      /\ Owing = {} /\ OwingTwo = {}
  BY DEF AdmissionInit, InService, Uncounted, Undecided, Turned, Doomed, Owing, OwingTwo, Early
<1>6. Cardinality({}) = 0
  BY FS_EmptySet
<1> QED  BY <1>2, <1>3, <1>4, <1>5, <1>6, SizesAssumption
         DEF AInv, GaugeCount, RequestCount, ErrorCount, SequenceCount

\* The invariant speaks of the variables only.
LEMMA StutterInv == AInv /\ UNCHANGED admissionVars => AInv'
BY DEF AInv, admissionVars, AdmissionTypeOK, Undivided, Accepting, GaugeCount, RequestCount,
   ErrorCount, SequenceCount, InService, Uncounted, Undecided, Turned, Doomed, Owing, OwingTwo, Gauge,
   Total, Rejected, Errors, NextSequence

\* AdmissionInvariance: with no two calls on AppState overlapping, every
\* reachable state keeps the counters equal to what the threads are doing.
THEOREM AdmissionInvariance ==
    ASSUME Overlapping = FALSE
    PROVE  AdmissionSpec => []AInv
<1>1. AInv /\ [AdmissionNext]_admissionVars => AInv'
  <2> SUFFICES ASSUME AInv, [AdmissionNext]_admissionVars PROVE AInv'
    OBVIOUS
  <2>1. CASE AdmissionNext
    <3>1. PICK w \in Workers : AdmissionStep(w)
      BY <2>1 DEF AdmissionNext
    <3> QED  BY <3>1, TypeStep, UndividedStep, AcceptingStep, GaugeStep, RequestStep, ErrorStep,
                SequenceStep DEF AInv
  <2>2. CASE UNCHANGED admissionVars
    BY <2>2, StutterInv
  <2> QED  BY <2>1, <2>2
<1> QED  BY <1>1, InitInv, PTL DEF AdmissionSpec

\* AdmissionTypeCorrect: every variable of the scopes and of AppState keeps its
\* type.
THEOREM AdmissionTypeCorrect ==
    ASSUME Overlapping = FALSE
    PROVE  AdmissionSpec => []AdmissionTypeOK
<1>1. AInv => AdmissionTypeOK
  BY DEF AInv
<1> QED  BY <1>1, AdmissionInvariance, PTL

\* GaugeExactHolds: between two calls of OnRequestStart and OnRequestEnd the
\* gauge is the number of requests that hold a place, never above max_inflight.
THEOREM GaugeExactHolds ==
    ASSUME Overlapping = FALSE
    PROVE  AdmissionSpec => []GaugeExact
<1>1. AInv => GaugeExact
  BY DEF AInv, GaugeCount, Gauge, GaugeExact
<1> QED  BY <1>1, AdmissionInvariance, PTL

\* IdleAdmitsHolds: OnRequestStart accepts a request when nobody is served, so
\* no sequence of refusals and failures can leave the host answering 429.
THEOREM IdleAdmitsHolds ==
    ASSUME Overlapping = FALSE
    PROVE  AdmissionSpec => []IdleAdmits
<1>1. AInv => IdleAdmits
  <2> SUFFICES ASSUME AInv, \A w \in Workers : pc[w] = "idle", MaxInflight > 0
               PROVE  Admits(counter["requests_inflight"])
    BY DEF IdleAdmits
  <2>1. InService = {}
    BY DEF AInv, Accepting, InService
  <2>2. Gauge = 0
    BY <2>1, FS_EmptySet DEF AInv, GaugeCount
  <2> QED  BY <2>2 DEF Admits, Gauge
<1> QED  BY <1>1, AdmissionInvariance, PTL

\* MetricsAddUpHolds: in a quiet host the totals of /metrics add up to the requests
\* received, and errors_total is exactly the number of requests that failed.
THEOREM MetricsAddUpHolds ==
    ASSUME Overlapping = FALSE
    PROVE  AdmissionSpec => []MetricsAddUp
<1>1. AInv => MetricsAddUp
  <2> SUFFICES ASSUME AInv, \A w \in Workers : pc[w] = "idle"
               PROVE  /\ Total + Rejected = sent
                      /\ Errors = failed
                      /\ Rejected <= failed
    BY DEF MetricsAddUp, Total, Rejected, Errors
  <2>1. Uncounted = {} /\ Doomed = {} /\ Turned = {}
    BY DEF Uncounted, Doomed, Turned
  <2>2. Cardinality({}) = 0
    BY FS_EmptySet
  <2>3. Total \in Nat /\ Rejected \in Nat /\ Errors \in Nat /\ failed \in Nat /\ sent \in Nat
    BY DEF AInv, AdmissionTypeOK, Counters, Total, Rejected, Errors
  <2> QED  BY <2>1, <2>2, <2>3 DEF AInv, RequestCount, ErrorCount
<1> QED  BY <1>1, AdmissionInvariance, PTL

\* CountersNeverWrapHolds: each update of a counter changes it by one, so none
\* wraps around: the `> 0` of OnRequestEnd is never what keeps the gauge up.
THEOREM CountersNeverWrapHolds ==
    ASSUME Overlapping = FALSE
    PROVE  AdmissionSpec => CountersNeverWrap
<1>1. AInv /\ [AdmissionNext]_admissionVars => [CountersMove]_admissionVars
  <2> SUFFICES ASSUME AInv, AdmissionNext
               PROVE  CountersMove
    OBVIOUS
  <2>1. PICK w \in Workers : AdmissionStep(w)
    BY DEF AdmissionNext
  <2>2. /\ Gauge \in Int /\ Total \in Int /\ Rejected \in Int /\ Errors \in Int
        /\ NextSequence \in Int
    BY DEF AInv, AdmissionTypeOK, Counters, Gauge, Total, Rejected, Errors, NextSequence
  <2>3. /\ Gauge' - Gauge \in {-1, 0, 1}
        /\ Total' - Total \in {0, 1}
        /\ Rejected' - Rejected \in {0, 1}
        /\ Errors' - Errors \in {0, 1}
        /\ NextSequence' - NextSequence \in {0, 1}
    BY <2>1, <2>2, CounterStep
  <2> QED  BY <2>3 DEF CountersMove, Counters, Moves, Gauge, Total, Rejected, Errors,
              NextSequence
<1> QED  BY <1>1, AdmissionInvariance, PTL DEF AdmissionSpec, CountersNeverWrap

\* UniqueStampsHolds: NextRequestSequence hands out a number above every number
\* handed out before, so no two responses carry the same one.
THEOREM UniqueStampsHolds ==
    ASSUME Overlapping = FALSE
    PROVE  AdmissionSpec => UniqueStamps
<1>1. AInv /\ [AdmissionNext]_admissionVars => [StampsRise]_admissionVars
  <2> SUFFICES ASSUME AInv, AdmissionNext, NEW w \in Workers, TakesStamp(w)
               PROVE  \A n \in issued : n < held[w]
    BY DEF StampsRise
  <2>1. PICK v \in Workers : AdmissionStep(v)
    BY DEF AdmissionNext
  <2>2. stamps \in [Workers -> 0 .. 2] /\ pc[w] = "stamp" /\ stamps'[w] # stamps[w]
    BY DEF AInv, AdmissionTypeOK, TakesStamp
  <2>3. w = v
    BY <2>1, <2>2, OthersKeep DEF AInv
  <2>4. Stamp(v)
    BY <2>1, <2>2, <2>3 DEF AdmissionStep, Arrive, Check, Load, Refuse, CountRequest, Raise,
       Handle, Finish, FinishUnreleased, Lower, CountError, StoreBack
  <2>5. held[w] = NextSequence
    BY <2>2, <2>3, <2>4, Targets DEF Stamp, StoreBack, AInv, Undivided, NextSequence
  <2> QED  BY <2>5 DEF AInv, SequenceCount
<1> QED  BY <1>1, AdmissionInvariance, PTL DEF AdmissionSpec, UniqueStamps
=============================================================================
