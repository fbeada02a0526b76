-------------------------- MODULE JobServiceProofs --------------------------
(* Proofs about JobService, for any number of workers, any capacity and any *)
(* number of submissions.                                                   *)
EXTENDS JobService, FiniteSetTheorems, TLAPS

\* The table always has room for one job.
LEMMA CapacityPositive == Capacity \in Nat \ {0}
BY MaxJobsAssumption DEF Capacity

\* Under Retention every stored id was given out (job_store.cpp, Create).
LEMMA StoredBelow ==
    ASSUME StoreTypeOK, Retention
    PROVE  \A j \in Stored : j < nextJobId /\ j + Capacity >= nextJobId
BY CapacityPositive DEF StoreTypeOK, Retention

\* What Create does to the order of the table, and which ids it drops.
LEMMA CreateOrder ==
    ASSUME StoreTypeOK, Retention, NEW r, Create(r)
    PROVE  /\ order' \in Seq(Nat \ {0})
           /\ Len(order') = IF nextJobId < Capacity THEN nextJobId ELSE Capacity
           /\ \A i \in 1 .. Len(order') : order'[i] = nextJobId - Len(order') + i
           /\ Stored' = {order'[i] : i \in 1 .. Len(order')}
           /\ nextJobId \in Stored'
           /\ Stored' \subseteq Stored \cup {nextJobId}
<1> DEFINE grown == Append(order, nextJobId)
           e     == Excess(grown)
           gone  == {grown[i] : i \in 1 .. e}
<1>0. Capacity \in Nat \ {0} /\ nextJobId \in Nat \ {0} /\ order \in Seq(Nat \ {0})
  BY CapacityPositive DEF StoreTypeOK
<1>1. /\ grown \in Seq(Nat \ {0})
      /\ Len(grown) = Len(order) + 1
      /\ Len(order) \in Nat
      /\ \A i \in 1 .. Len(grown) :
            grown[i] = IF i = Len(grown) THEN nextJobId ELSE order[i]
  BY <1>0
<1>2. \A i \in 1 .. Len(grown) : grown[i] = nextJobId - Len(grown) + i
  <2> HIDE DEF grown
  <2>1. \A i \in 1 .. Len(order) : order[i] = nextJobId - 1 - Len(order) + i
    BY DEF Retention
  <2>2. ASSUME NEW i \in 1 .. Len(grown), i # Len(grown)
        PROVE  grown[i] = nextJobId - Len(grown) + i
    <3>1. i \in 1 .. Len(order) /\ grown[i] = order[i]
      BY <1>1, <2>2
    <3> QED  BY <1>0, <1>1, <2>1, <3>1
  <2>3. grown[Len(grown)] = nextJobId /\ Len(grown) \in 1 .. Len(grown)
    BY <1>1
  <2> QED  BY <1>0, <1>1, <2>2, <2>3
<1>3. e \in 0 .. 1 /\ Len(grown) - e = IF nextJobId < Capacity THEN nextJobId ELSE Capacity
  BY <1>0, <1>1 DEF Retention, Excess
<1>4. order' = SubSeq(grown, e + 1, Len(grown))
  BY DEF Create
<1>5. /\ order' \in Seq(Nat \ {0})
      /\ Len(order') = Len(grown) - e
      /\ \A i \in 1 .. Len(order') : order'[i] = grown[i + e]
  <2> HIDE DEF grown, e
  <2> QED  BY <1>1, <1>3, <1>4
<1>6. \A i \in 1 .. Len(order') : order'[i] = nextJobId - Len(order') + i
  <2> HIDE DEF grown, e
  <2> QED  BY <1>0, <1>1, <1>2, <1>3, <1>5
<1>7. Stored' = (Stored \cup {nextJobId}) \ gone
  BY DEF Create, Stored
<1>8. Stored \cup {nextJobId} = {grown[i] : i \in 1 .. Len(grown)}
  <2> HIDE DEF grown, e
  <2>1. Len(grown) \in 1 .. Len(grown) /\ grown[Len(grown)] = nextJobId
    BY <1>1
  <2>2. ASSUME NEW i \in 1 .. Len(order)
        PROVE  i \in 1 .. Len(grown) /\ grown[i] = order[i]
    BY <1>1
  <2>3. ASSUME NEW i \in 1 .. Len(grown), i # Len(grown)
        PROVE  i \in 1 .. Len(order) /\ grown[i] = order[i]
    BY <1>1, <2>3
  <2>4. Stored = {order[i] : i \in 1 .. Len(order)}
    BY DEF Retention
  <2> QED  BY <2>1, <2>2, <2>3, <2>4
<1>9. Stored' = {order'[i] : i \in 1 .. Len(order')}
  <2> HIDE DEF grown, e
  <2>1. \A i \in 1 .. Len(grown) : grown[i] \in gone <=> i \in 1 .. e
    BY <1>0, <1>1, <1>2, <1>3
  <2>2. ASSUME NEW i \in 1 .. Len(grown), i \notin 1 .. e
        PROVE  i - e \in 1 .. Len(order') /\ grown[i] = order'[i - e]
    BY <1>1, <1>3, <1>5, <2>2
  <2>3. ASSUME NEW i \in 1 .. Len(order')
        PROVE  i + e \in 1 .. Len(grown) /\ i + e \notin 1 .. e /\ grown[i + e] = order'[i]
    BY <1>1, <1>3, <1>5
  <2>4. Stored' = {grown[i] : i \in 1 .. Len(grown)} \ gone
    BY <1>7, <1>8
  <2> HIDE DEF gone
  <2>5. ASSUME NEW x \in Stored'
        PROVE  \E i \in 1 .. Len(order') : x = order'[i]
    <3>1. PICK i \in 1 .. Len(grown) : x = grown[i] /\ grown[i] \notin gone
      BY <2>4
    <3>2. i - e \in 1 .. Len(order') /\ x = order'[i - e]
      BY <2>1, <2>2, <3>1
    <3> QED  BY <3>2
  <2>6. ASSUME NEW i \in 1 .. Len(order')
        PROVE  order'[i] \in Stored'
    BY <2>1, <2>3, <2>4
  <2> QED  BY <2>5, <2>6
<1>10. nextJobId \in Stored'
  <2> HIDE DEF grown, e
  <2>1. Len(order') \in Nat /\ Len(order') >= 1 /\ order'[Len(order')] = nextJobId
    BY <1>0, <1>1, <1>3, <1>5, <1>6
  <2> QED  BY <1>9, <2>1
<1> QED
  <2> HIDE DEF grown, e
  <2>1. Stored' \subseteq Stored \cup {nextJobId}
    BY <1>7
  <2>2. Len(order') = IF nextJobId < Capacity THEN nextJobId ELSE Capacity
    BY <1>3, <1>5
  <2> QED  BY <1>5, <1>6, <1>9, <1>10, <2>1, <2>2
-----------------------------------------------------------------------------
(* What the operations of the bridge do to the ids it holds.                *)

\* A submit puts one new request in the bridge and duplicates none.
LEMMA SubmitBridge ==
    ASSUME BridgeTypeOK, OnceInBridge, SubmitRequest,
           \A r \in InBridge : r < nextRequestId
    PROVE  /\ BridgeTypeOK'
           /\ OnceInBridge'
           /\ Accepted' = Accepted \cup {nextRequestId}
           /\ Answered' = Answered
<1>1. /\ nextRequestId \in Nat \ {0} /\ pending \in Seq(Nat \ {0})
      /\ ready \in Seq(Nat \ {0})
      /\ pending' = Append(pending, nextRequestId)
      /\ nextRequestId' = nextRequestId + 1 /\ ready' = ready
  BY DEF BridgeTypeOK, SubmitRequest
<1>2. /\ pending' \in Seq(Nat \ {0})
      /\ Len(pending) \in Nat
      /\ Len(pending') = Len(pending) + 1
      /\ pending'[Len(pending) + 1] = nextRequestId
      /\ \A i \in 1 .. Len(pending) : pending'[i] = pending[i]
  BY <1>1
<1>3. Accepted' = Accepted \cup {nextRequestId}
  <2>1. ASSUME NEW x \in Accepted'
        PROVE  x \in Accepted \cup {nextRequestId}
    BY <1>2 DEF Accepted
  <2>2. Accepted \subseteq Accepted'
    BY <1>2 DEF Accepted
  <2>3. nextRequestId \in Accepted'
    BY <1>2 DEF Accepted
  <2> QED  BY <2>1, <2>2, <2>3
<1>4. Answered' = Answered
  BY <1>1 DEF Answered
<1>5. nextRequestId \notin Accepted \cup Answered
  BY <1>1 DEF InBridge
<1>6. Unique(pending')
  <2>1. \A i \in 1 .. Len(pending) : pending[i] \in Accepted
    BY DEF Accepted
  <2> QED  BY <1>2, <1>5, <2>1 DEF Unique, OnceInBridge
<1>7. BridgeTypeOK'
  BY <1>1, <1>2 DEF BridgeTypeOK
<1> QED  BY <1>1, <1>3, <1>4, <1>5, <1>6, <1>7 DEF OnceInBridge

\* A poll moves requests from pending to ready: the bridge holds the same ids.
LEMMA PollBridge ==
    ASSUME BridgeTypeOK, OnceInBridge, Poll
    PROVE  /\ BridgeTypeOK'
           /\ OnceInBridge'
           /\ Accepted' = {}
           /\ Answered' = Answered \cup Accepted
<1>1. /\ nextRequestId \in Nat \ {0} /\ pending \in Seq(Nat \ {0})
      /\ ready \in Seq(Nat \ {0})
      /\ ready' = ready \o pending
      /\ nextRequestId' = nextRequestId /\ pending' = << >>
  BY DEF BridgeTypeOK, Poll
<1>2. /\ ready' \in Seq(Nat \ {0})
      /\ Len(pending) \in Nat /\ Len(ready) \in Nat
      /\ Len(ready') = Len(ready) + Len(pending)
      /\ \A i \in 1 .. Len(ready) : ready'[i] = ready[i]
      /\ \A i \in 1 .. Len(pending) : ready'[Len(ready) + i] = pending[i]
  BY <1>1
<1>3. /\ pending' \in Seq(Nat \ {0}) /\ Len(pending') = 0
      /\ Accepted' = {}
      /\ Unique(pending')
  BY <1>1 DEF Accepted, Unique
<1>4. ASSUME NEW i \in 1 .. Len(ready')
      PROVE  \/ i \in 1 .. Len(ready) /\ ready'[i] = ready[i]
             \/ /\ i - Len(ready) \in 1 .. Len(pending)
                /\ ready'[i] = pending[i - Len(ready)]
  <2>1. CASE i <= Len(ready)
    BY <1>2, <2>1
  <2>2. CASE i > Len(ready)
    <3>1. i - Len(ready) \in 1 .. Len(pending) /\ i = Len(ready) + (i - Len(ready))
      BY <1>2, <2>2
    <3> QED  BY <1>2, <3>1
  <2> QED  BY <1>2, <2>1, <2>2
<1>5. Answered' = Answered \cup Accepted
  <2>1. Answered' \subseteq Answered \cup Accepted
    BY <1>4 DEF Accepted, Answered
  <2>2. Answered \subseteq Answered'
    BY <1>2 DEF Answered
  <2>3. ASSUME NEW i \in 1 .. Len(pending)
        PROVE  pending[i] \in Answered'
    <3>1. Len(ready) + i \in 1 .. Len(ready')
      BY <1>2
    <3> QED  BY <1>2, <3>1 DEF Answered
  <2> QED  BY <2>1, <2>2, <2>3 DEF Accepted
<1>6. Unique(ready')
  <2> SUFFICES ASSUME NEW i \in 1 .. Len(ready'), NEW k \in 1 .. Len(ready'),
                      ready'[i] = ready'[k]
               PROVE  i = k
    BY DEF Unique
  <2>1. \A m \in 1 .. Len(ready), n \in 1 .. Len(pending) : ready[m] # pending[n]
    BY DEF OnceInBridge, Accepted, Answered
  <2>2. CASE i \in 1 .. Len(ready) /\ ready'[i] = ready[i]
    <3>1. k \in 1 .. Len(ready) /\ ready'[k] = ready[k]
      BY <1>4, <2>1, <2>2
    <3> QED  BY <2>2, <3>1 DEF OnceInBridge, Unique
  <2>3. CASE /\ i - Len(ready) \in 1 .. Len(pending)
             /\ ready'[i] = pending[i - Len(ready)]
    <3>1. /\ k - Len(ready) \in 1 .. Len(pending)
          /\ ready'[k] = pending[k - Len(ready)]
      BY <1>4, <2>1, <2>3
    <3>2. i - Len(ready) = k - Len(ready)
      BY <2>3, <3>1 DEF OnceInBridge, Unique
    <3> QED  BY <1>2, <3>2
  <2> QED  BY <1>4, <2>2, <2>3
<1> QED  BY <1>1, <1>2, <1>3, <1>5, <1>6 DEF BridgeTypeOK, OnceInBridge

\* A take removes exactly the request asked for from the ready list.
LEMMA TakeBridge ==
    ASSUME BridgeTypeOK, OnceInBridge, NEW r, TakeReady(r)
    PROVE  /\ BridgeTypeOK'
           /\ OnceInBridge'
           /\ IsReadyFor(r) <=> r \in Answered
           /\ Accepted' = Accepted
           /\ Answered' = Answered \ {r}
<1>1. /\ nextRequestId \in Nat \ {0} /\ pending \in Seq(Nat \ {0})
      /\ ready \in Seq(Nat \ {0})
      /\ nextRequestId' = nextRequestId /\ pending' = pending
  BY DEF BridgeTypeOK, TakeReady
<1>2. IsReadyFor(r) <=> r \in Answered
  BY DEF IsReadyFor, Answered
<1>3. Accepted' = Accepted
  BY <1>1 DEF Accepted
<1>4. CASE ~ IsReadyFor(r)
  <2>1. ready' = ready
    BY <1>4 DEF TakeReady
  <2>2. Answered' = Answered /\ r \notin Answered
    BY <1>2, <1>4, <2>1 DEF Answered
  <2>3. BridgeTypeOK'
    BY <1>1, <2>1 DEF BridgeTypeOK
  <2>4. OnceInBridge'
    BY <1>1, <1>3, <2>1, <2>2 DEF OnceInBridge, Unique
  <2> QED  BY <1>2, <1>3, <2>2, <2>3, <2>4
<1>5. CASE IsReadyFor(r)
  <2> DEFINE First(i) == /\ ready[i] = r
                         /\ \A k \in 1 .. i - 1 : ready[k] # r
             at == CHOOSE i \in 1 .. Len(ready) : First(i)
  <2>1. PICK f \in 1 .. Len(ready) : ready[f] = r
    BY <1>5 DEF IsReadyFor
  <2>2. First(f)
    BY <1>1, <2>1 DEF OnceInBridge, Unique
  <2>3. at \in 1 .. Len(ready) /\ ready[at] = r
    BY <2>2
  <2>4. ready' = SubSeq(ready, 1, at - 1) \o SubSeq(ready, at + 1, Len(ready))
    BY <1>5 DEF TakeReady
  <2> HIDE DEF at
  <2>5. /\ ready' \in Seq(Nat \ {0})
        /\ Len(ready) \in Nat
        /\ Len(ready') = Len(ready) - 1
        /\ \A i \in 1 .. Len(ready') :
              ready'[i] = IF i < at THEN ready[i] ELSE ready[i + 1]
    <3> DEFINE a == SubSeq(ready, 1, at - 1)
               b == SubSeq(ready, at + 1, Len(ready))
    <3>1. /\ a \in Seq(Nat \ {0}) /\ Len(a) = at - 1
          /\ \A i \in 1 .. Len(a) : a[i] = ready[i]
      BY <1>1, <2>3
    <3>2. /\ b \in Seq(Nat \ {0}) /\ Len(b) = Len(ready) - at
          /\ \A i \in 1 .. Len(b) : b[i] = ready[at + i]
      BY <1>1, <2>3
    <3>3. ready' = a \o b
      BY <2>4
    <3> HIDE DEF a, b
    <3>0. a \in Seq(Nat \ {0}) /\ b \in Seq(Nat \ {0}) /\ Len(a) \in Nat /\ Len(b) \in Nat
      BY <3>1, <3>2
    <3>4. /\ a \o b \in Seq(Nat \ {0}) /\ Len(a \o b) = Len(a) + Len(b)
          /\ \A i \in 1 .. Len(a) : (a \o b)[i] = a[i]
          /\ \A i \in 1 .. Len(b) : (a \o b)[Len(a) + i] = b[i]
      BY <3>0
    <3>5. ASSUME NEW i \in 1 .. Len(ready'), ~ (i < at)
          PROVE  ready'[i] = ready[i + 1]
      <4>1. /\ i - (at - 1) \in 1 .. Len(b) /\ i = Len(a) + (i - (at - 1))
            /\ at + (i - (at - 1)) = i + 1
        BY <1>1, <2>3, <3>1, <3>2, <3>3, <3>4, <3>5
      <4> QED  BY <3>2, <3>3, <3>4, <4>1
    <3>6. ASSUME NEW i \in 1 .. Len(ready'), i < at
          PROVE  ready'[i] = ready[i]
      <4>1. i \in 1 .. Len(a)
        BY <2>3, <3>0, <3>1, <3>6
      <4> QED  BY <3>1, <3>3, <3>4, <4>1
    <3>7. ready' \in Seq(Nat \ {0}) /\ Len(ready) \in Nat /\ Len(ready') = Len(ready) - 1
      BY <1>1, <2>3, <3>1, <3>2, <3>3, <3>4
    <3> QED  BY <3>5, <3>6, <3>7
  <2>6. \A i \in 1 .. Len(ready) : ready[i] = r => i = at
    BY <2>3 DEF OnceInBridge, Unique
  <2>7. Answered' \subseteq Answered \ {r}
    <3> SUFFICES ASSUME NEW i \in 1 .. Len(ready')
                 PROVE  ready'[i] \in Answered \ {r}
      BY DEF Answered
    <3>1. CASE i < at
      BY <2>3, <2>5, <2>6, <3>1 DEF Answered
    <3>2. CASE ~ (i < at)
      <4>1. i + 1 \in 1 .. Len(ready) /\ i + 1 # at /\ ready'[i] = ready[i + 1]
        BY <2>3, <2>5, <3>2
      <4> QED  BY <2>6, <4>1 DEF Answered
    <3> QED  BY <3>1, <3>2
  <2>8. Answered \ {r} \subseteq Answered'
    <3> SUFFICES ASSUME NEW i \in 1 .. Len(ready), ready[i] # r
                 PROVE  ready[i] \in Answered'
      BY DEF Answered
    <3>1. CASE i < at
      <4>1. i \in 1 .. Len(ready') /\ ready'[i] = ready[i]
        BY <2>3, <2>5, <3>1
      <4> QED  BY <4>1 DEF Answered
    <3>2. CASE ~ (i < at)
      <4>1. i - 1 \in 1 .. Len(ready') /\ ~ (i - 1 < at) /\ (i - 1) + 1 = i
        BY <2>3, <2>5, <3>2
      <4>2. ready'[i - 1] = ready[i]
        BY <2>5, <4>1
      <4> QED  BY <4>1, <4>2 DEF Answered
    <3> QED  BY <3>1, <3>2
  <2>9. Unique(ready')
    <3> SUFFICES ASSUME NEW i \in 1 .. Len(ready'), NEW k \in 1 .. Len(ready'),
                        ready'[i] = ready'[k]
                 PROVE  i = k
      BY DEF Unique
    <3>1. i \in 1 .. Len(ready) /\ i + 1 \in 1 .. Len(ready)
      BY <2>5
    <3>2. k \in 1 .. Len(ready) /\ k + 1 \in 1 .. Len(ready)
      BY <2>5
    <3>3. \A m, n \in 1 .. Len(ready) : ready[m] = ready[n] => m = n
      BY DEF OnceInBridge, Unique
    <3>4. (IF i < at THEN i ELSE i + 1) = (IF k < at THEN k ELSE k + 1)
      BY <2>5, <3>1, <3>2, <3>3
    <3> QED  BY <2>3, <3>1, <3>2, <3>4
  <2>10. OnceInBridge'
    BY <1>1, <1>3, <2>7, <2>9 DEF OnceInBridge
  <2>11. BridgeTypeOK'
    BY <1>1, <2>5 DEF BridgeTypeOK
  <2> QED  BY <1>2, <1>3, <2>7, <2>8, <2>10, <2>11
<1> QED  BY <1>4, <1>5
-----------------------------------------------------------------------------
(* What a step may do to the store and to the bridge.                       *)

\* The calls that change records leave the table and the keys alone.
StoreKeeps ==
    /\ UNCHANGED <<order, nextJobId, nextTick>>
    /\ Stored' = Stored
    /\ \A j \in Stored :
         /\ jobs'[j].request = jobs[j].request
         /\ jobs'[j].created = jobs[j].created

\* A step of the service creates a job or leaves the shape of the table alone.
LEMMA StoreStep ==
    ASSUME TypeOK, NEW w \in Workers, Step(w), ~ CreateJob(w)
    PROVE  StoreKeeps
<1> USE DEF StoreKeeps, Stored, TypeOK, StoreTypeOK, JobRecord
<1>1. CASE MarkWaiting(w)
  BY <1>1 DEF MarkWaiting, UpdateStatus
<1>2. CASE StoreResult(w)
  BY <1>2 DEF StoreResult, SetResult
<1>3. CASE Collect(w)
  BY <1>3 DEF Collect, TakeResult, Takeable
<1>4. CASE UNCHANGED storeVars
  BY <1>4 DEF storeVars
<1>5. CASE Begin(w)
  BY <1>4, <1>5 DEF Begin, Submit, BeginGet, BeginTake, BeginWait, Arrive
<1>6. CASE /\ Continue(w)
           /\ ~ (MarkWaiting(w) \/ StoreResult(w) \/ Collect(w))
  BY <1>4, <1>6 DEF Continue, PollProvider, LookupMissing, LookupMalformed, Lookup,
     Apply, Fetch, RecheckGet, RecheckWaitDone, RecheckWaitSleep, Reread,
     RecheckTakeTaken, RecheckTake, Respond
<1> QED  BY <1>1, <1>2, <1>3, <1>5, <1>6 DEF Step

\* A created job is new, carries its request, and leaves the others alone.
LEMMA CreateStep ==
    ASSUME TypeOK, Retention, NEW w \in Workers, CreateJob(w)
    PROVE  /\ nextJobId' = nextJobId + 1
           /\ nextTick' = nextTick + 1
           /\ nextJobId \notin Stored
           /\ nextJobId \in Stored'
           /\ Stored' \subseteq Stored \cup {nextJobId}
           /\ jobs'[nextJobId] = NewJob(req[w])
           /\ \A j \in Stored' \ {nextJobId} : j \in Stored /\ jobs'[j] = jobs[j]
<1>1. Create(req[w]) /\ StoreTypeOK
  BY DEF CreateJob, TypeOK
<1>2. nextJobId \in Stored' /\ Stored' \subseteq Stored \cup {nextJobId}
  BY <1>1, CreateOrder
<1>3. \A j \in Stored : j < nextJobId
  BY <1>1 DEF StoreTypeOK, Retention
<1>4. nextJobId \notin Stored
  BY <1>1, <1>3 DEF StoreTypeOK
<1>5. \A j \in Stored' : jobs'[j] = IF j = nextJobId THEN NewJob(req[w]) ELSE jobs[j]
  BY <1>1 DEF Create, Stored
<1> QED  BY <1>1, <1>2, <1>4, <1>5 DEF Create

\* A step keeps every id once in the bridge and brings in none but a new one.
LEMMA BridgeStep ==
    ASSUME TypeOK, OneOwner, Issued, NEW w \in Workers, Step(w)
    PROVE  /\ BridgeTypeOK'
           /\ OnceInBridge'
           /\ Submit(w) => /\ InBridge' = InBridge \cup {nextRequestId}
                           /\ nextRequestId' = nextRequestId + 1
           /\ ~ Submit(w) => nextRequestId' = nextRequestId
           /\ Fetch(w) => /\ InBridge' = InBridge \ (Answered \cap {req[w]})
                          /\ IsReadyFor(req[w]) <=> req[w] \in Answered
           /\ ~ (Submit(w) \/ Fetch(w)) => InBridge' = InBridge
<1>0. BridgeTypeOK /\ OnceInBridge
  BY DEF TypeOK, OneOwner
<1>1. CASE Submit(w)
  <2>1. SubmitRequest /\ ~ Fetch(w)
    BY <1>1 DEF Submit, Fetch
  <2> QED  BY <1>0, <1>1, <2>1, SubmitBridge DEF InBridge, Issued, SubmitRequest
<1>2. CASE PollProvider(w)
  <2>1. Poll /\ ~ Submit(w) /\ ~ Fetch(w)
    BY <1>2 DEF PollProvider, Submit, Fetch
  <2> QED  BY <1>0, <2>1, PollBridge DEF InBridge, Poll
<1>3. CASE Fetch(w)
  <2>1. TakeReady(req[w]) /\ ~ Submit(w)
    BY <1>3 DEF Submit, Fetch
  <2>2. Accepted \cap Answered = {}
    BY <1>0 DEF OnceInBridge
  <2>3. /\ BridgeTypeOK' /\ OnceInBridge'
        /\ IsReadyFor(req[w]) <=> req[w] \in Answered
        /\ Accepted' = Accepted
        /\ Answered' = Answered \ {req[w]}
    BY <1>0, <2>1, TakeBridge
  <2>4. nextRequestId' = nextRequestId
    BY <2>1 DEF TakeReady
  <2>5. InBridge' = InBridge \ (Answered \cap {req[w]})
    BY <2>2, <2>3 DEF InBridge
  <2> QED  BY <1>3, <2>1, <2>3, <2>4, <2>5
<1>4. CASE ~ (Submit(w) \/ PollProvider(w) \/ Fetch(w))
  <2>1. UNCHANGED bridgeVars
    BY <1>4 DEF Step, Begin, Continue, BeginGet, BeginTake, BeginWait, Arrive,
       CreateJob, MarkWaiting, LookupMissing, LookupMalformed, Lookup, Apply,
       StoreResult, RecheckGet, RecheckWaitDone, RecheckWaitSleep, Reread,
       RecheckTakeTaken, RecheckTake, Collect, Respond
  <2>2. BridgeTypeOK' /\ nextRequestId' = nextRequestId
    BY <1>0, <2>1 DEF bridgeVars, BridgeTypeOK
  <2>3. Accepted' = Accepted /\ Answered' = Answered
    BY <2>1 DEF bridgeVars, Accepted, Answered
  <2>4. OnceInBridge'
    BY <1>0, <2>1, <2>3 DEF bridgeVars, OnceInBridge, Unique
  <2> QED  BY <1>4, <2>2, <2>3, <2>4 DEF InBridge
<1> QED  BY <1>1, <1>2, <1>3, <1>4
-----------------------------------------------------------------------------
(* Every step preserves each part of the invariant.                         *)

\* The fields of a stored record have their types.
LEMMA RecordFields ==
    ASSUME StoreTypeOK, NEW j \in Stored
    PROVE  /\ j \in Nat \ {0}
           /\ jobs[j] \in JobRecord
           /\ jobs[j].request \in Nat \ {0}
           /\ jobs[j].status \in Statuses
           /\ jobs[j].result \in Nat
BY DEF StoreTypeOK, JobRecord

\* Replacing one record by another keeps the type of the store.
LEMMA RecordReplaced ==
    ASSUME StoreTypeOK, NEW j \in Stored, NEW r \in JobRecord,
           jobs' = [jobs EXCEPT ![j] = r], UNCHANGED <<order, nextJobId, nextTick>>
    PROVE  StoreTypeOK'
BY DEF StoreTypeOK, Stored

\* What the parser returns fits the type.
LEMMA ParsedNumber ==
    \A raw \in Nat \cup {Absent} : ParseNumericParam(raw) \in 0 .. Word - 1
<1>1. \A n \in Nat : n % Word \in 0 .. Word - 1
  BY WaitAssumption
<1> QED  BY <1>1, WaitAssumption DEF ParseNumericParam

\* A step keeps the types of all variables.
LEMMA TypeStep ==
    ASSUME IInv, NEW w \in Workers, Step(w)
    PROVE  TypeOK'
<1> DEFINE W == /\ pc' \in [Workers -> Places]
                /\ op' \in [Workers -> Routes]
                /\ job' \in [Workers -> Nat]
                /\ req' \in [Workers -> Nat]
                /\ asked' \in [Workers -> Nat \cup {Absent, Malformed}]
                /\ left' \in [Workers -> Nat]
                /\ reply' \in [Workers -> Replies]
                /\ handed' \subseteq Nat \ {0}
                /\ up' \in BOOLEAN
<1>1. /\ pc \in [Workers -> Places]
      /\ op \in [Workers -> Routes]
      /\ job \in [Workers -> Nat]
      /\ req \in [Workers -> Nat]
      /\ asked \in [Workers -> Nat \cup {Absent, Malformed}]
      /\ left \in [Workers -> Nat]
      /\ reply \in [Workers -> Replies]
      /\ handed \subseteq Nat \ {0}
      /\ up \in BOOLEAN
      /\ nextRequestId \in Nat /\ nextJobId \in Nat
      /\ StoreTypeOK /\ BridgeTypeOK
  BY DEF IInv, TypeOK, StoreTypeOK, BridgeTypeOK
<1>2. BridgeTypeOK'
  BY BridgeStep DEF IInv, Bookkeeping
<1>3. StoreTypeOK'
  <2>1. CASE CreateJob(w)
    <3>1. req[w] \in Nat \ {0}
      <4>1. req[w] \in InBridge
        BY <2>1 DEF CreateJob, IInv, Bookkeeping, Creating
      <4>2. InBridge \subseteq Nat \ {0}
        BY <1>1 DEF InBridge, Accepted, Answered, BridgeTypeOK
      <4> QED  BY <4>1, <4>2
    <3>2. order' \in Seq(Nat \ {0})
      BY <1>1, <2>1, CreateOrder DEF CreateJob, IInv
    <3>3. NewJob(req[w]) \in JobRecord
      BY <1>1, <3>1 DEF NewJob, JobRecord, StoreTypeOK, Statuses, NoResult
    <3>4. jobs' \in [Stored' -> JobRecord] /\ Stored' \subseteq Nat \ {0}
      <4>1. jobs' = [j \in Stored' |-> jobs'[j]]
        BY <2>1 DEF CreateJob, Create, Stored
      <4>2. \A j \in Stored' : j \in Nat \ {0} /\ jobs'[j] \in JobRecord
        BY <1>1, <2>1, <3>3, CreateStep DEF IInv, StoreTypeOK
      <4> QED  BY <4>1, <4>2
    <3> QED  BY <1>1, <2>1, <3>2, <3>4, CreateStep DEF IInv, StoreTypeOK
  <2>2. CASE MarkWaiting(w)
    <3>1. UpdateStatus(job[w], "WAITING")
      BY <2>2 DEF MarkWaiting
    <3>2. CASE job[w] \in Stored
      <4> DEFINE r == [jobs[job[w]] EXCEPT !.status = "WAITING"]
      <4>1. r \in JobRecord
        BY <1>1, <3>2, RecordFields DEF JobRecord, Statuses
      <4>2. jobs' = [jobs EXCEPT ![job[w]] = r]
        BY <3>1, <3>2 DEF UpdateStatus
      <4> HIDE DEF r
      <4> QED  BY <1>1, <3>1, <3>2, <4>1, <4>2, RecordReplaced DEF UpdateStatus
    <3>3. CASE job[w] \notin Stored
      BY <1>1, <3>1, <3>3 DEF UpdateStatus, StoreTypeOK, Stored
    <3> QED  BY <3>2, <3>3
  <2>3. CASE StoreResult(w)
    <3>1. SetResult(job[w], req[w], FALSE) /\ req[w] \in Nat
      BY <1>1, <2>3 DEF StoreResult
    <3>2. CASE job[w] \in Stored
      <4> DEFINE r == [jobs[job[w]] EXCEPT !.result = req[w], !.status = "COMPLETE"]
      <4>1. r \in JobRecord
        BY <1>1, <3>1, <3>2, RecordFields DEF JobRecord, Statuses
      <4>2. jobs' = [jobs EXCEPT ![job[w]] = r]
        BY <3>1, <3>2 DEF SetResult
      <4> HIDE DEF r
      <4>3. UNCHANGED <<order, nextJobId, nextTick>>
        BY <3>1 DEF SetResult
      <4>4. StoreTypeOK'
        BY <1>1, <3>2, <4>1, <4>2, <4>3, RecordReplaced
      <4> QED  BY <3>1, <4>4
    <3>3. CASE job[w] \notin Stored
      BY <1>1, <3>1, <3>3 DEF SetResult, StoreTypeOK, Stored
    <3> QED  BY <3>2, <3>3
  <2>4. CASE Collect(w)
    <3>1. TakeResult(job[w])
      BY <2>4 DEF Collect
    <3>2. CASE Takeable(job[w])
      <4> DEFINE r == [jobs[job[w]] EXCEPT !.taken = TRUE]
      <4>1. job[w] \in Stored
        BY <3>2 DEF Takeable
      <4>2. r \in JobRecord
        BY <1>1, <4>1, RecordFields DEF JobRecord
      <4>3. jobs' = [jobs EXCEPT ![job[w]] = r]
        BY <3>1, <3>2 DEF TakeResult
      <4> HIDE DEF r
      <4> QED  BY <1>1, <3>1, <4>1, <4>2, <4>3, RecordReplaced DEF TakeResult
    <3>3. CASE ~ Takeable(job[w])
      BY <1>1, <3>1, <3>3 DEF TakeResult, StoreTypeOK, Stored
    <3> QED  BY <3>2, <3>3
  <2>5. CASE UNCHANGED storeVars
    BY <1>1, <2>5 DEF storeVars, StoreTypeOK, Stored
  <2> QED
    BY <2>1, <2>2, <2>3, <2>4, <2>5 DEF Step, Begin, Continue, Submit, BeginGet, BeginTake,
       BeginWait, Arrive, PollProvider, LookupMissing, LookupMalformed, Lookup, Apply,
       Fetch, RecheckGet, RecheckWaitDone, RecheckWaitSleep, Reread, RecheckTakeTaken,
       RecheckTake, Respond
<1>4. W
  <2> USE <1>1 DEF GoTo, Answer, Places, Routes, Replies, NoJob, NoRequest, JobIds
  <2>1. CASE Submit(w)
    BY <2>1 DEF Submit
  <2>2. CASE CreateJob(w)
    BY <2>2 DEF CreateJob
  <2>3. CASE MarkWaiting(w)
    BY <2>3 DEF MarkWaiting
  <2>4. CASE BeginGet(w)
    BY <2>4 DEF BeginGet, Arrive
  <2>5. CASE BeginTake(w)
    BY <2>5 DEF BeginTake, Arrive
  <2>6. CASE BeginWait(w)
    BY <2>6, WaitAssumption DEF BeginWait, Arrive
  <2>7. CASE PollProvider(w)
    BY <2>7 DEF PollProvider
  <2>8. CASE LookupMissing(w) \/ LookupMalformed(w)
    BY <2>8 DEF LookupMissing, LookupMalformed
  <2>9. CASE Lookup(w)
    <3>1. asked[w] \in Nat \cup {Absent}
      BY <2>9 DEF Lookup
    <3>2. ParseNumericParam(asked[w]) \in 0 .. Word - 1
      BY <3>1, ParsedNumber
    <3>3. EffectiveTimeout(asked[w]) \in Nat
      BY <3>2, WaitAssumption DEF EffectiveTimeout
    <3> QED  BY <2>9, <3>3 DEF Lookup, WaitLoop
  <2>10. CASE Apply(w)
    <3>1. job[w] \in Stored => jobs[job[w]].request \in Nat
      BY RecordFields
    <3> QED  BY <2>10, <3>1 DEF Apply
  <2>11. CASE Fetch(w)
    BY <2>11 DEF Fetch
  <2>12. CASE StoreResult(w)
    BY <2>12 DEF StoreResult
  <2>13. CASE RecheckGet(w) \/ Reread(w)
    <3>1. job[w] \in Stored => jobs[job[w]].status \in Replies
      BY DEF StoreTypeOK, JobRecord
    <3> QED  BY <2>13, <3>1 DEF RecheckGet, Reread, AnswerWithJob, AnswerFromNothing
  <2>14. CASE RecheckWaitDone(w)
    BY <2>14 DEF RecheckWaitDone, IsTerminal, StoreTypeOK, JobRecord
  <2>15. CASE RecheckWaitSleep(w)
    BY <2>15, WaitAssumption DEF RecheckWaitSleep, WaitLoop
  <2>16. CASE RecheckTakeTaken(w) \/ RecheckTake(w)
    BY <2>16 DEF RecheckTakeTaken, RecheckTake
  <2>17. CASE Collect(w)
    <3>1. Takeable(job[w]) => job[w] \in Nat \ {0}
      BY RecordFields DEF Takeable
    <3> QED  BY <2>17, <3>1 DEF Collect
  <2>18. CASE Respond(w)
    BY <2>18 DEF Respond
  <2> QED
    BY <2>1, <2>2, <2>3, <2>4, <2>5, <2>6, <2>7, <2>8, <2>9, <2>10, <2>11, <2>12, <2>13,
       <2>14, <2>15, <2>16, <2>17, <2>18 DEF Step, Begin, Continue
<1> QED  BY <1>2, <1>3, <1>4 DEF TypeOK

\* A step keeps the table at exactly the newest jobs: only Create touches it.
LEMMA RetentionStep ==
    ASSUME IInv, NEW w \in Workers, Step(w)
    PROVE  Retention'
<1>0. TypeOK /\ Retention /\ StoreTypeOK /\ nextJobId \in Nat
  BY DEF IInv, TypeOK, StoreTypeOK
<1>1. CASE CreateJob(w)
  <2>1. Create(req[w])
    BY <1>1 DEF CreateJob
  <2>2. nextJobId' - 1 = nextJobId
    BY <1>0, <1>1, CreateStep
  <2> QED  BY <1>0, <2>1, <2>2, CreateOrder DEF Retention, Capacity
<1>2. CASE ~ CreateJob(w)
  BY <1>0, <1>2, StoreStep DEF StoreKeeps, Retention
<1> QED  BY <1>1, <1>2

\* A step of one worker leaves the locals of the others alone.
LEMMA OthersKeep ==
    ASSUME TypeOK, NEW w \in Workers, Step(w), NEW v \in Workers, v # w
    PROVE  /\ pc'[v] = pc[v] /\ op'[v] = op[v] /\ job'[v] = job[v]
           /\ req'[v] = req[v] /\ reply'[v] = reply[v]
<1> USE DEF TypeOK, GoTo, Answer
<1>1. CASE Begin(w)
  BY <1>1 DEF Begin, Submit, BeginGet, BeginTake, BeginWait, Arrive
<1>2. CASE CreateJob(w) \/ MarkWaiting(w) \/ PollProvider(w) \/ LookupMissing(w)
           \/ LookupMalformed(w) \/ Lookup(w) \/ Respond(w)
  BY <1>2 DEF CreateJob, MarkWaiting, PollProvider, LookupMissing, LookupMalformed,
     Lookup, Respond
<1>3. CASE Apply(w) \/ Fetch(w) \/ StoreResult(w)
  BY <1>3 DEF Apply, Fetch, StoreResult
<1>4. CASE RecheckGet(w) \/ RecheckWaitDone(w) \/ RecheckWaitSleep(w) \/ Reread(w)
  BY <1>4 DEF RecheckGet, RecheckWaitDone, RecheckWaitSleep, Reread, AnswerWithJob,
     AnswerFromNothing
<1>5. CASE RecheckTakeTaken(w) \/ RecheckTake(w) \/ Collect(w)
  BY <1>5 DEF RecheckTakeTaken, RecheckTake, Collect
<1> QED  BY <1>1, <1>2, <1>3, <1>4, <1>5 DEF Step, Continue

\* What a step does to a record that it neither creates nor drops.
LEMMA RecordStep ==
    ASSUME TypeOK, Retention, NEW w \in Workers, Step(w), NEW j \in Stored'
    PROVE  \/ CreateJob(w) /\ j = nextJobId /\ j \notin Stored /\ jobs'[j] = NewJob(req[w])
           \/ /\ j \in Stored
              /\ jobs'[j].request = jobs[j].request
              /\ jobs'[j].created = jobs[j].created
              /\ jobs'[j].result = IF StoreResult(w) /\ j = job[w]
                                     THEN req[w] ELSE jobs[j].result
              /\ jobs'[j].taken = IF Collect(w) /\ j = job[w] /\ Takeable(j)
                                    THEN TRUE ELSE jobs[j].taken
<1>1. CASE CreateJob(w)
  <2>1. ~ StoreResult(w) /\ ~ Collect(w)
    BY <1>1 DEF CreateJob, StoreResult, Collect
  <2> QED  BY <1>1, <2>1, CreateStep
<1>2. CASE ~ CreateJob(w)
  <2>0. /\ j \in Stored /\ jobs[j] \in JobRecord
        /\ jobs'[j].request = jobs[j].request /\ jobs'[j].created = jobs[j].created
    BY <1>2, StoreStep, RecordFields DEF StoreKeeps, TypeOK
  <2>1. CASE MarkWaiting(w)
    <3>1. ~ StoreResult(w) /\ ~ Collect(w)
      BY <2>1 DEF MarkWaiting, StoreResult, Collect
    <3>2. jobs'[j].result = jobs[j].result /\ jobs'[j].taken = jobs[j].taken
      BY <2>0, <2>1 DEF MarkWaiting, UpdateStatus, Stored, TypeOK, StoreTypeOK, JobRecord
    <3> QED  BY <2>0, <3>1, <3>2
  <2>2. CASE StoreResult(w)
    <3>1. ~ Collect(w)
      BY <2>2 DEF StoreResult, Collect
    <3>2. /\ jobs'[j].result = IF j = job[w] THEN req[w] ELSE jobs[j].result
          /\ jobs'[j].taken = jobs[j].taken
      BY <2>0, <2>2 DEF StoreResult, SetResult, Stored, TypeOK, StoreTypeOK, JobRecord
    <3> QED  BY <2>0, <2>2, <3>1, <3>2
  <2>3. CASE Collect(w)
    <3>1. ~ StoreResult(w)
      BY <2>3 DEF StoreResult, Collect
    <3>2. /\ jobs'[j].result = jobs[j].result
          /\ jobs'[j].taken = IF j = job[w] /\ Takeable(j) THEN TRUE ELSE jobs[j].taken
      BY <2>0, <2>3 DEF Collect, TakeResult, Takeable, Stored, TypeOK, StoreTypeOK, JobRecord
    <3> QED  BY <2>0, <2>3, <3>1, <3>2
  <2>4. CASE ~ (MarkWaiting(w) \/ StoreResult(w) \/ Collect(w))
    <3>1. UNCHANGED storeVars
      BY <1>2, <2>4 DEF Step, Begin, Continue, Submit, BeginGet, BeginTake,
         BeginWait, Arrive, PollProvider, LookupMissing, LookupMalformed, Lookup, Apply,
         Fetch, RecheckGet, RecheckWaitDone, RecheckWaitSleep, Reread, RecheckTakeTaken,
         RecheckTake, Respond
    <3> QED  BY <2>0, <2>4, <3>1 DEF storeVars
  <2> QED  BY <2>1, <2>2, <2>3, <2>4
<1> QED  BY <1>1, <1>2

\* A step never gives a request to a second job nor duplicates a result.
LEMMA OneOwnerStep ==
    ASSUME IInv, NEW w \in Workers, Step(w)
    PROVE  OneOwner'
<1>0. TypeOK /\ Retention /\ OneOwner /\ Issued /\ Creating
  BY DEF IInv, Bookkeeping
<1>1. OnceInBridge'
  BY <1>0, BridgeStep
<1>2. ASSUME NEW j \in Stored', NEW k \in Stored', jobs'[j].request = jobs'[k].request
      PROVE  j = k
  <2>1. ASSUME CreateJob(w), NEW i \in Stored
        PROVE  jobs[i].request # req[w]
    BY <1>0, <2>1 DEF CreateJob, Creating
  <2>2. NewJob(req[w]).request = req[w]
    BY DEF NewJob
  <2>3. \A i \in Stored' :
          \/ CreateJob(w) /\ i = nextJobId /\ jobs'[i].request = req[w]
          \/ i \in Stored /\ jobs'[i].request = jobs[i].request
    BY <1>0, <2>2, RecordStep
  <2>4. \A i, m \in Stored : jobs[i].request = jobs[m].request => i = m
    BY <1>0 DEF OneOwner
  <2>5. CASE j \in Stored /\ jobs'[j].request = jobs[j].request
    BY <1>2, <2>1, <2>3, <2>4, <2>5
  <2>6. CASE CreateJob(w) /\ j = nextJobId /\ jobs'[j].request = req[w]
    BY <1>2, <2>1, <2>3, <2>6
  <2> QED  BY <2>3, <2>5, <2>6
<1> QED  BY <1>1, <1>2 DEF OneOwner

\* A step keeps all ids in use below the counters.
LEMMA IssuedStep ==
    ASSUME IInv, NEW w \in Workers, Step(w)
    PROVE  Issued'
<1>0. /\ TypeOK /\ Retention /\ OneOwner /\ Issued /\ Creating
      /\ nextRequestId \in Nat /\ nextJobId \in Nat /\ StoreTypeOK
      /\ \A j \in Stored : jobs[j].request \in Nat /\ j \in Nat
  BY RecordFields DEF IInv, Bookkeeping, TypeOK, StoreTypeOK, BridgeTypeOK
<1>1. \A r \in InBridge' : r < nextRequestId'
  <2>1. InBridge \subseteq Nat
    BY <1>0 DEF InBridge, Accepted, Answered, TypeOK, BridgeTypeOK
  <2>2. \A r \in InBridge : r < nextRequestId
    BY <1>0 DEF Issued
  <2>3. CASE Submit(w)
    <3>1. InBridge' = InBridge \cup {nextRequestId} /\ nextRequestId' = nextRequestId + 1
      BY <1>0, <2>3, BridgeStep
    <3> QED  BY <1>0, <2>1, <2>2, <3>1
  <2>4. CASE ~ Submit(w)
    <3>1. InBridge' \subseteq InBridge /\ nextRequestId' = nextRequestId
      BY <1>0, <2>4, BridgeStep
    <3> QED  BY <2>2, <3>1
  <2> QED  BY <2>3, <2>4
<1>2. nextRequestId' \in {nextRequestId, nextRequestId + 1}
  BY <1>0, BridgeStep
<1>3. /\ nextJobId' \in {nextJobId, nextJobId + 1}
      /\ nextTick' = nextJobId'
  BY <1>0, StoreStep, CreateStep DEF StoreKeeps, Issued
<1>4. ASSUME NEW j \in Stored'
      PROVE  jobs'[j].request < nextRequestId' /\ jobs'[j].created = j
  <2>1. CASE j \in Stored
    <3>1. jobs'[j].request = jobs[j].request /\ jobs'[j].created = jobs[j].created
      BY <1>0, <2>1, RecordStep
    <3>2. jobs[j].request \in Nat /\ jobs[j].request < nextRequestId /\ jobs[j].created = j
      BY <1>0, <2>1 DEF Issued
    <3> QED  BY <1>0, <1>2, <3>1, <3>2
  <2>2. CASE j \notin Stored
    <3>1. CreateJob(w) /\ j = nextJobId /\ jobs'[j] = NewJob(req[w])
      BY <1>0, <2>2, RecordStep
    <3>2. req[w] \in InBridge
      BY <1>0, <3>1 DEF CreateJob, Creating
    <3>3. InBridge \subseteq Nat
      BY <1>0 DEF InBridge, Accepted, Answered, TypeOK, BridgeTypeOK
    <3>4. req[w] \in Nat /\ req[w] < nextRequestId /\ nextTick = nextJobId
      BY <1>0, <3>2, <3>3 DEF Issued
    <3>5. jobs'[j].request = req[w] /\ jobs'[j].created = nextTick
      BY <3>1 DEF NewJob
    <3> QED  BY <1>0, <1>2, <3>1, <3>4, <3>5
  <2> QED  BY <2>1, <2>2
<1>5. \A j \in handed' : j < nextJobId'
  <2>0. handed \subseteq Nat /\ \A j \in handed : j < nextJobId
    BY <1>0 DEF TypeOK, Issued
  <2>1. CASE Collect(w)
    <3>1. \A j \in Stored : j < nextJobId
      BY <1>0, StoredBelow
    <3>2. handed' \subseteq handed \cup Stored
      BY <2>1 DEF Collect, Takeable
    <3> QED  BY <1>0, <1>3, <2>0, <3>1, <3>2
  <2>2. CASE ~ Collect(w)
    <3>1. handed' = handed
      BY <2>2 DEF Step, Begin, Continue, Submit, BeginGet, BeginTake,
         BeginWait, Arrive, CreateJob, MarkWaiting, StoreResult,
         PollProvider, LookupMissing, LookupMalformed, Lookup, Apply,
         Fetch, RecheckGet, RecheckWaitDone, RecheckWaitSleep, Reread, RecheckTakeTaken,
         RecheckTake, Respond
    <3> QED  BY <1>0, <1>3, <2>0, <3>1
  <2> QED  BY <2>1, <2>2
<1> QED  BY <1>1, <1>3, <1>4, <1>5 DEF Issued

\* The record a job starts with (job_store.cpp, Create).
LEMMA NewJobFields ==
    ASSUME NEW r
    PROVE  NewJob(r).request = r /\ NewJob(r).result = NoResult /\ NewJob(r).taken = FALSE
BY DEF NewJob

\* Between Submit and CreateJob nobody else gets to know the request.
LEMMA CreatingStep ==
    ASSUME IInv, NEW w \in Workers, Step(w)
    PROVE  Creating'
<1>0. /\ TypeOK /\ Retention /\ OneOwner /\ Issued /\ Creating /\ Carrying
      /\ nextRequestId \in Nat /\ StoreTypeOK
      /\ pc \in [Workers -> Places] /\ req \in [Workers -> Nat]
  BY DEF IInv, Bookkeeping, TypeOK, StoreTypeOK, BridgeTypeOK
<1>1. ASSUME NEW v \in Workers, pc'[v] = "create", v = w
      PROVE  Submit(w) /\ req'[w] = nextRequestId
  BY <1>0, <1>1 DEF Step, Begin, Continue, Submit, BeginGet, BeginTake, BeginWait, Arrive,
     CreateJob, MarkWaiting, PollProvider, LookupMissing, LookupMalformed, Lookup, Apply,
     Fetch, StoreResult, RecheckGet, RecheckWaitDone, RecheckWaitSleep, Reread,
     RecheckTakeTaken, RecheckTake, Collect, Respond, GoTo, Answer, AnswerWithJob,
     AnswerFromNothing, WaitLoop
<1>2. ASSUME NEW v \in Workers, v # w
      PROVE  pc'[v] = pc[v] /\ req'[v] = req[v]
  BY <1>0, <1>2, OthersKeep
<1>3. ASSUME pc'[w] \in {"fetch", "store"}
      PROVE  \/ pc[w] \in {"fetch", "store"} /\ req'[w] = req[w]
             \/ job[w] \in Stored /\ req'[w] = jobs[job[w]].request
  BY <1>0, <1>3 DEF Step, Begin, Continue, Submit, BeginGet, BeginTake, BeginWait, Arrive,
     CreateJob, MarkWaiting, PollProvider, LookupMissing, LookupMalformed, Lookup, Apply,
     Fetch, StoreResult, RecheckGet, RecheckWaitDone, RecheckWaitSleep, Reread,
     RecheckTakeTaken, RecheckTake, Collect, Respond, GoTo, Answer, AnswerWithJob,
     AnswerFromNothing, WaitLoop
<1>4. \A j \in Stored' :
        \/ CreateJob(w) /\ jobs'[j].request = req[w]
        \/ j \in Stored /\ jobs'[j].request = jobs[j].request
  BY <1>0, RecordStep, NewJobFields
<1>5. ASSUME NEW v \in Workers, pc'[v] = "create", v = w
      PROVE  /\ req'[v] \in InBridge'
             /\ \A j \in Stored' : jobs'[j].request # req'[v]
             /\ \A u \in Workers \ {v} :
                  pc'[u] \in {"create", "fetch", "store"} => req'[u] # req'[v]
  <2>1. Submit(w) /\ req'[w] = nextRequestId
    BY <1>1, <1>5
  <2>2. InBridge' = InBridge \cup {nextRequestId}
    BY <1>0, <2>1, BridgeStep
  <2>3. ~ CreateJob(w)
    BY <2>1 DEF Submit, CreateJob
  <2>4. \A j \in Stored : jobs[j].request # nextRequestId
    BY <1>0 DEF Issued
  <2>5. \A u \in Workers : pc[u] \in {"create", "fetch", "store"} => req[u] # nextRequestId
    <3>1. nextRequestId \notin InBridge
      BY <1>0 DEF Issued
    <3>2. \A u \in Workers : pc[u] = "create" => req[u] # nextRequestId
      BY <1>0, <3>1 DEF Creating
    <3>3. \A u \in Workers : pc[u] \in {"fetch", "store"} => req[u] # nextRequestId
      BY <1>0 DEF Carrying
    <3> QED  BY <3>2, <3>3
  <2> QED  BY <1>2, <1>4, <1>5, <2>1, <2>2, <2>3, <2>4, <2>5
<1>6. ASSUME NEW v \in Workers, pc'[v] = "create", v # w
      PROVE  /\ req'[v] \in InBridge'
             /\ \A j \in Stored' : jobs'[j].request # req'[v]
             /\ \A u \in Workers \ {v} :
                  pc'[u] \in {"create", "fetch", "store"} => req'[u] # req'[v]
  <2>0. /\ pc[v] = "create" /\ req'[v] = req[v]
        /\ req[v] \in InBridge
        /\ \A j \in Stored : jobs[j].request # req[v]
        /\ \A u \in Workers \ {v} :
             pc[u] \in {"create", "fetch", "store"} => req[u] # req[v]
    BY <1>0, <1>2, <1>6 DEF Creating
  <2>1. req[v] \in InBridge'
    <3>1. Fetch(w) => req[w] # req[v]
      BY <1>6, <2>0 DEF Fetch
    <3>2. Submit(w) => InBridge' = InBridge \cup {nextRequestId}
      BY <1>0, BridgeStep
    <3>3. Fetch(w) => InBridge' = InBridge \ (Answered \cap {req[w]})
      BY <1>0, BridgeStep
    <3>4. ~ (Submit(w) \/ Fetch(w)) => InBridge' = InBridge
      BY <1>0, BridgeStep
    <3> QED  BY <2>0, <3>1, <3>2, <3>3, <3>4
  <2>2. CreateJob(w) => req[w] # req[v]
    BY <1>6, <2>0 DEF CreateJob
  <2>3. pc'[w] \in {"create", "fetch", "store"} => req'[w] # req[v]
    <3>1. CASE pc'[w] = "create"
      <4>1. req'[w] = nextRequestId
        BY <1>1, <3>1
      <4>2. nextRequestId \notin InBridge
        BY <1>0 DEF Issued
      <4> QED  BY <2>0, <4>1, <4>2
    <3>2. CASE pc'[w] \in {"fetch", "store"}
      BY <1>3, <1>6, <2>0, <3>2
    <3> QED  BY <3>1, <3>2
  <2> QED  BY <1>2, <1>4, <2>0, <2>1, <2>2, <2>3
<1> QED  BY <1>5, <1>6 DEF Creating

\* A handler inside ApplyProviderResult keeps carrying its own job's request.
LEMMA CarryingStep ==
    ASSUME IInv, NEW w \in Workers, Step(w)
    PROVE  Carrying'
<1>0. /\ TypeOK /\ Retention /\ OneOwner /\ Issued /\ Creating /\ Carrying /\ Known
      /\ nextRequestId \in Nat /\ nextJobId \in Nat /\ StoreTypeOK
      /\ pc \in [Workers -> Places] /\ req \in [Workers -> Nat] /\ job \in [Workers -> Nat]
  BY DEF IInv, Bookkeeping, TypeOK, StoreTypeOK, BridgeTypeOK
<1>a. \A j \in Stored : jobs[j].request \in 1 .. nextRequestId - 1
  <2>1. \A j \in Stored : jobs[j].request \in Nat \ {0}
    BY <1>0, RecordFields
  <2> QED  BY <1>0, <2>1 DEF Issued
<1>1. nextRequestId' \in {nextRequestId, nextRequestId + 1}
  BY <1>0, BridgeStep
<1>2. ASSUME NEW v \in Workers, pc'[v] \in {"fetch", "store"}
      PROVE  /\ job'[v] = job[v]
             /\ job[v] \in 1 .. nextJobId - 1
             /\ req'[v] \in 1 .. nextRequestId - 1
             /\ job[v] \in Stored => jobs[job[v]].request = req'[v]
             /\ \A j \in Stored : jobs[j].request = req'[v] => j = job[v]
  <2>1. CASE v # w
    <3>1. pc'[v] = pc[v] /\ req'[v] = req[v] /\ job'[v] = job[v]
      BY <1>0, <2>1, OthersKeep
    <3> QED  BY <1>0, <1>2, <3>1 DEF Carrying, Known
  <2>2. CASE v = w
    <3>1. \/ Apply(w) /\ job[w] \in Stored
          \/ Fetch(w) /\ req'[w] = req[w]
      BY <1>0, <1>2, <2>2 DEF Step, Begin, Continue, Submit, BeginGet, BeginTake, BeginWait,
         Arrive, CreateJob, MarkWaiting, PollProvider, LookupMissing, LookupMalformed,
         Lookup, Apply, Fetch, StoreResult, RecheckGet, RecheckWaitDone, RecheckWaitSleep,
         Reread, RecheckTakeTaken, RecheckTake, Collect, Respond, GoTo, Answer,
         AnswerWithJob, AnswerFromNothing, WaitLoop
    <3>2. CASE Apply(w) /\ job[w] \in Stored
      <4>1. /\ pc[w] = "apply" /\ job'[w] = job[w]
            /\ req'[w] = jobs[job[w]].request
        BY <1>0, <3>2 DEF Apply
      <4> QED  BY <1>0, <1>a, <2>2, <3>2, <4>1 DEF Known, OneOwner
    <3>3. CASE Fetch(w) /\ req'[w] = req[w]
      <4>1. pc[w] = "fetch" /\ job'[w] = job[w]
        BY <1>0, <3>3 DEF Fetch
      <4> QED  BY <1>0, <2>2, <3>3, <4>1 DEF Carrying, Known
    <3> QED  BY <3>1, <3>2, <3>3
  <2> QED  BY <2>1, <2>2
<1>3. ASSUME NEW v \in Workers, pc'[v] \in {"fetch", "store"}
      PROVE  /\ req'[v] \in 1 .. nextRequestId' - 1
             /\ job'[v] \in Stored' => jobs'[job'[v]].request = req'[v]
             /\ \A j \in Stored' : jobs'[j].request = req'[v] => j = job'[v]
  <2>0. /\ job'[v] = job[v]
        /\ job[v] \in 1 .. nextJobId - 1
        /\ req'[v] \in 1 .. nextRequestId - 1
        /\ job[v] \in Stored => jobs[job[v]].request = req'[v]
        /\ \A j \in Stored : jobs[j].request = req'[v] => j = job[v]
    BY <1>2, <1>3
  <2>1. CASE CreateJob(w)
    <3>1. v # w /\ req'[v] # req[w]
      <4>1. pc[w] = "create" /\ pc'[w] = "mark"
        BY <1>0, <2>1 DEF CreateJob, GoTo
      <4>2. v # w
        BY <1>3, <4>1
      <4>3. pc'[v] = pc[v] /\ req'[v] = req[v]
        BY <1>0, <4>2, OthersKeep
      <4> QED  BY <1>0, <1>3, <4>1, <4>2, <4>3 DEF Creating
    <3>2. /\ jobs'[nextJobId].request = req[w]
          /\ \A j \in Stored' \ {nextJobId} :
               j \in Stored /\ jobs'[j].request = jobs[j].request
      BY <1>0, <2>1, CreateStep, NewJobFields
    <3> QED  BY <1>0, <1>1, <2>0, <3>1, <3>2
  <2>2. CASE ~ CreateJob(w)
    BY <1>0, <1>1, <2>0, <2>2, StoreStep DEF StoreKeeps
  <2> QED  BY <2>1, <2>2
<1> QED  BY <1>3 DEF Carrying

\* Past its lookup, a handler's job stays one that was created.
LEMMA KnownStep ==
    ASSUME IInv, NEW w \in Workers, Step(w)
    PROVE  Known'
<1>0. /\ TypeOK /\ Retention /\ Known /\ StoreTypeOK
      /\ nextJobId \in Nat \ {0}
      /\ pc \in [Workers -> Places] /\ job \in [Workers -> Nat] /\ op \in [Workers -> Routes]
      /\ \A j \in Stored : j \in 1 .. nextJobId - 1
  BY StoredBelow DEF IInv, Bookkeeping, TypeOK, StoreTypeOK
<1> DEFINE Deep(place, route) ==
             \/ place \in {"mark", "apply", "fetch", "store", "recheck", "reread", "collect"}
             \/ place = "poll" /\ route # "get"
<1>1. nextJobId' \in {nextJobId, nextJobId + 1}
  BY <1>0, StoreStep, CreateStep DEF StoreKeeps
<1>2. ASSUME NEW v \in Workers, Deep(pc'[v], op'[v])
      PROVE  job'[v] \in 1 .. nextJobId' - 1
  <2>1. CASE v # w
    <3>1. pc'[v] = pc[v] /\ op'[v] = op[v] /\ job'[v] = job[v]
      BY <1>0, <2>1, OthersKeep
    <3> QED  BY <1>0, <1>1, <1>2, <3>1 DEF Known
  <2>2. CASE v = w
    <3>1. CASE CreateJob(w)
      <4>1. job'[w] = nextJobId /\ nextJobId' = nextJobId + 1
        BY <1>0, <3>1, CreateStep DEF CreateJob
      <4> QED  BY <1>0, <2>2, <4>1
    <3>2. CASE Lookup(w)
      <4>1. job'[w] = job[w] /\ job[w] \in Stored
        BY <3>2 DEF Lookup
      <4> QED  BY <1>0, <1>1, <2>2, <4>1
    <3>3. CASE ~ CreateJob(w) /\ ~ Lookup(w)
      <4>1. job'[w] = job[w] /\ Deep(pc[w], op[w])
        BY <1>0, <1>2, <2>2, <3>3 DEF Step, Begin, Continue, Submit, BeginGet, BeginTake,
           BeginWait, Arrive, MarkWaiting, PollProvider, LookupMissing, LookupMalformed,
           Apply, Fetch, StoreResult, RecheckGet, RecheckWaitDone, RecheckWaitSleep,
           Reread, RecheckTakeTaken, RecheckTake, Collect, Respond, GoTo, Answer,
           AnswerWithJob, AnswerFromNothing, WaitLoop
      <4> QED  BY <1>0, <1>1, <2>2, <4>1 DEF Known
    <3> QED  BY <3>1, <3>2, <3>3
  <2> QED  BY <2>1, <2>2
<1> QED  BY <1>2 DEF Known

\* A step that takes an answer out of the bridge hands it to the right handler,
\* and a step that drops it from a handler stores it in the job.
LEMMA NoLostResultStep ==
    ASSUME IInv, NEW w \in Workers, Step(w)
    PROVE  NoLostResult'
<1>0. /\ TypeOK /\ Retention /\ OneOwner /\ Issued /\ Creating /\ Carrying /\ NoLostResult
      /\ StoreTypeOK /\ nextRequestId \in Nat
      /\ pc \in [Workers -> Places] /\ req \in [Workers -> Nat] /\ job \in [Workers -> Nat]
  BY DEF IInv, Bookkeeping, TypeOK, StoreTypeOK, BridgeTypeOK
<1>1. ASSUME NEW j \in Stored', jobs'[j].result = NoResult
      PROVE  \/ jobs'[j].request \in InBridge'
             \/ \E v \in Workers :
                  pc'[v] = "store" /\ job'[v] = j /\ req'[v] = jobs'[j].request
  <2>1. CASE j \notin Stored
    <3>1. CreateJob(w) /\ jobs'[j].request = req[w]
      BY <1>0, <2>1, RecordStep, NewJobFields
    <3>2. req[w] \in InBridge /\ ~ Submit(w) /\ ~ Fetch(w)
      BY <1>0, <3>1 DEF CreateJob, Submit, Fetch, Creating
    <3>3. InBridge' = InBridge
      BY <1>0, <3>2, BridgeStep
    <3> QED  BY <3>1, <3>2, <3>3
  <2>2. CASE j \in Stored
    <3>1. /\ jobs'[j].request = jobs[j].request
          /\ ~ (StoreResult(w) /\ j = job[w]) => jobs[j].result = NoResult
          /\ StoreResult(w) /\ j = job[w] => req[w] = NoResult
      BY ZenonT(30), <1>0, <1>1, <2>2, RecordStep
    <3>2. ~ (StoreResult(w) /\ j = job[w])
      <4>1. StoreResult(w) => req[w] # NoResult
        BY <1>0 DEF StoreResult, Carrying, NoResult
      <4> QED  BY <3>1, <4>1
    <3>3. CASE jobs[j].request \in InBridge
      <4>1. CASE ~ (Fetch(w) /\ req[w] \in Answered /\ req[w] = jobs[j].request)
        <5>1. Submit(w) => InBridge' = InBridge \cup {nextRequestId}
          BY <1>0, BridgeStep
        <5>2. Fetch(w) => InBridge' = InBridge \ (Answered \cap {req[w]})
          BY <1>0, BridgeStep
        <5>3. ~ (Submit(w) \/ Fetch(w)) => InBridge' = InBridge
          BY <1>0, BridgeStep
        <5>4. jobs[j].request \in InBridge'
          BY <3>3, <4>1, <5>1, <5>2, <5>3
        <5> QED  BY <3>1, <5>4
      <4>2. CASE Fetch(w) /\ req[w] \in Answered /\ req[w] = jobs[j].request
        <5>1. IsReadyFor(req[w])
          BY <1>0, <4>2, BridgeStep
        <5>2. pc'[w] = "store" /\ job'[w] = job[w] /\ req'[w] = req[w]
          BY <1>0, <4>2, <5>1 DEF Fetch, GoTo
        <5>3. j = job[w]
          BY <1>0, <2>2, <4>2 DEF Fetch, Carrying
        <5> QED  BY <3>1, <4>2, <5>2, <5>3
      <4> QED  BY <4>1, <4>2
    <3>4. CASE jobs[j].request \notin InBridge
      <4>1. PICK v \in Workers :
              pc[v] = "store" /\ job[v] = j /\ req[v] = jobs[j].request
        BY <1>0, <2>2, <3>1, <3>2, <3>4 DEF NoLostResult
      <4>2. v # w
        <5>1. pc[w] = "store" => StoreResult(w)
          BY DEF Step, Begin, Continue, Submit, BeginGet, BeginTake, BeginWait,
             Arrive, CreateJob, MarkWaiting, PollProvider, LookupMissing, LookupMalformed,
             Lookup, Apply, Fetch, RecheckGet, RecheckWaitDone, RecheckWaitSleep,
             Reread, RecheckTakeTaken, RecheckTake, Collect, Respond
        <5> QED  BY <3>2, <4>1, <5>1
      <4>3. pc'[v] = pc[v] /\ job'[v] = job[v] /\ req'[v] = req[v]
        BY <1>0, <4>2, OthersKeep
      <4> QED  BY <3>1, <4>1, <4>3
    <3> QED  BY <3>3, <3>4
  <2> QED  BY <2>1, <2>2
<1> QED  BY <1>1 DEF NoLostResult

\* A step stores in a job only the result of that job's request.
LEMMA OwnResultStep ==
    ASSUME IInv, NEW w \in Workers, Step(w)
    PROVE  OwnResult'
<1>0. TypeOK /\ Retention /\ Carrying /\ OwnResult
  BY DEF IInv, Bookkeeping
<1>1. ASSUME NEW j \in Stored'
      PROVE  jobs'[j].result \in {NoResult, jobs'[j].request}
  <2>1. CASE j \notin Stored
    <3>1. jobs'[j] = NewJob(req[w])
      BY <1>0, <2>1, RecordStep
    <3> QED  BY <3>1, NewJobFields
  <2>2. CASE j \in Stored
    <3>1. /\ jobs'[j].request = jobs[j].request
          /\ jobs'[j].result = IF StoreResult(w) /\ j = job[w] THEN req[w] ELSE jobs[j].result
      BY ZenonT(30), <1>0, <2>2, RecordStep
    <3>2. StoreResult(w) /\ j = job[w] => req[w] = jobs[j].request
      BY <1>0, <2>2 DEF StoreResult, Carrying
    <3> QED  BY <1>0, <2>2, <3>1, <3>2 DEF OwnResult
  <2> QED  BY <2>1, <2>2
<1> QED  BY <1>1 DEF OwnResult

\* What a step does to the set of jobs whose result was handed out.
LEMMA HandedStep ==
    ASSUME NEW w \in Workers, Step(w)
    PROVE  handed' = IF Collect(w) /\ Takeable(job[w]) THEN handed \cup {job[w]} ELSE handed
BY DEF Step, Begin, Continue, Submit, BeginGet, BeginTake, BeginWait, Arrive, CreateJob,
   MarkWaiting, PollProvider, LookupMissing, LookupMalformed, Lookup, Apply, Fetch,
   StoreResult, RecheckGet, RecheckWaitDone, RecheckWaitSleep, Reread, RecheckTakeTaken,
   RecheckTake, Collect, Respond

\* A step marks a retained job taken exactly when it hands out its result.
LEMMA TakenStep ==
    ASSUME IInv, NEW w \in Workers, Step(w)
    PROVE  TakenMeansHanded'
<1>0. /\ TypeOK /\ Retention /\ Issued /\ TakenMeansHanded
      /\ \A i \in Stored : jobs[i].taken \in BOOLEAN
  BY DEF IInv, Bookkeeping, TypeOK, StoreTypeOK, JobRecord
<1>1. ASSUME NEW j \in Stored'
      PROVE  jobs'[j].taken <=> j \in handed'
  <2>1. CASE j \notin Stored
    <3>1. CreateJob(w) /\ j = nextJobId /\ jobs'[j] = NewJob(req[w])
      BY <1>0, <2>1, RecordStep
    <3>2. handed' = handed
      BY <3>1, HandedStep DEF CreateJob, Collect
    <3>3. nextJobId \notin handed
      BY <1>0 DEF Issued, TypeOK, StoreTypeOK
    <3> QED  BY <3>1, <3>2, <3>3, NewJobFields
  <2>2. CASE j \in Stored
    <3>1. jobs'[j].taken = IF Collect(w) /\ j = job[w] /\ Takeable(j)
                             THEN TRUE ELSE jobs[j].taken
      BY <1>0, <2>2, RecordStep
    <3>2. jobs[j].taken <=> j \in handed
      BY <1>0, <2>2 DEF TakenMeansHanded
    <3>3. CASE Collect(w) /\ j = job[w] /\ Takeable(j)
      BY <3>1, <3>3, HandedStep
    <3>4. CASE ~ (Collect(w) /\ j = job[w] /\ Takeable(j))
      <4>1. j \in handed' <=> j \in handed
        BY <3>4, HandedStep
      <4>2. jobs'[j].taken = jobs[j].taken
        BY <3>1, <3>4
      <4> QED  BY <3>2, <4>1, <4>2
    <3> QED  BY <3>3, <3>4
  <2> QED  BY <2>1, <2>2
<1> QED  BY <1>1 DEF TakenMeansHanded

\* A step decides on a response only as the last thing of a handler.
LEMMA ReplyingStep ==
    ASSUME IInv, NEW w \in Workers, Step(w)
    PROVE  Replying'
<1>0. /\ TypeOK /\ Replying
      /\ pc \in [Workers -> Places] /\ reply \in [Workers -> Replies]
  BY DEF IInv, Bookkeeping, TypeOK
<1>1. ASSUME NEW v \in Workers, v # w, reply'[v] # "none"
      PROVE  pc'[v] = "respond"
  BY <1>0, <1>1, OthersKeep DEF Replying
<1>2. \/ reply' = reply /\ pc[w] # "respond"
      \/ reply'[w] = "none"
      \/ pc'[w] = "respond"
  BY <1>0 DEF Step, Begin, Continue, Submit, BeginGet, BeginTake, BeginWait, Arrive,
     CreateJob, MarkWaiting, PollProvider, LookupMissing, LookupMalformed, Lookup, Apply,
     Fetch, StoreResult, RecheckGet, RecheckWaitDone, RecheckWaitSleep, Reread,
     RecheckTakeTaken, RecheckTake, Collect, Respond, GoTo, Answer, AnswerWithJob,
     AnswerFromNothing
<1> QED  BY <1>0, <1>1, <1>2 DEF Replying

\* A step that reads an absent record back does so for an evicted job only,
\* and evicted jobs stay evicted.
LEMMA DanglingStep ==
    ASSUME IInv, NEW w \in Workers, Step(w)
    PROVE  DanglingOnlyWhenEvicted'
<1>0. /\ TypeOK /\ Retention /\ Known /\ Replying /\ DanglingOnlyWhenEvicted /\ StoreTypeOK
      /\ nextJobId \in Nat \ {0} /\ job \in [Workers -> Nat] /\ reply \in [Workers -> Replies]
      /\ pc \in [Workers -> Places] /\ Capacity \in Nat \ {0}
  BY CapacityPositive DEF IInv, Bookkeeping, TypeOK, StoreTypeOK
<1>1. nextJobId' \in {nextJobId, nextJobId + 1}
  BY <1>0, StoreStep, CreateStep DEF StoreKeeps
<1>2. ASSUME NEW j \in 1 .. nextJobId - 1, j \notin Stored
      PROVE  j + Capacity < nextJobId
  <2>1. Len(order) \in Nat
    BY <1>0 DEF StoreTypeOK
  <2>2. CASE j > nextJobId - 1 - Len(order)
    <3>1. /\ j - (nextJobId - 1 - Len(order)) \in 1 .. Len(order)
          /\ order[j - (nextJobId - 1 - Len(order))] = j
      BY <1>0, <2>1, <2>2 DEF Retention
    <3> QED  BY <1>0, <1>2, <3>1 DEF Retention
  <2>3. CASE ~ (j > nextJobId - 1 - Len(order))
    BY <1>0, <2>1, <2>3 DEF Retention
  <2> QED  BY <2>2, <2>3
<1>3. ASSUME NEW v \in Workers, reply'[v] = "undefined"
      PROVE  \/ reply[v] = "undefined" /\ job'[v] = job[v]
             \/ /\ (RecheckGet(v) \/ Reread(v)) /\ job'[v] = job[v]
                /\ job[v] \notin Stored
  <2>1. CASE v # w
    BY <1>0, <1>3, <2>1, OthersKeep
  <2>2. CASE v = w
    <3>1. \A j \in Stored : jobs[j].status # "undefined"
      BY <1>0, RecordFields DEF Statuses
    <3>2. CASE RecheckGet(w) \/ Reread(w)
      BY <1>0, <1>3, <2>2, <3>1, <3>2 DEF RecheckGet, Reread, AnswerWithJob,
         AnswerFromNothing, Answer
    <3>3. CASE RecheckWaitDone(w)
      BY <1>0, <1>3, <2>2, <3>1, <3>3 DEF RecheckWaitDone, IsTerminal, Answer
    <3>4. CASE ~ (RecheckGet(w) \/ Reread(w) \/ RecheckWaitDone(w) \/ CreateJob(w)
                    \/ Begin(w))
      BY <1>0, <1>3, <2>2, <3>4 DEF Step, Continue,
         MarkWaiting, PollProvider, LookupMissing, LookupMalformed, Lookup, Apply, Fetch,
         StoreResult, RecheckWaitSleep, RecheckTakeTaken, RecheckTake, Collect, Respond,
         GoTo, Answer
    <3>5. CASE CreateJob(w) \/ Begin(w)
      <4>1. reply[w] = "undefined" => pc[w] = "respond"
        BY <1>0 DEF Replying
      <4> QED  BY <1>0, <1>3, <2>2, <3>5, <4>1 DEF CreateJob, Begin, Submit, BeginGet,
                  BeginTake, BeginWait, Arrive
    <3> QED  BY <3>2, <3>3, <3>4, <3>5
  <2> QED  BY <2>1, <2>2
<1>4. ASSUME NEW v \in Workers, reply'[v] = "undefined"
      PROVE  job'[v] # NoJob /\ job'[v] + Capacity < nextJobId'
  <2>1. CASE reply[v] = "undefined" /\ job'[v] = job[v]
    BY <1>0, <1>1, <2>1 DEF DanglingOnlyWhenEvicted
  <2>2. CASE /\ (RecheckGet(v) \/ Reread(v)) /\ job'[v] = job[v]
             /\ job[v] \notin Stored
    <3>1. job[v] \in 1 .. nextJobId - 1
      BY <1>0, <2>2 DEF RecheckGet, Reread, Known
    <3>2. job[v] + Capacity < nextJobId
      BY <1>2, <2>2, <3>1
    <3> QED  BY <1>0, <1>1, <2>2, <3>1, <3>2 DEF NoJob
  <2> QED  BY <1>3, <1>4, <2>1, <2>2
<1> QED  BY <1>4 DEF DanglingOnlyWhenEvicted, Capacity
-----------------------------------------------------------------------------
\* The initial state satisfies the inductive invariant.
LEMMA InitInv == Init => IInv
<1> SUFFICES ASSUME Init PROVE IInv
  OBVIOUS
<1>1. Stored = {} /\ order = << >> /\ pending = << >> /\ ready = << >>
  BY DEF Init, StoreInit, BridgeInit, Stored
<1>2. Accepted = {} /\ Answered = {}
  BY <1>1 DEF Accepted, Answered
<1>3. StoreTypeOK
  BY <1>1 DEF Init, StoreInit, StoreTypeOK, Stored
<1>4. BridgeTypeOK
  BY DEF Init, BridgeInit, BridgeTypeOK
<1>5. TypeOK
  BY <1>3, <1>4 DEF Init, TypeOK, Places, Routes, Replies, NoJob, NoRequest
<1>6. Retention
  BY <1>1, CapacityPositive DEF Init, StoreInit, Retention
<1>7. OneOwner
  BY <1>1, <1>2 DEF OneOwner, OnceInBridge, Unique
<1>8. Bookkeeping
  BY <1>1, <1>2 DEF Init, StoreInit, Bookkeeping, Issued, Creating, Carrying, Known,
     Replying, InBridge
<1>9. NoLostResult /\ OwnResult /\ TakenMeansHanded
  BY <1>1 DEF NoLostResult, OwnResult, TakenMeansHanded
<1>10. DanglingOnlyWhenEvicted
  BY DEF Init, DanglingOnlyWhenEvicted
<1> QED  BY <1>5, <1>6, <1>7, <1>8, <1>9, <1>10 DEF IInv

\* Every step preserves the inductive invariant: its parts together.
LEMMA InvStep == IInv /\ [Next]_vars => IInv'
<1>1. ASSUME IInv, NEW w \in Workers, Step(w)
      PROVE  IInv'
  <2>1. Bookkeeping'
    BY <1>1, IssuedStep, CreatingStep, CarryingStep, KnownStep, ReplyingStep DEF Bookkeeping
  <2> QED
    BY <1>1, <2>1, TypeStep, RetentionStep, OneOwnerStep, NoLostResultStep, OwnResultStep,
       TakenStep, DanglingStep DEF IInv
<1>2. ASSUME IInv, UNCHANGED vars
      PROVE  IInv'
  <2>1. /\ UNCHANGED storeVars /\ UNCHANGED bridgeVars /\ UNCHANGED workerVars
        /\ UNCHANGED <<handed, up>>
    BY <1>2 DEF vars
  <2>2. Stored' = Stored /\ Accepted' = Accepted /\ Answered' = Answered /\ InBridge' = InBridge
    BY <2>1 DEF storeVars, bridgeVars, Stored, Accepted, Answered, InBridge
  <2>3. TypeOK'
    BY <1>2, <2>1, <2>2 DEF IInv, TypeOK, StoreTypeOK, BridgeTypeOK, storeVars, bridgeVars,
       workerVars
  <2>4. Retention'
    BY <1>2, <2>1, <2>2 DEF IInv, Retention, storeVars
  <2>5. OneOwner'
    BY <1>2, <2>1, <2>2 DEF IInv, OneOwner, OnceInBridge, Unique, storeVars, bridgeVars
  <2>6. Bookkeeping'
    BY <1>2, <2>1, <2>2 DEF IInv, Bookkeeping, Issued, Creating, Carrying, Known, Replying,
       storeVars, bridgeVars, workerVars
  <2>7. NoLostResult' /\ OwnResult' /\ TakenMeansHanded'
    BY <1>2, <2>1, <2>2 DEF IInv, NoLostResult, OwnResult, TakenMeansHanded, storeVars,
       workerVars
  <2>8. DanglingOnlyWhenEvicted'
    BY <1>2, <2>1 DEF IInv, DanglingOnlyWhenEvicted, storeVars, workerVars
  <2> QED  BY <2>3, <2>4, <2>5, <2>6, <2>7, <2>8 DEF IInv
<1> QED  BY <1>1, <1>2 DEF Next

\* The inductive invariant holds in every state of every execution.
THEOREM Invariance == Spec => []IInv
BY InitInv, InvStep, PTL DEF Spec

\* TypeOK: every variable keeps its type.
THEOREM TypeCorrect == Spec => []TypeOK
<1>1. IInv => TypeOK
  BY DEF IInv
<1> QED  BY <1>1, Invariance, PTL

\* The table holds exactly the newest jobs that fit, whatever max_jobs is and
\* however many threads create jobs (job_store.cpp, Create and EvictIfNeeded).
THEOREM RetentionHolds == Spec => []Retention
<1>1. IInv => Retention
  BY DEF IInv
<1> QED  BY <1>1, Invariance, PTL

\* No interleaving of handlers loses the result of a retained job between the
\* bridge and the store (routes.cpp, ApplyProviderResult).
THEOREM NoLostResultHolds == Spec => []NoLostResult
<1>1. IInv => NoLostResult
  BY DEF IInv
<1> QED  BY <1>1, Invariance, PTL

\* No job is ever given the result of another one.
THEOREM OwnResultHolds == Spec => []OwnResult
<1>1. IInv => OwnResult
  BY DEF IInv
<1> QED  BY <1>1, Invariance, PTL

\* A request belongs to one job and is in the bridge at most once.
THEOREM OneOwnerHolds == Spec => []OneOwner
<1>1. IInv => OneOwner
  BY DEF IInv
<1> QED  BY <1>1, Invariance, PTL

\* The taken mark of a retained job says exactly that its result was handed out.
THEOREM TakenMeansHandedHolds == Spec => []TakenMeansHanded
<1>1. IInv => TakenMeansHanded
  BY DEF IInv
<1> QED  BY <1>1, Invariance, PTL

\* The only way to an empty optional is eviction: a handler that dereferences
\* one works on a job that existed and that Capacity newer jobs pushed out.
THEOREM DanglingHolds == Spec => []DanglingOnlyWhenEvicted
<1>1. IInv => DanglingOnlyWhenEvicted
  BY DEF IInv
<1> QED  BY <1>1, Invariance, PTL

\* Bookkeeping: what the handlers in progress rely on, ids and records, holds.
THEOREM BookkeepingHolds == Spec => []Bookkeeping
<1>1. IInv => Bookkeeping
  BY DEF IInv
<1> QED  BY <1>1, Invariance, PTL

\* What a take may answer depends on the record it has just read.
LEMMA TakeAnswers ==
    ASSUME IInv, NEW v \in Workers, Step(v), NEW w \in Workers
    PROVE  /\ Answers(w, "result") => job[w] \notin handed
           /\ Answers(w, "already_taken") => job[w] \in handed
<1>0. /\ TypeOK /\ TakenMeansHanded /\ pc \in [Workers -> Places]
      /\ reply \in [Workers -> Replies]
      /\ \A j \in Stored : jobs[j].status \notin {"result", "already_taken"}
  BY RecordFields DEF IInv, TypeOK, Statuses
<1>1. CASE w # v
  BY <1>0, <1>1, OthersKeep DEF Answers
<1>2. CASE w = v
  <2>1. Answers(w, "result") => Collect(w) /\ Takeable(job[w])
    BY <1>0, <1>2 DEF Answers, Step, Begin, Continue, Submit, BeginGet, BeginTake, BeginWait,
       Arrive, CreateJob, MarkWaiting, PollProvider, LookupMissing, LookupMalformed, Lookup,
       Apply, Fetch, StoreResult, RecheckGet, RecheckWaitDone, RecheckWaitSleep, Reread,
       RecheckTakeTaken, RecheckTake, Collect, Respond, Answer, AnswerWithJob,
       AnswerFromNothing, IsTerminal
  <2>2. Answers(w, "already_taken") => IsTaken(job[w])
    BY <1>0, <1>2 DEF Answers, Step, Begin, Continue, Submit, BeginGet, BeginTake, BeginWait,
       Arrive, CreateJob, MarkWaiting, PollProvider, LookupMissing, LookupMalformed, Lookup,
       Apply, Fetch, StoreResult, RecheckGet, RecheckWaitDone, RecheckWaitSleep, Reread,
       RecheckTakeTaken, RecheckTake, Collect, Respond, Answer, AnswerWithJob,
       AnswerFromNothing, IsTerminal
  <2> QED  BY <1>0, <2>1, <2>2 DEF Takeable, IsTaken, TakenMeansHanded
<1> QED  BY <1>1, <1>2

\* No result is handed out twice, whatever requests race (CONTRACT.md:35).
THEOREM TakeOnceHolds == Spec => TakeOnce
<1>1. IInv /\ [Next]_vars =>
        [\A w \in Workers : Answers(w, "result") => job[w] \notin handed]_vars
  BY TakeAnswers DEF Next
<1> QED  BY <1>1, Invariance, PTL DEF Spec, TakeOnce

\* already_taken is never said of a result that nobody was handed.
THEOREM SaysTakenTrulyHolds == Spec => SaysTakenTruly
<1>1. IInv /\ [Next]_vars =>
        [\A w \in Workers : Answers(w, "already_taken") => job[w] \in handed]_vars
  BY TakeAnswers DEF Next
<1> QED  BY <1>1, Invariance, PTL DEF Spec, SaysTakenTruly
-----------------------------------------------------------------------------
(* What the bridge keeps for nobody, and what a listing answers.            *)

\* Under Retention the table is an interval of ids (job_store.cpp, Create).
LEMMA StoredInterval ==
    TypeOK /\ Retention => /\ Len(order) \in Nat /\ Len(order) < nextJobId
                          /\ Stored = (nextJobId - Len(order)) .. (nextJobId - 1)
<1> SUFFICES ASSUME TypeOK, Retention
             PROVE  /\ Len(order) \in Nat /\ Len(order) < nextJobId
                    /\ Stored = (nextJobId - Len(order)) .. (nextJobId - 1)
  OBVIOUS
<1>0. Len(order) \in Nat /\ nextJobId \in Nat \ {0} /\ Capacity \in Nat \ {0}
  BY CapacityPositive DEF TypeOK, StoreTypeOK
<1>1. Len(order) < nextJobId
  BY <1>0 DEF Retention
<1>2. ASSUME NEW j \in Stored
      PROVE  j \in (nextJobId - Len(order)) .. (nextJobId - 1)
  BY <1>0, <1>1 DEF Retention
<1>3. ASSUME NEW j \in (nextJobId - Len(order)) .. (nextJobId - 1)
      PROVE  j \in Stored
  <2>1. /\ j - (nextJobId - 1 - Len(order)) \in 1 .. Len(order)
        /\ order[j - (nextJobId - 1 - Len(order))] = j
    BY <1>0, <1>1 DEF Retention
  <2> QED  BY <2>1 DEF Retention
<1> QED  BY <1>0, <1>1, <1>2, <1>3

\* A step leaves no request without an owner, unless it creates a job and so
\* drops the oldest one from a full table (job_store.cpp, EvictIfNeeded).
LEMMA OrphansStep ==
    ASSUME IInv, NEW w \in Workers, Step(w), NEW r \in Orphans', r \notin Orphans
    PROVE  /\ CreateJob(w) /\ nextJobId > Capacity
           /\ r = jobs[nextJobId - Len(order)].request
<1>0. /\ TypeOK /\ Retention /\ OneOwner /\ Issued /\ StoreTypeOK
      /\ pc \in [Workers -> Places] /\ req \in [Workers -> Nat]
  BY DEF IInv, Bookkeeping, TypeOK
<1>1. ASSUME NEW v \in Workers, pc[v] = "create", req[v] = r, v # w
      PROVE  FALSE
  BY <1>0, <1>1, OthersKeep DEF Orphans
<1>2. CASE Submit(w)
  <2>1. pc'[w] = "create" /\ req'[w] = nextRequestId /\ pc[w] = "idle"
    BY <1>0, <1>2 DEF Submit, GoTo
  <2>2. r \in InBridge
    BY <1>0, <1>2, <2>1, BridgeStep DEF Orphans
  <2>3. StoreKeeps
    BY <1>0, <1>2, StoreStep DEF Submit, CreateJob
  <2> QED  BY <1>1, <2>1, <2>2, <2>3 DEF Orphans, StoreKeeps
<1>3. CASE ~ Submit(w) /\ ~ CreateJob(w)
  <2>1. r \in InBridge
    BY <1>0, <1>3, BridgeStep DEF Orphans
  <2>2. StoreKeeps
    BY <1>0, <1>3, StoreStep
  <2>3. pc[w] # "create"
    BY <1>3 DEF Step, Begin, Continue, Submit, BeginGet, BeginTake, BeginWait, Arrive,
       MarkWaiting, PollProvider, LookupMissing, LookupMalformed, Lookup, Apply, Fetch,
       StoreResult, RecheckGet, RecheckWaitDone, RecheckWaitSleep, Reread,
       RecheckTakeTaken, RecheckTake, Collect, Respond
  <2> QED  BY <1>1, <2>1, <2>2, <2>3 DEF Orphans, StoreKeeps
<1>4. CASE CreateJob(w)
  <2>1. r \in InBridge
    BY <1>0, <1>4, BridgeStep DEF Orphans, CreateJob, Submit, Fetch
  <2>2. /\ nextJobId \in Stored' /\ jobs'[nextJobId].request = req[w]
        /\ \A j \in Stored' \ {nextJobId} : jobs'[j].request = jobs[j].request
    BY <1>0, <1>4, CreateStep, NewJobFields
  <2>3. r # req[w] /\ \A j \in Stored' : jobs'[j].request # r
    BY <2>2 DEF Orphans
  <2>4. PICK j \in Stored : jobs[j].request = r
    BY <1>1, <2>1, <2>3 DEF Orphans
  <2>5. j \notin Stored'
    <3>1. nextJobId \notin Stored
      BY <1>0, <1>4, CreateStep
    <3> QED  BY <2>2, <2>3, <2>4, <3>1
  <2>6. /\ Len(order) \in Nat /\ nextJobId \in Nat \ {0} /\ Capacity \in Nat \ {0}
        /\ j \in (nextJobId - Len(order)) .. (nextJobId - 1)
        /\ Len(order) = IF nextJobId - 1 < Capacity THEN nextJobId - 1 ELSE Capacity
    BY <1>0, <2>4, StoredInterval, CapacityPositive DEF StoreTypeOK, Retention
  <2>7. /\ Len(order') = IF nextJobId < Capacity THEN nextJobId ELSE Capacity
        /\ \A i \in 1 .. Len(order') : order'[i] = nextJobId - Len(order') + i
        /\ Stored' = {order'[i] : i \in 1 .. Len(order')}
    BY <1>0, <1>4, CreateOrder DEF CreateJob
  <2>8. j > nextJobId - Len(order') => j \in Stored'
    <3> SUFFICES ASSUME j > nextJobId - Len(order')
                 PROVE  j \in Stored'
      OBVIOUS
    <3>1. Len(order') \in Nat /\ j \in Int /\ j < nextJobId
      BY <2>6, <2>7
    <3>2. j - (nextJobId - Len(order')) \in 1 .. Len(order')
      BY <2>6, <3>1
    <3>3. order'[j - (nextJobId - Len(order'))]
            = nextJobId - Len(order') + (j - (nextJobId - Len(order')))
      BY <2>7, <3>2
    <3>4. order'[j - (nextJobId - Len(order'))] = j
      BY <2>6, <3>1, <3>3
    <3> QED  BY <2>7, <3>2, <3>4
  <2>9. nextJobId > Capacity /\ j = nextJobId - Len(order)
    BY <2>5, <2>6, <2>7, <2>8
  <2> QED  BY <1>4, <2>4, <2>9
<1> QED  BY <1>2, <1>3, <1>4

\* Orphans are ids that were given out, so there are finitely many of them.
LEMMA OrphansFinite ==
    ASSUME TypeOK, Issued
    PROVE  IsFiniteSet(Orphans) /\ Cardinality(Orphans) \in Nat
<1>1. nextRequestId \in Nat \ {0} /\ InBridge \subseteq Nat \ {0}
  BY DEF TypeOK, BridgeTypeOK, InBridge, Accepted, Answered
<1>2. ASSUME NEW r \in Orphans
      PROVE  r \in 1 .. nextRequestId
  <2>1. r \in InBridge
    BY DEF Orphans
  <2>2. r \in Nat \ {0} /\ r < nextRequestId
    BY <1>1, <2>1 DEF Issued
  <2> QED  BY <1>1, <2>2
<1>3. IsFiniteSet(1 .. nextRequestId)
  BY <1>1, FS_Interval
<1>4. IsFiniteSet(Orphans)
  BY <1>2, <1>3, FS_Subset
<1> QED  BY <1>4, FS_CardinalityType

\* A step adds an orphan only when it evicts a job.
LEMMA OrphansCount ==
    ASSUME IInv, IInv', OrphansOnlyByEviction, NEW w \in Workers, Step(w)
    PROVE  OrphansOnlyByEviction'
<1>0. /\ TypeOK /\ Retention /\ Issued /\ nextJobId \in Nat \ {0}
      /\ Len(order) \in Nat /\ Capacity \in Nat \ {0}
  BY CapacityPositive DEF IInv, Bookkeeping, TypeOK, StoreTypeOK
<1>1. /\ IsFiniteSet(Orphans) /\ Cardinality(Orphans) \in Nat
      /\ Cardinality(Orphans) <= nextJobId - 1 - Len(order)
  BY <1>0, OrphansFinite DEF OrphansOnlyByEviction
<1>2. CASE CreateJob(w) /\ nextJobId > Capacity
  <2> DEFINE lost == jobs[nextJobId - Len(order)].request
  <2>1. Orphans' \subseteq Orphans \cup {lost}
    BY OrphansStep
  <2> HIDE DEF lost
  <2>2. /\ IsFiniteSet(Orphans \cup {lost})
        /\ Cardinality(Orphans \cup {lost}) \in Nat
        /\ Cardinality(Orphans \cup {lost}) <= Cardinality(Orphans) + 1
    <3>1. /\ IsFiniteSet(Orphans \cup {lost})
          /\ \/ Cardinality(Orphans \cup {lost}) = Cardinality(Orphans)
             \/ Cardinality(Orphans \cup {lost}) = Cardinality(Orphans) + 1
      BY <1>1, FS_AddElement
    <3> QED  BY <1>1, <3>1
  <2>3. Cardinality(Orphans') \in Nat /\ Cardinality(Orphans') <= Cardinality(Orphans) + 1
    <3>1. /\ IsFiniteSet(Orphans')
          /\ Cardinality(Orphans') <= Cardinality(Orphans \cup {lost})
      BY <2>1, <2>2, FS_Subset
    <3>2. Cardinality(Orphans') \in Nat
      BY <3>1, FS_CardinalityType
    <3> QED  BY <1>1, <2>2, <3>1, <3>2
  <2>4. nextJobId' = nextJobId + 1 /\ Len(order') = Len(order)
    <3>1. Len(order') = Capacity
      BY <1>0, <1>2, CreateOrder DEF CreateJob, TypeOK
    <3>2. Len(order) = Capacity
      BY <1>0, <1>2 DEF Retention
    <3> QED  BY <1>0, <1>2, <3>1, <3>2, CreateStep
  <2> QED  BY <1>0, <1>1, <2>3, <2>4 DEF OrphansOnlyByEviction
<1>3. CASE ~ (CreateJob(w) /\ nextJobId > Capacity)
  <2>1. Orphans' \subseteq Orphans
    BY <1>3, OrphansStep
  <2>2. Cardinality(Orphans') <= Cardinality(Orphans) /\ Cardinality(Orphans') \in Nat
    BY <1>1, <2>1, FS_Subset, FS_CardinalityType
  <2>3. nextJobId' - 1 - Len(order') = nextJobId - 1 - Len(order)
    <3>1. CASE CreateJob(w)
      <4>1. nextJobId' = nextJobId + 1
        BY <1>0, <3>1, CreateStep
      <4>2. Create(req[w]) /\ StoreTypeOK
        BY <1>0, <3>1 DEF CreateJob, TypeOK
      <4>3. Len(order') = IF nextJobId < Capacity THEN nextJobId ELSE Capacity
        BY <1>0, <4>2, CreateOrder
      <4>4. Len(order') = nextJobId
        BY <1>0, <1>3, <3>1, <4>3
      <4>5. Len(order) = nextJobId - 1
        BY <1>0, <1>3, <3>1 DEF Retention
      <4> QED  BY <1>0, <4>1, <4>4, <4>5
    <3>2. CASE ~ CreateJob(w)
      BY <1>0, <3>2, StoreStep DEF StoreKeeps
    <3> QED  BY <3>1, <3>2
  <2> QED  BY <1>0, <1>1, <2>2, <2>3 DEF OrphansOnlyByEviction
<1> QED  BY <1>2, <1>3

\* What piles up in the bridge for ever is at most one request for every job
\* that was evicted, however many handlers run (provider_bridge.cpp, ready_).
THEOREM OrphansHolds == Spec => []OrphansOnlyByEviction
<1>1. Init => OrphansOnlyByEviction
  <2> SUFFICES ASSUME Init PROVE OrphansOnlyByEviction
    OBVIOUS
  <2>1. order = << >> /\ nextJobId = 1 /\ pending = << >> /\ ready = << >>
    BY DEF Init, StoreInit, BridgeInit
  <2>2. Orphans = {}
    BY <2>1 DEF Orphans, InBridge, Accepted, Answered
  <2> QED  BY <2>1, <2>2, FS_EmptySet DEF OrphansOnlyByEviction
<1>2. IInv /\ IInv' /\ OrphansOnlyByEviction /\ [Next]_vars => OrphansOnlyByEviction'
  <2>1. IInv /\ IInv' /\ OrphansOnlyByEviction /\ Next => OrphansOnlyByEviction'
    BY OrphansCount DEF Next
  <2>2. OrphansOnlyByEviction /\ UNCHANGED vars => OrphansOnlyByEviction'
    <3> SUFFICES ASSUME OrphansOnlyByEviction, UNCHANGED vars
                 PROVE  OrphansOnlyByEviction'
      OBVIOUS
    <3>1. Orphans' = Orphans /\ order' = order /\ nextJobId' = nextJobId
      BY DEF vars, storeVars, bridgeVars, workerVars, Orphans, InBridge, Accepted, Answered,
         Stored
    <3> QED  BY <3>1 DEF OrphansOnlyByEviction
  <2> QED  BY <2>1, <2>2
<1> QED  BY <1>1, <1>2, Invariance, PTL DEF Spec

\* How many numbers there are from one to another.
LEMMA CountInterval ==
    ASSUME NEW a \in Nat, NEW b \in Nat, a <= b + 1
    PROVE  Cardinality(a .. b) = b + 1 - a
<1>1. a \in Int /\ b \in Int
  OBVIOUS
<1>2. Cardinality(a .. b) = IF a > b THEN 0 ELSE b - a + 1
  BY <1>1, FS_Interval, Zenon
<1>3. CASE a > b
  <2>1. Cardinality(a .. b) = 0
    BY <1>2, <1>3, Zenon
  <2>2. b + 1 - a = 0
    BY <1>3
  <2> QED  BY <2>1, <2>2, Zenon
<1>4. CASE ~(a > b)
  <2>1. Cardinality(a .. b) = b - a + 1
    BY <1>2, <1>4, Zenon
  <2>2. b - a + 1 = b + 1 - a
    OBVIOUS
  <2> QED  BY <2>1, <2>2, Zenon
<1> QED  BY <1>3, <1>4, Zenon

\* A listing of any length: as many jobs as there are up to the limit, the n-th
\* of them the n-th newest (job_store.cpp, ListRecent).
LEMMA Listing ==
    ASSUME TypeOK, Retention, NEW limit \in Nat
    PROVE  /\ Len(ListRecent(limit)) = IF limit < Len(order) THEN limit ELSE Len(order)
           /\ Len(ListRecent(limit)) \in Nat
           /\ \A n \in 1 .. Len(ListRecent(limit)) : ListRecent(limit)[n] = nextJobId - n
<1> DEFINE L == Len(order)
           upTo == IF limit < L THEN limit ELSE L
<1>0. L \in Nat /\ nextJobId \in Nat \ {0}
  BY DEF TypeOK, StoreTypeOK
<1>1. Held = 1 .. L
  BY DEF Held, Retention
<1>2. ListLength(limit) = upTo /\ upTo \in Nat
  <2>1. Cardinality(1 .. L) = L
    <3>1. 1 <= L + 1 /\ L + 1 - 1 = L
      BY <1>0
    <3> HIDE DEF L
    <3> QED  BY <1>0, <3>1, CountInterval
  <2> QED  BY <1>0, <1>1, <2>1 DEF ListLength
<1>3. ASSUME NEW n \in 1 .. L
      PROVE  (CHOOSE i \in Held : Cardinality({k \in Held : k >= i}) = n) = L + 1 - n
  <2>1. ASSUME NEW i \in 1 .. L
        PROVE  Cardinality({k \in Held : k >= i}) = L + 1 - i
    <3>1. {k \in Held : k >= i} = i .. L
      BY <1>0, <1>1
    <3>2. Cardinality(i .. L) = L + 1 - i
      <4>1. i \in Nat /\ i <= L + 1
        BY <1>0
      <4> HIDE DEF L
      <4> QED  BY <1>0, <4>1, CountInterval
    <3> QED  BY <3>1, <3>2
  <2>2. \A i \in Held : Cardinality({k \in Held : k >= i}) = n <=> i = L + 1 - n
    BY <1>0, <1>1, <2>1
  <2>3. L + 1 - n \in Held
    BY <1>0, <1>1
  <2> HIDE DEF L
  <2> QED  BY <2>2, <2>3
<1>4. ASSUME NEW n \in 1 .. L
      PROVE  order[L + 1 - n] = nextJobId - n
  <2>1. L + 1 - n \in 1 .. L
    BY <1>0
  <2>2. order[L + 1 - n] = nextJobId - 1 - L + (L + 1 - n)
    BY <2>1 DEF Retention
  <2> QED  BY <1>0, <2>2
<1>5. Len(ListRecent(limit)) = upTo
  BY <1>2 DEF ListRecent
<1>6. ASSUME NEW n \in 1 .. upTo
      PROVE  ListRecent(limit)[n] = nextJobId - n
  <2>1. n \in 1 .. L
    BY <1>0
  <2>2. ListRecent(limit)[n] =
          order[CHOOSE i \in Held : Cardinality({k \in Held : k >= i}) = n]
    BY <1>2 DEF ListRecent
  <2> QED  BY <1>3, <1>4, <2>1, <2>2
<1> QED  BY <1>2, <1>5, <1>6

\* A listing is newest first and leaves out no newer job (CONTRACT.md:40).
THEOREM NewestFirstHolds == Spec => []NewestFirst
<1>1. IInv => NewestFirst
  <2> SUFFICES ASSUME IInv, NEW limit \in 0 .. Capacity + 1
               PROVE  LET ids == ListRecent(limit)
                      IN  /\ Len(ids) = IF limit < Len(order) THEN limit ELSE Len(order)
                          /\ \A i \in 1 .. Len(ids) :
                               /\ \A k \in 1 .. i - 1 :
                                    jobs[ids[k]].created > jobs[ids[i]].created
                               /\ \A j \in Stored :
                                    jobs[j].created > jobs[ids[i]].created
                                      => \E k \in 1 .. i - 1 : ids[k] = j
    BY DEF NewestFirst
  <2> DEFINE ids == ListRecent(limit)
  <2>0. /\ TypeOK /\ Retention /\ Issued /\ limit \in Nat /\ nextJobId \in Nat \ {0}
        /\ Len(order) \in Nat /\ Len(order) < nextJobId
        /\ Stored = (nextJobId - Len(order)) .. (nextJobId - 1)
    BY StoredInterval, CapacityPositive DEF IInv, Bookkeeping, TypeOK, StoreTypeOK
  <2>1. /\ Len(ids) = IF limit < Len(order) THEN limit ELSE Len(order)
        /\ Len(ids) \in Nat
        /\ \A n \in 1 .. Len(ids) : ids[n] = nextJobId - n
    BY <2>0, Listing
  <2> HIDE DEF ids
  <2>2. \A n \in 1 .. Len(ids) : ids[n] \in Stored /\ jobs[ids[n]].created = nextJobId - n
    BY <2>0, <2>1 DEF Issued
  <2>3. ASSUME NEW i \in 1 .. Len(ids), NEW k \in 1 .. i - 1
        PROVE  jobs[ids[k]].created > jobs[ids[i]].created
    <3>1. k \in 1 .. Len(ids)
      BY <2>1
    <3>2. jobs[ids[k]].created = nextJobId - k /\ jobs[ids[i]].created = nextJobId - i
      BY <2>2, <3>1
    <3> QED  BY <2>0, <2>1, <3>2
  <2>4. ASSUME NEW i \in 1 .. Len(ids), NEW j \in Stored,
               jobs[j].created > jobs[ids[i]].created
        PROVE  \E k \in 1 .. i - 1 : ids[k] = j
    <3>1. j > nextJobId - i
      BY <2>0, <2>2, <2>4 DEF Issued
    <3>2. nextJobId - j \in 1 .. i - 1 /\ nextJobId - j \in 1 .. Len(ids)
      BY <2>0, <2>1, <3>1
    <3>3. ids[nextJobId - j] = j
      BY <2>0, <2>1, <3>2
    <3> QED  BY <3>2, <3>3
  <2> QED  BY <2>1, <2>3, <2>4 DEF ids
<1> QED  BY <1>1, Invariance, PTL
-----------------------------------------------------------------------------
(* The routes implement the contract.                                       *)

Last == nextJobId - 1
Finished == {j \in Stored : jobs[j].result # NoResult}

\* What is stored is what the contract retains.
LEMMA StoredIsWindow == TypeOK /\ Retention => Stored = Contract!Window(Last)
<1> SUFFICES ASSUME TypeOK, Retention
             PROVE  Stored = Contract!Window(Last)
  OBVIOUS
<1>0. /\ StoreTypeOK /\ nextJobId \in Nat \ {0} /\ Len(order) \in Nat
      /\ Capacity \in Nat \ {0}
      /\ Contract!Kept = Capacity
  BY CapacityPositive DEF TypeOK, StoreTypeOK, Contract!Kept, Capacity
<1>1. ASSUME NEW j \in Stored
      PROVE  j \in Contract!Window(Last)
  BY <1>0, StoredBelow, RecordFields DEF Contract!Window, Last
<1>2. ASSUME NEW j \in Contract!Window(Last)
      PROVE  j \in Stored
  <2>1. j \in 1 .. nextJobId - 1 /\ j + Capacity > nextJobId - 1
    BY <1>0 DEF Contract!Window, Last
  <2>2. /\ j - (nextJobId - 1 - Len(order)) \in 1 .. Len(order)
        /\ order[j - (nextJobId - 1 - Len(order))] = j
    BY <1>0, <2>1 DEF Retention
  <2> QED  BY <2>2 DEF Retention
<1> QED  BY <1>1, <1>2

\* Every step of the service is a step of the contract, or a stutter.
LEMMA ContractStep ==
    ASSUME IInv, IInv', NEW w \in Workers, Step(w)
    PROVE  \/ Contract!ContractNext
           \/ UNCHANGED <<Last, Finished, handed>>
<1>0. /\ TypeOK /\ Retention /\ Issued /\ TakenMeansHanded /\ StoreTypeOK
      /\ nextJobId \in Nat
  BY DEF IInv, Bookkeeping, TypeOK, StoreTypeOK
<1>1. Stored = Contract!Window(Last)
  BY <1>0, StoredIsWindow
<1>2. ASSUME CreateJob(w) PROVE Contract!NewJob
  <2>1. Last' = Last + 1
    BY <1>0, <1>2, CreateStep DEF Last
  <2>2. handed' = handed
    BY <1>2, HandedStep DEF CreateJob, Collect
  <2>3. Stored' = Contract!Window(Last + 1)
    <3>1. TypeOK' /\ Retention'
      BY DEF IInv
    <3>2. (TypeOK /\ Retention => Stored = Contract!Window(Last))'
      BY StoredIsWindow, PTL
    <3> QED  BY <2>1, <3>1, <3>2 DEF Contract!Window, Contract!Kept
  <2>4. Finished' = Finished \cap Stored'
    <3>1. jobs'[nextJobId].result = NoResult /\ nextJobId \notin Stored
      BY ZenonT(30), <1>0, <1>2, CreateStep, NewJobFields
    <3>2. \A j \in Stored' \ {nextJobId} : j \in Stored /\ jobs'[j] = jobs[j]
      BY <1>0, <1>2, CreateStep
    <3> QED  BY <3>1, <3>2 DEF Finished
  <2> QED  BY <2>1, <2>2, <2>3, <2>4 DEF Contract!NewJob, Last, Finished
<1>3. ASSUME ~ CreateJob(w)
      PROVE  /\ Last' = Last /\ Stored' = Stored
             /\ \A j \in Stored :
                  jobs'[j].result = IF StoreResult(w) /\ j = job[w]
                                      THEN req[w] ELSE jobs[j].result
  <2>1. Last' = Last /\ Stored' = Stored
    BY <1>0, <1>3, StoreStep DEF StoreKeeps, Last
  <2>2. \A j \in Stored' :
          jobs'[j].result = IF StoreResult(w) /\ j = job[w] THEN req[w] ELSE jobs[j].result
    BY ZenonT(30), <1>0, <1>3, RecordStep
  <2> QED  BY <2>1, <2>2
<1>4. ASSUME StoreResult(w), job[w] \in Finished \/ job[w] \notin Stored
      PROVE  UNCHANGED <<Last, Finished, handed>>
  <2>1. ~ CreateJob(w) /\ ~ Collect(w)
    BY <1>4 DEF StoreResult, CreateJob, Collect
  <2>2. req[w] # NoResult
    BY <1>4 DEF IInv, Bookkeeping, Carrying, StoreResult, NoResult
  <2> QED  BY <1>3, <1>4, <2>1, <2>2, HandedStep DEF Finished
<1>5. ASSUME StoreResult(w), job[w] \in Stored, job[w] \notin Finished
      PROVE  Contract!Finish(job[w])
  <2>1. ~ CreateJob(w) /\ ~ Collect(w)
    BY <1>5 DEF StoreResult, CreateJob, Collect
  <2>2. req[w] # NoResult
    BY <1>5 DEF IInv, Bookkeeping, Carrying, StoreResult, NoResult
  <2>3. Finished' = Finished \cup {job[w]}
    BY <1>3, <1>5, <2>1, <2>2 DEF Finished
  <2>4. Last' = Last /\ handed' = handed
    BY <1>3, <2>1, HandedStep
  <2> QED  BY <1>1, <1>5, <2>3, <2>4 DEF Contract!Finish, Last, Finished
<1>6. ASSUME Collect(w), Takeable(job[w])
      PROVE  Contract!Deliver(job[w])
  <2>1. ~ CreateJob(w) /\ ~ StoreResult(w)
    BY <1>6 DEF StoreResult, CreateJob, Collect
  <2>2. Last' = Last /\ Finished' = Finished
    BY <1>3, <2>1 DEF Finished
  <2>3. handed' = handed \cup {job[w]}
    BY <1>6, HandedStep
  <2>4. job[w] \in Finished /\ job[w] \notin handed
    BY <1>0, <1>6 DEF Takeable, Finished, TakenMeansHanded
  <2> QED  BY <2>2, <2>3, <2>4 DEF Contract!Deliver, Last, Finished
<1>7. ASSUME ~ CreateJob(w), ~ StoreResult(w), ~ (Collect(w) /\ Takeable(job[w]))
      PROVE  UNCHANGED <<Last, Finished, handed>>
  <2>1. handed' = handed
    BY <1>7, HandedStep
  <2> QED  BY <1>3, <1>7, <2>1 DEF Finished
<1>8. Takeable(job[w]) => job[w] \in Contract!Window(Last)
  BY <1>1 DEF Takeable
<1>9. CASE StoreResult(w)
  <2>1. CASE job[w] \in Finished \/ job[w] \notin Stored
    BY <1>4, <1>9, <2>1
  <2>2. CASE job[w] \in Stored /\ job[w] \notin Finished
    <3>1. Contract!Finish(job[w]) /\ job[w] \in Contract!Window(Last)
      BY <1>1, <1>5, <1>9, <2>2
    <3>2. \E j \in Contract!Window(Last) : Contract!Finish(j) \/ Contract!Deliver(j)
      BY <3>1 DEF Contract!Finish
    <3> QED  BY <3>2 DEF Contract!ContractNext, Last
  <2> QED  BY <2>1, <2>2
<1>10. CASE Collect(w) /\ Takeable(job[w])
  <2>1. Contract!Deliver(job[w]) /\ job[w] \in Contract!Window(Last)
    BY <1>6, <1>8, <1>10
  <2> QED  BY <2>1 DEF Contract!ContractNext, Last
<1>11. CASE CreateJob(w)
  BY <1>2, <1>11 DEF Contract!ContractNext
<1> QED  BY <1>7, <1>9, <1>10, <1>11

\* Every execution of the routes, seen through the store, is one the contract
\* allows: ids count up, the newest jobs are kept, each gets its result at most
\* once and it is handed to one client.
THEOREM ContractImplemented == Spec => ImplementsContract
<1>1. Init => Contract!ContractInit
  BY DEF Init, StoreInit, Stored, Contract!ContractInit
<1>2. IInv /\ IInv' /\ [Next]_vars => [Contract!ContractNext]_(Contract!contractVars)
  <2>1. ASSUME IInv, IInv', NEW w \in Workers, Step(w)
        PROVE  [Contract!ContractNext]_(Contract!contractVars)
    BY <2>1, ContractStep DEF Contract!contractVars, Last, Finished
  <2>2. ASSUME UNCHANGED vars
        PROVE  UNCHANGED Contract!contractVars
    BY <2>2 DEF vars, storeVars, Stored, Contract!contractVars
  <2> QED  BY <2>1, <2>2 DEF Next
<1> QED  BY <1>1, <1>2, Invariance, PTL DEF Spec, ImplementsContract, Contract!ContractSpec
=============================================================================
