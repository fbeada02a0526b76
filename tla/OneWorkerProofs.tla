--------------------------- MODULE OneWorkerProofs ---------------------------
(****************************************************************************)
(* What the host promises a client that is alone (CONTRACT.md): theorems    *)
(* about JobService with one worker, each of which a second worker breaks.  *)
(****************************************************************************)
EXTENDS JobServiceProofs

\* A handler that nobody interrupts finds the record it has looked up.
Solo ==
    \A w \in Workers :
        /\ (\/ pc[w] \in {"apply", "fetch", "store", "recheck", "reread", "collect"}
            \/ pc[w] = "poll" /\ op[w] # "get")
              => job[w] \in Stored
        /\ reply[w] # "undefined"

\* A step of the only worker keeps its job in the table.
LEMMA SoloStep ==
    ASSUME IInv, Solo, NEW w \in Workers, Step(w), \A u, v \in Workers : u = v
    PROVE  Solo'
<1>0. /\ TypeOK /\ pc \in [Workers -> Places] /\ job \in [Workers -> Nat]
      /\ reply \in [Workers -> Replies] /\ op \in [Workers -> Routes]
      /\ \A j \in Stored : jobs[j].status # "undefined"
  BY RecordFields DEF IInv, TypeOK, Statuses
<1> DEFINE Deep(place, route) ==
             \/ place \in {"apply", "fetch", "store", "recheck", "reread", "collect"}
             \/ place = "poll" /\ route # "get"
<1>1. CASE CreateJob(w)
  <2>1. ~ Deep(pc'[w], op'[w]) /\ reply' = reply
    BY <1>0, <1>1 DEF CreateJob, GoTo
  <2> QED  BY <2>1 DEF Solo
<1>2. CASE ~ CreateJob(w)
  <2>1. Stored' = Stored
    BY <1>0, <1>2, StoreStep DEF StoreKeeps
  <2>2. Deep(pc'[w], op'[w]) => job'[w] \in Stored
    <3>1. CASE Lookup(w)
      BY <3>1 DEF Lookup
    <3>2. CASE ~ Lookup(w)
      <4>1. Deep(pc'[w], op'[w]) => job'[w] = job[w] /\ Deep(pc[w], op[w])
        <5>1. CASE Begin(w)
          BY <1>0, <5>1 DEF Begin, Submit, BeginGet, BeginTake, BeginWait, Arrive, GoTo
        <5>2. CASE MarkWaiting(w) \/ LookupMissing(w) \/ LookupMalformed(w)
                     \/ RecheckTakeTaken(w) \/ Collect(w) \/ Respond(w)
          BY <1>0, <5>2 DEF MarkWaiting, LookupMissing, LookupMalformed, RecheckTakeTaken,
             Collect, Respond, GoTo, Answer
        <5>3. CASE RecheckGet(w) \/ RecheckWaitDone(w) \/ Reread(w)
          BY <1>0, <5>3 DEF RecheckGet, RecheckWaitDone, Reread, GoTo, Answer,
             AnswerWithJob, AnswerFromNothing
        <5>4. CASE PollProvider(w) \/ Apply(w) \/ Fetch(w) \/ StoreResult(w)
          BY <1>0, <5>4 DEF PollProvider, Apply, Fetch, StoreResult, GoTo
        <5>5. CASE RecheckWaitSleep(w) \/ RecheckTake(w)
          BY <1>0, <5>5 DEF RecheckWaitSleep, RecheckTake, GoTo, WaitLoop
        <5> QED  BY <1>2, <3>2, <5>1, <5>2, <5>3, <5>4, <5>5 DEF Step, Continue
      <4> QED  BY <4>1 DEF Solo
    <3> QED  BY <3>1, <3>2
  <2>3. reply'[w] # "undefined"
    <3>1. CASE RecheckGet(w) \/ Reread(w)
      <4>1. job[w] \in Stored
        BY <3>1 DEF Solo, RecheckGet, Reread
      <4> QED  BY <1>0, <3>1, <4>1 DEF RecheckGet, Reread, AnswerWithJob, Answer
    <3>2. CASE RecheckWaitDone(w)
      BY <1>0, <3>2 DEF RecheckWaitDone, IsTerminal, Answer
    <3>3. CASE Begin(w)
      BY <3>3 DEF Solo, Begin, Submit, BeginGet, BeginTake, BeginWait, Arrive
    <3>4. CASE Continue(w) /\ ~ (RecheckGet(w) \/ Reread(w) \/ RecheckWaitDone(w))
      BY <1>0, <1>2, <3>4 DEF Solo, Continue, MarkWaiting, PollProvider, LookupMissing,
         LookupMalformed, Lookup, Apply, Fetch, StoreResult, RecheckWaitSleep,
         RecheckTakeTaken, RecheckTake, Collect, Respond, Answer
    <3> QED  BY <3>1, <3>2, <3>3, <3>4 DEF Step
  <2> QED  BY <2>1, <2>2, <2>3 DEF Solo
<1> QED  BY <1>1, <1>2

\* With one worker no handler answers from a record that is not there: the
\* undefined behaviour of routes.cpp:520 and :569 needs a second one.
THEOREM NoUndefinedAlone ==
    ASSUME \A u, v \in Workers : u = v
    PROVE  Spec => []NoUndefined
<1>1. Init => Solo
  BY DEF Init, Solo
<1>2. IInv /\ Solo /\ [Next]_vars => Solo'
  <2>1. IInv /\ Solo /\ Next => Solo'
    BY SoloStep DEF Next
  <2>2. Solo /\ UNCHANGED vars => Solo'
    BY DEF Solo, vars, workerVars, storeVars, Stored
  <2> QED  BY <2>1, <2>2
<1>3. Solo => NoUndefined
  BY DEF Solo, NoUndefined
<1> QED  BY <1>1, <1>2, <1>3, Invariance, PTL DEF Spec

-----------------------------------------------------------------------------
(* A job is in a terminal state exactly when it has its result.             *)

Settled ==
    \A j \in Stored : jobs[j].result # NoResult <=> jobs[j].status \in Terminal

\* Nobody finishes a job between its creation and MarkWaiting.
Fresh ==
    \A w \in Workers :
        pc[w] = "mark" /\ job[w] \in Stored => jobs[job[w]].result = NoResult

\* What a step does to the status of a retained job (UpdateStatus, SetResult).
LEMMA StatusStep ==
    ASSUME IInv, NEW w \in Workers, Step(w), NEW j \in Stored, j \in Stored'
    PROVE  /\ MarkWaiting(w) /\ j = job[w] => jobs'[j].status = "WAITING"
           /\ StoreResult(w) /\ j = job[w] => jobs'[j].status = "COMPLETE"
           /\ ~ ((MarkWaiting(w) \/ StoreResult(w)) /\ j = job[w])
                 => jobs'[j].status = jobs[j].status
<1>0. TypeOK /\ Retention /\ StoreTypeOK /\ jobs[j] \in JobRecord
  BY RecordFields DEF IInv, TypeOK
<1>1. CASE CreateJob(w)
  <2>1. jobs'[j] = jobs[j] /\ pc[w] = "create"
    BY <1>0, <1>1, CreateStep DEF CreateJob
  <2> QED  BY <2>1 DEF MarkWaiting, StoreResult
<1>2. CASE MarkWaiting(w)
  <2>1. ~ StoreResult(w)
    BY <1>2 DEF MarkWaiting, StoreResult
  <2>2. UpdateStatus(job[w], "WAITING")
    BY <1>2 DEF MarkWaiting
  <2> QED  BY <1>0, <1>2, <2>1, <2>2 DEF UpdateStatus, Stored, StoreTypeOK, JobRecord
<1>3. CASE StoreResult(w)
  <2>1. ~ MarkWaiting(w)
    BY <1>3 DEF MarkWaiting, StoreResult
  <2>2. SetResult(job[w], req[w], FALSE)
    BY <1>3 DEF StoreResult
  <2> QED  BY <1>0, <1>3, <2>1, <2>2 DEF SetResult, Stored, StoreTypeOK, JobRecord
<1>4. CASE Collect(w)
  <2>1. ~ MarkWaiting(w) /\ ~ StoreResult(w) /\ TakeResult(job[w])
    BY <1>4 DEF MarkWaiting, StoreResult, Collect
  <2> QED  BY <1>0, <2>1 DEF TakeResult, Takeable, Stored, StoreTypeOK, JobRecord
<1>5. CASE ~ (CreateJob(w) \/ MarkWaiting(w) \/ StoreResult(w) \/ Collect(w))
  <2>1. UNCHANGED storeVars
    BY <1>5 DEF Step, Begin, Continue, Submit, BeginGet, BeginTake,
       BeginWait, Arrive, PollProvider, LookupMissing, LookupMalformed, Lookup, Apply,
       Fetch, RecheckGet, RecheckWaitDone, RecheckWaitSleep, Reread, RecheckTakeTaken,
       RecheckTake, Respond
  <2> QED  BY <1>5, <2>1 DEF storeVars
<1> QED  BY <1>1, <1>2, <1>3, <1>4, <1>5

\* MarkWaiting finds the job as Create left it, so no status loses its result.
LEMMA SettledStep ==
    ASSUME IInv, Settled, Fresh, NEW w \in Workers, Step(w), \A u, v \in Workers : u = v
    PROVE  Settled' /\ Fresh'
<1>0. /\ TypeOK /\ Retention /\ Carrying /\ StoreTypeOK
      /\ pc \in [Workers -> Places] /\ job \in [Workers -> Nat] /\ req \in [Workers -> Nat]
  BY DEF IInv, Bookkeeping, TypeOK
<1>1. ASSUME NEW j \in Stored'
      PROVE  jobs'[j].result # NoResult <=> jobs'[j].status \in Terminal
  <2>1. CASE j \notin Stored
    <3>1. jobs'[j] = NewJob(req[w])
      BY <1>0, <2>1, RecordStep
    <3> QED  BY <3>1 DEF NewJob, Terminal
  <2>2. CASE j \in Stored
    <3>1. jobs'[j].result = IF StoreResult(w) /\ j = job[w] THEN req[w] ELSE jobs[j].result
      BY ZenonT(30), <1>0, <2>2, RecordStep
    <3>2. jobs[j].result # NoResult <=> jobs[j].status \in Terminal
      BY <2>2 DEF Settled
    <3>3. CASE MarkWaiting(w) /\ j = job[w]
      <4>1. jobs'[j].status = "WAITING" /\ ~ StoreResult(w)
        BY <2>2, <3>3, StatusStep DEF MarkWaiting, StoreResult
      <4>2. jobs[j].result = NoResult
        BY <2>2, <3>3 DEF MarkWaiting, Fresh
      <4> QED  BY <3>1, <4>1, <4>2 DEF Terminal
    <3>4. CASE StoreResult(w) /\ j = job[w]
      <4>1. jobs'[j].status = "COMPLETE"
        BY <2>2, <3>4, StatusStep
      <4>2. req[w] # NoResult
        BY <1>0, <3>4 DEF StoreResult, Carrying, NoResult
      <4> QED  BY <3>1, <3>4, <4>1, <4>2 DEF Terminal
    <3>5. CASE ~ ((MarkWaiting(w) \/ StoreResult(w)) /\ j = job[w])
      <4>1. jobs'[j].status = jobs[j].status
        BY <2>2, <3>5, StatusStep
      <4> QED  BY <3>1, <3>2, <3>5, <4>1
    <3> QED  BY <3>3, <3>4, <3>5
  <2> QED  BY <2>1, <2>2
<1>2. Fresh'
  <2>1. ASSUME pc'[w] = "mark"
        PROVE  CreateJob(w)
    BY <1>0, <2>1 DEF Step, Begin, Continue, Submit, BeginGet, BeginTake, BeginWait, Arrive,
       MarkWaiting, PollProvider, LookupMissing, LookupMalformed, Lookup, Apply,
       Fetch, StoreResult, RecheckGet, RecheckWaitDone, RecheckWaitSleep, Reread,
       RecheckTakeTaken, RecheckTake, Collect, Respond, GoTo, Answer, AnswerWithJob,
       AnswerFromNothing, WaitLoop
  <2>2. CreateJob(w) => job'[w] = nextJobId /\ jobs'[nextJobId].result = NoResult
    <3>1. CreateJob(w) => job'[w] = nextJobId
      BY <1>0 DEF CreateJob
    <3>2. CreateJob(w) => jobs'[nextJobId].result = NoResult
      BY <1>0, CreateStep, NewJobFields
    <3> QED  BY <3>1, <3>2
  <2>3. pc'[w] = "mark" => jobs'[job'[w]].result = NoResult
    BY <2>1, <2>2
  <2> QED  BY <2>3 DEF Fresh
<1> QED  BY <1>1, <1>2 DEF Settled

\* With one worker a job that reached a terminal state stays there: the submit
\* that overwrites it (routes.cpp:273) has marked it before anybody polls.
THEOREM TerminalStableAlone ==
    ASSUME \A u, v \in Workers : u = v
    PROVE  Spec => TerminalStable
<1>1. Init => Settled /\ Fresh
  BY DEF Init, StoreInit, Stored, Settled, Fresh
<1>2. IInv /\ Settled /\ Fresh /\ [Next]_vars => (Settled /\ Fresh)'
  <2>1. IInv /\ Settled /\ Fresh /\ Next => (Settled /\ Fresh)'
    BY SettledStep DEF Next
  <2>2. Settled /\ Fresh /\ UNCHANGED vars => (Settled /\ Fresh)'
    BY DEF Settled, Fresh, vars, workerVars, storeVars, Stored
  <2> QED  BY <2>1, <2>2
<1>3. IInv /\ Settled /\ Fresh /\ [Next]_vars =>
        [\A j \in Stored \cap Stored' :
            jobs[j].status \in Terminal => jobs'[j].status \in Terminal]_vars
  <2> SUFFICES ASSUME IInv, Settled, Fresh, NEW w \in Workers, Step(w),
                      NEW j \in Stored, j \in Stored', jobs[j].status \in Terminal
               PROVE  jobs'[j].status \in Terminal
    BY DEF Next
  <2>1. ~ (MarkWaiting(w) /\ j = job[w])
    BY DEF Settled, Fresh, MarkWaiting
  <2> QED  BY <2>1, StatusStep DEF Terminal
<1> QED  BY <1>1, <1>2, <1>3, Invariance, PTL DEF Spec, TerminalStable
-----------------------------------------------------------------------------
(* A take that has seen no mark collects an unmarked result.                *)

Untaken ==
    \A w \in Workers : pc[w] = "collect" => ~ jobs[job[w]].taken

\* A step of the only worker keeps the result that it is about to collect untaken.
LEMMA UntakenStep ==
    ASSUME IInv, Solo, Untaken, NEW w \in Workers, Step(w), \A u, v \in Workers : u = v
    PROVE  Untaken'
<1>0. pc \in [Workers -> Places]
  BY DEF IInv, TypeOK
<1>1. ASSUME pc'[w] = "collect"
      PROVE  RecheckTake(w)
  BY <1>0, <1>1 DEF Step, Begin, Continue, Submit, BeginGet, BeginTake, BeginWait, Arrive,
     CreateJob, MarkWaiting, PollProvider, LookupMissing, LookupMalformed, Lookup, Apply,
     Fetch, StoreResult, RecheckGet, RecheckWaitDone, RecheckWaitSleep, Reread,
     RecheckTakeTaken, Collect, Respond, GoTo, Answer, AnswerWithJob, AnswerFromNothing,
     WaitLoop
<1>2. ASSUME RecheckTake(w)
      PROVE  ~ jobs'[job'[w]].taken
  <2>1. job[w] \in Stored /\ jobs' = jobs /\ job' = job
    BY <1>2 DEF RecheckTake, Solo, storeVars
  <2> QED  BY <1>2, <2>1 DEF RecheckTake, IsTaken
<1> QED  BY <1>1, <1>2 DEF Untaken

\* With one worker a take after the result was handed out is never told
\* not_ready (CONTRACT.md:35).
THEOREM LateTakeAlone ==
    ASSUME \A u, v \in Workers : u = v
    PROVE  Spec => LateTakeSaysTaken
<1>1. Init => Solo /\ Untaken
  BY DEF Init, Solo, Untaken
<1>2. IInv /\ Solo /\ Untaken /\ [Next]_vars => (Solo /\ Untaken)'
  <2>1. IInv /\ Solo /\ Untaken /\ Next => (Solo /\ Untaken)'
    BY SoloStep, UntakenStep DEF Next
  <2>2. Solo /\ Untaken /\ UNCHANGED vars => (Solo /\ Untaken)'
    BY DEF Solo, Untaken, vars, workerVars, storeVars, Stored
  <2> QED  BY <2>1, <2>2
<1>3. IInv /\ Solo /\ Untaken /\ [Next]_vars =>
        [\A w \in Workers : Answers(w, "not_ready") => job[w] \notin handed]_vars
  <2> SUFFICES ASSUME IInv, Solo, Untaken, NEW w \in Workers, Step(w),
                      Answers(w, "not_ready")
               PROVE  job[w] \notin handed
    BY DEF Next
  <2>0. /\ reply \in [Workers -> Replies] /\ TakenMeansHanded
        /\ \A j \in Stored : jobs[j].status # "not_ready"
    BY RecordFields DEF IInv, TypeOK, Statuses
  <2>1. Collect(w)
    BY <2>0 DEF Answers, Step, Begin, Continue, Submit, BeginGet, BeginTake, BeginWait,
       Arrive, CreateJob, MarkWaiting, PollProvider, LookupMissing, LookupMalformed, Lookup,
       Apply, Fetch, StoreResult, RecheckGet, RecheckWaitDone, RecheckWaitSleep, Reread,
       RecheckTakeTaken, RecheckTake, Respond, Answer, AnswerWithJob, AnswerFromNothing,
       IsTerminal
  <2>2. job[w] \in Stored /\ ~ jobs[job[w]].taken
    BY <2>1 DEF Collect, Solo, Untaken
  <2> QED  BY <2>0, <2>2 DEF TakenMeansHanded
<1> QED  BY <1>1, <1>2, <1>3, Invariance, PTL DEF Spec, LateTakeSaysTaken
-----------------------------------------------------------------------------
(* A wait that polls once finds its job finished.                           *)

\* A wait whose timeout_ms is a number that does not wrap to nothing.
PollingWait(w) == op[w] = "wait" /\ asked[w] \in Nat /\ asked[w] % Word # 0

\* Past the poll the answer is in ready, past the store in the job.
Polled ==
    \A w \in Workers : PollingWait(w) =>
        /\ pc[w] \in {"apply", "fetch"} /\ jobs[job[w]].result = NoResult
             => jobs[job[w]].request \in Answered
        /\ pc[w] = "recheck" => jobs[job[w]].result # NoResult
        /\ pc[w] # "reread"
        /\ reply[w] \in Statuses => reply[w] \in Terminal

\* A handler has no reply before it answers (routes.cpp, the handlers).
LEMMA SilentStep ==
    ASSUME IInv, NEW w \in Workers, Step(w), pc'[w] # "respond"
    PROVE  reply'[w] = "none"
BY ReplyingStep DEF Replying

\* The poll of a wait: whatever is still unanswered is ready afterwards.
LEMMA PollAnswers ==
    ASSUME IInv, Solo, NEW w \in Workers, PollProvider(w), op[w] = "wait",
           jobs[job[w]].result = NoResult, \A u, v \in Workers : u = v
    PROVE  jobs[job[w]].request \in Answered'
<1>1. job[w] \in Stored /\ pc[w] = "poll"
  BY DEF Solo, PollProvider
<1>2. jobs[job[w]].request \in InBridge
  BY <1>1 DEF IInv, NoLostResult
<1>3. Answered' = Answered \cup Accepted
  BY PollBridge DEF IInv, TypeOK, OneOwner, PollProvider
<1> QED  BY <1>2, <1>3 DEF InBridge

\* A step of the only worker keeps what it knows of its job after a poll.
LEMMA PolledStep ==
    ASSUME IInv, Solo, Settled, Polled, RequestTimeout > 0,
           NEW w \in Workers, Step(w), \A u, v \in Workers : u = v
    PROVE  Polled'
<1>0. /\ TypeOK /\ Carrying /\ Replying
      /\ pc \in [Workers -> Places] /\ op \in [Workers -> Routes]
      /\ job \in [Workers -> Nat] /\ reply \in [Workers -> Replies]
      /\ asked \in [Workers -> Nat \cup {Absent, Malformed}]
  BY DEF IInv, Bookkeeping, TypeOK
<1> DEFINE P == /\ pc'[w] \in {"apply", "fetch"} /\ jobs'[job'[w]].result = NoResult
                     => jobs'[job'[w]].request \in Answered'
                /\ pc'[w] = "recheck" => jobs'[job'[w]].result # NoResult
                /\ pc'[w] # "reread"
                /\ reply'[w] \in Statuses => reply'[w] \in Terminal
<1>1. SUFFICES ASSUME PollingWait(w)'
               PROVE  P
  BY DEF Polled
<1> HIDE DEF P
<1>2. "none" \notin Statuses /\ (pc'[w] # "respond" => reply'[w] = "none")
  BY SilentStep DEF Statuses
<1>3. CASE Begin(w)
  <2>1. pc'[w] \in {"create", "lookup", "poll"}
    BY <1>0, <1>3 DEF Begin, Submit, BeginGet, BeginTake, BeginWait, Arrive, GoTo
  <2> QED  BY <1>2, <2>1 DEF P
<1>4. CASE Respond(w)
  <2>1. op'[w] = "none"
    BY <1>0, <1>4 DEF Respond
  <2> QED  BY <1>1, <2>1 DEF PollingWait
<1>5. CASE Continue(w) /\ ~ Respond(w)
  <2>1. op' = op /\ asked' = asked
    BY <1>5 DEF Continue, CreateJob, MarkWaiting, PollProvider, LookupMissing,
       LookupMalformed, Lookup, Apply, Fetch, StoreResult, RecheckGet, RecheckWaitDone,
       RecheckWaitSleep, Reread, RecheckTakeTaken, RecheckTake, Collect
  <2>2. PollingWait(w)
    BY <1>1, <2>1 DEF PollingWait
  <2>3. /\ op[w] = "wait" /\ asked[w] \in Nat /\ asked[w] % Word # 0
        /\ pc[w] \in {"apply", "fetch"} /\ jobs[job[w]].result = NoResult
             => jobs[job[w]].request \in Answered
        /\ pc[w] = "recheck" => jobs[job[w]].result # NoResult
        /\ pc[w] # "reread"
    BY <2>2 DEF Polled, PollingWait
  <2>4. CASE CreateJob(w)
    <3>1. pc'[w] = "mark"
      BY <1>0, <2>4 DEF CreateJob, GoTo
    <3> QED  BY <1>2, <3>1 DEF P
  <2>5. CASE MarkWaiting(w) \/ LookupMissing(w) \/ LookupMalformed(w)
               \/ RecheckTakeTaken(w) \/ Collect(w)
    <3>1. /\ pc'[w] = "respond"
          /\ reply'[w] \in {"created", "not_found", "bad_timeout", "already_taken",
                             "result", "not_ready"}
      BY <1>0, <2>5 DEF MarkWaiting, LookupMissing, LookupMalformed, RecheckTakeTaken,
         Collect, GoTo, Answer
    <3> QED  BY <3>1 DEF P, Statuses
  <2>6. CASE PollProvider(w)
    <3>1. pc'[w] = "apply" /\ job' = job /\ jobs' = jobs
      BY <1>0, <2>3, <2>6 DEF PollProvider, GoTo, storeVars
    <3>2. jobs[job[w]].result = NoResult => jobs[job[w]].request \in Answered'
      BY <2>3, <2>6, PollAnswers
    <3> QED  BY <1>2, <3>1, <3>2 DEF P
  <2>7. CASE Lookup(w)
    <3>1. EffectiveTimeout(asked[w]) > 0
      <4>1. asked[w] # Absent
        BY <2>3, WaitAssumption
      <4>2. ParseNumericParam(asked[w]) = asked[w] % Word
        BY <4>1 DEF ParseNumericParam
      <4>3. asked[w] % Word \in Nat
        BY <2>3, WaitAssumption
      <4> QED  BY <2>3, <4>2, <4>3 DEF EffectiveTimeout
    <3>2. pc'[w] = "poll"
      BY <1>0, <2>3, <2>7, <3>1 DEF Lookup, GoTo, WaitLoop
    <3> QED  BY <1>2, <3>2 DEF P
  <2>8. CASE Apply(w)
    <3>1. job[w] \in Stored /\ pc[w] = "apply"
      BY <2>8 DEF Apply, Solo
    <3>2. /\ pc'[w] = "fetch" /\ job' = job /\ jobs' = jobs
          /\ Answered' = Answered
      BY <1>0, <2>8, <3>1 DEF Apply, GoTo, storeVars, bridgeVars, Answered
    <3> QED  BY <1>2, <2>3, <3>1, <3>2 DEF P
  <2>9. CASE Fetch(w)
    <3>1. pc[w] = "fetch" /\ job[w] \in Stored /\ job' = job /\ jobs' = jobs
      BY <2>9 DEF Fetch, Solo, storeVars
    <3>2. jobs[job[w]].request = req[w]
      BY <1>0, <3>1 DEF Carrying
    <3>3. IsReadyFor(req[w]) => pc'[w] = "store"
      BY <1>0, <2>9 DEF Fetch, GoTo
    <3>4. ~ IsReadyFor(req[w]) => pc'[w] = "recheck" /\ jobs[job[w]].result # NoResult
      <4>1. ~ IsReadyFor(req[w]) => pc'[w] = "recheck"
        BY <1>0, <2>9 DEF Fetch, GoTo
      <4>2. ~ IsReadyFor(req[w]) => req[w] \notin Answered
        BY DEF IsReadyFor, Answered
      <4> QED  BY <2>3, <3>1, <3>2, <4>1, <4>2
    <3> QED  BY <1>2, <3>1, <3>3, <3>4 DEF P
  <2>10. CASE StoreResult(w)
    <3>1. pc[w] = "store" /\ job[w] \in Stored /\ job' = job /\ pc'[w] = "recheck"
      BY <1>0, <2>10 DEF StoreResult, Solo, GoTo
    <3>2. Stored' = Stored
      BY <1>0, <2>10, StoreStep DEF StoreKeeps, StoreResult, CreateJob
    <3>3. jobs'[job[w]].result = req[w]
      BY ZenonT(30), <1>0, <2>10, <3>1, <3>2, RecordStep DEF IInv
    <3>4. req[w] # NoResult
      BY <1>0, <3>1 DEF Carrying, NoResult
    <3> QED  BY <1>2, <3>1, <3>3, <3>4 DEF P
  <2>11. CASE RecheckGet(w) \/ RecheckTake(w)
    BY <2>3, <2>11 DEF RecheckGet, RecheckTake
  <2>12. CASE RecheckWaitDone(w)
    <3>1. pc'[w] = "respond" /\ reply'[w] \in Terminal
      BY <1>0, <2>12 DEF RecheckWaitDone, IsTerminal, GoTo, Answer
    <3> QED  BY <3>1 DEF P
  <2>13. CASE RecheckWaitSleep(w)
    <3>1. pc[w] = "recheck" /\ ~ IsTerminal(job[w]) /\ job[w] \in Stored
      BY <2>13 DEF RecheckWaitSleep, Solo
    <3> QED  BY <2>3, <3>1 DEF IsTerminal, Settled
  <2>14. CASE Reread(w)
    BY <2>3, <2>14 DEF Reread
  <2> QED
    BY <1>5, <2>4, <2>5, <2>6, <2>7, <2>8, <2>9, <2>10, <2>11, <2>12, <2>13, <2>14
       DEF Continue
<1> QED  BY <1>3, <1>4, <1>5 DEF Step

\* With one worker, and a host timeout that is not zero, a wait that was given
\* time answers with a finished job, not with the last status it saw when the
\* time ran out (CONTRACT.md:34).
THEOREM PollingWaitAlone ==
    ASSUME \A u, v \in Workers : u = v, RequestTimeout > 0
    PROVE  Spec => []PollingWaitEnds
<1> DEFINE Alone == Solo /\ Settled /\ Fresh /\ Polled
<1>1. Init => Alone
  BY DEF Init, StoreInit, Stored, Solo, Settled, Fresh, Polled, PollingWait
<1>2. IInv /\ Alone /\ [Next]_vars => Alone'
  <2>1. IInv /\ Alone /\ Next => Alone'
    BY SoloStep, SettledStep, PolledStep DEF Next
  <2>2. Alone /\ UNCHANGED vars => Alone'
    <3> SUFFICES ASSUME Alone, UNCHANGED vars
                 PROVE  Alone'
      OBVIOUS
    <3>1. /\ Stored' = Stored /\ Answered' = Answered /\ UNCHANGED workerVars
          /\ UNCHANGED jobs
      BY DEF vars, storeVars, bridgeVars, Stored, Answered
    <3> QED  BY <3>1 DEF Solo, Settled, Fresh, Polled, PollingWait, workerVars
  <2> QED  BY <2>1, <2>2
<1>3. Alone => PollingWaitEnds
  BY DEF Polled, PollingWait, PollingWaitEnds
<1> HIDE DEF Alone
<1> QED  BY <1>1, <1>2, <1>3, Invariance, PTL DEF Spec
=============================================================================
