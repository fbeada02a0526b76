# Shoots.Host: specification and proofs

TLA+ modules of the run-time behaviour of Shoots.Host, checked with TLC on small
instances and proved with TLAPS for every value of the constants: the job service,
admission, the life of the process and the validation of submits. Source paths are
relative to the repository root.

## The system

Shoots.Host is an HTTP host in front of a provider bridge. A client submits a
chat, tool or build request, is given a job id, polls or waits for the job and
takes its result once. The HTTP library serves every request on a thread of its
pool; all threads share one `AppState`, and **no class of the program takes a
lock**. That is what makes this small program hard: almost every handler makes
several calls on shared objects and relies on what an earlier one returned.

| component | state | operations | interacts with |
|---|---|---|---|
| job store, `src/jobs/job_store.*` | `order_`, `jobs_`, two counters | Create (with eviction), UpdateStatus, SetResult, Get, TakeResult, ListRecent | called by the job routes |
| provider bridge, `src/provider_bridge/*` | `pending_`, `ready_`, a counter | Submit*, Poll, TakeResult | called by the job routes |
| job routes, `src/routes/routes.cpp` | the locals of each handler | submit, get, wait, take, list | store and bridge |
| admission and metrics, `RequestScope` and `src/server/app_state.*` | `metrics_`, `next_request_sequence_` | OnRequestStart, OnRequestEnd, NextRequestSequence, MarkReadyState | around every handler |
| submit validation, `routes.cpp` 108-184, 231-261 | none | key scanner, string extraction, size limits | before a submit |
| numeric parameters, `ParseNumericParam` | none | parse `limit`, `timeout_ms` | list, wait |
| lifecycle, `src/main.cpp`, `src/server/http_server.cpp` | shutdown flag, server flag | start, signal, stop, drain, exit | HTTP library, the in-flight gauge |
| rendering and logging, `src/server/json_writer.*`, `request_id.*`, `logging.*`, `src/http/*` | none | formatting | all |
| HTTP library, `external/httplib` (vendored) | listening socket, pool queue, connections | listen, accept, keep alive, stop | main calls it, it calls the routes |

What makes each correct:

- *job store*: it holds exactly the newest `max_jobs` jobs, its two containers
  agree, listings are newest first, a result is given out once;
- *provider bridge*: a request id is in at most one of its lists, once; a poll
  loses nothing;
- *job routes*: a result ends up in the job it was asked for, is not lost between
  bridge and store, is handed to one client; a terminal job stays terminal; a
  missing job is answered 404; every request is answered;
- *admission*: the gauge is the number of admitted requests, an idle host admits,
  each request and each error is counted once, no counter wraps, sequence numbers
  increase;
- *validation, rendering*: the keys found are those of the document, the verdict
  follows from them, a field's value is the one the client gave it, and nothing a
  client writes breaks the JSON of the answer;
- *lifecycle*: a signal ends the process, the end of the server does too, every
  accepted connection is finished first, and `stop` finds a socket to stop.

The hard behaviours, with their lines, are the `hazards` of `PROJECT.json`.

## Modules

| module | models | role |
|---|---|---|
| `JobStore` | `JobStore` | state and operations, no next-state relation of its own |
| `ProviderBridge` | `ProviderBridge` | the same |
| `JobService` | the four job routes | composes the two: a `pc` per worker, `Next`, properties, inductive invariant |
| `JobContract` | what CONTRACT.md promises of jobs | abstract specification |
| `JobServiceProofs`, `OneWorkerProofs` | | theorems about `JobService`, for any number of threads and for one |
| `Admission`, `AdmissionProofs` | `RequestScope`, `AppState` counters | specification and properties; theorems |
| `HttpServer` | `HttpServer` and the listening thread, pool and connections of httplib | state and actions, no next-state relation of its own |
| `Lifecycle`, `LifecycleProofs` | `main` | extends `HttpServer` with the main thread and signals; theorems |
| `JsonWriter` | `JsonValue`, the envelopes | operators only |
| `JsonReader` | no code of the host: what a text means as JSON | operators; the measure of `SubmitBody`'s inputs and outputs |
| `SubmitBody` | `HandleSubmit` up to the provider call | extends `JsonReader`: one action per branch of the scanner and per check |
| `SubmitBodyProofs`, `SubmitFieldsProofs` | | theorems about `SubmitBody`: keys and verdict; fields |
| `JsonTextProofs`, `EnvelopeProofs` | | theorems about `JsonWriter` and `JsonReader`, for texts of any length; about the replies of `SubmitBody` |
| `MCJobService`, `MCAdmission`, `MCLifecycle`, `MCSubmitBody` | | instances for TLC |

The modules meet at these points. `SubmitBody` ends where `JobService` begins, with
the call of the provider. `Admission` is what happens around every handler of
`JobService`. In `Lifecycle` a handler is only the stretch between `Enter` and
`Leave`, and the gauge that the drain reads is the one `Admission` proves exact.

### JobStore and ProviderBridge

A record keeps the fields some operation reads: provider request id, tick,
status, result, taken mark. A result is named by the request that produced it,
with 0 for the empty string; the text the provider produces is never empty, so
`result.empty()` is exactly "no result yet". Job ids are the numbers whose decimal
form the code uses as keys. `Create` includes the `EvictIfNeeded` loop. The record
copy that `Get` returns is represented by what the handler goes on to use of it.

### JobService

`pc[w]` names the next call that thread `w` makes on a shared object; local
variables of the handlers that survive a call are `job`, `req`, `asked`, `left`,
`reply`. The routes share the code of `ApplyProviderResult` and hence its three
steps (`Apply`, `Fetch`, `StoreResult`).

| code | actions |
|---|---|
| `HandleSubmit` from line 263 | `Submit`, `CreateJob`, `MarkWaiting`, `Respond` |
| GET `/v1/jobs/{id}` | `BeginGet`, `PollProvider`, `LookupMissing` or `Lookup`, apply, `RecheckGet`, `Respond` |
| GET `/v1/jobs/{id}/wait` | `BeginWait`, `LookupMissing`, `LookupMalformed` or `Lookup`, rounds of `PollProvider`, apply, `RecheckWaitDone` or `RecheckWaitSleep`, then `Reread`, `Respond` |
| POST `/v1/jobs/{id}/take` | `BeginTake`, `LookupMissing` or `Lookup`, apply, `RecheckTakeTaken`, or `RecheckTake` and `Collect`, `Respond` |
| GET `/v1/jobs` | no state change; the operator `ListRecent` |

Three places where the code has no defined meaning, and what is done about them:

- *calls that overlap*. The containers are not synchronised, so two calls that
  overlap are a data race on a map, a deque or a vector. `JobService` keeps the
  executions in which calls do not overlap: every failure it shows happens even
  if each call were made atomic. `Admission`, whose calls touch only plain
  numbers, does take them apart.
- *dereference of an empty optional* (`routes.cpp:520`, `:569`). `AnswerFromNothing`
  answers `undefined` and may end the process (`up' \in BOOLEAN`).
- *job ids from the URL*: any number in `1 .. MaxSubmits`, created or not.

`MarkReadyState` is left out everywhere: `AppState`'s constructor initialises the
provider and nothing ever makes it unready, so the call changes nothing.
`SetResult` is only called with `failed = false`, so FAILED and RUNNING are never
reached; the parameter is kept.

`elapsed` is a local that only meets `timeout_ms`; `left` is their difference,
cut at 0. Time is the number of cadences slept, as it is in the code.

`ParseNumericParam` clears the value that holds the caller's default before it
looks for the parameter, and its `value * 10 + digit` is a number modulo `Word`;
`asked` ranges over what is written in the URL, which may be longer than `Word`
allows, absent or malformed.

### Admission

Each `++` or `--` is a `Load` and a store (`Refuse`, `CountRequest`, `Raise`,
`Stamp`, `Lower`, `CountError`), of numbers modulo `Word`. With
`Overlapping = FALSE` a call on `AppState` runs undivided (`inside`), from its first access to its
last: `OnRequestEnd`, for one, from `Finish` to `Lower` or, after an error, to
`CountError` (`LeaveRelease`). Calls of different requests still interleave in any
order. `TRUE` lets accesses interleave and so gives the outcomes of the races. The
history variable `failed` counts the requests that ended in an error, refused ones
included, for `MetricsAddUp` to compare `errors_total` with. A compiler may reuse
the gauge it has just compared; `Load` allows that. `Handle` stands for all
handlers: they fail or succeed, and take one sequence number, or two (`/status`).

### HttpServer and Lifecycle

Three kinds of thread interleave: the main thread (`main`), the listening thread
(`server`) and the threads of the pool, one per connection in progress (`conn`).

| code | actions |
|---|---|
| `main.cpp` 84-201, arguments, `--version`, `--print-config`, `--dry-run` | `Boot`, which serves or exits with 0 or 2 |
| 203-212 | `Install` (the signal handlers), `Spawn` |
| 214-220 | `Watch`, `Decide`, then `Stop` and `CloseSocket` (`Server::stop` reads `is_running_`, then takes the socket) |
| 222-230 | `DrainEmpty`, `DrainOver` |
| 232-239 | `Join`, with `ExitCode` |
| `OnSignal` | `Signal`, which before `Install` kills the process |
| `Server::listen` | `Bind`, `Listen`, `Accept`, `AcceptFails`, `StopAccepting`, `JoinPool`, `ServerDone` |
| `ThreadPool::worker` | `PickUp` |
| `keep_alive` and the loop around it | `Begin`, `HangUp`, `Close`, `Break`, `Finish` |
| `RequestScope` | `Enter`, `Leave` |

`Enter` may bypass the gauge: a refused request, or a path without a route, is
not counted. The gauge falls in `Leave`, before the response is written, so the
drain may end with responses unwritten; the join waits for them.

`HttpServer::Start` always returns true, so its failure branch (198-201) is
unreachable and has no step. What the model also shows, and no property forbids:

- a signal between `Spawn` and `Listen` makes `Stop` go past a server that is not
  running; nothing stops that server later, and the join waits for ever. The
  watch reads the flag once every 25 ms, so the window is short but real;
- a port that cannot be bound ends the listening thread, and the process exits
  with 0, which `Restart=on-failure` in docs/OPERATIONS.md does not restart;
- with `shutdown_drain_ms = 0` a stopped process always exits with 2;
- the drain time bounds only the drain: the join waits for all connections;
- after a failed `accept` the socket keeps its closed number (`"stale"`), and a
  `stop` that comes in that moment closes it a second time;
- a request that arrives while its connection is being given up (`"leaving"`) is
  never read.

### JsonWriter, JsonReader and SubmitBody

A text is a sequence of symbols: each character that means something to JSON is
one, any other run of characters (a key, a number) is one. A `JsonValue` that is an
object keeps the serialized texts of its members, and bytes of 0x80 and above are
copied as they are, so a reply that echoes bytes which are not valid UTF-8 is not valid
either; such bytes are not in the alphabet. `Serialize` writes them in the order
of the map (`KeyOrder`), with a comma before each but the first (`Member`).

`ExtractTopLevelKeys` is a small state machine over characters and is modelled as
one: a branch of its loop body is an action. The bodies are a constant, any set of
texts. What a body means is said by `JsonReader`, a JSON reader that goes through it
symbol by symbol: `SubmitBody` runs it along in the history variable `reader`, which
no action of the handler looks at. The reader is no code of the host. Two things
tie it to JSON: the assumption `ReaderReads` of `MCSubmitBody`, by which TLC makes
sure that it reads each document there as the list of members that the document was
written from, and `EnvelopeReadable`, which reads the host's own answers with it. On
scalars it is more lenient than JSON (any symbol that is no mark is one), which
only adds documents.

Line by line the scanner does less than a JSON reader: a backslash means something
only at depth 1, so a nested string that contains a quote shifts what is inside and
outside from there on, and the letter of an escape such as `\n` or `\u` is kept
instead of decoded, so a key written with one is read as another name. `KeysExact`
and what `Verdict` says of members hold of all documents but those (`Tidy`,
`WellRead`). `ExtractStringValue` takes the first occurrence of the quoted key
anywhere, and the value ends at the first quote, be it escaped. `FieldsRead` says
for which documents this reads what the client wrote: as soon as the scan has come
past a member whose value is a plain string, and before whose key its quoted name is
not mentioned, that string is what the host takes, whatever follows. Of two members
of one name the first counts, where most JSON parsers take the last. A name
mentioned earlier, in an inner object or as a value, may lead the extractor astray,
and so does an escape in the value: `FieldsRead` says nothing of them, nor does any
document of the repository. A body that begins or ends with white space is refused.
`ColonAhead` skips what `std::isspace` accepts, more than JSON's white space.

### JobContract

Ids count up from 1, the newest `MaxJobs` are kept, a kept job gets its result at
most once, a result is delivered once. The refinement mapping takes `last` to
`nextJobId - 1`, `finished` to the stored jobs with a result, `delivered` to the
history variable `handed`, to which `Collect` adds a job when its response
carries the result.

## Runs

| run | instance | checks | result |
|---|---|---|---|
| `conc` | 2 workers, table of 2, 3 submits, waits of one round | 9 invariants, `TakeOnce`, `SaysTakenTruly`, `ImplementsContract` | holds, 0.7 million states |
| `live` | 2 workers, table of 1, 2 submits, waits of two rounds, fairness | `EveryCallAnswered` | holds |
| `seq` | 1 worker, cadence 2, host timeout 3, timeouts 0, 1, 4, 8, 13, absent and malformed, numbers modulo 8 | `NoUndefined`, `PollingWaitEnds`, `NewestFirst`, `TerminalStable`, `LateTakeSaysTaken` | holds |
| `race_terminal` | 2 workers | `TerminalStable` | violated |
| `race_take` | 2 workers | `LateTakeSaysTaken` | violated |
| `race_evict` | 2 workers, table of 1 | `NoUndefined` | violated |
| `default_wait` | 1 worker | `DefaultWaitEnds` | violated |
| `admit` | 3 threads, limit 2, 5 requests | 4 invariants, `CountersNeverWrap`, `UniqueStamps` | holds |
| `race_gauge` | 2 threads, limit 2, 3 requests, overlapping | `IdleAdmits` | violated |
| `race_stamp` | 2 threads, overlapping | `UniqueStamps` | violated |
| `life` | 2 clients, pool of 1 to 2 threads, 2 requests per connection, with and without drain time, fairness | `LifecycleTypeOK`, `ExitAfterWork`, `StopFindsSocket`, `StopsOnceListening`, `EndsWithServer`, `EveryRequestAnswered` | holds |
| `parse` | all documents of up to 2 members and complete tool requests with a third, over 4 keys and 12 values, those of other lengths than 2 with white space too; 9 other bodies; body limit 31, field limit 2 | `ScannerOK`, `KeysExact`, `Verdict`, `FieldsRead`, `EnvelopeReadable` | holds |

The properties come in pairs: `seq` shows that what the contract says is right
for one client at a time, the `race_` runs that two clients break it. `conc`
states what survives concurrency.

**The disagreements.** `race_terminal`: a submit overwrites COMPLETE by WAITING
(`routes.cpp:273`); the result can still be taken but no wait ends early again.
`race_take`: a late take is answered `not_ready`. `race_evict`: an evicted job is
dereferenced. `default_wait`: `ParseNumericParam` clears the default, so a wait
without `timeout_ms` does not poll (likewise a listing without `limit` answers with
nothing instead of 20 jobs). `race_gauge`: the increment of one request is lost in
the update of another, both give a place back, and the second decrement takes the
unsigned gauge below zero: an idle host refuses every request from then on.
`race_stamp`: two responses carry one `X-Request-Id`.

**Bounds.** Two workers are enough to interrupt a handler anywhere by any other; a
third thread, in `admit`, fills a limit of two and is refused. Three submits on a
table of two evict one job while two are retained, with a handler still at work on
the evicted one; table of one makes eviction easy where only that is asked.
`MaxSubmits` caps submits, `MaxRequests` requests; both are guards on arrivals only.
`Word = 16` exceeds what the bounded requests can count, so a wrap shows only as the
fault it would be (a decrement of zero). `NewestFirst` speaks of the store alone,
whose contents do not depend on who creates the jobs, so one worker is enough for
it. The waits of `conc` all poll once; waits that poll not at all, or give a
malformed number, are in `live`, `seq` and the `race_` runs. In `seq` a timeout of 1
is below one cadence, 4 is above the host's 3, 3 is no multiple of the cadence, and
modulo 8 a timeout of 8 wraps to 0 and one of 13 to 5. In `life` two clients on one
guaranteed thread make one connection wait in the queue, with a second thread or
without it; two requests per connection show a connection that stays open and one
that is used up. In `parse` the limits lie within the lengths of the bodies, so that
both verdicts of each check occur; the values contain quotes, backslashes, braces,
colons and the name of another field. `CHECK_DEADLOCK FALSE`: after the last submit,
and after the process died, the system stops.

**Fairness.** `WF_vars(up /\ Continue(w))` per worker: a handler that runs never
waits for another one (there is no lock, only sleeps of fixed length), and the
operating system schedules every thread. Nothing is assumed about clients:
`Begin` is unfair, and all four kinds of arrival may happen or not.

In `Lifecycle` fairness is weak and per thread: the main thread (its loops sleep a
fixed time), the listening thread except in `accept`, a thread of the pool for a
queued connection as long as fewer than `BaseThreads` are busy, since only these
are sure to exist, and each connection in service, because `keep_alive`, reading and
writing have timeouts and handlers end (`EveryCallAnswered`). Clients, signals,
`accept` and failures are unfair. `EveryRequestAnswered` therefore rests on
`KeepAliveMax` and on `HangUp`: a connection gives its thread up at last.

## Theorems

`JobServiceProofs` is proved for any set of workers, any `MaxJobs`, `MaxSubmits`,
cadence above 0 and timeouts, from the named assumptions of the modules:
`TypeCorrect`, `RetentionHolds`, `NoLostResultHolds`, `OwnResultHolds`,
`OneOwnerHolds`, `TakenMeansHandedHolds`, `DanglingHolds`, the action properties
`TakeOnceHolds` and `SaysTakenTrulyHolds`, `OrphansHolds`, `NewestFirstHolds`, and
`ContractImplemented`. The default
cadence is 25 and nothing configures another, which justifies `PollCadence > 0`.

The argument is one inductive invariant, `IInv` (theorem `Invariance`). The
properties are not inductive alone: that a job holds only its own result needs
that the handler about to store one carries the request of its own job, though the
job may have been evicted since it was looked up. `Bookkeeping` says so:

- `Issued`: ids in use are below the counters (so a new one is new);
- `Creating`: between `Submit` and `CreateJob` only one handler knows the request,
  so no other can fetch its result and drop it;
- `Carrying`: in `Fetch` and `StoreResult`, `req` is the request of `job`, and of no
  other stored job, retained or evicted;
- `Known`: past its lookup the handler's job was created, so when it is absent
  it was evicted, and since `Retention` keeps the newest, it never returns;
- `Replying`: a handler that has decided on a reply makes no further call.

Each conjunct has a lemma (`...Step`) that goes through the actions able to
disturb it; `StoreStep`, `BridgeStep` and `RecordStep` say once what a step can do
to the table, the bridge and one record. `TakeAnswers` ties replies to the taken
mark for the two action properties, and `StoredIsWindow` ties the table to the
contract's window for the refinement.

`BookkeepingHolds` states that part of the invariant as a theorem of its own. Two
theorems rest on `IInv` with an argument of their own:

- `OrphansHolds` bounds a cardinality by the number of evictions. A request that no
  job and no submit under way owns becomes one only when `CreateJob` evicts its
  job, which adds at most that one (`OrphansStep`); the count follows with the table
  full on one side and growing on the other (`OrphansCount`).
- `NewestFirstHolds` says of `ListRecent`, for any limit, that its n-th entry is the
  n-th newest job. By `Retention` the table is a window of ids, so the place in the
  list is a matter of counting (`CountInterval`, `Listing`), not of induction.

`OneWorkerProofs` proves what the `race_` runs need a second thread to break, under
the hypothesis of one worker (`\A u, v \in Workers : u = v`): `NoUndefinedAlone`,
`TerminalStableAlone`, `LateTakeAlone` and `PollingWaitAlone`. The invariants add what
only a lone handler can rely on: the job it has looked up is still in the table
(`Solo`), a stored job is terminal exactly when it has its result (`Settled`), a job
just created has none before `MarkWaiting` (`Fresh`), the result about to be
collected is untaken (`Untaken`), and after a poll the wait's request is answered or
its job has its result (`Polled`). `PollingWaitAlone` also needs a host timeout
above zero. `request_timeout_ms` may be configured as 0 (`main.cpp`); a wait then
never polls, whatever its client asks for.

`AdmissionProofs` is proved for any finite set of threads, any limit and any bound
on requests that the counters can hold (`2 * MaxRequests + 1 < Word`; a real host
would have to serve 2^63 requests to break it), under the hypothesis
`Overlapping = FALSE`: no two calls on `AppState` overlap, which the code does not ensure and
`race_gauge` and `race_stamp` show to be needed. Theorems: `AdmissionTypeCorrect`,
`GaugeExactHolds`, `IdleAdmitsHolds`, `MetricsAddUpHolds`, `CountersNeverWrapHolds`,
`UniqueStampsHolds`, from the invariant `AInv` (`AdmissionInvariance`):

- `Undivided`: a thread between two accesses of one call is the one inside, and
  what it has read or loaded is still the counter's value;
- `Accepting`: who holds a place, by where it is;
- `GaugeCount`, `RequestCount`, `ErrorCount`, `SequenceCount`: each counter against
  the number of threads at certain places (`Uncounted`, `Undecided`, `Turned`,
  `Doomed`, `Owing`, `OwingTwo`). They also bound every counter by the requests received
  (`InRange`), so no update wraps and each changes its counter by one (`Exact`).

`CardChange` says how a set of threads changes when one of them moves; each count
then goes through the steps that move a thread into or out of its sets.

`LifecycleProofs` is proved for any finite set of clients, any pool, any number of
requests per connection and any drain times: `LifecycleTypeCorrect`,
`ExitAfterWorkHolds`, `StopFindsSocketHolds`, from `LifeInv` (`LifeInvariance`). It adds
to the properties that the queue holds exactly the connections that wait
(`QueueExact`), that an open connection has a request left (`RoundsLeft`), that the
pool has no work before the server accepts and after it has joined
(`PoolJoined`), when there is a server (`Launching`), and that a running server keeps
the number of its socket until main takes it (`SocketKept`).

`SubmitBodyProofs` and `SubmitFieldsProofs` are proved for any routes, any set of
bodies, JSON or not, and any limits: `ScannerHolds`, `KeysExactHolds`,
`VerdictHolds`, `FieldsReadHolds`. The handler reads the body symbol by symbol, and
so does the JSON reader in the history variable, so no induction over the text is
needed: the behaviour is the induction. The invariant `SInv` (`SubmitInvariance`)
holds the two in step:

- `LockStep`: as long as the reader has seen the beginning of a tidy document, the
  scanner's `in_string`, `depth`, `escape` and `current` say what the reader knows,
  and `keys` are the names so far. It is not quite so simple. A string that ends
  with a colon ahead is taken for a key although it may be a value; the text is no
  JSON then, but the reader learns so only at the colon. `LockStep` says what `keys`
  may hold in between (`ColonAhead`).
- `Gathering`: text is gathered only at depth 1. `ScannerOK` does not imply it and
  needs it: a string of an inner object ends without clearing `current`.
- `Passed`: what the handler has made sure of by the time it reaches a check.

`ReadInsideEffect` and `ReadMarkEffect` say what a symbol does to the reader,
`ScanText`, `ScanInner` and `ScanOutside` what it does to the scanner, and
`LockStepStep` puts them side by side.

`FieldsRead` compares the reader with four searches (`Find`) that jump over the text.
`Traced` follows the reader and records the places of the marks it has passed: the
quoted name, its colon, the opening quote, no other quote since (`TraceInside`,
`TraceMark`, `TraceWhite`). A field that was read to its end is `Laid` out in the body,
all before the place the reader has come to (`LaidGrows`), and `ExtractLaid` shows that
the searches stop at exactly these places if the quoted name has been met only once
by then.

`JsonTextProofs` and `EnvelopeProofs` prove `EnvelopeReadableHolds`: for any routes,
bodies, limits and default model (a text, `ModelAssumption`), every refusal and
every job shown is a JSON document that says what the host knows. The reply to an
accepted submit holds two ids, nothing that a client sent, and is not part of the
property. Here a whole text is read in one state, so the proof is an induction over
the text. It is done without the library's induction theorems, which take an
operator as a parameter:

- `NatSetInduction` is the induction principle for a *set* of numbers, from the
  well-foundedness of `<` (`WFMin`). `ReadFrom` and `FlattenSeq` are recursive
  functions, chosen by their equation; `CourseExists` and `GatherExists` build them up
  by that induction, after which their equations may be used.
- `ReadConcat`: reading two texts is reading the one, then the other; `ReadFlat`: if each
  part takes the reader from one set of states into the next, the parts together take
  it from the first set to the last.
- `ReadEscaped` is the heart of it: in a string, what `EscapeSymbol` writes for a symbol
  is read as that symbol, be it a quote, a backslash, a control character or any other.
  `ReadQuoted` extends it to whole strings, `ReadMember`, `ReadMembers` and `ObjectMeans`
  to members and objects, which may lie inside of others.
- In `EnvelopeProofs`, `Tells` says of an object under construction what its members
  will be read as; each `Set` with a later key adds to it (`TellsMore`). `RefusalRead`
  so computes all eleven strings of a refusal, `ShownRead` finds each field of a job
  behind its name.
- The invariant `EInv` adds to the property that an accepted job is made of texts
  (`AcceptedJob`, which rests on `ExtractType`): `Show` writes them a step later.

The alphabet is a parameter (`Alphabet(S)`): any set of symbols that contains the marks
of JSON, the escapes and the keys. `Signs` is the one that is used. It lists the words
the host writes itself next to `STRING`, although they are strings, because none of the
installed provers knows that a string literal is an element of `STRING`.

Model-checked only:

- liveness (`EveryCallAnswered`, `StopsOnceListening`, `EndsWithServer`,
  `EveryRequestAnswered`), which is out of the prover's reach;
- that the reader of `JsonReader` reads documents as they were written
  (`ReaderReads`): the documents of `MCSubmitBody` are nested values, written by a
  recursive operator, which no module with theorems may use.

Every other property of a passing run is a theorem.

## Not modelled

- *Overlapping calls on the store and the bridge*: data races on containers have no
  defined outcome that a model could list. What holds of `JobService` holds of the
  executions without them.
- *The bodies of `/`, `/livez`, `/healthz`, `/readyz`, `/status`, `/metrics`,
  `/v1/caps`, `/v1/models`, `/v1/templates` and the list route*: they read state and
  keep none. `Admission!Handle` stands for what they do to the counters,
  `ListRecent` for the list; arrays, null and floating-point numbers of `JsonValue`
  occur only in them.
- *Command line and environment*: which argument sets what; the outcome is in `Boot`.
- *Logging* formats one line and keeps no state.
- *httplib* beyond what is listed above: request parsing, routing, TLS, websockets.
- *Build, packaging, scripts and tests* have no run-time state.
- The exit code has no property: `ExitCode` is the two return statements of `main`,
  and no document of the repository says which code a failed bind or an unfinished
  drain should give. The same goes for the signal that is lost before the server
  listens, which is described above.
- *Socket numbers*: that the number of a socket which a failed `accept` has closed may
  be given to another connection before `stop` closes it again.
