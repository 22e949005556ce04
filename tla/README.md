# A verification project for crosscraft-brain

This directory holds TLA+ modules that model the parts of the Go server whose
behaviour is hard to test, TLC configurations that check them on small
instances, and proofs that TLAPS checks for every instance. Paths without a
prefix are relative to `server/internal/`.

## The system: inventory

crosscraft-brain runs *workflows*: directed graphs of nodes edited in a web
canvas, started by a request, a webhook, a schedule or a poll, executed by a
Go server, with all durable state in Postgres.

| component | state it keeps | operations | what makes it correct |
|---|---|---|---|
| executor `engine/engine.go` | job channel, `active` set, worker goroutines, the walk of each drive | `Run`, `Resume`, worker, `process`, `drive`, `recoverRunning`, `Shutdown` | one drive per execution; nodes in graph order; at-least-once across crashes; finished runs stay finished; every run settles |
| rows `store/store.go` | workflows, executions, execution_steps, credentials, api_keys | one SQL statement per call | `ClaimWaiting` is an atomic compare-and-set; checkpoints are whole states |
| sub-workflows `engine/subwf.go` | an execution row of its own, no claim | `runSubWorkflow` inline in a node | the row ends with the parent's step |
| scheduler `scheduler/scheduler.go` | `last` fire per workflow, in memory | `fireDue`, `due` | fires at the schedule's period, once |
| polling triggers `triggers/polling.go` | last poll, cursor, seen ids, back-off counter in `RunState.State` | `ShouldFire`, `Emit`, `Poll` | no item twice, none lost, bounded rate |
| OAuth `oauth/oauth.go` | pending `state` tokens in memory, token blob in the credential row | `AuthURL`, `Exchange`, token refresh | a state is used once, the last refresh token is kept |
| API and event stream `api/api.go` | a poll loop per stream | `stream`, `getExecution`; `run`, `resume`, `webhook` call the executor | a last answer shows the finished run; every stream ends |
| rate limiter `api/ratelimit.go` | a bucket per key, filled lazily, forgotten when idle | `Allow` | a key gets no more than its burst and its rate |
| trigger state `engine/store.go`, trigger nodes | a map in the state of one run | `Run`, `process`, the triggers | a trigger knows what it has emitted |
| binary store `store/binary.go` | files, temporary files | `Put`, `Get`, `Delete`, `Cleanup` | readers see whole files |
| REST framework `rest/rest.go` | a retry loop, a page loop | `execute`, `doWithRetry`, paging | success means applied; a write is repeated for a cause |
| node packs `nodes/*` (about 1 000 operations of 120 node types) | cached clients per package | one `Execute` per node type: calls of a service, transformations of items, files | as for REST; input is checked before anything is sent; every call ends; items and tables are kept |
| registry, schema, expression engine, credential types, crypto, id, auth, llm | read-only tables or pure functions | | |
| `cmd/crosscraft`, web SPA, `packages/`, `db/` | start-up and shutdown order; schema | | |

The API and the scheduler call `Run`; the API calls `Resume`; both insert or
flip a row and send its id through the job channel; workers load the row and
walk the graph; everything that must survive is a row. The hard behaviours are
in these seams: several calls of the store that are one operation to the
caller, a claim that lives in memory beside a status that lives in the
database, a recovery that runs beside live requests, a context that is
cancelled while writes are under way, timers whose "now" is stale, savers of
a token that read and write a whole row, answers of a remote service that are
lost, cut or refused in the middle of an operation.
`PROJECT.json` lists each at its line under "hazards".

## Modules and the code they model

| module | models | composes with |
|---|---|---|
| `Workflow` | the graph functions of `engine.go`: readiness, successors, frontier, pruning, the trigger | extended by `Engine` |
| `Engine` | the executor in asynchronous mode over the rows of `store.go`: `Run`, `Resume`, worker, `process`, `drive`, `recoverRunning`, crashes, store errors, several instances | `Workflow`; implements `Execution` |
| `Execution` | what the executor promises of one execution row: the abstract specification | instantiated by `Engine` with `done <- saved[e].visited` |
| `SubWorkflow` | `subwf.go`: sub-runs driven inline by the worker of the parent | the queue, claim and recovery of `Engine`, coarser |
| `Shutdown` | `main.go` with `Engine.Shutdown`, `WaitDrain`, the scheduler's goroutine, handlers, and the next start | the queue and workers of `Engine`, one node per run |
| `Scheduler` | `scheduler.go`: the tick loop, `fireDue`, `due` | calls `Run`, abstracted to "returns after a while" |
| `Polling` | `polling.go`: `ShouldFire`, back-off, `Emit`, the state in `ExecContext.State` | none in the code either: no node pack calls it yet |
| `TriggerState` | what `RunState.State` keeps of a trigger from run to run, in the memory of a worker and through the row | the runs of `Engine`, one node each |
| `TokenBucket` | what a rate limiter promises: the abstract specification | instantiated by `RateLimiter` |
| `RateLimiter` | `ratelimit.go`: `Allow`, lazy refill, clean-up | implements `TokenBucket` |
| `Monitor` | `stream` and `getExecution` beside the writes of a drive | the row of `Engine`, by the order of its writes |
| `Credentials` | `oauth.go`: states, exchange, refreshing clients, `persist`, and the credential row | |
| `Server` | the three behind the HTTP server, one per behaviour | `RateLimiter`, `Monitor`, `Credentials` |
| `Calls` | the vocabulary of the tables of operations: what a step of an operation may be | extended by the tables |
| `NodeCall` | how a call is carried out: the pipeline of `rest.go`, `google/util.go` and plain clients, answers, retries, pages, a crash | `Calls` |
| `SaasNodes`, `CloudNodes`, `GoogleNodes`, `ServiceNodes`, `DataNodes`, `ProtocolNodes`, `AwsNodes`, `AiNodes`, `CoreNodes` | one table per node of the packs | `Calls` |
| `Registry` | the operations of all packs | instantiates the tables |
| `Selection` | the loop of the core nodes that appends what it selects to an empty slice | extended by the next two, and by `Induction` |
| `ListNodes` | the core nodes that route, select, order and rename items | |
| `Spreadsheet` | CSV and XLSX written, appended to and read | |
| `Nodes` | a call, a list node or a file node per behaviour | `NodeCall`, `ListNodes`, `Spreadsheet`; `MCNodes` adds `Registry` |
| `EngineProofs`, `SubWorkflowProofs`, `ShutdownProofs`, `SchedulerProofs`, `PollingProofs`, `ServerProofs`, `NodesProofs` | theorems about the module they are named after; `ServerProofs` also about its three parts, `NodesProofs` about `NodeCall`, `ListNodes` and `Spreadsheet` | extend it and `TLAPS` |
| `Induction` | least numbers, induction over a set, iteration, recursion and what they give of lists, as facts that the proofs cite | extended by `EngineProofs`, `PollingProofs` and `NodesProofs` |
| `MC...` | instances for TLC: graphs, homes, symmetry, inputs, the operations that break a rule | |

**Engine.** A variable per column of a row (`status`, `saved` for the state,
`waitingAt`, `rows` and `starts` for the steps), per piece of memory of an
instance (`jobs`, `active`) and per goroutine a program counter and its locals
(`w...` workers, `z...` callers of Resume, `runPc` callers of Run, `rc...` the
recovery). Every store call is an action, so anything may happen between two of
them: `CreateExecution`, `SaveSeed`, `EnqueueRun` are `Run`; `LoadForResume`,
`ClaimWaiting`, `SaveResumed`, `EnqueueResumed` are `Resume`; `Take`, `Load`,
`PruneNode`, `StartStep`, `ExecuteReturns`/`ExecuteFails`, `FinishStep`,
`SaveState`, `SetWaiting`, `FinishExecution`, `Release` are a worker;
`ListRunning`, `FailStaleSteps`, `EnqueueRecovered` the recovery. `Crash` drops
the memory of one instance and starts it again. Abstractions: the ready list is
a set (its order decides nothing but the order of independent nodes, which is
then free); receiving a job and claiming it is one step, as are the two loads
of `process`; items are reduced to which edges carry any; a store call that
fails has changed nothing; `core.wait` and `core.webhookRespond`, the only nodes
that suspend, always do; the graph does not change during a run; edges join
nodes of the graph. Fidelity worth noting: a pruned node is recorded in memory
only, a `NULL` state is replaced by an empty trigger item, the seed and the
resumed state are written without a claim.

**SubWorkflow.** The parent's walk is reduced to the call. `CallSub` inserts a row
that nobody claims, `ExecuteNode`/`SaveStateSub` walk it, `AfterSub` turns its
outcome into that of the parent's node (a suspended sub-run fails it, and so does
an error that `drive` returns), `StoreFails` is a failed call of the store: in the
drive of a sub-run it fails the parent's node and leaves the sub-run's row as it
is, elsewhere it ends the job. `LoadNothing` is a workflow that is gone, and
`RecoverPanic` is `process` catching a panic that unwound through both drives,
`ListRunning` finds the rows of sub-runs like any other. The channel is unbounded
here and `Resume` is one step: `Engine` has the detail.

**Shutdown.** `Signal` cancels the context, `StopHttp`, `CloseJobs`,
`DrainEngine`, `DrainScheduler` are the steps of `main`. Handlers go on with the
context of their request; the scheduler and the recovery stop at the points
where they look at the context; a worker chooses freely between a job and the
cancelled context, as `select` does. A send blocks on a full channel and panics
on a closed one. Nothing written with the cancelled context takes effect.
`Restart` is the next process on the same rows.

**Scheduler.** Dates are replaced by the time elapsed since them, saturating at
`Horizon`. A cron expression is a period (`CronPeriod`). `cycle` is the age of
the "now" that `fireDue` was called with and passes to `setLast`, which is what
makes the late part of a cycle interesting. `owed` counts the cron boundaries
that have not been answered by a start.

**Polling.** Items are numbered in order of appearance, the cursor is the highest
number fetched, and a fetch returns the last `Overlap` again. `dedup` says whether
the trigger passes an id function to `Emit`; without one nothing is dropped and
any item ends the back-off. The clock has `Second` units in a second and is
`phase` units into the current one: `LastPoll` keeps whole seconds, so after a
poll the time since it is already `phase` (`MarkFired`). The clock is assumed not
to jump. The shift and the product of `effectiveInterval` are computed in
`WordBits` bits, two's complement. `NewRun` starts the next run with an empty
state, as `Engine.Run` does.

**TriggerState.** A trigger's map is "nil", empty or holds what was emitted;
`OmitEmpty` is the JSON of `RunState`, which drops an empty map. `Run` begins a
run with the fresh map of `Engine.Run` or, for a worker, with what the row gives
back.

**RateLimiter.** The clock counts ticks and a token is `Cost` fractions, so the
rates 1/s and 0.5/s are whole numbers. `Allow` is one step (it holds the mutex)
and does its clean-up, its refill and its answer; the refinement maps a bucket
that is missing to a full one.

**Monitor.** Of the execution only its writes and their order are kept: a status
per step row, written before and after each node (the second write may fail, a
panic skips it), and the status of the run when the walk is over. `Restart` ends
the process with its requests; `ListRunning` and `FailStaleRunningSteps` are the
recovery of the next one, which lists the run, and later fails the steps it finds
running and queues the run, whatever became of it since. `overtaken` remembers
that the run was over by then. A request reads the status and the steps in two
queries, each of which may fail; when it has ended, or was cut off, its client may
ask again (`Ask`), so a recovered run is watched too. A sub-run that its parent
and an early recovery drive at once is not meant.

**Credentials.** A refresh token is the number under which it was issued. A saver
(a callback or the source of a client) asks the provider, which grants a token and
may end earlier ones (`ExchangeCode`, `Token`, both by `Grants`), hears of it
(`Receives`) or does not (`AnswerLost`), reads the credential and writes the whole
of it, each in a step of its own; a save may fail, the process may crash, the
credential may be deleted in between. `lost`, `unsaved`, `overlapped` and `moved`
remember why a stored token may be old.

**Server.** The limiter, the watchers and the OAuth service share nothing, so a
behaviour is one of the three at work (`part`), and of the watchers one request
(`caller`), since no request changes anything for another.

**Node packs.** A *plan* is an operation as data: its form, its checks, its
requests (a read, a list of pages, a creation, a setting, a removal, a claim of a
message), local work, and where the loop over items begins. The tables say which
plan each operation of each node has, in the order of its code; `NodeCall` says
what may happen to a request (done, refused, busy, lost before or after it was
applied, an answer that is cut, silence) and what each of the three http paths of
the code does about it. `At` names the parameters that say what a change or a
removal is about, wherever the request carries them: in its address, its query or
its body. `InBody` marks the writes of services that refuse in the body of an
answer with status 200, which `rest.go:261` takes for success. A request that the
service has accepted for later counts as applied. `filled` says whether the user
filled every field that the form shows. `ListNodes` and `Spreadsheet` compute what
a node returns, on every small input.

## Runs

| run | instance | what it shows |
|---|---|---|
| `engine_late` | trigger, suspension and a join; two executions, two workers, one caller of Resume, one crash, one store error; requests after the recovery has listed | exclusive claims, finished runs that stay finished, order of the walk, at most one more start per crash, monotone checkpoints, resumable suspensions, steps of live drives spared by the recovery, success only when nothing is ready; `Engine` implements `Execution` |
| `engine_settles` | a branching graph with a node of an unregistered type, two executions, two workers, queue of one, one crash, fair | no running execution is unattended, and each settles |
| `sub` | three nodes of which the second suspends, one crash, one panic, one store fault, fair | parent and sub-run agree on success; sub-runs end with their parent but for four named causes, go on from their checkpoint, and settle |
| `shutdown` | a request, a firing, two workers, queue of one, one stop and restart, fair | the stop ends, leaves nothing half done, fails no run, and loses no inserted row |
| `scheduler` | one interval and one cron workflow, tick 2, periods 3, fair | starts a tick apart, one start per boundary, an active workflow keeps firing |
| `polling` | three items (one without id), with and without an id function, overlap 1, an interval of two seconds of two units, two runs, fair | nothing skipped, nothing twice in a run, every item emitted; polls keep the interval less a second, which idle polls lengthen and a new item resets |
| `nodes` | every operation of every pack, two items, two pages, one crash; every list of three small items for the list nodes; tables of two rows for the file nodes; fair | apart from the operations that `MCNodes` names: success means applied (and whole, where the operation checks), a write is repeated for a cause, requests go out whole, calls end; items and tables survive |
| `server` | rate 1/2 token, burst 3/2, two keys; a stream or a question, asked any number of times, two steps, restarts with their recovery; two authorizations, one callback, two refreshing clients, two tokens, lost answers, crashes; fair | the limiter implements its token bucket and its window; the last answer is whole and streams end; a state is used once; a stale token has a cause |

The other four are `engine_lost_wakeup`, `engine_stale_resume`, `shutdown_senders`
and `trigger_state`. They find the code at odds with what its comments, its
documents or its own use say (see "Findings").

**Bounds.** `MaxCrashes`, `MaxFaults`, `MaxPanics`, `MaxStops` = 1: each of these
actions puts the system into a state it could also be in after several of them
(memory empty, rows anything reachable), and a second one multiplies states
without a new kind of interleaving; the proofs hold for any number. `QueueCap` = 1
makes a send block as soon as one job waits, with two workers and two executions.
`MaxStarts` = 3 saturates a counter that is compared with `1 + crashes` <= 2.
`EarlyRequests` separates the two start-up orders: with `TRUE` a request may be
served before the recovery has listed (the code allows it: the HTTP server and the
recovery start together), with `FALSE` it may not. The properties of the walk hold
only with `FALSE`; what goes wrong with `TRUE` is described under "Findings", and
no run would catch it getting worse. `Horizon` is above every period and the tick,
so a saturated elapsed time is "due" whatever it would have been; `MaxOwed` = 2
saturates above the value 1 that the property compares with. `WordBits` = 16
stands for 64: the arithmetic is the same; `MaxIdle` stays below the overflow,
which is described under "Findings". `BackoffCap` above `Interval` is an
assumption of `polling` (see below). `Sub` holds two rows, one per call of the
parent that a crash allows. In `nodes` two items make a loop go round, two pages
make a list go on, and four attempts are the code's own number; `MaxCrashes` = 1
repeats the node once, as each further crash would. In `server` `Horizon` lies
above `Idle` and the time of a full refill, `Capacity` is no multiple of `Cost`
(so a fraction is left over), and `MaxPolls` = 2 stands for 600: the loop has a
first, a middle and a last look. Two flows, two sources and a callback give every
pair of savers but that of two callbacks; the proofs are for any number of each.
Restarts, questions, crashes and lost answers are unbounded there. `Second` = 2
gives the clock a fraction to lose. In `engine_settles` the node of an
unregistered type becomes ready in every walk, so its runs settle as errors;
`engine_late` has the successes.

**The operations that break a rule.** `MCNodes` lists by name the operations
whose code does not do what a property of `NodeCall` asks; each list is tight (an
operation taken out of it gives a counterexample) and is a finding below.

**Fairness.** Weak fairness of every goroutine whose step is enabled: the Go
scheduler runs it, and `Execute` and store calls return (node clients carry
timeouts; an operation of `Endless`, which has none, could hold up `ShutdownEnds`
and the settling of its run). Requests, resumes, crashes, panics and signals are
never fair. `WorkerStops` has strong fairness, because `select` chooses at random
among the ready cases: a worker that keeps finding jobs cannot miss the cancelled
context for ever. `CallNode` is weakly fair: the engine goes on with what it has
begun, and a service that is silent for ever is a state of its own ("hung"), left
only by a deadline. `Watch` is weakly fair: a handler is a goroutine whose queries
and timers come back. `Emit` and a successful `ListActiveWorkflows` have strong
fairness: the remote source and the database answer now and then. Liveness is
checked of behaviours without store errors (nothing drives such a row before the
next start), and `RunsSettle` of `Engine` without suspensions, because with them
it fails (first finding).

**Deadlock** is not checked: every model may come to rest when no request is
left or the server has stopped.

## Findings

Runs with a counterexample (`PROJECT.json` "findings" quotes the text):

1. `engine_lost_wakeup`: a job of a resumed execution that is received before
   the suspending worker has released its claim is dropped, and nothing drives
   the running row until the next start.
2. `engine_stale_resume`: `Resume` compares only the status; a caller that loaded
   an earlier suspension wins a later one and rolls the checkpoint back.
3. `shutdown_senders`: the channel is closed while handlers, the scheduler or
   the recovery may still be sending.
4. `trigger_state`: the state of a trigger belongs to one run, and an empty map is
   lost on its way through the row: the next run emits again what the last one
   has emitted.

Met while modelling, described here and excluded by a bound or a condition.
The executor and its neighbours:

- Early requests and the seed (`engine.go:368-382`): the recovery may drive a new
  row before `SaveSeed`, which then overwrites its checkpoint. Excluded by
  `EarlyRequests = FALSE` in `engine_late`. The same window lets the recovery
  re-drive a row between the claim and the save of `Resume` (`:403-427`), and a
  crash in it loses the trigger items or the payload.
- A sub-run's row is not claimed, so an early recovery drives it twice
  (`subwf.go:35`); a panic inside it (`engine.go:541-548`) or a failed call of the
  store (`subwf.go:36-38`) fails the parent and leaves it running until the next
  start. `sub` uses late requests, and its properties name the panic and the fault.
- A node that returns while the stop is draining is not checkpointed, because the
  write uses the cancelled context; it executes again at the next start
  (`engine.go:345`). `RerunOnlyAfterStop` allows exactly that.
- An interval schedule may start sooner than its interval after its previous
  start, since `setLast` records the beginning of the cycle (`scheduler.go:92`);
  `StartsApart` states what remains true.
- The time of the last poll is kept in whole seconds and the interval measured from
  it with the full clock (`polling.go:159`, `:127`), so two polls may be up to a second
  closer than the minimum that the comment at `:63-64` states. `NotMoreOften` says
  "more than `Interval - Second`"; without the second it has a counterexample.
- The 30 minutes cap of the back-off shortens a longer interval
  (`polling.go:149`); items without an id do not end the back-off
  (`polling.go:218`); the state of a poller does not outlive its run, which
  `NewRun` models and `NeverTwice` therefore states per run.
- A second instance of the server recovers and drives what the first one drives
  (`engine.go:612`, against `AUDIT.md:58`): the claim is per process. `SingleInstance`
  excludes it.
- The shift of the back-off overflows after enough idle polls and the interval
  becomes zero or negative (`polling.go:145`, against the comment at `:63-64`);
  `BackoffOnlyDelays` and `BackoffCollapses` say on which side of the bound what holds.
- `core.webhookRespond` never answers the HTTP caller in worker mode, since `Run`
  returns "running" at once; `core.errorTrigger` is started by nothing.

The server:

- Two overlapping exchanges of one credential can lose the refresh token: a
  callback without one reads none, the other saves one, the first writes none
  back (`oauth.go:177-196`). The error of `persist` is ignored, and an answer that is
  lost after the provider has replaced the token leaves the old one in the row
  (`:135-138`, `:234-237`), so "never goes stale" (`oauth.go:2-3`) does not hold;
  `StaleHasACause` says when.
- The recovery fails the open steps of every run it has listed, also of one that
  has ended since (`engine.go:628`): a step that a panic or a failed write left
  running is shown so in a last answer and is changed afterwards. `LastEventIsWhole`
  allows exactly that.
- The stream sends `steps: null` when the query fails, also in its last event
  (`api.go:389`), and ends without a word after 600 looks (`:358`).
- The key of the limiter is `RemoteAddr` with its port: a limit per connection.
- Authorization runs before CORS, so a preflight request is refused;
  `createWorkflow` ignores bad JSON and overwrites an existing id.

The packs (the lists of `MCNodes`):

- `Careless`, a success although the write was refused, lost or never sent: mssql
  and the publishers (mqtt, amqp, kafka, nats) send nothing; http, graphql, grpc, soap,
  websocket, executeCommand, ssh and ftp do not look at what came back; slack
  `message:send`, `:update` and `:delete` and the writes of zoho refuse in the body of an
  answer with status 200, and `rest.go:261` looks only at the status.
- `Unusable`, a form without a field the code needs: paypal
  `payment:authorization`, tasks `task:update` and `task:delete`, mailchimp
  `member:upsert`, dropbox `move` and `copy`, redis `set` and `hset`, ssh `upload`.
- `Unaimed`, a change or a removal that goes out although the parameter that says of
  what is empty, in the address, the query (`rest.go:220` leaves it out) or the body:
  telegram, jira, trello, mailchimp, mongodb, supabase, pinecone and qdrant
  `vector:upsert` and `vector:delete`, ssh `upload`, ftp and sftp `upload` and `delete`,
  slack `message:update` and `message:delete`, sendgrid `contact:upsert` and
  `contact:delete`, quickbooks `invoice:update` and `customer:update`, graph `raw:patch`,
  `raw:put` and `raw:delete` (an empty address falls back to the base URL).
- `Unrepeatable`: `google.retryTransport` sends a body that it has already read
  (`util.go:27`); its comment says that it mirrors `rest.go`, which rewinds.
- `LateCheck`: docs `document:update` reads the answer's `WriteControl` when the
  document is changed. `Endless`: no deadline on Google, SQL, websocket, ftp, ssh and
  mail requests.
- `Strict` names the operations that do check what they read; all others take an
  answer that is cut, or an error body, for the whole (`rest.go:248`: the deadline is
  cancelled before the body is read).
- Seen while translating, and not expressed as properties: body parameters are
  read with `RawParam`, so their expressions are not resolved; base addresses with
  `{store}` are not filled in; one deadline of 30 s is shared by all attempts of a
  page; Lambda's invocation type is not sent; SES `sendTemplate` sends plain mail; an
  A1 reference without a row or a column selects row 1 or column A
  (`sheets.go:425-455`); the AI text nodes use the first item's text for every item;
  the cache key of redis leaves the password out; compareDatasets drops an item of
  the second list with a repeated key; an empty `<t></t>` shifts the shared strings of
  a workbook; `append` reads back without headers; POP3 waits for ever on `-ERR`.
  `Spreadsheet` and `ListNodes` restrict their inputs to what avoids the last ones,
  and say so.

## Mutants

Each property has a mutant of the code that breaks it, defined before the
definition it replaces and named `<definition>_<change>`; `PROJECT.json` pairs
them. They are the errors the properties are there for: a claim that is never
taken (`Claimed_Never`), a compare-and-set without the comparison
(`Claimable_Always`), a walk that restarts at the trigger
(`StartingPoints_Trigger`), a join that fires on any source
(`IsReady_AnySource`), a non-blocking send (`Enqueue_Dropping`), a channel that
is not closed (`CloseJobs_Skipped`), a ticker in place of the reset timer
(`Reset_Ticker`), a cursor moved by a failed fetch (`FetchFails_CursorMoved`), a
bucket forgotten at any age (`Kept_AnyAge`), a state that is looked up and kept
(`takeState_Kept`), steps read before the status (`Answered_StepsFirst`), a status code
nobody looks at (`Taken_AnyStatus`), and so on.

## Proofs

`EngineProofs` proves for every workflow and every number of instances,
executions, workers, callers, crashes and store errors:

- `TypeCorrect`: `Spec => []TypeOK`, one lemma per group of actions.
- `ExclusiveClaims`: `Spec => []ClaimsAreExclusive`. `ClaimsAreExclusive` is
  inductive given `TypeOK`: only `Take`, `Release` and `Crash` touch the two sides
  of the equivalence, and `Take` does so only for an execution that is not in
  `active`.
- `DriversOwnTheRow`, `SingleDriver`, `FinishedStaysFinished`, under
  `SingleInstance`. `DrivenIsRunning` is not inductive alone: another worker could
  end the execution. The invariant `DriveInv` joins it with `ClaimsAreExclusive`
  and `FreshHasNoRow` (a row that does not exist yet is not driven); with one
  instance an exclusive claim is a claim on the row itself, so only the driver
  takes it out of `running`, by the step that ends its drive. `SingleInstance` is
  needed: a second instance may drive the same row.
- Under `Orderly` (one instance whose requests wait for the recovery's list),
  `WalksInOrder`, `WaitsCanResume`, `LiveStepsAreSpared` and `SuccessMeansDone`. They
  rest on `HandInv`: the caller of `Run`, the list and the loop of the recovery, the
  channel, a worker and the caller of `Resume` are the hands that may hold an
  execution, and at most one of them does. An invariant about the row therefore
  has one writer to follow. `WalkInv` says of every state in a row or a goroutine
  that the sources of what it has visited are visited, and where a walk stands.
  Two instances or early requests give one execution two hands ("Findings").
- `NothingIsForgotten`, with `MaxFaults = 0` and no wait nodes (`Undisturbed`): some
  hand holds every running execution (`AttendedInv`). A store error leaves a row
  to the next start, and a suspension may lose its wake-up (first finding).
- With `OneResumer` as well (one caller of `Resume` at a time, without which the
  second finding rolls a checkpoint back): `CheckpointsOnlyGrow` and
  `ClaimsWhatItLoaded` from `CheckInv` (what a goroutine will write is ahead of the
  row), `RerunsNeedCrashes` from `StartsInv` (a node that may still start before
  the next crash has started at most once per earlier crash),
  and `Refinement`, `Spec => RefinesExecution`: each step of the executor is a step
  of `Execution` or leaves the row as it was (`Implementation`).
- Under `Orderly`, what a success leaves out, for every graph. `SuccessIsComplete`
  says that nothing is ready when a run is reported successful; these say what
  that means. A set of nodes without the trigger is *stuck* (`Stuck`) when each of
  them has a source in the set or none at all: no node of it ever becomes ready.
  `StuckNodesNeverRun`: no drive, resume or recovery starts one. `SuccessSkipsOnlyStuck`:
  the nodes that a success has not visited form a stuck set. `WholeGraphIsWalked`:
  without a cycle and with one root no stuck set has a node, so a success has visited every
  node; its proof picks the unvisited node of least rank (`LeastNumber`). The
  invariant is `WalkedInv`, whose walks are `Sound`: what is visited has its sources
  visited, begins with the trigger, and no part of it waits for itself or for nobody
  (`Grounded`).

`ShutdownProofs` proves for any number of requests, firings, workers and stops and
any capacity of the channel:

- `TypeCorrect`, with two facts the later proofs need: a goroutine holds a run
  exactly while its program counter says so (`Holding`), and `main` leaves "serve"
  only once the context is cancelled (`Stopping`).
- `CleanExit`: `Spec => []ExitIsClean`, from `DrainedInOrder`: past `DrainEngine` the
  workers and the recovery are gone, past `DrainScheduler` the scheduler is.
- `StopFailsNoRun`: `Spec => []NoFalseFailure`. Alone it is not inductive: a worker
  that is about to write 'error' must know why. `OwnFailures` adds that, unless the
  context is cancelled (and then the write does nothing), the failure is the node's.
- `RerunsNeedStops`: `Spec => []RerunOnlyAfterStop`. A run may be queued twice (by its
  request and by the recovery), so the bound needs the whole chain: no two workers
  hold one run (`ClaimsAreExclusive`), a run without a row has no effect (`Unborn`),
  and a run that is running and not being written has executed at most once per
  earlier stop (`OncePerLife`). `RerunInv` is their conjunction.
- `StopsGoForward`: what can be proved of `ShutdownEnds` without fairness. From the
  signal to the exit every step of `main`, of the scheduler, of the recovery and of a
  handler brings it to a later place (`StopGoesOn`); only a worker goes back, and then
  the channel is one job shorter. Once the channel is closed no job is added, and it
  is closed before `main` waits (`ClosedBeforeDrained`).

`PollingProofs` proves for any number of items, runs and polls and any word width
`TypeCorrect`, `NothingTwice` (`NeverTwice`) and `NothingSkipped`
(`CursorSkipsNothing`), from the invariant `EmissionInv`: the seen ids are exactly
the items with an id that this run has emitted, each once (`SeenIsEmitted`), and
the cursor is behind what was emitted. `NothingTwice` speaks of triggers with an id
function. `BackoffOnlyDelays` proves `NotMoreOften` (polls more than
`Interval - Second` apart: what is measured is ahead of the time passed by less
than a second) under `BackoffFits`: the interval is at most the cap, 32 intervals fit in a word, and
so does the shift for the longest idle streak. It goes through `IntervalValue` (in
that range the wrapped shift and product are the true ones), and `IntervalGrows`; the
powers of two are a recursive function, whose values `Iteration` gives. Every part
of the bound is needed: a longer interval is cut to the cap, a product that wraps
may be anything, and `BackoffCollapses` proves that beyond the word the interval
is zero. With 64 bits the shift leaves the word at `MaxIdlePolls` + 63 idle polls in
a row.

`SubWorkflowProofs` proves, for any number of workers, calls, nodes, crashes, panics
and store faults, when requests are served after the recovery has listed, `TypeCorrect`,
`SubSucceedsFirst`, `SubEndsFirst` and `CheckpointIsFollowed`. All rest on one
invariant, `SubInv`. Its core is `Private`: a row that is driven inline is neither
queued, nor listed, nor claimed, so a row never has two drivers (`OneDriver`) and
the checkpoint moves only with its driver (`Checkpoints`). `Counts` gives a node
one execution per life of the server: the node after the checkpoint has executed
no more often than the server has crashed or the store has failed, unless its driver
is about to say so in the row, or a panic has left the row for good (`Executed`). `~EarlyRequests` is
needed: an early recovery lists a row that is being driven inline.

`SchedulerProofs` proves, for any workflows, intervals, periods and tick,
`TypeCorrect`, `StartsAreApart` (from `WaitedATick`: when a workflow is examined, a
tick has passed since the last cycle began) and, for `MaxOwed > 1`,
`BoundariesStartOnce` (from `OwedInv`: the boundaries owed are those between the
last start and the "now" of the cycle, or since). With `MaxOwed = 1` the count
saturates where the second boundary of a cycle cannot be told from the first.

`ServerProofs` proves

- of the rate limiter, for any keys and any rate, cost, burst and idle time with
  `RateLimiterAssumption` (what is forgotten would be full), `LimiterTypeCorrect`,
  `Refinement` (`Spec => ImplementsTokenBucket`, step by step) and `NoSpanOverruns`:
  `Budget` bounds what was let through in a window by what the bucket held at its
  start and what the rate has added;
- of the watchers, for any numbers of streams, questions, steps and looks,
  `WatchTypeCorrect` and `FinalAnswersAreWhole`: a status that was read as final stays
  (`OverIsOver`), so the steps read after it are final as well, but for those that an
  overtaken recovery fails. `StreamsGoForward` is the safety half of `StreamsEnd`:
  every step of a request brings it further on a way of at most `4 * MaxPolls + 4`
  steps, until it ends; what follows is a request of its own;
- of the credentials, for any numbers of authorizations, redirects, clients and
  tokens, `OAuthTypeCorrect`, `StatesAreUsedOnce` (a state that can still be taken has
  not been, `UnusedWhileOpen`), `DeletionIsFinal`, and `StalenessHasACause`, from
  `StaleInv`: as long as no answer was lost, no save failed and none overlapped,
  whoever has a token to write that the provider has ended is followed by another
  saver, or the row was written since, and a row with such a token is about to be
  written;
- of the three together, `PartsBehave` (a behaviour of `Server` is one of each part,
  so the theorems about a part hold of the specification that the run `server`
  checks) and `ServerIsSafe`, their conjunction for `Server`.

`NodesProofs` proves the six properties of a call, a list node or a file node that the
run `nodes` checks. The four of calls hold for any tables of plans, any numbers of items, pages and crashes: `CallsAreTyped`,
`SuccessesAreTrue`, `WritesAreCaused` and `RequestsGoOutWhole`. They are stated of
`PacksSpec`, the specification of the run, and follow from `CallInvariant`. Its
invariant `CallInv` says what a call owes at its place of the plan: each write before
`pc` was applied for each item begun (`AppliedSoFar`), and none more often than the
executions so far, with the attempts left in doubt, account for (`RepeatedSoFar`); an operation that checks
first has written only once a write is behind it, and then it has nothing left to
reject (`CheckedFirst`); what the steps so far have asked for is there (`AsksFirst`); all answers so far were whole, for
those that look (`WholeSoFar`); and the attempts of a request were sent whole
(`CarriedSoFar`). What the proofs need of the tables is `TableAssumption`: an operation
that no list of exceptions names looks at the failure of its writes (`Careful`), checks
before it writes (`ChecksEarly`), has a form with what it asks for (`FormComplete`), asks for
what it changes (`Aimed`), and those of `Strict` look at every answer (`Exact`). TLC evaluates
this for the about 1 000 operations of the tables at the start of the run, so
the theorems are about the code as translated, and a new operation that satisfies
it is covered without a run. `CallsGoForward` is the safety half of `CallEnds`: each
step ends the call or moves it on in the order of item, step, page and attempt, all
of them bounded, and only an operation of `Endless` hangs.

The other two say what the list and file nodes compute, for every input:

- `ItemsAlwaysKept`, for any fields, rows and number of items with `ListAssumption`. The invariant
  `ListInv` only says that the output is that of the node for the input and the parameters; the
  work is in the lemmas on the algorithms. If, Switch and Compare Datasets give each port the
  items at a set of places; the sets are disjoint and cover the input (`RoutesEach`), and
  `SelectedPicks` makes of it that an item is found at one place of one port. Split In
  Batches concatenates to its input, by induction over the batches (`BatchesHandOn`). Sort
  inserts the items one by one, and the list is sorted and complete after each
  (`InsertBySorts`); renaming keeps the values after each name (`RenameOneKeeps`). As in the
  property, Sort is only claimed to order a column of one kind of value: `compareValues` is
  no order on a mixed one. The model of `sort.SliceStable` is the insertion sort that it
  is for up to 20 items; beyond, Go merges blocks sorted that way, which is external code.
- `TablesAlwaysSurvive`, for any columns and texts and any number of rows with
  `SheetAssumption`. `SheetInv` says that a written file is the one written for the table,
  and that a CSV begins with the records of the first table after rows were appended.
  `CsvReadsBack` and `XlsxReadsBack` read it back: a record of a filled item is no blank line; the
  shared strings of a workbook hold each text once, none of them empty, so each index
  finds its text. `AppendedReadBack`: what is selected of a longer file
  begins with what is selected of the file (`SelectedContinues`).
  `SheetAssumption` excludes a column with the empty name: alone in a CSV, its header would be a
  blank line.

`Induction` proves `LeastNumber`, `SetInduction` (a set of numbers with 0 and with the
successor of each member is all of them), `Iteration` and `Recursion` (a function on
`0 .. N` that is defined from its value before exists, and has the values of the
definition) from the well-foundedness of the natural numbers. The library's
theorems of this kind take an operator as a parameter, which none of the
installed provers can instantiate; stated of sets and functions, they can be cited.
From `Recursion` it derives what `Selection` computes (`SelectedPicks`). So that the proofs can
use this, `ListNodes` and `Spreadsheet` write their loops as recursive functions and
not with the folds of the community modules.

The only assumptions are the named ones on the constants (`WorkflowAssumption`,
`EngineAssumption` and so on), which TLC evaluates in the runs of these modules,
and those in the statements above. `TypeOK` is proved and not run for every module
with proofs but `NodeCall`, whose `CallTypeOK` is both.

Model-checked only:

- Every liveness property: `RunsSettle`, `SubRunsSettle`, `ShutdownEnds`,
  `FiresWhileEnabled`, `ItemsAreEmitted`, `CallEnds`, `StreamsEnd`. They need fairness,
  and with it ENABLED, which the installed provers do not reason about. Of
  `ShutdownEnds` and `StreamsEnd` the safety half is proved (`StopsGoForward`,
  `StreamsGoForward`).
- `EmittedOnce`, `ResumesItsSuspension`, `SendersHaveStopped`: the code violates them.
- `TriggerState`: its one property is violated.

## Not modelled

- Of the executor: the synchronous mode (tests only), `TryEnqueue` and
  `EnqueueWithTimeout` (no caller); the contents of items and expressions; edits of a
  workflow while one of its runs waits; workflows that call themselves; two
  schedulers on one database.
- `expr` is a pure evaluator of JavaScript expressions, with no state between calls;
  `crypto`, `id`, the registry, the schema and the credential types are primitives or
  tables filled at start-up (the visibility of form fields is in the plans).
- `auth` is one row looked up per request. The copilot handler makes one call of the
  LLM client, which the AI nodes model, and keeps nothing. The client-credentials
  grant stores nothing.
- The listings and saves of workflows and credentials are one statement each; the
  last writer wins.
- `store/binary.go`: only its tests call it.
- Of the packs: `htmlExtract`, `markdown`, `sortKeys`, `splitOut`, `aggregate`, `code`, the
  triggers that pass their item on, the JWT helper of the Google nodes, and code
  that nothing calls (`azureSignRequest`, `cosmosDo`, `validateForm`): pure functions of
  one item or dead.
- The web canvas, `packages/` and `db/`: user interface, types and table
  definitions.

## Plan

Done: the executor with its abstract specification, sub-workflows, start-up and
shutdown, the scheduler, polling and the state of triggers; the rate limiter
with its token bucket, the event stream, OAuth; the packs; the proofs of all safety
properties that hold. Worth adding, in order of importance:

1. Edits of a workflow between two drives of a run: the graph as a variable of
   `Engine`.
2. Two levels of calls in `SubWorkflow`.
3. A second callback in `server`, once `persist` no longer overwrites what another
   saver wrote.
