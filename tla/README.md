# TLA+ specifications of a2a-rs

These modules specify the parts of [a2a-rs](../src) in which concurrency, failure
and order decide whether it is correct. On the server: the task store, the
executions that run an agent's work, the subscriptions that follow them, the
request handler that ties them together, listings, push notifications, and the door
of each protocol binding. On the client: a call over each binding, the parser of event
streams, and the command line, which reads settings and arguments, waits, reconnects
and saves files. Between them: the JSON forms of documents, and the SLIM plugin. `TLC` checks the modules on small instances;
`TLAPS` proves theorems about them for every value of their constants.

Contents: [the system](#the-system) ·
[modules](#modules-and-how-they-correspond-to-the-code) ·
[runs](#runs-and-what-they-show) · [fairness](#fairness) ·
[divergences](#divergences-between-the-code-and-its-documentation) ·
[proofs](#proofs) · [not modelled](#what-is-not-modelled) · [plan](#plan)

## The system

a2a-rs implements the Agent2Agent protocol: a client sends messages to an
agent; a message starts or continues a *task*; a task's work is an *executor's*
stream of events (status updates, artifacts, whole task snapshots, or one
message); clients wait for the end, follow the stream, subscribe to it later,
cancel it, list tasks, or register webhooks.

| component | source | state | operations |
|---|---|---|---|
| task store | `a2a-server/src/task_store/` | map id → (task, version); queue of finished ids | `create`, `update`, `begin_cancel`, `get`, `list` |
| running execution | `handler.rs` `ActiveExecution` | last task snapshot and event number under a lock; a broadcast channel of 32 events | `publish`, `subscribe`, `resubscribe` |
| subscription | `handler.rs` `subscription_stream` | receiver, snapshot still to be shown, number of the last event shown | one item per poll |
| execution registry | `handler.rs` `ExecutionManager` | executions by task; waiting subscriptions by task | `start`, `get`, `subscribe`, `release`, `finish` |
| request handler | `handler.rs` `DefaultRequestHandler` | none of its own | `send_message`, `send_streaming_message`, `cancel_task`, `subscribe_to_task`, `get_task`, `list_tasks`, push config calls |
| drive | `handler.rs` `drive_execution`, a spawned task per turn | the turn's copy of the task | saves, pushes and publishes each event |
| push | `a2a-server/src/push/` | webhooks by task | `save`, `get`, `list`, `delete`; `send_push` |
| bindings | `jsonrpc.rs`, `rest.rs`, `sse.rs`, `a2a-grpc`, `a2a-slimrpc` | none | map requests and errors to the handler's and back |
| client | `a2a-client` | candidates tried, SSE parse buffer, interceptors run | select an interface, call, parse a stream |
| command line | `a2acli` | settings by source; outage deadline, last state shown; names of saved files | start, send, wait for a task, resume a subscription, save file parts |
| transport plugin | `a2acli-transport-slimrpc` | start-up steps, its line on stdout, its token | starts, serves, makes a gRPC call again over SLIM, stops |
| types | `a2a`, `a2a-pb` | none | serialization in two JSON forms, conversion |

How they interact. A send loads or creates the task, registers an execution
(one per task), subscribes itself and spawns the drive. The drive polls the
executor; each event is written to the store (`apply_event_to_task`), pushed to
the webhooks and published to the execution, in that order. A cancel first moves
the stored task to `CANCELED` (`begin_cancel`), then runs the executor's cancel
stream and publishes *that* to the same execution: from here on two tasks write
the store and publish to one channel. A subscription joins a running execution,
or waits in the registry for the next turn. Every `.await` is a point where
another request runs, and where a disconnecting client's request ends.

What is hard:

* the store is shared, the copies are not: a send, a drive and a cancel each
  carry a copy of the task across many awaits and write it back whole;
* an event is numbered under a lock and sent after it, a subscription takes its
  receiver before its snapshot: neither is atomic;
* a cancel may begin, end or fail at any moment of a turn, between two turns, or
  while a subscription decides whether to wait;
* every early return (`?`), error and dropped future must still release what
  it registered: the execution, the waiting subscriptions;
* finished tasks may be purged under whoever still works on them;
* the pages of a listing are offsets into a set that changes between two calls;
* a webhook's name may resolve to another address after its URL was checked, or
  redirect; one bad webhook shares a loop with the good ones;
* a stream arrives in chunks of any size, may be cut anywhere, and is resumed from a
  snapshot; a message may have been taken although its reply was lost;
* four bindings carry the same request, the same answer and the same error through
  conversions of their own, and each has a door of its own to guard;
* documents of one JSON form meet readers of the other;
* a process that reports its start on one line must report every failure on it, once.

What makes each component correct:

* *store*: a finished task keeps its state; exactly the finished tasks are queued
  for purging, the one that finished first goes first, never more than the limit
  stay;
* *execution and subscription*: events come in order, none is lost or repeated
  around the snapshot, a lagging reader gets an error and not a gap, the stream
  ends, and after everything was shown;
* *handler*: all observers agree how a task ended; one turn at a time; a failed
  turn ends its task; the registry never keeps a dead execution; nobody waits for
  a turn that cannot come; every accepted request is answered; a cancel is pushed;
* *listing*: pages are full but the last, and wrong only about tasks behind a change;
* *push*: only whoever may touch a task changes its webhooks; a webhook that fails,
  unless it is refused, costs its own notification only; no connection to an internal address;
* *client call*: the best interface that works; what was asked is what the handler is
  asked, what it answered is what the caller gets, errors included; interceptors pair;
* *event stream*: the items written, in order, whole, however they are cut up; a
  loss is noticed;
* *door*: the handler is called only for requests that passed every check, as the tenant
  and the identity they are;
* *documents*: whoever reads one takes it for what its writer meant, or refuses it;
* *plugin*: one line, true; calls of the holder of the token only;
* *command line*: what was typed is sent, what is told happened; settings by precedence; an exit status that is true; no message
  sent twice; no state hidden by a reconnect; an end; files with exactly their bytes.

`PROJECT.json` lists the hazards line by line with the properties that cover
them.

## Modules and how they correspond to the code

| module | models | depends on |
|---|---|---|
| `TaskStates` | `TaskState`, `is_terminal` | |
| `TaskStoreOps` | the store as a value: one operator per locked section of `inmemory.rs` | `TaskStates` |
| `TaskLifecycle` | abstract: what a store promises, without queue or versions | `TaskStates` |
| `InMemoryTaskStore` | the store under arbitrary callers | `TaskStoreOps`; refines `TaskLifecycle` |
| `ExecutionOps` | events, `ActiveExecution` and one subscription as values | `TaskStates` |
| `ActiveExecution` | an execution, its publisher, and subscriptions that join | `ExecutionOps` |
| `ActiveExecution_proofs` | theorems about it | `ActiveExecution` |
| `RequestHandler` | sends, drives, cancels, subscriptions over store, registry, executions, webhook | `TaskStoreOps`, `ExecutionOps` |
| `RequestHandler_proofs` | theorems: types, the registry | `RequestHandler` |
| `RequestHandler_agrees` | theorems: what callers, streams and webhooks are told | `RequestHandler_proofs` |
| `RequestHandler_shows` | theorems: what a subscription of a turn that nobody cancels is shown | `RequestHandler_agrees` |
| `TaskListing` | `list_tasks` and `list`: a client walks pages while the store changes | `InMemoryTaskStore` |
| `TaskStore_proofs` | theorems: the store's types, its retention, that it implements `TaskLifecycle`; that pages are faithful | `InMemoryTaskStore`, `TaskListing` |
| `PushService` | the handler's builder, the push config calls, the delivery of events to webhooks | |
| `ErrorCodes` | an error's way to the client, by binding | |
| `Dispatch` | methods, REST routes, tenants and versions: which operation a request is for, and how a client addresses it | `ErrorCodes` |
| `Dispatch_proofs` | lemmas about it: where a request goes, whatever its path, ids and tenant | `Dispatch` |
| `ServerEntry` | one request of any shape at the door of each binding | `Dispatch`, `ErrorCodes` |
| `PluginServe` | the SLIM plugin from its start to its end | `Dispatch` |
| `Server_proofs` | theorems about pushes, the door and the plugin | `PushService`, `ServerEntry`, `PluginServe`, `Dispatch_proofs` |
| `ProtoConv` | `pbconv.rs`: what becomes of each field, there and back | |
| `JsonForms` | a document in its serde or ProtoJSON form, and what each reader makes of it | `ProtoConv` |
| `ClientCall` | one call: factory, interceptors, exchange over a binding, answer | `Dispatch`, `ErrorCodes`, `ProtoConv` |
| `SseStream` | `sse.rs`, a network, and `parse_sse_bytes` | |
| `CliStart` | an invocation of `a2acli` up to its request | |
| `CliTasks` | its task commands, from the request to the exit | `TaskStates` |
| `Client_proofs` | theorems about the start, the task commands, the call and the stream | `CliStart`, `CliTasks`, `ClientCall`, `SseStream`, `Dispatch_proofs` |
| `CliInput` | what it makes of arguments, references, `.env` lines, credentials; what it reports | `CliStart`, `CliTasks` |
| `FileParts` | `--save-fileparts` | |
| `MC*` | the instances TLC checks | |

`TaskStoreOps` and `ExecutionOps` hold no variables, so that the component
modules and the composition apply the very same definitions.

**Store.** `store.entries[id]` is the `HashMap` entry (task and version) or
`Absent`; `store.terminal` is the `VecDeque`. Each method takes the lock once and
holds it to the end, hence one action per method: `Create`, `Update`,
`BeginCancel`; `reply` is the result, refusals included. `Retire` is the `while`
loop of `Tasks::retire` as the prefix it removes. `now` and `endedAt` are history
variables for the refinement: when each finished task finished.

**Execution.** `exec` is the snapshot, the event number and `sent`, everything
ever handed to the channel; a receiver is a position in `sent`, and it has lagged
when more than `Capacity` lie ahead of it. `publish` is two actions (number under
the lock; send after it) and so is `resubscribe` (receiver; snapshot). Nothing is
sent when nobody listens, as in the code. The sender side closes when the last
`Arc` is gone (`Closed`). A publisher stops after an event that ends the streams,
as the drive does.

**Handler.** One process per request, one step between two awaits:

| process | steps, in the code's order |
|---|---|
| send | `SendExisting`/`SendNew` (prepare) → `SendConfigRefused` or `SendStart` (`ExecutionManager::start`) → `SendSpawn` → `SendReceive`, `Skip` … → `SendEnd`, `SendReload` |
| drive | `DriveSnapshot` → `DrivePull` → `DriveSave` (→ `DriveCreate`) → `DrivePush` → `DriveNumber` → `DriveSend` → … → `DriveFinish`; failures: `DriveFail` (→ `DriveFailCreate`) → `DriveFailPush` → `DriveNumber` |
| cancel | `CancelLoad` → `CancelBegin` (→ `CancelRaced`) → `CancelLookup` → `CancelPull` → `CancelSave` (→ `CancelCreate`) → `CancelPush` → `CancelNumber` → `CancelSend` → `CancelNext` … → `CancelFinish` → `CancelReload` → `CancelFinalPush` → `CancelRelease`; every early return goes through `Unwind` to `CancelRelease` (`ReleaseOnDrop`) |
| subscription | `SubRegister` → `SubAttach`, or `SubLoad` → `SubDecide`; then `SubReceive`, `Skip`, `SubEnd` |

`SendDropped`, `CancelDropped` and `SubDropped` are clients that go away: the
future is dropped at the await it is in, what it owns is dropped with it, and the
spawned drive goes on. Steps between which the code has no await cannot be
separated by a drop (registering and spawning; numbering and sending).

What is abstracted. A task is its state and the set of messages its history
records; artifacts, parts, timestamps, contexts and metadata are left out, except
that `Append0` is an artifact chunk `apply_event_to_task` refuses. One webhook
stands for the task's configs: `pushed[t]` is what it was sent; with `PushFails`
any push may return an error. An executor that yields a whole task builds it from
the one it was given. `Yield` keeps what a stream yielded in `seen`, a history
variable. Authorization and capability checks fail before any state is read and are
left out here; `PushService` has them.

**Listing.** `Page` is one call: the matches sorted by id from the offset in the token, and
the offset behind the page as the next token. The handler and the store each resolve the
page size. Ids are numbers, the content of a task stands for its context id. `Write` is any
write of `InMemoryTaskStore`; `joined` and `left` record what it did to the listing.

**Push.** `WithPushNotifications`, `WithExtendedAgentCard` and `WithCapabilities` are builder calls
in any order before `Serve`. A call passes `Authorize` (the required extension, then the
authorizer, a set of tasks by caller) and the capability check, in the code's order.
`Publish` lists the webhooks once per event, `Send` takes them in the order of a hash map, that is
any order, and checks URL and headers; `Dial` is one connection: the addresses the name has *now*, the
answer, or a redirect, checked in its turn. `dialed` is a history variable.

A listing of webhooks is cut into pages by the handler (`ListPushConfigs`), from all that the
store has for the task at that moment.

**The door.** `ArriveJsonRpc`, `ArriveRest`, `ArriveGrpc` and `ArriveSlim` take one request from a set that
holds every combination of what the binding looks at: body, id, method, path, verb, version headers and query,
tenant in the path and in the body, metadata and session of SLIM. `Dispatch` is the same table of operations
the client addresses (`RestPath`), so that `ClientCall` shows that each side finds what the other means,
with ids and tenants that look like parts of a path. Routes are tried as axum does: the literal before the parameter.

**Documents.** A struct is a table of its fields with what its serde attributes do (`required`, `default`,
`nullable`, `omitted`, `option`, `bag`); a document is written with one field at each of its values, in each form,
and read by each reader the code has for it (`serde`, `compat`, `protojson`, `client`). Parts, security requirements,
error details, task states and interface bindings have writers and readers of their own.

**The plugin.** `RunStep` is one step of `run`, in order, each of which may fail (`RunFails`); `StdinClosed` and
`ServeFails` end the service at any moment; one call is followed (`CallProxy`, `AgentAnswersProxy`). The labels that
hashes make are taken to be as distinct as what is hashed.

**A call.** `SelectTransport` tries one candidate at a time; `Before` and `After` run one interceptor each, in `asked` and `told`;
`Exchange` is the request, the server's dispatch, the handler's answer and the way back,
any of which may be lost. Streams over SLIM are requested only when read (`OpenStream`,
`ReadStream`); a REST subscription may be repeated on the older path (`LegacySubscribe`). A call
follows *one field* of one message through the conversions, and the instance quantifies over all of
them: the conversions treat every field by itself. The binding `plugin` is gRPC to the SLIM plugin, which
makes the call again.

**A stream.** Bytes are tokens: line feeds, the beginnings of id, data and comment lines, the halves of a
payload. `TakeChunk` takes any number of them, appends them to the buffer and frames what is
complete; `TakeEnd` is `parse_stream_tail`.

**The command line.** `CliStart` has one action per stage of `run`, in order; `ApplyDotenvFile` is applied to the global, then the
local file. Of the settings the eight that decide what happens are kept, `timeout` standing for
the rest. `CliTasks` keeps deadlines as the time left to them; an agent moves its task on its own, a network
loses requests, replies and streams. `FileParts` has paths as sequences of components, `reserved` the
map of names to owners, and a disk that may hold older files. `CliInput` runs one job: a message put together token
by token (`TakeToken`, since standard input can be drained once), or one value, reference, line,
set of credentials or report. Typed text is a sequence of tokens, cut where the code looks.

The six client modules share no state, nor do `PushService`, `ServerEntry`, `PluginServe` and `JsonForms`, nor `TaskListing` and `ActiveExecution`
(`RequestHandler` composes store and executions). `MCClient`, `MCServer` and `MCServerState` conjoin them: a behaviour follows one of them, its
`focus`, while the others rest in an initial state.

## Runs and what they show

`cd tla && tlc -config <cfg> <module>`.

| run | cfg | shows |
|---|---|---|
| `server_state` | `ServerState.cfg` | the store: types, exact retention, refinement of `TaskLifecycle`, listings walked meanwhile are full and faithful. An execution: a subscription joining at any moment gets a current snapshot, every later event, or a lag error, then an end, after everything was shown |
| `handler_turn` | `Handler_turn.cfg` | every kind of item, every send mode, failing webhook, lag: a failed turn is over, a quiet end shows the outcome, a subscription waiting between turns misses nothing |
| `handler_cancel` | `Handler_cancel.cfg` | turn, cancel, subscription, failing webhook and disconnecting clients: agreement on the end, `CANCELED` is pushed, no stranded waiter; accepted requests are answered and subscriptions end |
| `handler_two_turns` | `Handler_twoTurns.cfg` | two sends and a cancel race for one registry entry while finished tasks are purged at once: one turn at a time, own executions only, events in order |
| `server` | `Server.cfg` | one request of any shape at each binding; the plugin's life; every document in every form; every order of builder calls, callers with and without rights, webhooks that fail, redirect or change address |
| `client` | `Client.cfg` | an invocation from its settings and arguments to its exit and report, a call over every binding, a stream in every chunking, the files saved of it |
| `v_*` | `Handler_v_*.cfg`, `Server_v_*.cfg`, `Client_v_*.cfg` | the divergences below; each is expected to be violated |

Properties, by what would have to go wrong:

* `RetentionExact` — a write path that retires a task twice or not at all (a task
  finished by `create`, `update`, `begin_cancel`; a write that repeats its state).
* `ImplementsLifecycle` — a state of a finished task changes, or the purge takes
  the wrong task, or too many.
* `SnapshotIsCurrent`, `NothingMissed`, `StreamsEnd` — the
  two halves of `publish` and `resubscribe` interleave badly; a closed channel is
  taken for a drained one.
* `InOrder` — two publishers overtake one another.
* `TerminalAgreement` — a stream, an answer or a webhook announces an end the store
  does not keep.
* `FailedTurnIsOver` — a failure path of the drive leaves a task running forever.
* `EndShowsOutcome`, `WaiterMissesNothing` — a subscription ends, or goes on,
  without having shown what happened.
* `RegistryIsLive`, `DetachedIsCanceled`, `FinishIsOwn` — an execution stays
  registered after its drive, leaves before it, or is removed by another's `finish`.
* `NoStrandedWaiter` — registering, reading the store and releasing interleave so
  that a subscription waits on a finished task; an early return skips the release.
* `CanceledIsPushed` — a way out of `cancel_task` on which the webhooks never hear of
  the cancel.
* `EveryoneIsAnswered` (sends, cancels, subscriptions) — a handle of an execution is kept,
  a lock is awaited under itself, a release is forgotten.
* `PagesFaithful` — an offset counts the wrong tasks; a size that is zero,
  negative or too large reaches the slice; a client follows tokens for ever.
* `NeverDialsBlocked` — the URL was checked and the address was not, or the first hop
  was and the next was not.
* `OnlyRefusalsCutShort` — a webhook that cannot be reached ends the loop over the others; something is requested of a
  webhook that should have been refused. That a refused one does end the loop is divergence 6.
* `OnlyPermitted` — a check comes after the effect, or a builder call undoes an
  explicit refusal; a page of webhooks shows another task's, or skips one.
* `EntryGuarded` — a check is missing on one of the bindings or routes; path and body
  disagree about the tenant; a SLIM caller claims an identity in another casing; an older path does something
  else than the one it stands for; an answer has another request's id or the wrong class of status.
* `PluginSound` — a failure after the handshake writes a second line, one before it none; two names share
  a label; a call passes with a token among other entries, or hands the token on.
* `OneMeaning` — a document that both parsers take means two things; a default, a null and an absence are confused;
  a security requirement is read in the wrong form.
* `StartIsSound` — a weaker source overrides a stronger one; a discovered `.env`
  sets `ca-cert` or `unix-socket`; an exit status says "not sent" of a request that was.
* `ExitIsEarned` — a healthy stream, or one outage after another, adds up to a timeout;
  success is reported of a task that still runs.
* `NothingHidden` — suppressing the first event after a reconnect hides a change.
* `MessageTakenOnce` — the fallback from streaming to sending repeats a message the agent
  has taken.
* `SelectionBest`, `HooksPairUp` — fallback and preference disagree; an `after` runs without its
  `before`, or in the wrong order.
* `PayloadArrives`, `ErrorSurvives` — a default, an absent and a zero are confused by one of
  the conversions; a tenant or a version is lost on one binding; an error changes its
  meaning, or looks like a lost connection and is retried.
* `StreamFaithful` — an event boundary or a payload is split between chunks; a cut is taken for an end.
* `FilesIntact` — after a cut, appended chunks are written twice or not at all; two owners of one name
  write into one file; a file of an earlier run is appended to.
* `InputFaithful` — the order of flags is lost, a media type goes to the wrong part, stdin is used
  twice; a reference is taken for a file or for a host, or gets the wrong scheme; a quote or an `=` in a `.env` line; a
  secret gets into the log; an exit status or a hint does not fit what happened.
* `CommandEnds` — the command outlives its task.

In each module a definition marked *Slip* is a variant of the one below it with a
plausible bug; `PROJECT.json` pairs it with the property that refutes it, which
shows that the property depends on that code.

### Bounds

* Store: three ids (the purge can take the wrong one of two finished tasks while a
  third is live), limit 1, a live and two terminal states (a terminal state can be
  repeated or contradicted), `MaxWrites` 5 writes; pages of one (the default, for no size asked)
  or two (the maximum, for a larger one). Other limits, 0 and none included, are
  covered by the theorems, which fix none.
* Execution: four events (`MaxPublished`) over `Capacity` 2 make lag, a full and an
  empty channel reachable; two subscriptions, since a send is skipped when *nobody*
  listens; two statuses, a message and an error, one of each kind the stream tells
  apart.
* Handler: one task (two where a new one is created), one send (two where turns race),
  one cancel, one subscription. `MaxExecute`: 2 items a turn where the shape of the
  response matters (a message after a task), 1 where a cancel interleaves with it: the
  executor may still end, fail or go on at any point. `MaxCancel`: 1 item a cancel, or
  none. `Capacity` is 1 in `handler_turn`, so that a subscription lags after two
  unread events, and the code's 32, out of reach of the bounded turns, elsewhere.
  `Limit` is 0 in `handler_two_turns`: whatever ends is purged at once, so that saves find
  their task gone and create it again.

* Push: two tasks, `MaxConfigs` 2 webhooks a task and `MaxSaves` 3, so that the limit is met with a new and with a
  known id; `MaxHops` 1 redirect, so that one is followed and the next refused; one publisher; the guard on
  without `fail_on_error` and off with it; a
  public and a blocked address, a name that resolves to either, a blocked name. Rounds of different publishers
  share nothing but the configs, which each reads once.
* Door: paths of up to five segments, among them all of up to two out of nine segments that are or look like parts of routes;
  a right request on each, and everything that can be wrong with one on some; two tenants; headers once, thrice and not text.
  Plugin: every start with one thing wrong; every app name of up to four characters out of five, and two with the longest label
  (`MaxLabel` 17 instead of 1024) and just over it. Documents: every field of every struct at each of its values in each form.
* Client: `Timeout` 3 and `Interval` 2 ticks (the last nap is cut to what is left), `MaxWire` 2 events in flight,
  one live, one interrupted and one terminal state; `MaxItems` 3 items and `MaxComments` 1 keep-alive in every chunking;
  `MaxParts` 3 parts over two artifacts and a status message whose names collide; cards of up to three
  interfaces, four preferences, up to three interceptors; every field with every value over every binding, every
  error code with every set of details. Input: every line of up to three flags out of eight kinds, and of two out of twenty;
  references of every scheme, host and path shape, on disk or not.

`handler_turn` and `handler_two_turns` check for deadlock: a state in which no request
can go on must be `Settled`, with every request over, or waiting as a subscription
may. In `server_state` the execution stops when all is
published and shown and the writes of the store are bounded, a request at the door, a document and a plugin are over at some time, `handler_cancel` and `client` check
progress themselves and a command ends, so those runs do not.

## Fairness

`Spec` assumes none; the safety runs use it. `FairSpec` (`ExecFairness` of an execution alone, which `StateFairness` repeats
for the behaviours of `MCServerState` that follow one) assumes weak fairness of each
process's steps, which is what a tokio runtime gives a future that is ready, and that
executors and webhooks return (`send_push` has a timeout; an executor that never ends
keeps its callers waiting, by design). Consumers are assumed to go on reading the
streams they opened. Nothing makes a client send, cancel, subscribe or disconnect.

`CommandEnds` assumes weak fairness of three things: the process's own steps (`CliStep`: it runs, and every call is
answered or fails; this is assumed of agent and network, as the client sets no timeout on a single
call and `--timeout` does not interrupt one), `StreamEnds` (an agent closes the stream of
a task that is over: `StreamsEnd`, `EveryoneIsAnswered` of the server), and `Tick` (time passes). Nothing makes
an agent finish its task or a connection fail.

## Divergences between the code and its documentation

Each is shown by a run that finds the shortest such behaviour.

1. **A turn can erase another turn's message** (`v_history`). Two sends prepared from the
   same stored task: the first turn runs and ends in `INPUT_REQUIRED`; the second starts
   from its stale copy, and its first event overwrites the stored history. The comment at
   `handler.rs:934` says history "actually accumulates across turns".
2. **A purged task comes back** (`v_purged`). `save_task` answers *not found* with `create`;
   a drive, or a cancel whose executor goes on emitting, stores a purged task again, as
   `FAILED` or even as `WORKING`. The doc of `with_terminal_task_limit` says it is reported
   as `TaskNotFoundError`.
3. **A committed cancel may never be pushed** (`v_cancel_push`). A progress status from
   `executor.cancel` is refused by the store, since the task is `CANCELED`, and `?` leaves
   `cancel_task` before any push. (A failed push of an event that is not terminal leaves in the
   same way.) The comment at `handler.rs:1285` says the update is pushed here.
4. **A subscription can miss an event** (`v_waiter`). With a cancel publishing beside the drive,
   events are sent in another order than numbered, and the one sent late is dropped by its
   number. `handler.rs:127` says the subscriptions "miss none of its events". Every stream
   stays in order (`InOrder`), which is what the number is for.

5. **A reconnect may never learn the outcome** (`v_subscribe`). A task ends while its subscription is cut.
   The server refuses to subscribe to a task that is over (`handler.rs:1323`), `subscribe_with_resumption`
   (`a2acli/src/lib.rs:3380`) retries every refusal alike, and the command gives up with `TIMEOUT`. The
   README of `a2acli` (line 250) says that the first event after resuming "is enough to reconcile state".
6. **A refused webhook silences the others** (`v_refused`). `send_push` returns an error for a URL, credentials or a scheme
   that it refuses, whatever `fail_on_error` says, and `?` (`handler.rs:315`) leaves the loop over the configs: the
   webhooks after it hear nothing of the event, and the execution fails. The doc of `fail_on_error`, which is off by default, says "If
   true, push sending errors abort execution" (`push/sender.rs:23`).

Outside these circumstances the same properties hold: `CanceledIsPushed` for every executor
whose cancel emits nothing, an error or `CANCELED` (`handler_cancel`), `WaiterMissesNothing`
while no cancel runs (`handler_turn`), and a round of pushes is cut short by nothing else (`OnlyRefusalsCutShort`).

Seen while modelling, without a run. Where a property would meet one of these it says so in its comment.

* A stream cut exactly after `data:` ends without an error; of a cut inside an event the doc of `parse_stream_tail`
  says that "ending silently is the one answer that is always wrong" (`a2a-client/src/jsonrpc.rs:235`).
* A `.env` found by walking up from the working directory is not read for `A2ACLI_CA_CERT` and `A2ACLI_UNIX_SOCKET`, "so a
  cloned repository cannot choose what `a2acli` trusts or where it sends traffic" (`a2acli/README.md:203`,
  `lib.rs:1762`). It is read for everything else, as line 348 of that README says: `A2ACLI_INSECURE` switches the verification of
  certificates off (`lib.rs:124`), and the agent card, endpoint and transport say where traffic goes. `StartIsSound` states
  which settings count, as the code has them; it does not state the purpose.
* `create_from_card` documents "client preference order, then newest version" (`factory.rs:71`); the sort is by
  preference only, and the order of the card decides the rest.
* The help of `--tenant` (`lib.rs:163`) says that it overrides the tenant the selected interface declares; the declared one
  wins, as a comment at `lib.rs:2460` explains.
* `a2acli` says that gRPC drops error details (`lib.rs:3274`, README line 246); `status_to_a2a_error` keeps them,
  other than `struct` details.
* `middleware.rs:30`: "Every protocol binding calls this"; the SLIM server never checks the version.
* Under a tenant the older REST subscribe path is not routed; its failure replaces the error of the first attempt.
  Task ids that end in `:subscribe` or `:cancel` are read as actions.
* A REST URL cannot address everything: ids and tenants `.` and `..` are resolved away; a tenant `tasks` is taken for the
  segment before a single one, and before a task named like a route's last segment (`PayloadArrives` excludes them: `Unaddressable`).
* A loopback host without a port but with a path gets `https` (`lib.rs:2519` says "`http://` for loopback").
* A duration that is finite and too large panics in `Duration::from_secs_f64` (`lib.rs:1539`).
* `--svc-param a2a-version=…` in another casing sends two version headers (`lib.rs:2313`).
* An interceptor that fails in `before` ends the call, and the earlier ones never get their `after`.
* A lost SLIM connection behind the plugin is an `INTERNAL_ERROR` with details, not a lost connection.
* "a bad flag is reported before any network work" (`lib.rs:903`); `push-config create` checks
  `--auth-credentials` after the card was fetched (`lib.rs:1618`).
* A later artifact of the same name "gets a ` (n)` suffix instead of replacing the earlier file" (`fileparts.rs:33`), but
  the numbered name may be that of another file, which it then replaces; an artifact
  replaced without a file and then appended to keeps the older bytes.

## Proofs

The theorems hold for every value of the constants that the modules' named `ASSUME`s allow: any
number of tasks, requests, subscribers and webhooks, any executor, limit and capacity, and any value of the bounds that
keep TLC's instances finite. TLC evaluates the same assumptions on every run. The
properties were model-checked by the runs above before they were proved.

| module | theorem | states |
|---|---|---|
| `TaskStore_proofs` | `TypeCorrect`, `RetentionIsExact` | `[]TypeOK`, `[]RetentionExact` |
| | `StoreImplementsLifecycle` | `ImplementsLifecycle` |
| | `PagesAreFaithful` | `[]PagesFaithful` |
| `ActiveExecution_proofs` | `ExecutionTypeCorrect`, `SnapshotsAreCurrent` | `[]ExecTypeOK`, `[]SnapshotIsCurrent` |
| | `OnePublisherMissesNothing` | `[]NothingMissed`, with one publisher |
| `RequestHandler_proofs` | `HandlersTypeCorrect`, `OnlyLiveExecutionsRegistered`, `OnlyCancelsDetach`, `FinishTakesItsOwn` | `[]TypeOK`, `[]RegistryIsLive`, `[]DetachedIsCanceled`, `FinishIsOwn` |
| `RequestHandler_agrees` | `StreamsAreInOrder` | `[]InOrder` |
| | `OneEndForAll`, `FailedTurnsEnd`, `WaitersAreReleased` | `[]TerminalAgreement`, `[]FailedTurnIsOver`, `[]NoStrandedWaiter`, over a store that purges nothing |
| | `CancelsAreHeard` | `[]CanceledIsPushed`, over such a store, with a webhook and an executor that cancels well |
| `RequestHandler_shows` | `WaitersMissNothing`, `EndsShowOutcomes` | `[]WaiterMissesNothing`, `[]EndShowsOutcome`, where nobody cancels |
| `Server_proofs` | `PushTypeCorrect`, `NothingBlockedIsDialed`, `FailuresAreIsolated`, `OnlyThePermitted` | `[]TypeOK`, `[]NeverDialsBlocked`, `[]OnlyRefusalsCutShort`, `OnlyPermitted` |
| | `EntryIsGuarded` | `[]EntryGuarded` |
| | `PluginsAreSound` | `[]PluginSound` |
| `Client_proofs` | `StartsAreSound` | `[]StartIsSound` |
| | `CliTypeCorrect`, `ExitsAreEarned`, `NothingIsHidden`, `MessageIsTakenOnce` | `[]CliTypeOK`, `[]ExitIsEarned`, `[]NothingHidden`, `[]MessageTakenOnce` |
| | `SelectionIsBest`, `HooksArePaired` | `[]SelectionBest`, `[]HooksPairUp` |
| | `PayloadsArrive`, `ErrorsSurvive` | `[]PayloadArrives`, `[]ErrorSurvives` |
| | `StreamsAreFaithful` | `[]StreamFaithful` |

### Hypotheses of theorems

* *One publisher* (`Publishers = {p}`). A drive publishes in a loop, so numbers and sends alternate; a cancel is a second
  publisher, and then an event can be missed (divergence 4).
* *Nobody cancels* (`Cancels = {}`) of `WaitersMissNothing` and `EndsShowOutcomes`: the same hypothesis, seen from the handler.
  Any number of turns, sends and subscriptions is left, and any limit of the store. A cancel beside the drive is divergence 4.
* *A store that purges nothing* (`Limit = NoLimit`), which is what `InMemoryTaskStore::new` builds. With a limit the
  end a stream announced may no longer be in the store; a second send that still holds its copy of a purged task
  creates it again (divergence 2), `WORKING` after its first turn had failed; and a cancel whose executor fails cannot load the
  purged task to push it. So `OneEndForAll`, `FailedTurnsEnd` and `CancelsAreHeard` need the hypothesis. For
  `WaitersAreReleased` no behaviour is known that does: the proof rests on `Says`, which needs it. All other theorems hold for every limit.
* *`PushOn`, `CancelsWell`*. `CancelsWell` says of each item of `executor.cancel`: it is an error; or a status
  or task with state `CANCELED`; or an item without a state that the save accepts, where pushes do not fail. The
  other items are those of divergence 3: refused by the store or by `apply_event_to_task`, or followed by a push
  that fails before the task's end was told. Pushes of `CANCELED` and of errors may fail.

### Assumptions on constants

* `LimitAssumption`, `CapacityAssumption`, `BoundAssumption`, `ExecBoundAssumption`, `CliBounds`, `PushBounds`: limits and bounds are numbers (a
  limit may be a value that is not one; the capacity and the poll interval are positive).
* `AbsentAssumption`, `NoTaskAssumption`, and the parts of `ModelAssumption` on `None` and `Dead`: `Option::None`
  is not a `Some`. `Sends` and `Subs` are disjoint: they name different requests.
* `StatesAssumption`, `CliStates`, `ItemsAssumption`, `EventsAssumption`: tasks, items and events carry a task
  state exactly where the protocol's types have that field.
* `PushHosts`, `PushCallers`, `PushInputs`, `CliInvocations`, `LaunchAssumption`, `FilterAssumption`: the form of the inputs. `Offered`, the configs that clients ever
  offer, is finite: a page of a listing is cut from a finite list.
* `ModelAssumption`: the tasks at the start are tasks; the send modes are the code's three.
* `IdAssumption`, `SizeAssumption`, `TokenAssumption` of listings: ids are ordered like numbers, the default page is no
  larger than the largest, no token is not a token; a requested size may be any integer, negative ones included.
* `EntryAssumption`: a request is a path of segments, headers and a body as the HTTP and gRPC libraries read it; no text is
  taken for an absent tenant. Paths, headers and names may be of any length.
* `PluginAssumption`: app names are sequences of characters, of any length; the maximum of a label is a number.
* `SetupAssumption`: cards, preferences and lists of interceptors of any length, ids and tenants of any tokens; as many ids
  as the method takes; a field of the method's request or response, at a value of its kind; a version flag of major
  version 1, the only one the command line accepts.

### The arguments

**Store.** `RetentionExact` is inductive together with `TypeOK`. Without a limit the queue is
never touched. Under one, the lemmas about `Retire` carry the weight: appending an id that is
finished and not yet queued keeps the queue duplicate free; removing the first `Excess` elements
leaves a suffix, whose elements are distinct from the removed ones *because* the queue was
duplicate free, so the map loses exactly the ids the queue loses. The three writes then differ
only in when they retire: `create` when the new task is finished, `update` when the old one was
not and the new one is, `begin_cancel` always. An update that repeats a terminal state retires
nothing, which is where the terminal guard of `update` is needed.

*It implements the lifecycle.* `RInv` adds `Timed`: the queue is in the order in which its tasks finished. A
prefix of the queue is then the set of tasks that finished longest ago, which is what
`TaskLifecycle` lets a write forget, and its length counts them (`ListCardinality`), since the queue lists each once. Each
write maps to a step of the lifecycle, a refusal or a read to a stutter.

**Listing.** A walk holds a token and the pages it was shown; between two calls any write may happen. The *offset* of an id is
the number of smaller ids that are listed now. `Faithful` says that every page but the last was full, so that the token is
their number times their size (`Paged`); that an id listed all along is shown already or has
an offset not below the token, if no smaller id left (`NoneSkipped`); and that an id shown has an offset below it, if no smaller
one joined (`ShownOnce`). `Offset` goes down only when a smaller id leaves and up only when one joins, which are the two
excuses `PagesFaithful` grants.
A page of ids sorted by number is the ids whose offset lies in its range.

**Execution.** `SInv` says that the snapshot differs from the task as of event number `n` by errors only, for the execution and
for every receiver, and that no number in the channel or in a publisher's hands is ahead of the
counter. `resubscribe` takes its receiver first; the snapshot it then reads may be newer, and the number it
carries (`min`) drops the events it already includes.

For `NothingMissed` with one publisher (`PInv`): the numbers given out are the counter's (`Numbers`), the events a
subscription has yet to read are the last ones sent, without a gap (`Gapless`), and what it has yielded reaches up
to `min`, which is no further back than where its unread events begin (`Follows`). So the next event it
yields has the next number, unless it is told that it lagged.

**Handler: types and registry.** `Shape` is `TypeOK` and what each process holds at each step: a drive that is to save
has a task, a stream that is read has a source. `Registered` is `RegistryIsLive` and its converse: a live
execution that is not in the registry is of a task that a cancel has moved. Most steps neither register nor remove; one lemma
(`StillRegistered`) takes care of all of them by what they leave alone (`GoesOn`), and three lemmas treat start, the drive's
finish and the cancel's.

**Handler: order.** `Streams` says that no number a stream has yielded is above its `min`, and that a snapshot still
to be shown comes before everything else, or, to a subscription that waited, at number 0. A poll yields an event only if its
number is above `min`. So the order of a stream does not depend on the order of the channel.

**Handler: agreement.** `Says` is `TerminalAgreement` for everything that may still be announced: what a
drive, a cancel or an execution's snapshot holds, what lies in a channel, what a send has loaded. It says *whoever holds an end holds
the one stored*, where an item that `update` has not accepted yet is not said of anyone. The store never changes the state of a finished task (`StoreGoesOn`, from the terminal guard of
`update` and `begin_cancel`), and over a store that purges nothing a task stays, so that `Says` survives the steps of all others.
`FailedTurnIsOver` follows from the same invariant: every failure path passes `fail_task`, which ends the task or finds it ended.

*Waiting.* `InLine`: a task with a registered execution has nobody waiting, since `start` attaches the waiters; and if a
subscription waits that has read the store and stays (`GoesToWait`) while its task is finished, a cancel of the task is between
`begin_cancel` and its release. A drive that finishes a task is registered, or a cancel has moved its task
(`Registered`). The case that needs the most: a subscription registers, the cancel commits and releases, the subscription
reads. It was released before it read, so it waits no longer.

*What is shown.* `Turns` carries the argument of `NothingMissed` over to the handler, where the one publisher of an execution is its
drive. The numbers given out are the counter's (`Numbers`), a receiver's unread events follow without a gap (`Follows`), and
a stream that opened with the first task was shown everything it is past (`Whole`). A subscription that waits is attached by `start`,
before the drive is spawned, to an execution that has sent nothing, so it opens with the first task, which is `WaiterMissesNothing`.
For `EndShowsOutcome`, `Shows` says where the execution's state is going to come from: it is the last state shown, or it will be
shown by the event `publish` has in hand, by the last event still due (`Due`), or by the snapshot still to be yielded; or an error is
due and will end the stream. At the end of the channel nothing is due and nothing in hand, and only the first remains.

*Webhooks.* `CancelsKnow` follows a cancel from step to step: the task it moved is `CANCELED` in every copy it holds, an
item that ends the task has reached the webhook by the time it is numbered, and at its return the webhook was told, or the
client is gone. `CancelsWell` keeps the early returns in between from being taken. What was pushed is never taken
back (`WebhooksTold`).

**Push.** `Sound` is said of each round of delivery by itself: what is dialled by a guarded sender has a valid URL, and a
round that was aborted without `fail_on_error` was aborted by a config refused before sending. Addresses are checked at
each connection, hence `dialed` and the blocked addresses stay disjoint.
`OnlyPermitted` is an action property with three parts, proved per call: what changes the configs, what a page shows, who gets the card.

**The door.** `EntryInv` says that the handler is called with what dispatching the request gave, and what goes back is what dispatching
refused, or the handler's answer in the form of the binding. `EntryGuarded` is then about dispatching alone. By name
(`JsonRpcOutcomes`, `GrpcOutcomes`, `SlimOutcomes`) the handler is reached through every check, or through none. By path
(`RestOutcomes`) a request is that of a route its path matches, a tenant's only if no other matches; `RouteAnswers` goes through
what the handlers of the routes make of body, query and tenant, and `PathTenants` through what a path says of the tenant. `OlderMeans`: an
older path and the one it stands for match twin routes with the same handler, or, where an action became a segment, handlers
that part at the suffix.

**The plugin.** `PluginInv` says what has been written by where the process stands (`Written`): nothing before the handshake or the failure, one
line after it. That two names never share a label is proved for names of any length. A
label of the first form is the codes of the name's characters, one after the other; no code begins another, so at the first character two names
differ in (`LeastNumber`) their labels differ too. A label of the second form is a hash, taken as told apart by
what it is of, the three parts of a name; and the parts, put together again around two slashes, are the name. The headers the agent is shown are all of
a name's in their order, since `InOrder` lists every position.

**Command line.** `TimeAddsUp`: the silence so far and the time left add up to at least `Timeout`, since the budget
of an outage starts at the cut and every event clears it. `ComparedWithShown`: the state a reconnect compares with is the one printed last.
`NotYetTaken`: a command about to send has not had its message taken, at the fallback neither.

*The start.* `StartInv`: behind the stage that loads the files, the environment is the inherited one completed by the local and
then the global file (`Environment`), whatever keys they give, without those a discovered file may not set;
and what the process has done by now (`Deeds`): the network is untouched before the card is fetched, nothing is called
before the last stage, and whoever called exits with a status that does not say "not sent". `StartExits` holds the types.

**A call.** `Underway` is `Selected`, `Hooked` and `Sent`.
`Selected`: the candidate in use precedes every one not tried. The `CHOOSE` of the foremost candidate needs one to exist
(`LeastExists`: ranks are numbers), and taking the foremost out leaves the next.
`Hooked`: the interceptors asked are the first ones in order (`AskedInOrder`), those told the last ones from the end (`FromTheLast`), and
`Went` says who must have been asked, or told, where the call stands.
`Sent`: everything the handler was given was the operation called, for its ids, with the right tenant and version
(`Recorded`, `Delivered`), and what a call may end with depends on whether the reply came (`Settled`).

What `Sent` rests on are lemmas about the operators of `Dispatch` and `ProtoConv`, for ids and tenants of any tokens and length.
*Routes*: `RestPath` gives each method a path; `LiteralRoutes` and `TenantRoutes` find the one route that path matches, the literal
before the parameter, without a tenant and with one; `AddressedOne` to `AddressedFour` put them together by the number of segments.
The exceptions are exactly `Misaddressed`, which is `Unaddressable` in `ClientCall`: dots, which a URL resolves, the tenant
`tasks` where it looks like the segment, an id that ends like an action. *Arrival*: `RestArrives`, `LegacyArrives`, `JsonRpcArrives`,
`GrpcArrives`, `SlimArrives` say that each binding gives the handler what was asked, or refuses it before the handler (`RestRefusals`).
*Fields*: `MeaningKept`, one conversion after the other, by the kind of the field.
*Errors*: `NamedErrors`, `ReasonsName` and `SlimKeeps` take every code through the status, or reason, of its binding and back.

**A stream.** `SseSafe` keeps an *account* (`Accounts`) until the stream closes: the bytes received are whole frames, already
parsed, and the buffer, in which no frame ends; the buffer, what is on the way and a lost end make up frames too, of the items
after the last one parsed, in their order and with comments between them (`Frames`); and the results are the parsed items (`Tells`).
A frame the server writes goes to the end of the account, a lost connection makes the rest on the way the lost end, and for a chunk
it must be shown that the parser's loop takes out the whole frames and nothing else (`DrainYields`). The loop is a recursive function, first
shown to be one (`DrainIs`); the rest is by the least number of rounds for which it fails. A buffer begins with a whole
frame, whose first empty line is where it ends (`ItemFramed`, `CommentFramed`), or it is a part of one and holds no empty line
(`PartOfItem`, `PartOfComment`). The same lemmas give the tail: a part with both halves of a payload is its item, a part with one is an error,
and a part with none loses nothing.

### What stays with TLC

* Liveness: `EveryoneIsAnswered`, `StreamsEnd`, `CommandEnds`, `ReconnectReconciles`; fairness and `ENABLED` are out of
  TLAPS's reach.
* `HistoryAccumulates`, `PurgedStaysGone` and the other properties of the `v_*` runs, which do not hold.
* `OneMeaning` (`JsonForms`): it follows one document through finite tables; TLC's quantifiers over the tables are exhaustive, and a proof
  would only repeat them.
* `FilesIntact` (`FileParts`), `InputFaithful` (`CliInput`): what they compare is computed over sequences by
  recursion or by folds, and takes an induction over data. Where one was worth it (the labels of the plugin, the order of
  interceptors, the loop of the SSE parser), it was done by hand, from the least number a property fails at (`LeastNumber`); for these two it was not.
* `MCServer.ServerTypeOK`, `MCClient.TypeOK`: the components' types, conjoined for the runs. Those of `PushService` and `CliTasks` are
  proved; the others belong to the components of this list, or follow from the invariants above.

## What is not modelled

* Of the server: the timestamp filter of listings, content types, TLS, tokens and credentials of webhooks, `get_task` (a
  read of the store).
* Of the client: connection set-up and TLS, the GET of the card resolver.
* Of `a2acli`: the text of reports, the definitions of flags, validation against the card's schema, shell completion, the
  re-reading of a CA file.
* Of SLIM: the session layer (external), group sessions; a stream dropped after the plugin polled it; the scratch directory,
  which only tests use.
* Of the types: the contents of strings (ids, digits of timestamps) and of JSON values inside `struct` fields.
* Persistence: the in-memory store does not survive a restart, so there is none to model.
* `itk`, `examples`, `fuzz`, `scripts`: test drivers and samples.

More than half of the lines of the source files are the tests inside them, and of the library's own lines much is
data: types, flags, text. Of the lines that keep or change state little is left out beyond this list.

## Plan

1. *Done*: the components above, their runs; types and retention of the store proved.
2. *Done*: the theorems listed above: the store implements its lifecycle, listings, executions, the handler's registry, order,
   agreement, waiters, cancels and what its streams show, push, the door of the server, the plugin, the start of the command line, its task commands, and
   the call: selection, interceptors, payloads and errors; and the stream it reads.
3. Nothing of the plan is left to prove but what *What stays with TLC* lists. To model next: `get_task` and the timestamp filter of
   listings, and the text of reports, if either comes to carry a decision.
