# Ligase: TLA+ models of the database-update pipeline, the client SDK and the content routes

This directory holds TLA+ specifications of the Ligase code under `src/`, the
TLC configurations that check them, and `PROJECT.json`, which lists the
components, the runs, the mutation of the model that each property detects,
the source lines every definition stands for, the findings and the hazards.

Run a configuration with `tlc -workers 2 -config <file>.cfg <module>`.

## 1. Inventory

### 1.1 The database-update pipeline (`src/dbupdates/processors/...`)

Services of the homeserver do not write their tables themselves: they emit
*update envelopes* (an opcode and the payload variant it selects) to a
partitioned log. Per table, a **dispatcher** drains the log and hands batches of
envelopes of one opcode to the table's **processor**, which makes the store
calls. The four processors in the sources are the four shapes the design has.

| Component | State | Operations | Correctness |
|---|---|---|---|
| Dispatcher (not in `src/`; spec.md 4.3, 5, 6) | log, read offset, one buffer per batchable opcode | append; buffer; flush at once, by size, by timer; restart with redelivery | FIFO per opcode; nothing skipped; at-least-once |
| `account_accounts` | `p.db`; table of accounts | `Start`, `Process`, `processInsert` | one call per envelope, in log order; errors do not stop the loop |
| `publicroomsapi_public_rooms` | `p.db`; table of rooms with `joined_members` | `Start`, `BatchKeys`, `Process`, `processInsert`, `processUpdate`, `processIncJoined`, `processDecJoined` | batched increments are summed per room; the sum loses nothing |
| `roomserver_event_json` | `p.db`; primary and mirror table | `Start`, `BatchKeys`, `Process`, `processInsert` (bulk load in two transactions, fallback) | sensitive rows encrypted at rest; mirror coherent with primary; bulk and fallback agree; no row lost unseen |
| `syncapi_send_to_device` | `p.db`; table of messages | `Start`, `BatchKeys`, `Process`, `processInsert` (bulk, fallback), `processDelete`, `processMacDelete`, `processDeviceDelete` | each delete removes the rows of its predicate and no other |
| Store ports, envelope types, registry, transaction and classification helpers | outside `src/` | | written from spec.md where a processor needs them |

How they interact: producers append to the log; the dispatcher advances its
offset, buffering envelopes of the opcodes `BatchKeys()` names and passing all
others through at once; a flush calls `Process` with the batch; `Process`
switches on the opcode of the first envelope and runs one handler; the handler
calls the store once per row, or bulk-loads the rows in a transaction. One worker
serves one processor, so `Process` calls never overlap; what interleaves is the
*order* in which envelopes of different opcodes reach the store, and the crashes
of the hosting process.

What is hard here:

* envelopes of a non-batched opcode overtake buffered envelopes of a batched one
  (a decrement before its increment, a delete before its insert);
* a crash loses the buffers; the log redelivers, and rows already stored come
  again inside a bulk load;
* a bulk load fails at any of its steps, and the commit comes after the code has
  decided it succeeded;
* store calls fail one by one and the loops go on;
* the increment calls of a batch are made in Go map order.

### 1.2 The load-test bot (`src/cmd/bot`)

`main` logs in one bot, then starts goroutines: the logins of the other bots,
room creations that write one shared map, joins, one endless sync loop and one
endless send loop per bot. State: per-bot session (`AccessToken`, `Since`), the
map `roomIDs`, three wait groups. Hard: the unlocked map writes, bots that go on
after a failed login, the edge `botNum = 0`, loops that spin.

### 1.3 The client SDK and its logger (`src/sdk/go-ligase`)

`Init` (a `sync.Once`, with one assignment outside it) and five request
functions with one control flow: build the URL, log it, make the request, send
it, then a status other than 200, a nil body, a read error, a decode error.
State: the package variables `once`, `ligaseURL`, `httpCli`, `messageCounter`
and the logger package's `logger`, which is nil until `InitLogger`. The logger
prints a label per level and, for the formatted calls, the file and line of the
caller, with the pure helper `itoa`. The bot calls the SDK from many
goroutines. Hard: a request before, during or after `Init`; a second `Init`;
transaction ids taken by goroutines side by side; what a caller may rely on
when `err` is nil; URLs put together by format strings and taken apart by the
server.

### 1.4 Content routing (`src/content/routing`)

`Setup` registers the media routes; `verifyToken` turns a token into a device
through an RPC call; `makeMediaAPI` and `makeFedAPI` wrap the handlers with
authentication and panic recovery. State: per request, the response written so
far and the device. Hard: who has written the response when the wrapper
returns (`verifyToken`, the handler, the deferred recover, or nobody), and
whether a handler behind authentication can run without a device.

### 1.5 Bootstrap (`src/cmd/engine-server/entry/syncMonolith.go`)

Straight-line wiring of components outside the sources; not modelled (section 7).

## 2. Plan

Order: the pipeline first (it is the part that owns data), then the bot (the
only code with goroutines), then the SDK and the routing middleware, then the
pure helpers.

| Step | Modules | Status |
|---|---|---|
| 1 | `Dispatcher` | done |
| 2 | `PublicRooms`, `PublicRoomsPipeline`, `MCPublicRooms` | done |
| 3 | `EventJSON`, `EventJSONPipeline`, `MCEventJSON` | done |
| 4 | `SendToDevice`, `SendToDevicePipeline`, `MCSendToDevice` | done |
| 5 | `Accounts`, `AccountsPipeline`, `MCAccounts` (fairness, liveness) | done |
| 6 | `Bot`, `MCBot`: goroutines of `main`, wait groups, session state of `Bot` | done |
| 7 | `Logger`, `SdkReturns`, `Sdk`, `MCSdk`: `Init`, the request flow, the URLs, the log header with `itoa` | done |
| 8 | `Routing`, `MCRouting`: the routes, `verifyToken`, the two wrappers | done |
| 9 | `AccountTable`: the abstract account table, which `AccountsPipeline` implements | done |
| 10 | `Bot` on `SdkReturns`: every SDK call of the bot returns what the SDK function returns for some reply | done |
| 11 | the bot on the package state of `Sdk` (`once`, the logger, the counter); the file logger | open |

## 3. The modules

### `Dispatcher`

Variables `log`, `next`, `buffer`, `restarts`. `Produce` appends. The consumer
takes `log[next]`: `Accumulate` buffers it, `FlushSingleton` passes it through,
`FlushFull` flushes its buffer at `BatchSize`; `FlushTimed(k)` flushes buffer
`k` when its timer fires. `Restart` empties the buffers and moves `next` back to
any offset not later than the oldest buffered envelope. Buffers hold log
*positions*, so that a pipeline can tell a redelivered envelope from a new one.
The flushing actions say which batch leaves; a pipeline module conjoins each
with the processor's `Process`.

### The processor modules

Each has the variables `phase` (`Constructed`, `Serving`, `Aborted`) and `db`
for the lifecycle (`PInit` is the constructor, `Start` connects or panics), the
table or tables as functions from key to row, and history variables that record
what failed. `Process(inputs)` is one atomic action, because one worker runs it
and nothing else touches the processor; the choices inside it are the store's:
which calls fail (`\E bad \in SUBSET DOMAIN ...`), how a bulk load ends
(`BulkOutcomes`), in which order a Go map is iterated (`SetToSeqs`).
`Process` has no guard on `phase`, as the code has none: a batch that reaches a
handler while `p.db` is nil ends in a nil dereference (`phase` becomes
`Aborted`), an empty batch or a foreign opcode changes nothing. That `Process`
is called on a serving processor only is the dispatcher's side of the lifecycle
of spec.md section 4.2, and it is stated there: `Deliver` in every pipeline
module. So a `Process` before `Start` does not happen in the runs, and the
lifecycle conjunct of the type invariants speaks of `Start` alone.

* `PublicRooms`: the handlers are operators from a batch to the set of call
  sequences they may make; `ApplyEach` is the log-and-go-on loop.
* `EventJSON`: `PrimaryCell` and `Mirrored` are the classification in the loop of
  the bulk load; `Copied0` and `Copied1` the contents of the two COPY
  statements; `CallbackSteps` the places the callback returns an error from;
  `Succeeded` the flag `success`, true from the moment the callback returns nil;
  `Commit` the two transactions committing together; `InsertEach` the fallback.
  Documents are abstract; a cell records whether it is encrypted.
* `SendToDevice`: the three delete handlers build the call of their predicate;
  `processInsert` has the shape of the one above with a single table. A bulk
  load whose commit failed stores nothing and logs nothing; its ids are kept
  in the history variable `uncommitted`, apart from `failedTargets`, which
  holds what the code did log.
* `Accounts`: no `BatchKeys`, one handler.

### The pipeline modules

`Emit` (restricted by `Upstream` to what the producing service can emit: a room
is inserted before it is updated, ids are fresh), `Boot`, `Buffering`, `Single`,
`Full`, `Timed`, `Crash`. The three flushing actions hand their batch to
`Deliver`, which calls `Process` on a processor that is serving. `Crash`
restarts the consumer and puts a new processor in place; the tables survive.

### `Bot`

`main` is a program counter (`start`, `login`, `spawn`, `spawnCreate`, `waitLogin`,
`waitCreate`, `join`, `waitJoin`, `send`, `select`, and the three ways it stops:
`returned`, `panicked`, `fatal`). `pc[f][g]` is the place of goroutine `g` of
family `f` (`login`, `create`, `join`, `sync`, `send`), `wg[f]` the counter of
the family's wait group, `token` and `since` the fields of the bots. One action
per step of `main` between two blocking points, one per return of an SDK call in
a goroutine, with the error path and the deferred `Done` inside it. What a
call returns is taken from the SDK: `Returns(fn)` is the set of pairs of
response and error that the function `fn` of `SdkReturns` returns over all
replies. `Outcome` is the order in which every method of `Bot` looks at such a
pair (the error, then `resp.Header.StatusCode`, then `Header.Error`), `Field`
the value of a decoded field or its zero value, and `AfterRead` the read of
`resp.Header` through a response that is nil: `main` becomes `crashed`, a
fourth way for the program to stop. The
assignment `roomIDs[roomID] = struct{}{}` takes two steps (`CreateSucceeds`,
`Assigned`); assignments that overlap are remembered in `raced`, and for them
the model allows what a Go build can do: the entry is stored, the entry is
lost, or the runtime ends the process (`ConcurrentMapWrites`). The flags are
chosen in `Init`, so one run covers every `botNum` and `createRoomNum` up to the
bounds, `botNum = 0` and a negative `createRoomNum` included: with the first
`b` is nil and `b.Login()` panics, with the second `wgCreateRoom.Add` panics
after the login goroutines were started: `StartLogins` (lines 71 to 85) and
`StartCreates` (lines 87 to 100) are two steps, and the logins run between
them.

### `AccountTable`

The promise of the accounts pipeline, with three variables: the accounts asked
for, the table, the users a failure was reported for. A step asks for an
account, creates one that was asked for and does not exist, or reports a
failure. `AccountsPipeline` instantiates it with `requested` the accounts of
the account envelopes in the log, `table` the table `accounts` and `reported`
the history `failedUsers`, and the run `accounts` checks that every step of the
pipeline is a step of `AccountTable` or changes none of the three.

### `Logger`

Operators, no state. `NewStdLogger` is the logger as a record of its flags and
labels; `Label` picks the uncoloured or the coloured label; `Prints` and `Printf`
are the set of headers a statement of a level prints (empty when the level is
switched off), `Printf` with the place `getFileLineFormat` adds. `itoa` is the
digit loop of the source as a recursion over the value, `Short` the scan for
the last `/` of the file name. `Value` reads digits back and is the reference
`itoa` is checked against.

### `SdkReturns`

Operators, no state: what each request function returns for a reply of the
server. A reply is an error of `httpCli.Do`, or a status with a body that is
nil, unreadable, not JSON, or JSON. `Respond` is the control flow the five
functions share after `httpCli.Do`; `Login`, `Sync`, `CreateRoom`, `JoinRoom`,
`SendMessage` and `SendMessageTxt` differ in their arguments to it (`Login`
returns a nil response with its errors, `Sync` sets no `Header.Error`).
`Sdk` extends the module and `Bot` instantiates it, so the caller and the
callee are checked against the same definitions.

### `Sdk`

Variables: the five package variables; `pc[c]` and `req[c]` for the place and
the call of goroutine `c`; `result`, what the last call returned; `out`, the
header of the last line printed; `panicked`; and the histories `initReturned`
and `txns`.

| Action | Code |
|---|---|
| `WriteURL` | `Init` up to `once.Do`: the assignment of `ligaseURL`, on every call |
| `InitLogger` | the function of `once.Do` for the first caller: `logger.InitLogger` |
| `MakeClient` | the rest of that function: `httpCli`, made with the connection pool of the options; `Do` and `Init` return |
| `OnceDone` | `once.Do` for a later caller, which waits while the function runs |
| `LoginRequest`, `CreateRoomRequest`, `JoinRoomRequest`, `SendMessageRequest`, `SyncRequest` | the five request functions up to `httpCli.Do`, each with the arguments that reach its URL; their common shape is `Build`: the URL, the counter of `SendMessage`, the first log statement, `http.NewRequestWithContext` and its error return |
| `Do` | `httpCli.Do` and everything after it: the reply, the log statements, the response and the error returned |

A call through the nil logger or the nil client is a nil dereference: the
caller joins `panicked` and nothing moves any more. The response and the
error of a call are those of `SdkReturns`. `ClientOpts` is the type of the
options; its field `Pool` stands for the three sizes and the timeout of the
connection pool, which `httpCli` carries, so that a client made by a second
`Init` can be told from the first. `Levels` is the set of log statements
between `httpCli.Do` and the return; `Sync` prints one more than the others on
a refusal. A URL is the
sequence of its pieces, `ligaseURL` and `R0_PREFIX` first, and
`Query` takes it apart the way a server does: at the first `?`, at every `&`,
at the `=`. `Query` is used by the properties only.

### `Routing`

`Setup` is the set of routes as records of prefix, path, methods, `auth` and
`fed`. Per connection: `Arrive` (the router calls the wrapper of the matching
route), `VerifyToken` (the wrapper with `auth`: `verifyToken` answers 500 or
401 and stops the request, hands on the device, or the RPC client panics),
`Handle` (the handler writes a status or none, a body or none, returns or
panics; the deferred function recovers), `Finish` (the response is sent).
`WriteHeader` and `Write` are the response writer of `net/http`: the first
status stays, a write without a status means 200.

## 4. The runs

| Run | Configuration | Result | Shows |
|---|---|---|---|
| `publicrooms` | `MCPublicRooms.cfg` | passes | `Converges`: when the log is drained after one delivery, every room no call failed for has the row the log describes, whatever overtook what |
| `publicrooms_redelivery` | `MCPublicRoomsRedelivery.cfg` | violation | `RedeliveryTolerated`: a redelivered increment or decrement counts twice |
| `eventjson` | `MCEventJSON.cfg` | passes | `SensitiveEncryptedAtRest`, `MirrorFollowsPrimary`, `EveryRowAccountedFor` |
| `eventjson_commit` | `MCEventJSONCommit.cfg` | violation | `BulkFailureFallsBack`: a failed commit is not followed by the fallback |
| `eventjson_mirror` | `MCEventJSONMirror.cfg` | violation | `MirrorEligibleIsMirrored`: a mirror-eligible row of a type that is not sensitive is not mirrored by the bulk load |
| `sendtodevice` | `MCSendToDevice.cfg` | passes | `SurvivesOnlyByOvertaking`: of the messages no logged store call failed for and no failed commit lost, those in the table after a single delivery are the ones whose deletes overtook their insert; and the action property `DeleteRemovesOnlyWhatItNames` |
| `accounts` | `MCAccounts.cfg` | passes | `AppliedOnceInOrder`, the liveness property `EventuallySettled`, and the refinement `ImplementsAccountTable` |
| `bot` | `MCBot.cfg` | passes | `WaitGroupsCountGoroutines`, `WrittenBeforeRead`, `ResponsesReadAreThere`: no method of `Bot` reads `resp.Header` through a nil response, whatever the SDK returned; and the liveness property `EveryBotSends` |
| `bot_rooms` | `MCBotRooms.cfg` | violation | `CreatedRoomsAreKept`: two creators write the map at once |
| `sdk` | `MCSdk.cfg` | passes | `InitializedAfterInit`: a request made after any call of `Init` has returned finds logger and client set and goes to a URL an `Init` wrote; the action property `ConfiguredOnce`: a later `Init` with other options replaces neither the logger nor the client; `TxnIDsUnique`; `CallerCanTrustResult`: what a response with a nil error carries; `TokenReachesServer`; `LineNumbersPrinted`: `itoa` and `Short` against the reference |
| `sdk_sync_url` | `MCSdkSyncURL.cfg` | violation | `SinceReachesServer`: the server does not read `since` as the caller passed it |
| `routing` | `MCRouting.cfg` | passes | `OnlyVerifiedHandled`: a handler behind authentication runs with a device and after no refusal was written; `FailureIsVisible`: a media request that failed before the first write is answered 401 or 500 with a body |

Every passing run also checks the type invariant of its module. For a
processor it includes the lifecycle rule that a serving processor has its store
handle, for the bot that no wait-group counter goes below zero, for the SDK
that the message counter is moved by `SendMessage` alone, for the routes that
no status other than 200, 401, 404 and 500 is written.

State spaces: `sendtodevice` has about 2,140,000 distinct states, `sdk`
164,000, `routing` 78,000, `bot` 55,500, `accounts` 20,500; every run ends within a few minutes on two workers.

### Findings

1. **Redelivery is not tolerated by the counters**
   (`publicroomsapi_public_rooms.go:103`, `:114`). Trace: a room is inserted,
   joined, the increment is applied, the consumer restarts from an earlier
   offset, the increment is applied again.
2. **A failed commit loses the batch** (`roomserver_event_json.go:135`, `:71`;
   the same in `syncapi_send_to_device.go:98`, `:76`). `success` is set in the
   callback, the commit happens after it, and the result of `WithTransaction`
   is not looked at.
3. **Mirroring is nested under encryption** (`roomserver_event_json.go:97-109`),
   where spec.md asks for every mirror-eligible row to be mirrored.

4. **The map of rooms is written without a lock** (`cmd/bot/main.go:98`).
   Trace: `createRoomNum = 2`, both `CreateRoom` calls return, both goroutines
   are in the assignment, the runtime reports concurrent map writes.
5. **The sync URL lacks a separator** (`sdk/go-ligase/sync.go:16`). The format
   string reads `&since=%sset_presence=%s`; the server reads `since` as the
   caller's value followed by `set_presence=`, and no `set_presence` at all.
   Trace: `Init`, then `Sync` with any `since`.

What the SDK run settles the other way: `Sync` is the one function that
returns a response with `Header.Error` nil for a status other than 200
(`sync.go:48`); `CallerCanTrustResult` states the rule with that exception,
and `Bot.Sync` tests `Header.Error` for nil before it reads it.

## 5. Bounds

| Run | Bounds | Why they are enough |
|---|---|---|
| `publicrooms` | 2 rooms, 2 attribute values, `BatchSize` 3, `MaxLog` 5, 1 restart | a batch holds increments of two rooms (summing, map order); insert, increment, increment, decrement, update of one room fit in the log; buffers flush by size and by timer |
| `eventjson` | 4 event types (one per class), 2 documents, `BatchSize` 3, `MaxLog` 3, 1 restart | batches of one (fallback only), two (timer) and three (size); a redelivered batch meets stored rows |
| `sendtodevice` | 2 devices, 2 identifiers, `BatchSize` 2, `MaxLog` 4, 1 restart | an insert waits while a delete passes; each delete has rows it must leave alone |
| `accounts` | 2 users, 2 hashes, `MaxLog` 3, 1 restart | a user inserted twice; a crash before and after a call |
| `bot` | `botNum` 0..3, `createRoomNum` -1..3, statuses 200 and 403 | no bot, the first bot alone (no login or join goroutine), two other bots side by side; a negative flag, no room, one room, creators that meet in the map, a bot with several rooms to join; every return of every SDK function the bot calls. `bot_rooms` keeps `createRoomNum` at 0..2, the smallest instance with two creators |
| `sdk` | 2 callers, 2 option records with different URLs, pools and switches, values `""` and `s1`, statuses 200 and 403, 1 clock reading, `MaxMessages` 2, 2 call sites | one caller inside `once.Do` while the other calls `Init` or a request; a second `Init` with other options; two `SendMessage` calls in the same millisecond; every reply shape for every function; a call site on line 107 (digits with a zero inside) and one `runtime.Caller` cannot name |
| `routing` | 2 connections, 1 device, all 28 routes, 4 methods, 12 handler behaviours | every route with every result of the token check and every handler behaviour; the second connection shows that nothing is shared between requests |

`MaxLog` bounds the envelopes produced, `MaxRestarts` the restarts of a
behaviour and `MaxMessages` the calls of `SendMessage`. Rooms, attribute
values, documents, devices, identifiers, the callers of the SDK and the
connections are symmetric sets. Deadlock checking is off where the system may
stop: a pipeline with a full log and nothing left to consume has no next step,
and neither has a process whose `Start` panicked, a bot that returned,
panicked, crashed or spins over an empty map, or a program that dereferenced the nil
logger. It is on for `routing`, where a connection can always go on.

The SDK model keeps one `result` for the last call that returned and empties
`req[c]` when a call returns; with a result per caller and a second clock
reading the run does not end in reasonable time and shows nothing more.

## 6. Fairness

`AccountsPipeline` states `WF_vars(Boot)` and `WF_vars(Single)`.
The worker of a processor is a goroutine that loops on its input and does
nothing else, and the host calls `Start` when it comes up, so each of the two
steps happens if it stays possible. Producers and crashes are not fair: nothing
has to be emitted, and the process need not crash.

`Bot` states weak fairness of `main` and of each login, creator, joiner and
send goroutine: the Go scheduler runs every goroutine that can run, and the
server is assumed to answer every request.
The sync loops need none for the property checked, and
`ConcurrentMapWrites` has none: the runtime's detection is best effort.

`Sdk` and `Routing` assume no fairness and state no liveness. `httpCli` has no
timeout and the callers pass their own context, so nothing in the SDK makes a
request end; the handlers and the RPC server behind the routes are not in the
sources, so nothing says a handler returns.

## 7. Assumptions and what is not modelled

* The dispatcher, the store methods, the transaction helpers and the
  classification functions are outside `src/` and written from spec.md. In
  particular, inserts ignore an existing key, a single-row insert of the event
  JSON store writes both tables or none, and `WithTransaction` commits both
  transactions or none.
* `Process` is atomic. A crash in the middle of a fallback loop is the same, for
  the tables, as a crash after it with the later calls failing, and both are in
  the model.
* The dispatcher hands a batch over and moves its offset in one step
  (`Single`, `Full`, `Timed`). A crash between the arrival of an envelope and
  the call of `Process` is therefore a crash before or after that step; what
  the real dispatcher does in between is outside `src/`, and
  `EventuallySettled` shows the progress of the worker loop, not the absence
  of that window.
* The per-call context and its cancellation show as failing store calls.
* Payload contents, log lines and timing are left out; timers are
  nondeterministic.
* The registry has no behaviour in the sources beyond four `Register` calls with
  distinct names.
* `sync.Once`, `atomic.AddInt64`, `http.ResponseWriter` and the way a server
  splits a query string are the library's and written from their documented
  behaviour. A nil dereference ends the program: the bot recovers nothing.
* In `Sdk`, request bodies, the fields decoded from a reply and the `String`
  methods of the response types (`types.go`) are left out: a body is nil,
  unreadable, not JSON, or JSON. `SendMessageTxt` is `SendMessage` with a
  body. Tokens, positions and room ids are single pieces without `&`, `=` or
  `?`; what unescaped values do to a URL is listed as a hazard.
* In `Logger`, the text of a line, the time and pid prefixes and the colour
  codes are left out; a header is the label and the place. `NewFileLogger`
  and the log file are not modelled (file I/O).
* In `Routing`, the handlers and the RPC server are the environment; path
  variables, CORS headers and metrics are left out.
* In `Bot`, a call of the SDK is one step that returns one of the pairs of
  response and error of `SdkReturns`; `main` has called `Init` before the
  first goroutine starts, so the logger and the client are set. Which room a
  message goes to, the text of requests and the send counter are left out.

### Not modelled

* `src/cmd/engine-server/entry/syncMonolith.go`: one function that registers
  producers and consumers and constructs the components of the sync server in
  a fixed order; every call goes to a package outside `src/`. It has two
  error paths, a panic when the RPC client cannot be made and the dropped
  error of the id generator (line 51); the second is listed as a hazard, and
  there is nothing for either to interleave with.
* `NewFileLogger` and the writing of log lines: file I/O, and nothing in the
  repository calls `NewFileLogger` (`InitLogger` makes the logger with
  `NewStdLogger`). The component stays partly modelled for that reason.
* The bot on the package state of `Sdk`: `Bot` takes the returns of the SDK
  functions from `SdkReturns`, not the steps of `Sdk` (`once`, the logger,
  the message counter, the lines printed). The product of the two state
  machines over three bots is beyond what TLC enumerates in minutes. The bot
  calls `Init` once, before any goroutine exists, which is the case
  `InitializedAfterInit` covers; `CallerCanTrustResult` and
  `ResponsesReadAreThere` are the two sides of the contract between them.
