# A verification of MCP_Module

MCP_Module (Go, `digital.vasic.mcp`) is a library for the Model Context
Protocol: JSON-RPC 2.0 requests and replies between a client and a server, over
the stdin and stdout of a child process or over HTTP with server-sent events,
plus adapters that start and stop such servers and a registry of adapters.
This directory holds TLA+ models of it, the TLC runs that check them and the
theorems TLAPS proves about them. `PROJECT.json` says which lines of the source
each definition stands for.

## 1. Inventory

| component | state | operations | what makes it correct |
|---|---|---|---|
| protocol (`pkg/protocol/protocol.go`) | none | build requests, notifications and replies; `NormalizeID` | the ID of a request and the ID of its reply are one map key |
| request dispatch (`pkg/server/server.go`) | tables of tools, resources and prompts, fixed before serving | `handleRequest` and its sub-handlers | every request is answered once, a notification never |
| stdio server (`pkg/server/stdio_server.go`) | position of one loop, the line being served | `Serve`, `writeResponse` | replies in order, one each, under the request's ID; the end of the input and of the context end the loop |
| HTTP server (`pkg/server/http_server.go`) | map of SSE connections, `activeConns` | `handleSSE`, `handleMessage`, `broadcastToSSE`, `handleHealth` | an answer reaches the client that asked and no other; nobody writes to a finished response |
| stdio client (`pkg/client/stdio_client.go`, `client.go`) | `nextID`, the pending map and its channels, the stdin mutex, `done`, one reader goroutine | `Start`, the API methods over `sendRequest`, `readLoop`, `Close` | a call gets its own answer or an error, and always ends; no entry, process or goroutine outlives its use |
| HTTP client (`pkg/client/http_client.go`) | the same, with an SSE stream and a message endpoint | `Connect`, `readSSE`, `sendRequest` by POST, `Close` | as above |
| adapters (`pkg/adapter/adapter.go`) | a state, and a process or a container ID | `Start`, `Stop`, `HealthCheck` of the stdio, Docker and HTTP adapters | the state tells whether something runs, and `Stop` stops it |
| registry (`pkg/registry/registry.go`) | a map of adapters under a RWMutex | `Register`, `Unregister`, `StartAll`, `StopAll`, `HealthCheckAll` | what was started is registered, a failed `StartAll` leaves a known state |
| config (`pkg/config/config.go`) | none | load and validate | what validates can be started |
| i18n seam (`pkg/i18n`) | one package variable | translate a message | wording only |
| challenge runner, scripts | none | call the packages above once | not part of the library |

**How they interact.** A client and a server share nothing but a transport: two
OS pipes, each holding a bounded amount of data before its writer blocks, or HTTP
requests one way and an SSE stream the other. Inside a stdio client the callers'
goroutines share the atomic counter, the pending map (`pendingMu`), the server's
stdin (`stdinMu`) and the channels that `readLoop` fills; `Close` talks to them by
closing `done`, by closing stdin and by killing the process. The server's
process and the client's `Close` and reader meet only in the pipes.
Inside an HTTP server every connection and every post has a handler of its own; they
share the clients map (`clientsMu`), the counter of connections, and the response
writers of the connections, which nothing protects. An application loads and validates
a configuration file, builds an adapter for each entry and registers them; the registry
calls adapters while it holds no lock, on a copy of its map.

**What is hard.** Replies in any order, for calls that have left; a channel used
after the lock it was found under; the death of the server between any two
steps; writers blocked on a full pipe while its reader is blocked on the other;
`Close` at any moment; contexts that expire while their call is somewhere it does
not look at them; a `Start` that comes late; broadcasts that write to a connection that
is being written to, is slow, broken or gone; adapters started and stopped from several
goroutines while their processes die and the docker command fails or hangs. The list
with lines is `hazards` in `PROJECT.json`.

## 2. Plan

In the order of importance, with what is done:

1. **done** `RequestReply`, the promise; `StdioClient`, which keeps it;
   `StdioClientProofs`.
2. **done** `Dispatch`, `StdioServer`; `StdioSystem`, client and server together.
3. **done** `HTTPClient` on an `EventService`, the service its server promises;
   `HTTPServer`, which keeps that promise.
4. **done** `Adapters`, `Registry` (which extends it) and `Config`; `Supervision`, the
   three together as an application uses them.
5. **done** Proofs (section 5): type correctness and every safety property of the runs,
   and the refinements, for every value of the constants.
6. **left** `HTTPClient`: a second `Connect`, an announced endpoint that is not the configured one; restarts of a server under its client.

## 3. The modules

### RequestReply
The abstract client. A call is idle, open, or has ended: answered, failed or
rejected. It ends once, answered only with the answer the server gave to that very
request, failed only when the connection is broken or the call was given up (by its caller, a
timer or the server),
rejected only if its request was never sent.

### StdioClient
A member of `Calls` is one invocation of an API method in a goroutine of its own;
`InitCalls` are the ones that are `Initialize`, `Cancellable` the ones whose context
may end. `pc[c]` is where that goroutine stands:

| `pc` | action | code |
|---|---|---|
| `idle` | `SendRequest` | the atomic counter, `stdio_client.go:132` |
| `register` | `NewRequestFails`, `RegisterPending` | 134-144 |
| `lock` | `LockStdin` | `stdinMu.Lock`, 157 |
| `write`, `unlock` | `WriteStdin`, `WriteStdinFails`, `UnlockStdin` | 158-162 |
| `wait` | `AwaitReply`, `AwaitClosed`, `AwaitCtx`, `AwaitDone` | the select, 164-175 |
| `cleanup` | `DeletePending` | the deferred delete, 146-150 |
| `parse` | `ParseOk`, `ParseError` | `parseResult` in the API method |
| `notifyLock`, `notify` | `LockStdin`, `Notify` | the notification of `Initialize`, 200-207 |

`readLoop` is `ScanMatched` (the lookup under the read lock), `Deliver` (the
non-blocking send after the unlock), `ScanSkipped`, `ScanTooLong`, `ScanEnd` and
`Drain` (the deferred closing of every channel). `Close` is four steps: close
`done`, close stdin, kill, wait. A response channel is named after the call that
made it: `buf[c]` is its one slot, `closed` the channels that are closed.

The server process and the caller's context are outside `src/` and are modelled
by what the client can meet: a server reads in order, answers what it has read in
any order with a result or an error, writes lines that are no reply (not JSON, an
ID nobody uses, a second reply to an answered call), may answer with a line longer
than the scanner's buffer, stops reading for as long as it likes, and dies at any
moment. Lines in the pipe are lost to it when it dies; what it wrote before stays
readable, until `Wait` closes the client's end. A line carries, besides what is on
the wire, the call it belongs to (`call`), which no action of the client reads: it
lets the properties say whose answer an answer is.

`answered`, `received` and `matched` record what the server and the reader did, for
the properties only.

### Dispatch, StdioServer
`Dispatch` is `handleRequest` as operators: which requests run a registered handler,
and what each is answered with. `BadSchemas` are tools whose input schema does not
marshal: one of them makes `tools/list` fail; the results of the other listings cannot. Handlers are external and may end with a value, a
value too long for one line, an error, a value that does not marshal, or neither
value nor error; the last one makes `handleReadResource` dereference nil, and the
process panics. `StdioServer` is the loop of `Serve`: check the context, scan,
dispatch, run the handler, write, each a step, with a free peer that sends lines
of every shape, each with no ID, a number or a string, reads when it likes, if at all,
and closes its ends of the two pipes when it likes, in either order. A write waits while
the pipe is full and its reader is there (`HeldByReader`). When the reader has closed its
end the write fails (`WriteResponseFails`): `writeResponse` ignores the error and the loop
goes on, unless the writer is the process's own stdout, where the runtime ends the
process. `replies` counts a reply refused like that as given. `Exit` is external: the
process that calls `Serve` ends when it returns.

### StdioSystem
`StdioClient` with its open server replaced by the loop of `StdioServer`: the same
variables `srv`, `stdin`, `toServer` and `toClient` are the process and the pipes of
both. `ServerIsWhatClientAssumes` is the whole specification of `StdioClient`: the
system implements it, so what is checked and proved of `StdioClient` for any server
holds of this one. `NoiseKinds` says what a server writes besides answers that a client
accepts, so handlers with huge values need `"oversized"` in it (`HugeAssumption`).
The server's writes do not fail here: the client closes its end of the server's output
only once that process has ended (`ReaderStays`, part of `SysInv`, section 5).

### Protocol
Request IDs and `NormalizeID`, shared by the clients and the server.

### EventService, HTTPServer
`EventService` is what a client may rely on: answers in any order, on every stream that
is open, one stream at a time, and nothing about any single one of them. It is the
server `HTTPClient` is checked on, and `ImplementsService` shows that `HTTPServer` is one.

`HTTPServer` has a program counter for every connection and every post:

| `sse[k]` | action | code |
|---|---|---|
| `idle`, `count` | `Register`, `Count` | `http_server.go:189-192` |
| `greet`, `greeting` | `BeginGreeting`, `EndGreeting` | 202-208 |
| `loop`, `beat` | `StreamDone`, `BeginHeartbeat`, `EndHeartbeat` | 213-221 |
| `remove`, `close`, `uncount` | `Remove`, `CloseDone`, `Uncount` | the deferred function, 194-200 |

| `post[p]` | action | code |
|---|---|---|
| `idle`, `read` | `PostArrives`, `ReadRequest` | 225-259 |
| `refuse`, `handler`, `reply` | `WriteError`, `HandlerReturns`, `WriteReply` | 233-273 |
| `snapshot`, `next` | `Snapshot`, `NextClient`, `PostReturns` | 300-312 |
| `checked`, `writing` | `BeginEvent`, `EndEvent`, `PostPanics` | 313-318 |

A write has a beginning and an end. Two that overlap on one connection, or one that is
under way when or begun after the connection's handler has returned, are outside what
`net/http` defines: `mixed` marks them, and their end lands, loses the data, puts it on
another connection (whose buffer it was by then) or panics. A panic in `handleMessage`
breaks its post, one in `handleSSE` breaks the stream; the deferred function runs in
either case. `broken` are the connections whose writes fail (the client is gone, or
`WriteTimeout` is over), `gone` those whose request context is done: the second does not
follow from the first until a write or a read has failed. `owed` is a history: the
streams in place when a post arrived that have neither been written its answer nor been
lost at an undefined write. `Shutdown` waits for the handlers, which on an
open stream it waits for in vain (5 seconds, `ShutdownExpires`).

### HTTPClient
Several clients on one server. `Owner[c]` is the client that makes call `c`; `pending` is
the union of the clients' maps, its keys a client and an ID. The steps of a call are
those of the stdio client with a POST in place of the write: `Post` (the request
reaches the server), `PostReturns`, `PostFails` or `PostTimesOut`, then the select of four cases.
`readSSE` is `ReadsEndpoint`, `EventMatched`, `EventSkipped`, `Deliver`, `DeliverPanics`
and `StreamEnds`; `sseDone` is closed once `reader[k]` is `exited`. `Close`, at any time,
is two steps: cancel the stream's context, then close every channel under the lock. A
`Close` before `Connect` finds nothing to cancel, one that overlaps it may or may not
(`sseCancel` is read and written without a lock). A panic ends the client's process.
`CutStream` is the end of the stream's context: the context of `Connect`, an event too
long for the reader, or the timeout of the `http.Client`, which covers the body of the
stream as well as each POST (`PostTimesOut`).

### Config, Adapters, Registry, Supervision
`Config` is the three `Validate` methods and `LoadFromFile` as operators that give the
first thing that is wrong. A string is present or empty where the code asks no more.

`Adapters` is the state, `cmd`, `cmdMu` and `containerID` of each adapter, and where each
caller is inside `Start` (`exec`, `docker run`, `set id`, `started`, `failed`), `Stop`
(`kill`, `wait`, `docker rm`, `removed`, `not removed`) or `HealthCheck`. Every `SetState`
is a step or part of the step before it, because the state has a lock of its own: calls
on one adapter interleave around it. A killed process is not gone until `Wait` has
returned, and `cmdMu` is held that long. External: a process dies at any moment; `docker
run` fails before or after it has created or even started the container, or because the
name is taken; `docker rm` fails before or after it has removed it; either may hang. A container that has stopped by
itself still exists, which is all that `Start` and `Stop` see of it.

`Registry` adds the map, its read-write lock and the goroutines that use it: `WantLock`
(to register or unregister; a waiting writer keeps readers out), `Get` followed by `Start`
or `Stop`, and the three calls over all adapters: `Snapshot` and `Unlock`, then `CallNext`
in any order of the copy, `Collect` of the errors, `More` for whether to go on. `steady`
is a history: the adapters of the snapshot that stayed registered and that no other
caller meddled with.

`Supervision` puts the three together as the user guide does: load a file, validate it,
build and register its adapters in order, use the registry from several goroutines. What
only the application does (`Build`, `Run`) is external.

## 4. The runs

| run | instance | shows |
|---|---|---|
| `stdio_client_safety` | 2 calls, one of them `Initialize` and cancellable; pipes of 1 line; 1 line of noise of every kind; `Start` also after `Close` | the safety properties below and the refinement of `RequestReply` |
| `stdio_client_release` | 2 calls, one cancellable; answers too long for the client among the answers; fairness | a dead server, `Close`, a cancellation and an answer each make calls return, but for those that nobody listens for (`Unheard`) |
| `stdio_client_timeout` | 2 calls, none cancellable, every answer readable; fairness | **violated**: `Config.Timeout` ("the request timeout duration") is applied nowhere |
| `stdio_server_serve` | 3 request bodies (one that runs a handler, a listing that fails, a notification), 3 lines, pipes of 1, all outcomes of a handler, a peer that reads or not and closes either end; fairness of the server only | pairing of replies and requests; a hang-up ends the server, unless a full stdout that its reader keeps open holds it |
| `stdio_server_cancel` | 2 bodies, 2 lines; fairness of the server, and a peer that reads | **violated**: `Serve` does not end when its context does, while it waits for a line |
| `stdio_system` | an `Initialize` and a `resources/read` against the real server, pipes of 1 line, handlers that give a value, a huge value or nothing; fairness | the server is what the client assumes; every call ends, but for those made after a huge value has ended `readLoop` |
| `http_client_safety` | 1 client, 2 calls (interchangeable: symmetry), streams of 1 event, timeouts and every failure of the service; no cancelled contexts | the safety properties and the refinement of `RequestReply` |
| `http_client_returns` | 1 client, 1 cancellable call that may come before `Connect`, both kinds of answers, streams of 2; fairness | every call of a connected client returns; the pending map is exact |
| `http_client_close` | 1 client, 1 call | **violated**: `Close` lets the reader send on a closed channel, which panics |
| `http_server_streams` | 2 interchangeable connections, 1 post of 4 kinds, streams of 1 event | the count, the broadcast, the refinement of `EventService` |
| `http_server_live` | 1 connection, 2 posts of 2 kinds, streams of 1 event; fairness | the same refinement with overlapping broadcasts; posts return and broken streams end |
| `supervision` | 1061 files, of which one is brought up (a process, a URL of the same name, a container; one without a command would be, were it accepted); 2 goroutines, one with a context that may end; 3 calls; 2 processes; fairness | what Stopped, Running, `StartAll`, `StopAll` and an accepted file mean; nobody waits for docker |

The properties of the stdio client, and of the HTTP client under the same names:

- `OwnReply`: a call receives the answer to its own request only.
- `NoSendOnClosed`: the reader never sends on a closed channel, though it sends after
  unlocking.
- `NoLostReply`: a reply whose call waits is in its channel or about to be; with
  `OwnReply`, the `default` of the reader's select never drops a wanted reply.
- `PendingAccounts`: the pending map is exactly the calls in flight.
- `HandshakeOrder`: the initialized notification follows the server's acceptance.
- `KeepsPromise`: the client implements `RequestReply`.
- `ExitReleasesCalls`, `CloseReleasesCalls`, `CancelledCallReturns`,
  `AnsweredCallReturns`, `EveryCallReturns`: what makes a call return. The death of the
  server and an answer do so unless the call is `Unheard`: registered after `readLoop` has
  ended, and waiting. That takes a line too long for the scanner, after which the server
  lives on; the answer then goes into a pipe that nobody reads, and nobody closes the
  channel when the server dies. `Close` and the call's context release such a call too.
- `SystemReleasesCalls`: with the real server, every call ends. Excepted is what follows
  a huge result: calls that are `Unheard`, and calls that are `HeldUp`, waiting to write
  to a server that is held at the pipe nobody reads. The second takes more calls than the
  instance has (one for the huge result, the replies that fill one pipe and then hold the
  server, the requests that fill the other): it is in the property because the code has
  it, not because the run needs it.

Of the stdio server:

- `RepliesMatchRequests` (`ServedInOrder` in `StdioSystem`): of the lines that are done
  with, those that are owed a reply are as many as the replies, and the n-th of them has
  the n-th reply, under its ID. It counts (`Due`) instead of filtering the lines because
  the provers know nothing of `SelectSeq`.
- `HangUpEndsServer`: when the peer has closed the server's stdin, the server goes
  through what it was sent and ends, its replies read, unread or refused. One thing keeps
  it up: a full stdout whose reader neither reads nor closes it.
- `CancelEndsServer`: that the context ends `Serve`, violated.

Of the HTTP server:

- `HealthAgrees`: whenever no handler is between map and counter, `/health` reports the
  number of registered clients.
- `AnswersReachStreams`: when a post returns, every stream that was up when it arrived
  has been written its answer, but for streams that ended or broke themselves and writes
  that overlapped; one failed write costs the others nothing.
- `PostsReturn`, `BrokenStreamsEnd`: a client that does not read holds up no request for
  ever, and its own handler goes away.
- `ImplementsService`: it is the server `HTTPClient` assumes.

Of the application:

- `StoppedMeansGone`: an adapter at rest in state Stopped has left no process
  behind, and no container whose ID it knows. For containers this is claimed if no
  `Start` overlapped another call of the adapter (`raced`); for processes always, because
  `cmdMu` is held over the kill.
- `RunningMeansLaunched`: at rest in state Running it has a process or container that it
  started and that `Stop` would find; it may have died since. Not claimed where a `Start`
  overlapped another call, where the last `SetState` wins.
- `StopAllStops`, `StartAllStarts`: what is true of each adapter when they return, and
  of which adapters.
- `ValidatedStart`, `FirstErrorReported`: an accepted entry never fails for want of a
  command or a URL; a refusal names the first entry that is wrong.
- `RegistryResponds`: `Register` and `Unregister` get the lock although docker hangs.
- `StdioCallsReturn`: every method of a stdio adapter returns.

**Bounds.** Two calls are enough for every pairwise race the client has: two holders
of the stdin mutex, one writer blocked while the other's reply arrives, a reply for
one call found while the other registers, one of them leaving. A pipe of one line
is the smallest that can be full, and is full as often as possible; larger pipes
only let a writer proceed. One line of noise is one unknown, repeated or
undecodable line at any place in the stream; the reader's state after it is its
state before. The server needs three lines: one served, one in the pipe, one already
answered; its pipes of one line hold it at the second unread reply.

A stream of one event is full whenever it is not empty. Two connections make a
broadcast go on after one of them; two posts overlap on the one connection. The body of
a request is one of a handler's, a listing, a notification and one that does not decode:
the four ways through `handleMessage`. In `supervision` the calls are three in all, of
which the first runs alone (it brings the adapters into any state one call can reach) and
the other two interleave: enough for a `Start` against a `Stop`, a `StopAll` against an
`Unregister`, a second `Start` of what runs. Two processes are one and the one that
replaces it; a third `Start` fails for the bound as it may fail for the system. Files
have at most two servers and two containers: one wrong entry before, after or
with another.

**Fairness.** `WF` of each running goroutine of the client (`Running`, `ReadLoop`,
`CloseRun`): the Go scheduler runs what can run. A caller need not call, `Close`
need not be called, a context need not end, and the server need not read, answer or
die. Where a property needs a server that reads its input, it says so itself
(`ServerReads =>`): `CancelledCallReturns` has that premise because a call blocked
in `Write` or on `stdinMu` does not look at its context (`stdio_client.go:157`).
`WF` is enough for `LockStdin`: Go's mutex is held across one write only, and with
finitely many calls each one takes it at most twice. For the server, `WF` of the loop
(handlers return) and nothing of its peer, which may stop reading and never close what it
does not read. `CancelEndsServer` has a peer that reads as its premise, so that what
violates it is the wait for a line.

For the HTTP server, `WF` of every handler's steps but the panics, which nobody is owed;
`SF` of `StreamDone`, because the select of `handleSSE` picks at random between the
heartbeat and the end of the context and each time round may pick the one; `WF` of
`ConnBreaks`, because `WriteTimeout` is set (60 seconds by default) and counts from the
request, for streams too. Clients need not read or leave. In `Supervision`, `WF` of a
goroutine inside a call except in a docker command, which may hang for ever, and a
killed process dies.

For the HTTP client the timers of `http.Client` are fair as well (`PostTimesOut`,
`CutStream`): `NewHTTPClient` replaces a zero timeout by 30 seconds, and a timer fires.
`EveryCallReturns` needs both: the POST timer does not bound the wait for the event,
which ends only because the same timeout ends the stream. That is the opposite of the
stdio client, whose `Timeout` is not used.

**Preconditions.** An HTTP client connects once, and the server announces the endpoint it
was configured with. Calls before `Connect` are in `http_client_returns` only
(`EarlyCalls`): they wait for an answer that no stream brings, and end when their context,
`Close` or the end of a later stream ends them. `OwnReply` and `KeepsPromise`
are claimed for a client with its server to itself. A stdio client is started before it
is used (a call before `Start` would write to a nil stdin); `Start` may come
after `Close` (`LateStart`) in `stdio_client_safety` and in the theorems, not in the runs
about liveness. `Start` is one
step: nothing of the client is shared before it. `Start` is called once: the code accepts a
second one, also after one that failed, and starts a second `readLoop` on the same pending
map. Requests with the wrong HTTP method are
left out of `HTTPServer`: they change nothing. `HeartbeatInterval` is positive, 30 seconds
in `DefaultHTTPServerConfig`; with the zero value `time.NewTicker` panics in every
`handleSSE` after its greeting (`http_server.go:210`), which `NewHTTPServer` does not
prevent. What is handed to `Register` may be anything, but a nil adapter or an empty name
is refused before the lock is asked for and changes nothing: that is not a step of
`Registry`. Two adapters never share a container name,
and nobody but its adapter touches a container. A context is only ended where it
is about to be looked at, which leaves out no behaviour. Adapters are built from accepted
files and not copied or reconfigured.
The counter is not bounded in the models; 2^63 calls wrap it in the code, and
`NormalizeID` loses precision above 2^53: out of the models' reach.

## 5. The proofs

Every safety invariant that a passing run checks, every type invariant and every
refinement is a theorem, for every value of the constants that the named assumptions
allow: any number of calls, connections, posts, adapters, goroutines and processes, any
capacity of a pipe or stream, any lines, files and outcomes.

| module | theorem | property |
|---|---|---|
| `StdioClientProofs` | `TypeCorrect` | `TypeOK` |
| | `RepliesAreOwn` | `OwnReply` |
| | `SendIsSafe` | `NoSendOnClosed` |
| | `RepliesAreKept` | `NoLostReply` |
| | `PendingIsExact` | `PendingAccounts` |
| | `HandshakeIsOrdered` | `HandshakeOrder` |
| | `PromiseKept` | `KeepsPromise` |
| `StdioServerProofs` | `TypeCorrect` | `TypeOK` |
| | `RepliesMatch` | `RepliesMatchRequests` |
| `StdioSystemProofs` | `ServerFits` | `ServerIsWhatClientAssumes` |
| | `AnswersInOrder` | `ServedInOrder` |
| | `SystemKeepsPromise` | `KeepsPromise` |
| `HTTPServerProofs` | `TypeCorrect` | `TypeOK` |
| | `HealthIsRight` | `HealthAgrees` |
| | `BroadcastsReach` | `AnswersReachStreams` |
| | `ServesClients` | `ImplementsService` |
| `HTTPClientProofs` | `TypeCorrect` | `TypeOK` |
| | `RepliesAreOwn` | `OwnReply`, if `Alone` |
| | `PendingIsExact` | `PendingAccounts` |
| | `RepliesAreKept` | `NoLostReply` |
| | `PromiseKept` | `KeepsPromise`, if `Alone` |
| `SupervisionProofs` | `TypeCorrect` | `TypeOK` |
| | `FirstErrorIsReported` | `FirstErrorReported` |
| | `ValidatedStarts` | `ValidatedStart` |
| `AdapterProofs` | `StoppedIsGone` | `StoppedMeansGone` |
| | `RunningIsLaunched` | `RunningMeansLaunched` |
| | `StopAllIsComplete` | `StopAllStops` |
| | `StartAllIsComplete` | `StartAllStarts` |

`SequenceLemmas` holds what several of them need about the elements of a sequence.
The inductive invariants stand in the modules that they are about (`IndInv`, `LoopInv`,
`SysInv`); each was checked by TLC on the instances of section 4 before it was
proved. The proofs go by action and, under it, by
conjunct, with a lemma for what a step that leaves the relevant variables alone preserves.

**The stdio client.** What `IndInv` adds to the properties, and why:

- `UniqueIDs`: IDs are handed out once. Without it two calls could share a key.
- `AnswersFollowIDs`: every reply on its way, in the reader's hand, in a channel
  or received carries the ID of the request it answers, and only calls past
  registration have been seen by the server. With `PendingAccounts` and `UniqueIDs`
  this is `OwnReply`.
- `ReaderOwnsChannels`: channels are closed by the reader's last act and by nothing
  else. That is `NoSendOnClosed`: whoever is about to send is not past that act.
- `CallHolds`: what a goroutine holds at each point of an API method.

The refinement needs two more. `RequestsOnce`: a request is in the pipe once, and is
neither there nor unwritten once it has been read; so a request is sent once and answered
once. `Reasons`: a call that is about to fail has a reason that lasts (the pipe is closed,
the reader has ended, the context is done, `Close` has begun). Initial states of the
client are initial states of `RequestReply` under the mapping (`PromiseInit`); a step of
a call is `CallRefines`, any other `OtherRefines`.

**The stdio server.** `LoopInv` adds `Holding` to `RepliesMatchRequests`: the loop holds
the line that it has read last, and what it is about to write is owed to that line and to
no line before it. The lemmas about the count (`DueCounts`, `DueGrows`, `DueAppend`) say
that one more line makes it grow by one or not at all. `ServeKeeps` asks nothing of the
peer but that it writes lines.

**The two together.** `SysInv` joins both invariants by `ServesReceived`: between its
scan and its write the server holds a request that it has read and not answered, with the
ID that the client gave it. Then every write of the loop is a `ServerReply` or a
`ServerReplyOversized` of `StdioClient` (`WriteRefines`), every scan a `ServerRead`, the
end of the process, by a return or a panic, a `ServerExit`, and the rest stutters.
`ReaderStays` says that the client's end of the server's output is open while the server
lives, so none of the server's writes fails (`NoWriteFails`).
`StdioServerProofs` is instantiated with the system's variables; the lemmas `Same...` say
that this instance and the server that `StdioSystem` runs are one.

**The HTTP server.** `HandlersCount` ties map and counter to where the handlers are
(which is `HealthAgrees`); `OwedIsUp` says that a stream that is owed an answer is up and
still ahead of the broadcast, or has ended or broken; `PostHolds` and `StreamsBegin` say
what a post holds, and that nothing is written to a stream before its handler begins.
Under the mapping a snapshot is the moment an answer is known, and an undefined write a
write that lands somewhere or is lost.

**The HTTP client.** The same argument as for the stdio client, over the steps of the
abstract `EventService`: so it speaks of a client of any server that gives that
service, as `HTTPServer` does (`ServesClients`). `PostedOnce` and `AnswersFollowIDs` say what is on the streams,
`ReaderHolds` what a reader has in hand. Whether calls of several clients share the
server is `Alone`, a condition on the constants alone: `OwnReply` and `KeepsPromise` are
false without it (section 6), the other theorems do not need it.

**The application.** `Placed` says which labels go with which adapter and method,
`Vetted` that what is up has passed `LoadFromFile` and `Validate` and that the adapters
were built from it. `FirstErrorReported` follows from `ValidateIsRight`, which says of
the operators of `Config` that the error they give is that of the first bad entry. For the
adapters, `ProcessesOwned` (no two hold one process), `Exclusive` and `SteadyQuiet` (what
`raced` and `steady` say about other callers), `StatesTell` (the states, at rest or not),
`Achieved` (what the method a caller is in has done) and `Swept` (what a call over all
adapters has done so far) are inductive together: stopping one adapter must not change
what another one's state says, and a caller's progress must survive every step of the
others.

**Assumptions.** The named `ASSUME`s of the modules, which TLC evaluates in the runs, and
nothing else. Beyond the bounds and the disjointness of sets they say: of the HTTP server,
that connections are finitely many (`/health` counts them); of the files, that they are
lists of server and container entries (`FilesAssumption`: what `json.Unmarshal` yields);
of the adapters, that each has an entry of its own in the deployed files, of its own kind
(`EntryAssumption`: how an application builds them); that `None` is none of the values it
stands beside (`NoneAssumption`, `NamesAssumption`, `VerdictAssumption`); and of `StdioSystem`, `HugeAssumption`.

**Only model-checked.** The liveness properties: TLAPS has no rule here for fairness.
These are `ExitReleasesCalls`, `CloseReleasesCalls`, `CancelledCallReturns` and
`AnsweredCallReturns` of the stdio client, `HangUpEndsServer`, `SystemReleasesCalls`,
`EveryCallReturns` of the HTTP client, `PostsReturn`, `BrokenStreamsEnd`,
`RegistryResponds` and `StdioCallsReturn`. The three violated properties are refuted by TLC.

## 6. Where code and documentation disagree

Three runs show a disagreement; `findings` in `PROJECT.json` quotes the lines:
the timeout that `StdioClient` does not apply, the context that `Serve` does not watch,
and the `Close` that makes the HTTP reader panic.

Others were met while modelling. The models contain them; no run is devoted to them:

- `Start` of a stdio client after, or racing with, `Close` starts a process that no
  later `Close` stops (`stdio_client.go:325`): `closeOnce` is spent.
- A line too long for the stdio client ends `readLoop`, closes the calls in flight and
  leaves the server running (`stdio_client.go:98`). Later calls are accepted, written and
  answered, and wait until their context or `Close` ends them; no error says why.
- A line without an ID is answered, for every method but `notifications/initialized`
  (`server.go:110`); the user guide says of notifications "No response will be sent"
  (`docs/USER_GUIDE.md:85`).
- Two HTTP clients on one server both number their requests from 1 and both get every
  answer (`http_server.go:276`): `OwnReply` does not hold for them.
- `StdioAdapter.HealthCheck` sends a nil signal, which is refused: it fails for a running
  process too (`adapter.go:144`).
- `docker run` that fails after it has created the container leaves `containerID` unset.
  `Stop` then takes it for "Never started by this adapter -> nothing to remove"
  (`adapter.go:239`), and every later `Start` fails because the name is taken.
- A second `Start` of a stdio adapter loses the first process; if the second fails as
  well, `Stop` succeeds while the first process lives (`adapter.go:95`).
- A call of an HTTP client that never connects waits for ever: its POST is bounded by
  `Timeout`, the wait for the answer is not (`http_client.go:214`).
- `StopAll` with a context that is done removes no container (and says so).
- The lifecycle of `docs/USER_GUIDE.md:645` is not enforced: any call is accepted in any
  state, e.g. `Stop` of an idle adapter makes it stopped.
- `Enabled` of a server entry is read by nothing but `BaseAdapter.Config`.

## 7. Not modelled

The wording of errors (i18n), the payload types and their JSON layout, the environment
and arguments of processes and containers, container tags, the HTTP headers, and
the scripts and challenge runner, which have no behaviour of their own. Of the HTTP
client: a second `Connect` (its reader's `close(sseDone)` would panic), an announced
endpoint that is not the configured one. `RegisterTool`,
`RegisterResource` and `RegisterPrompt` are called before serving; calling them while it
runs would be a data race on a map and is outside the models. `List` and `Count` of the
registry only read.
