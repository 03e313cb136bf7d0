# scaled-mcp: specification, model checking and proofs

This directory holds TLA+ specifications of [scaled-mcp](../src/README.md), a
server (and client) library for the Model Context Protocol whose sessions are
actors. TLC checks the specifications on small instances; TLAPS proves their safety
properties for every value of the constants.

    tlc -config MCMcpSession_demand.cfg MCMcpSession.tla    # any run of PROJECT.json
    tlapm McpSession_proofs.tla

## The system

A client opens a session in one of two ways. With the 2025-03-26 transport it
POSTs `initialize` to `/mcp`; the handler makes a session id, spawns a *session
actor* and asks it. With the 2024-11-05 transport it GETs `/sse`; the handler
finds or spawns the session actor, spawns a *client connection actor* for the
stream, and the client then POSTs to `/messages`, where requests are told to the
session and answered over the stream. Actors run in goakt, a library outside the
repository; requests become mailbox messages.

| Component | State it keeps | Operations | Talks to |
|---|---|---|---|
| session actor (`mcp_session_state_machine.go`) | state (uninitialized, initialized, shutdown), negotiated version, last activity, connection actors by connection id | PostStart, RegisterConnection, WrappedRequest (initialize, shutdown, notifications, calls), TryCleanupIfUninitialized, CheckSessionTTL | answers asks, tells connection actors, schedules timers, calls executors |
| state machine actor (`state_machine_actor.go`) | current state and data | dispatch, Stay, ToState, Shutdown, errors | wraps the session actor |
| POST handlers (`mcp_post_handler.go`, `message_post_handler.go`) | one goroutine per request | make a session on demand, ask with a timeout, tell | session actor |
| GET `/sse` handler (`sse_get_handler.go`) | one goroutine per stream | find or spawn the session, spawn connection actor and watcher, wait for either end | all actors |
| client connection actor (`client_connection_actor.go`) | session id, connection id, channel | PostStart (register), JsonRpcResponse, Terminated | session actor, SSE channel |
| death watcher (`death_watcher.go`) | watched PID, notification channel | Terminated | handler's channel |
| SSE channel (`sse_channel.go`) | response writer, Done | Send, SendEndpoint, Close | handler, connection actor |
| GET `/mcp` handler (`mcp_get_handler.go`) | one goroutine per stream | as GET `/sse`, but all streams of a session give their connection actors one name; only `HandleMCPGetExternal` reaches it, the router sends GET `/mcp` to the SSE handler | connection actors, watchers |
| HTTP client (`http_client.go`) | endpoints, session id, pending response channels, flags | Connect, SendRequest, SendNotification, Close, SSE callback | the server |
| session ids (`stateless_session_manager.go`) | a secret, configured or drawn at random by the process | generate, verify | handlers |
| executors (`internal/executors`) | registries | CanHandleMethod, HandleMethod with the checks of its parameters | session actor, registries |
| feature registries (`pkg/resources`) | tools and their replaced handlers, prompts, resources and their providers, subscribers | register, list by page, get, call, read, subscribe | executors, application |
| schemas (`reflection.go`, `builder.go`) | | schema of a struct or a builder, defaults, conversion of parameters to fields | tool registry |
| server (`mcp_server.go`) | actor system, root actor, HTTP server, listener goroutine | Start, Stop, routing, recovery of panics | everything |

What is hard in it, and what should hold:

- *The session's life is driven by timers.* One message decides, once, whether
  the session is taken down for want of an `initialize` or gets a TTL ticker.
  Sessions must never be left with nothing that would end them, never get two
  tickers, and never be ended while they are in use.
- *Requests may outlive those who wait for them.* An ask times out while its
  request is queued; a queue is lost with its session; the shutdown state ignores
  what it is sent. Every request must be accounted for and executed at most once.
- *Names are looked up, then used.* Two streams may both find no session; a
  session that is found may have stopped; an actor may be registered after it
  gave up.
- *The end of an actor must reach those who depend on it*: a stream whose session
  ended, a handler whose connection actor ended. The notification crosses actors,
  goroutines and an unbuffered channel.
- *Stream output is shared*: endpoint before messages, no write after the HTTP
  handler has returned, Done closed once.
- *The client's goroutines share channels*: the callback of the stream, the
  request that waits, its cleanup and Close look a channel up, send on it and
  close it in steps that interleave. What a request returns must be its own answer.
- *Connecting is a negotiation with two fallbacks*, in which a stream, a signal
  and an endpoint arrive in any order.
- *Lists are read page by page while they grow*, by cursors that are looked up
  again among other items.
- *The server is started, stopped and restarted with requests in flight.* Each
  handler looks at the actor system again and again, after it has begun to answer;
  Start and Stop leave each other flags. What a request is told must be what it did,
  and an id must mean the same before and after.
- *A call is checked in layers*, by the session, the executor, the registry, the
  schema and reflection, each with errors of its own and conversions of its own. A
  handler must get what was sent, and an answer must name the right cause.

`PROJECT.json` lists these hazards at their source lines with the properties that
watch them.

## Modules

| Module | What it is |
|---|---|
| `SessionLifecycle` | abstract: what a session promises (life, requests served) |
| `EventStream` | abstract: what a session's event streams promise (one announcement, first; no message made up; one end) |
| `McpSession` | one session: session actor, mailbox, timers, POST handlers, streams by their progress |
| `SseStream` | streams: handler goroutines of GET `/sse` and the external GET `/mcp`, connection actors, death watchers, Done; the session is the environment |
| `Server` | the process: Start, Stop, restart, session ids, and every HTTP request up to the session actor |
| `Calls` | requests for one item: executors, registries with and without provider, subscriptions, errors and answers |
| `ToolSchema` | operators: schemas, defaults, conversion of parameters (used by `Calls`) |
| `Features` | executors and static registries: dispatch, listing by pages, the two reads of prompts/get |
| `HttpClient` | the requests of a connected client: SendRequest, the stream's callback, Close |
| `ClientConnect` | Connect: choice of transport, stream, endpoint event, fallback; Close |
| `MCMcpSession`, `MCServer`, `MCCalls`, `MCFeatures`, `MCHttpClient` | instances for TLC: request sets, definitions, symmetry |
| `McpSession_proofs`, `McpSession_refinement` | theorems about `McpSession`; what becomes of requests, and that it implements `SessionLifecycle` |
| `SseStream_proofs`, `Server_proofs`, `Calls_proofs`, `Features_proofs`, `HttpClient_proofs`, `ClientConnect_proofs` | theorems about the others |

`McpSession` composes what interacts in the life of a session: the POST handlers,
the session and its streams share one mailbox there. The others meet it at its
borders. `Server` has all sessions and all requests, but a session only as an id that
is there or not, and hands over where a message reaches it (`Send`, `Initialize`) or
a stream is up (`Connect`). `SseStream` opens up the streams that `McpSession` knows
by their progress. `Calls` and `Features` are what the executors do between `Calling`
of `McpSession` and its outcome: "result", "error" and panic are the three outcomes
of both. `HttpClient` and `ClientConnect` see a server that answers at any time, late
or never.

### McpSession

One action is one message handled, one handler step between two blocking calls,
or one event of the library. `status` is the PID (absent, running, suspended,
stopped), `listed` whether `ActorOf` still finds it, `phase` the state machine's
current state. `mailbox` is the actor's queue. `idle` is the time since
`SessionData.LastActivity`; `initTimer` and `ttlTimer` are what the scheduler
holds. `registered` is the one entry of `ClientConnectionActors` that is used:
every GET `/sse` stream registers under the default connection id, so a later one
replaces it. `conn[c]` is how far a stream has come, `outcome[r]` what became of
a request. `executed` and `sinceOk` are history: how often a request was given to an
executor, and how long ago a client interaction last succeeded.

A request leaves `outcome` "queued" by an answer ("result", "error", "done" for a
notification), by its asker's timeout, or by a loss the code has: "lost" (queue
of a session that ended), "ignored" (shutdown state), "dropped" (no stream, or a
dead one, to answer on), "refused" (no running session).

Handlers are written once and end in one of `Continue`, `Halt`, `Fail` or
`SendResponse`, as they end in `Stay`/`ToState`, `Shutdown`, an error or
`sendResponse` in the code. `SendResponse` contains the failure of `Tell`: an
answer to a connection actor that has ended is an error of the session actor, and
its supervisor ends it.

### SseStream

`handler[s]` is the place of a stream's handler: the two spawns, the 100 ms sleep of
`SpawnDeathWatcher`, the look at the actor, `Watch`, and the select. The window
between `Watch` and the select is a state of its own ("returning"), because the
watcher's send does not wait. `closed` counts closes of Done. The session is an
environment that registers streams, tells them responses and may stop at any time.

`route` says which handler the streams belong to. On GET `/sse` connection actors
have names of their own and streams share nothing: one is looked at. On GET `/mcp`
all streams of the session spawn under one name, and the library hands the actor that
has it to whoever asks (`pid`): a second stream waits on the first one's actor and
its own channel is never used. These actors also register under connection ids of
their own at a session that answers to the default one, so it never sends to them.

### Server

An id is a text `random_caller_signature`; here it is a record of what is told apart:
how many parts a split at the delimiter gives, the random part (the request it was
made for, as two are never equal), the caller's name cut at delimiters, and the
secret of the signature. `Secret` is the configured one, or one per process, so that
`Restart` makes ids of the last process foreign when none is configured.
`VerifySessionId` follows the code's split into three: a name with a delimiter pushes
the signature out of its part, a text with one delimiter has no third part and
indexing it panics. A principal with an empty name is nobody to the POST handlers
(`Principal`), as a part without a name is to `VerifySessionId`.

`pc[r]`, `wrote[r]` and `effects[r]` are the place of a request's handler, the answers
it has written in order (a handler may write twice) and what it changed. One action
is what a handler does between two looks at shared state: verify, serialize auth
info, find the root actor, send; or find, make and join a session for a stream.
`control` is the same for the goroutine that calls Start and Stop: HTTP server, then
actor system, then root actor; actor system, then HTTP server. `Recovered` says whose
middleware answers for a panic; elsewhere the connection is closed without an answer.
A stream whose connection actor was not spawned goes on to `SpawnWatcher`: if the
actor system runs again it panics over the nil PID, if not the watcher's own spawn
fails before the PID is read, and the handler waits for ever ("stuck").

### Calls and ToolSchema

A request is checked by the session's executor (`EarlyAnswer`), then asks its registry
at once or in two steps where the code releases the registry's lock in between
(`FindTool`/`CallTool`, `FindResource`/`ReadResource`). Each registry is static,
dynamic with a provider that returns anything, or dynamic without one. The
application registers tools and resources and replaces handlers meanwhile
(`Configure`). Handlers and providers are the application's: they return, fail with
an error of any code (an error's own code is found however deeply it is wrapped),
return what cannot be marshalled, or panic (`AskApplication`, `AskHandler`). `answer`
keeps the kind of response, its code and its id, as the conversions to protobuf and
back leave it; "panic" ends the session actor.

`ToolSchema` has schemas as functions of struct fields and their tags, or of the
builder's calls, reduced to required names and defaults, which is all `CallTool` uses;
and `UnmarshalParams`, the struct that reflection makes of parameters, by the position
of its fields, as two may have one name. Numbers are counted in halves, so that a JSON
number may have a fraction. Integer fields have a width and wrap; `Float64` and
`Float32` are the numbers that the types hold, to which a number is rounded; what the
machine makes of a float that int64 or uint64 does not hold, which Go leaves to it, are
the constants `BeyondInt64` and `BeyondUint64`.
`input` remembers what a handler was given.

### HttpClient

`pc[r]` is the place of each `SendRequest`: checked, registered, then replied (the
server answers in a 200) or posted (it accepts with a 202 and answers on the stream),
waiting, cleanup, unregistered. What a 202 means is the connection method's choice
(`Accepted`): to wait, or to make a result up. `responseMap` maps ids to requests, `channel[r]` and
`buffer[r]` are the request's channel of capacity one. The callback is two
actions, `Arrive` (the lookup under the read lock) and `Deliver` (the send, after
the lock is released): what happens between them is what is hard. Cleanup is two
actions as well (delete under the lock, then close). `panic` records what ended
the program: a send on a closed channel, a close of a closed channel, or the nil
answer a request reads from a channel that Close has closed. Nothing happens
after a panic.

### ClientConnect

`serves` and `announces` describe the server, `wanted` and `events` the options;
all combinations are initial states. Each stream goes from dialing to open to
over, and its callback first signals and then stores the endpoint, as two actions.
`FallBack` is the 404 branch of `Connect`, with its own stream and with the
endpoint assumed afterwards (`AssumeEndpoint`). It is open to every failure of
initialize, as the code looks for "404" or "not found" in the text of the error, which
may be the server's. `postedTo` remembers the endpoint
that initialize went to.

### Features

`kind` says which of the four registries is looked at: they list with the same
code, written out four times. A name is a number that stands for its place in the
order of strings. `From` and `List` are the lookup of the cursor and the page;
`present` and `seen` record what a client's walk should and did get. The
executors are operators: `HandleMethod` asks by prefix, `CanHandleMethod` asks
one executor after the other. Only the experimental handler may be absent:
`DefaultExecutors` makes the other four (`executors.go:21`, `mcp_server.go:260`). `prompts/get` with arguments is two actions, as the
registry is read under its lock twice.

### Fault operators

An operator whose comment begins with "Fault" is a variant of the operator that
follows it, with a mistake a programmer could make there. The model does not use
it. `PROJECT.json` ("mutants") pairs each with the property that fails when it
takes the place of the original.

## What is assumed of the actor library

goakt's source is not in the repository. The modules rely on what the code relies
on: mailboxes are first in, first out and handled one message at a time, PostStart
first; sending to an actor that does not run is an error for the sender;
`ctx.Err` or a panic makes the supervisor stop or suspend the actor
(`Supervision`: both are checked); a stopped actor stays listed for a while
(`Reap`), a suspended one for good — `death_watcher.go:58` itself checks
`IsRunning` after `ActorOf`; an idle actor may be passivated (`Passivation`);
`X.Watch(Y)` tells X of the end of Y, as `death_watcher.go:60` and its test use
it. Scheduled messages may come late, never early. Timers of an actor that has
ended reach nobody.

## Runs

| Run | Question | Result |
|---|---|---|
| `session_demand` | POST `/mcp` alone: two initializes (one unknown version), a call with unreadable auth info, a cancellation, a shutdown; timeouts, passivation, stop and suspension. Is any request forgotten, does the session end when its clients fall silent? | hold |
| `session_streams` | two streams and one session: a malformed initialize and a shutdown answered over them, a call over POST `/mcp`; races of lookup, spawn, registration, timeout and disconnect; respawn | all hold |
| `session_negotiation` | are calls executed only after a version was negotiated? | **no** |
| `session_orphans` | do streams end with their session? | **no** |
| `stream` | one stream of GET `/sse` or two of GET `/mcp`, under all failures: endpoint first, Done closed once, one stream served, no write after return; does a handler whose stream was closed, or whose actor died early, return, and when is one lost? Do the streams implement `EventStream`? | all hold |
| `stream_death` | does a handler return when its connection actor stops? | **no** |
| `server` | requests on every route against a server that is started, started again, stopped and restarted: ids, answers, handlers that wait for ever, the listener | all hold |
| `calls` | a session calls, gets, reads and subscribes while the application registers; three kinds of registries: inputs, causes of errors | all hold |
| `features` | listing while items are registered, both dispatches, the two reads of a prompt | all hold |
| `client` | own answers, answers that are lost, entries of the map, what panics, return of every request, with Close and timeouts | all hold |
| `client_send` | does the callback survive a channel that is closed? | **no** |
| `connect` | one stream, the endpoint initialize goes to, the end of Connect and what Close leaves of a connected client, for all options and servers | all hold |

`session_demand` is run under fairness and for what needs no streams; `session_streams`
has the invariants, as more can go wrong there; it has about 1.1 million states.
`server` is the largest, with about 1.8 million states and two minutes.

Properties of the session runs:

- `OnlyShutdownForgets`: a running session has PostStart, the initialize timer, its
  message, or the ticker to come from its spawn on. One step takes it the last of
  these, when it ignores its cleanup message in the shutdown state, and nothing gives it
  back.
- `SingleSchedule`: the cleanup message exists once and never beside a ticker.
- `EveryRequestAccounted`: a request someone believes queued is in the mailbox,
  exactly once. `AnswersAreFinal`: once the session has answered a request it is in
  no mailbox and will not be executed again; a call with a result has been, once. The
  handler's own error promises nothing: it is the same -32603 for a session that is
  not there and for an ask that timed out, whose request may still be executed.
- `StreamRegistered`: a running session with an open stream has an entry to answer on,
  and the entry is a stream whose registration it handled. It may be one that gave up:
  a late registration replaces the entry of an open stream.
- `TtlRespectsActivity`: the TTL check ends an initialized session only after more
  than the TTL without a successful interaction.
- `ImplementsLifecycle`: refinement of `SessionLifecycle`.
- `UninitializedEnds`, `IdleSessionEnds`: every abandoned session ends, unless it
  was shut down too early (see the findings).

Properties of the server's other runs:

- `DoneClosedOnce`, `EndedStreamReturns`: what a stream's handler, its connection actor
  and the watcher owe one another.
  `LostHandlers`: the only ways in which a handler comes to wait for what cannot come,
  which is then for good. TLC has confirmed that no way on the list can be left out.
  `ImplementsEventStream`: refinement of `EventStream`. In particular the endpoint event
  is the first, and nothing is written after the handler has returned.
- `OneServed`: of the streams that share a name one at most is served, and the
  others are silent and never closed.
- `IdsHonoured`: over restarts and interleavings, a message reaches a session only
  under an id made with the present secret, of its own caller where the handler
  compares callers; a 401 is right, but for names that hide the signature; a session
  under another id was made by a stream that had been told 403.
- `AnswersTrue`: what a request was answered is what it did, whatever stopped in the
  meantime, and where it was answered twice, acted after an error or waits for ever, it
  is one of the cases named there.
- `ListensWhileStarted`: what a Start and a Stop leave to each other. The first Start
  launches the listener and Stop ends it; a second Start breaks both.
- `InputFaithful`: through defaults, schema and reflection, a handler's input is what
  was sent, the declared default or zero; a value that the field's type holds exactly
  arrives unchanged, and nothing that was sent is replaced. A float32 rounds other
  numbers, which the property does not speak of.
- `AnswerTellsCause`: an answer has its request's id, if that is a string or a whole
  number of int64. Unless the application was asked, which may return any code and may
  panic, an error code names the mistake it stands for, exactly, and only a missing
  provider ends the session.
- `WalkComplete`, `NothingTwice`, `WalkEnds`: a client that follows the cursors
  gets what was there when it began, nothing twice, and comes to an end.
  `HandledByAcceptor`: the two dispatches agree, and an absent experimental
  handler is never asked. `MessagesNotOlder`: the second read of a prompt is not
  older than the first; that it is newer, and the answer torn, does occur.

Properties of the client's runs:

- `OwnAnswer`: what a request returns of the server's is its own answer, and it returns
  nothing made up but over HTTP. `AnswerKept`: until Close
  clears the map, the answer to a request that can still be answered is with the server,
  with the callback or in the request's channel, also when it overtakes the 202 of its
  POST. `PanicsExplained`: what ends the program is left by Close to
  the requests it met, or an answer sent as its request returned. `RequestReturns`: no order of events leaves a
  request waiting.
- `OneStream`: the fallback ends the first stream, Close
  the last. `AssumedOnlyInWindow`: without the fallback, initialize goes to an
  endpoint the server did not announce only between signal and store.
  `ConnectReturns`.

### Findings

Each "no" is a disagreement between the code and a statement of the repository,
quoted in `PROJECT.json`:

1. A refused `initialize` opens the session (`mcp_session_state_machine.go:201`).
2. `sa.Watch(ctx.Self())` is the wrong way round
   (`client_connection_actor.go:107`): streams outlive their session.
3. The death watcher's send is dropped when the handler has not reached its
   select (`death_watcher.go:90`).
4. The client's callback sends on a channel that cleanup may have closed since it
   was looked up (`http_client.go:347`); the comment says that a closed channel
   does not matter.

More show in the models and have no run of their own. Of the session and its streams:

- `shutdown` before the initialize timeout leaves a session that never ends: the
  shutdown state ignores the message that would start the ticker
  (`mcp_session_state_machine.go:152`). See `IgnoreInShutdown`, and
  `OnlyShutdownForgets`, which says that nothing else leaves a session so; a session
  that is shut down later is ended by its ticker, as `IdleSessionEnds` says.
- A call that ends in an error does not renew the TTL
  (`mcp_session_state_machine.go:280`); the site's `sessions.md` says each
  interaction does. See `ExecuteError`, which leaves `idle` alone.
- GET `/sse` takes an actor that is found for one that runs
  (`sse_get_handler.go:64`). See `LookUp`.
- The streams of GET `/mcp` register under connection ids that the session never
  answers on, and a second one waits on the first one's actor
  (`mcp_get_handler.go:33`). See `SpawnConnection` of `SseStream`.

Of the server:

- A 403 is written without a return (`sse_get_handler.go:57`): the handler goes on and
  makes a session under the id it refused. See `SSEGet`.
- After a failed spawn the handler goes on with a nil PID (`sse_get_handler.go:84`). If
  the actor system has stopped, the first thing `SpawnDeathWatcher` does, the spawn of
  the watcher, fails too (`death_watcher.go:50`): the handler writes a second error and
  waits in its select for ever, also after its client has gone. See `SpawnWatcher`.
  A missing root actor is dereferenced by `handleMcpMessages`. See `FindRoot`.
- A second Start, also the retry of one that failed, takes the HTTP server of the first
  for the application's (`mcp_server.go:325`): it does not listen, and Stop leaves the
  first one's listener up. See `StartBegins`.
- Callers whose name holds the delimiter are refused the sessions made for them
  (`stateless_session_manager.go:74`). See `Legible`.
- The tracing middleware makes a trace id when there is one (`mcp_server.go:593`), and
  `README.md:167` uses a result of Stop that it does not have. Neither touches state.

Of the executors and registries:

- `[]T` is documented for fields of struct tools (`src/README.md:397`), but
  `UnmarshalParams` refuses the `[]interface{}` of a JSON array for any typed slice.
  See `Converted`.
- `prompts/get` without arguments returns a prompt whether its arguments are required
  or not. See `PromptAnswer`.
- The registries' ErrInvalidParams are answered as internal errors, -32603. See
  `Failure`.
- All sessions subscribe to resources as "default"
  (`static_resource_registry.go:143`), so that one ends the subscription of another,
  against the comment "uri -> set of subscriber IDs" (l. 26) and the test of multiple
  subscribers, which sets the value of the context that the server does not. See
  `SubscriberIDOf`.
- Ids with a fraction come back cut to an integer, and ids beyond int64 as whatever the
  machine makes of them. See `AnswerId`.
- Fields of one name share the default of the last of them, which their types may round
  or refuse. See `LastNamed`.

Of the client:

- The signal of the first event is lost when Connect is not in its select yet
  (`http_client.go:289`). See `ReceiveEvent`, whose signal only `pc = "await"` takes.
- After the fallback, `GetConnectionMethod` still says HTTP (l. 139). See `FallBack`.
- A client whose connection method is HTTP and whose POST is answered 202 without a
  body returns `Result: true`, which no server sent (l. 523, 628-635), although
  "SendRequest sends a request to the server and returns the response"
  (`client.go:100`). It comes to this after the fallback, or when the stream has
  announced `/messages`, where this repository's server answers 202. See `Accepted`.
- Close does nothing after a Connect that failed with its stream up (l. 391), although
  it "closes the connection to the server" (l. 389): the stream stays until the caller
  cancels the context given to Connect. See `Close`.

### Bounds, and why they are enough

- `SessionTTL` is 4 in `session_demand`, so that the ticker (every 2) fires
  before, at and after the boundary that `Before` decides, and 2 in the runs with
  streams. `InitializeTimeout` is 1. Ages stop at TTL + 1, which already means
  "longer than the TTL".
- `MaxMailbox` holds back only the ticker, the one unbounded source of messages;
  the others send finitely often. 2 is enough for a check to queue behind another
  message.
- Three to five requests: each path of each handler is taken, including a second
  initialize, and a request queued behind one that ends the session.
- Two streams: a lookup race, a replaced entry and a stale registration need two.
- Two streams of GET `/mcp`: sharing a name needs two. `MaxEvents` 2: a response can
  fail after another has been written.
- `server`: two requests, `MaxProcesses` 2 and `MaxStarts` 2: one request learns an id
  that the other uses, in the same process or the next; a second Start. Seven
  inquiries: every endpoint, each way in (listener, the server's handler in another
  server, single handlers), and callers without a name, with one and with one that holds
  the delimiter. Requests may use every id a client was told and texts that are none.
  The theorems hold for any number of each.
- `calls`: one session with one request, since sessions share nothing in `Calls` but the
  subscribers of a resource, which no property reads; a
  registration or a new handler falls between the two steps of a call. `MaxSets` 2: a
  handler replaced before and after it is read. Integer fields have eight values and
  int64 64, so that a number fits, overflows either or is negative; float32 holds every
  half up to 4, every whole number up to 8, every second one up to 16. The theorems
  hold for all sessions, sizes and sets of numbers.
- Two requests of the client: each hazard is between one request, the callback,
  Close, and at most one other request whose id or channel could be taken for it.
  The theorems hold for any number.
- Two streams of Connect are all it opens.
- Four names with a page size of two: an empty page, a full one, a last page of
  one and of two, and items registered before, at and behind the cursor. One
  client, as listing changes nothing that another one reads. `MaxVersion` 2: a
  prompt replaced once. The page size is 20 in the code; the theorems hold for
  every size.
- `CHECK_DEADLOCK FALSE`: clients post and ask finitely often, and sessions, streams and
  calls legitimately end. `server` is checked for deadlock: Stop is always possible.

### Fairness

The Go scheduler and the actor library run what can run: an actor with messages
(`SessionStep`, `CcaStep`, `HandleTerminated`), a goroutine that is not blocked
(`HandlerStep`), time (`Tick`), the scheduler's deliveries (`FireInit`,
`FireTtl`) and the timeouts of blocking asks (`AskTimeout`, `RegisterTimeout`)
are weakly fair. Weak fairness is enough since none of them is disabled by others
again and again. In the client the goroutines of SendRequest (`SendStep`, with its
30 seconds) and Connect (`ConnectStep`, with its five) run, and in `Features` a
client that has begun a walk goes on (`NextPage`): that the walk ends although
others register is then what is shown. The server owes the client no answer, and
clients, failures, passivation and disconnects owe nothing. `Server` and `Calls` are
checked for safety only, and state no fairness.

## Proofs

Every invariant and every action property of the passing runs is also a theorem, for
every value of the constants. Some theorems state what no run checks, as it is part of
an inductive invariant or follows from a property that is checked: `CleanupPending`,
`EndpointFirst`, `NoWriteAfterReturn`, `EntriesOpen` and `NoAnswerDropped` are defined
beside their proofs. The proofs assume the named ASSUMEs of the modules, which TLC evaluates in
the runs, and nothing else.

`McpSession_proofs` (every set of requests and streams, all timeouts, either library
behaviour):

- `TypeCorrect`: by one lemma for each helper that several handlers share (`Halt`,
  `SendResponse`, sequences) and one step per action.
- `CleanupAlwaysPending`: a running session that was not shut down has its end in view.
  It is inductive given types. The disjuncts are handed on from one to the next:
  PostStart sets the timer, the timer sends the message, the message stops the session
  or starts the ticker, and the ticker stays.
- `ActivityAlwaysRecorded`: `idle <= sinceOk` is inductive: whatever resets `sinceOk`
  resets `idle`, and both age alike up to their common cap. `TtlSparesActiveSessions`
  follows: the check ends the session only when `idle > SessionTTL`.
- `ScheduledOnce`: `SingleSchedule` says how many messages and timers there are; to be
  inductive it needs where the one schedule is at each phase (`ScheduleInv`).
- `RequestsAccounted`: from `AccountInv`, which relates the mailbox to the outcomes
  both ways: no message is there twice, each belongs to a request that believes it
  queued or has given up on it.
- `StreamsRegistered`: from `OpenInv`: the entry is a stream whose registration was
  handled, and an open stream is the entry, or was replaced, or belongs to a session
  that ended.
- `ForgottenByShutdownOnly`, of `OnlyShutdownForgets`: outside the shutdown state by
  `CleanupAlwaysPending`; in it from `ScheduleInv` and from `FirstInv`, by which
  PostStart is the first message of a session and handled in its first state, so that
  only the cleanup message can be ignored with nothing else to come.

`McpSession_refinement`: `AnswersFinal`, from `VerdictInv`: a request the session has
answered is in no mailbox, and what has been handled does not come back.
`LifecycleImplemented`: the mapping is the one of `ImplementsLifecycle`; each action is a
step of `SessionLifecycle` or a stutter, given `AccountInv` and `ServedInv` (a request
that still waits has not been executed), which is what makes "executed at most once"
true of requests whose askers gave up.

`SseStream_proofs` (any number of streams, both routes): `TypeCorrect`,
`EndpointIsFirst`, `DoneNeverClosedTwice`, `OneStreamIsServed`,
`WriterNotUsedAfterReturn`, from one inductive invariant. Its core is `Released`: what
lets a handler out of its select came from an actor that had ended or was closing.
`NoWriteAfterReturn` alone is not inductive, as it says nothing of notices under way.
`LostHandlersAccounted` needs besides (`LostInv`) that the actor a handler was given has
been spawned, that a notice comes only after Watch, and that GET `/sse` has one handler
to look at; it is proved action by action. `EventStreamImplemented`: the events of a
stream and the responses that wait are no more than it was sent, and the endpoint event
(`Counted`), so that each write is a `Write` of `EventStream`; the steps of handlers and
watchers are stutters, but those by which a handler returns or panics.

`Server_proofs` (any number of requests, starts and restarts): `TypeCorrect`;
`StartedListens` from `LifeInv`, what Start and Stop leave to each other;
`SessionsUnderTheirIds` from `RequestInv`: an issued id carries the secret of its
process and belongs to a request that has begun, so no later one makes it again, and
a handler past its check still has the id that passed; `AnswersAreTrue` from
`AnswerInv`, which says for each place of a handler what it has written and done by
then.

`Calls_proofs` (all definitions, requests, prompts, widths, sets of numbers, any number
of sessions): `TypeCorrect` and `AnswersTellTheirCause` from `CallsInv`: how far
a request has come tells which checks it has passed (`ProgressInv`), and an answer
keeps its cause although registries change (`CauseInv`). `InputsFaithful` from
lemmas about `UnmarshalParams`, `WithDefaults`, two's complement and rounding, which
leaves a number of the type as it is.

`Features_proofs` (every set of names, page size and set of clients): `TypeCorrect`,
`WalksAreComplete`, `WalksRepeatNothing`, `MessagesFollowDescription` from `IInv`: a
walk has seen everything up to its cursor that was there when it began and nothing
beyond it, and its cursor is an item (items are never removed, so it is found again).
`ExecutorsAgree` by cases on the executor that accepts.

`HttpClient_proofs` (every set of requests): `TypeCorrect`; `EntriesAlwaysOpen`,
inductive together with `IdsUnique` (ids come from a counter that only grows);
`AnswersAreOwn` and `AnswersFindRoom` from `AnswerInv`: the one answer to a request is
with the server, with the callback or in its channel, hence the callback finds the
channel empty, and it is the channel of the request the answer is for. `AnswersAreKept`
and `PanicsHaveTheirCause` from `RegisteredInv`, the converse of `EntriesOpen`: until
Close clears the map a request on its way has its entry in it, and only one that has
returned has closed its channel.

`ClientConnect_proofs` (every option and server): `TypeCorrect`, `StreamsAreEnded` from
`IInv`: how many streams were opened at each point, that only
the last can be alive, and that the client is initialized exactly while it is connected
and not closed. `AssumedEndpointHasItsWindow` from `WindowInv`, which follows signal
and store.

Only model-checked: the liveness properties `UninitializedEnds`, `IdleSessionEnds`,
`EndedStreamReturns`, `RequestReturns`, `WalkEnds` and `ConnectReturns`, as fairness is
out of the prover's reach.

## Not modelled

- Wording and wire formats: the text of messages, JSON, HTTP headers and cookies beyond
  the id they carry, the formatting of events, trace ids and log output; generated
  code, examples, test harness. They have no state of their own.
- Configuration and builders of resources: records that are assigned once. Clustering
  is the library's.
- In the session: Terminated messages, which its default branch ignores, and the flag
  that `notifications/initialized` sets, which nothing reads. `SaveSession` and
  `LoadSession` always fail and are called by nobody.
- Of reflection: slices of bytes and runes, arrays, embedded structs, output schemas.
- Of the features: handlers and providers are application code and return anything.
- Of the client: the reconnects of the SSE library, the list of event handlers, the
  typed wrappers around SendRequest, and the data races on `initialized` and
  `connectionMethod`, which are read and written whole.

What is left to do: a run for each finding above that a statement of the repository
contradicts, and the order of the client's events, each of which is handed to every
handler in a goroutine of its own (`http_client.go:449`), so that two events of a stream
may be seen in either order.
