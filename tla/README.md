# A verification project for http-pierce

http-pierce makes services of a private network reachable through a public
server.  A *client* process next to the services keeps a *transfer connection*
to the server and registers names (on the server's one http port) or ports (the
server opens them for it).  *External* connections to the server become
messages on the transfer connection; the client opens a *local* connection to
the service for them, and what the service answers travels back.

Sources are quoted as `Class line`; the Java packages are under
`src/src/main/java/com/github/fishlikewater/httppierce/`.

## 1. Inventory

| Component | State | Operations | Talks to |
|---|---|---|---|
| **Registration** (server): `RegisterHandler`, `AuthHandler`, `ChannelUtil` | `ROUTE_MAPPING` name → connection, `DYNAMIC_BOOT` port → boot (process-wide); per connection `REGISTER_CHANNEL`, `CHANNEL_DYNAMIC_BOOT` | AUTH, REGISTER on the default port, REGISTER on a port of its own, CANCEL_REGISTER, channelActive, channelInactive | boots; other connections (it closes them); the client, by answers |
| **Servers on ports of their own**: `DynamicTcpBoot`, `DynamicHttpBoot`, `HttpBoot` | the port, name and connection they serve; their event-loop groups | start (bind), stop | registration creates and stops them |
| **Forwarding, server side**: `HttpServerHandler`, `DynamicHttpServerHandler`, `DynamicTcpServerHandler`, `WebSocketHandler`, `HandlerKit`, `MessageTransferHandler` | `REQUEST_MAPPING` id → external connection; `TCP_FLAG` of an external connection | read a request or a chunk, write it to the transfer connection, hand an answer back, channelInactive | reads `ROUTE_MAPPING`; messages to the client |
| **Forwarding, client side**: `ClientMessageHandler` (data), `ClientResponseHandler`, `ClientResponseHandler2`, `BootStrapFactory` | its own `REQUEST_MAPPING` id → local connection; `HTTP_UPGRADE` | read a request, connect, write, read an answer, channelInactive | `CLIENT_FORWARD`; messages to the server |
| **Client session**: `ClientBoot`, `ReconnectionFutureListener`, `ClientMessageHandler` (system messages), `ClientKit` | the static channel, `CLIENT_FORWARD` of a channel, `stateMap`, `PROMISE_MAP`, the retry timers | connect, reconnect, authenticate, register, re-register, cancel, wait for an answer | the server's registration; the administration calls it |
| **Local administration**: `ClientConfigApi`, `ServiceMappingServiceImpl` | the table of mappings (SQLite) | list, edit, delete, enable, disable, reboot | `ClientKit`, `stateMap` |
| **Heartbeats**: `ServerHeartBeatHandler`, `ClientHeartBeatHandler`, `HttpHeartBeatHandler` and the initializers that install the idle timers | the idle timers of a channel | idle event, heartbeat | closes channels |
| **Wire format**: `MessageCodec`, `DataMessage`, `SysMessage`, the frame decoder | the bytes a decoder has not read yet | encode, decode | every message |
| **Routing and rewriting of urls**: in `HttpServerHandler` and `ClientMessageHandler.handlerHttp` | none | the name of a request; the url without the name | |
| User interface: the bundle under `static/` | the list on the screen, a form | list, add, edit, delete, switch, reboot | local administration |
| Start and shutdown, pipelines, TLS, serialisation, configuration, persistence | | sequential, or wrappers of libraries | |

What is hard: every connection has an event loop of its own, and handler calls
of different connections interleave at each access to the process-wide tables,
which are concurrent maps read and written in separate calls (check, then act).
`close()` of a connection of another loop is queued there.  Requests travel
asynchronously through four connections that may each close at any time, and
none tells the next one.  Retries are timers that outlive what they retry.

What makes the components correct:

* registration: no entry of a table outlives what it leads to; no port stays
  bound for nobody; a client that was told it is registered is; a refusal
  harms nobody.
* forwarding: an answer goes to the connection that asked, in order and once;
  a stream is not split; a connection that ends leaves no entry behind.
* client session: after any sequence of losses, retries and administration
  calls, what is registered is what the table of mappings says.
* heartbeats: a dead peer is noticed, by either end, within its timeout.
* codec and urls: what one end writes the other reads, whatever was written
  before; the local service sees the url it would have seen without the tunnel.

`PROJECT.json` lists every hazard at the line where it bites, with the
properties that cover it, or the module of the plan that will.

## 2. Plan

1. **Registry** (done): `Registry`, its abstract specification `LeaseTable`, the
   model-checking modules `MCRegistry` and `MCRegistryPrivate`, the proofs
   `RegistryProofs`, `RegistryPrivateProofs` and `RegistryRefinement`.
2. **Relay** (done): `Relay` and `MCRelay`, requests, answers and closes over one
   transfer connection after another, with HTTP, WebSocket and TCP external
   connections and local connections, `RelayProofs` and `RelayOrderProofs`.
3. **ClientSession** (done): `ClientSession` and `MCClientSession`, with `reboot()`,
   `SessionProofs` and `SessionStateProofs`.
4. **TransferLink** (done): heartbeats, frames, codec and urls on one transfer
   connection: `TransferLink` with `Codec` and `UrlRoute`, `MCTransferLink`,
   `LinkProofs`.
5. **Tunnel** (left): Registry and ClientSession composed, so that the server's side
   of a session is Registry's and not the summary ClientSession has of it.

Every safety property that a passing run checks is also a theorem, for all values
of the constants; the liveness properties are left to TLC.

## 3. Registry

### Correspondence

| Code | Model |
|---|---|
| a Netty channel of the transfer port | `c \in Conns`; a client that reconnects is a new element |
| where the channel is in its life | `chan[c]`: `new`, `open`, `closed` (inactive, `channelInactive` pending or running), `gone` |
| the handler call running on its loop, cut at each access to shared state | `task[c]` |
| `close()` called from another loop, queued | `closeReq[c]` |
| `ROUTE_MAPPING`, `DYNAMIC_BOOT`, `REGISTER_CHANNEL`, `CHANNEL_DYNAMIC_BOOT` | the variables of these names |
| a `DynamicTcpBoot` or `DynamicHttpBoot` | `b \in Boots`, its fields in `boot[b]`, bound if `b \in listening` |
| the client's `stateMap` | `stateMap[c]`, what c's client was told |

A handler call is a chain of actions, for example `RegisterNewPort` (the get of
line 101 and the constructor) → `Bind` or `BindFails` (line 109 or 115) →
`Publish` (lines 110–119).  `CancelFindsRoute` → `CancelRoute` are the get and
the remove of lines 50 and 52.  `channelInactive` is `GoInactive` →
`DropRoute`\* → (`DropBoot` → `StopBoot`)\* → `Gone`.  What a handler does to its
own connection (the lists, the answer) goes with the shared access before it:
nobody else sees it.

Abstracted: message formats and ids; an answer is applied to the client's
`stateMap` when it is written (the network only delays it, and a closed channel
clears it); `isWritable` is a free choice at the moment it is read; the two
kinds of boot differ only in their pipelines; TCP, HTTP and HTTPS likewise.
Which names and ports a client may ask for is the constant `Config`.

### Runs

| Run | Instance | Shows |
|---|---|---|
| `registry` | 2 connections, 1 name, 1 port, 3 boots, lists up to 2, both clients may register the name on the default port and on the port of its own; symmetric connections and boots | types; `NoDanglingRoute`, `PublishedBootServes`, `NoOwnerlessListener`; both tables implement `LeaseTable` |
| `registry_live` | the same clients, 2 boots, lists up to 1, fairness | `ClosedIsForgotten` |
| `registry_private` | a client with a name on the default port and one on a free port, a client with a name on a port that another program holds; a third connection with the mappings of the first (its client reconnects), no two connections present at once with a name or port in common (`InTurnSpec`) | `ToldRouteLeadsHome`, `ToldPortIsServed` |
| `registry_told_route` | two clients with one name | a finding: `ToldRouteLeadsHome` is violated |
| `registry_refusal` | two clients with one port | a finding: `RefusalSparesHolder` is violated |
| `registry_orphan` | clients with a port each | a finding: `BoundPortIsPublished` is violated |

Why these bounds: every race of the code is between two handler calls on one
key, so two connections and one contested name and port show each of them; the
third boot lets a port be taken again after both clients have had it, lists of
length two let a connection register, lose and register a name again.  Nothing
recycles connections or boots, so the runs end: deadlock is not checked, every
other error is.  The proofs remove the bounds for all but `ClosedIsForgotten`.

Fairness (`registry_live`): a handler call that has begun goes on (weak
fairness of `Continue(c)`: an event loop does not abandon a call).  A queued
`close()` is run in the end (strong fairness of `QueuedClose(c)`: the loop runs
its task queue after every pass over its sockets, so requests that keep coming
delay it but cannot keep it out).  Clients are not fair: they may stop at any
time.

### What the findings are

* **A cancelled name may be somebody else's** (`RegisterHandler` 50–52).  The
  handler removes the route of the name without comparing its channel with
  its own.  A client that was refused the name can send the cancellation:
  `ServiceMappingServiceImpl.edit` 44–49 does so without looking at the state.
* **A refusal takes the port away** (`RegisterHandler` 121).  The condition
  lacks the negation that its counterpart on line 85 has, so a holder that
  works is evicted and closed, and the newcomer is told that the port is in use.
* **Register, cancel, register, cancel leaves the port bound**
  (`RegisterHandler` 54–59).  `CHANNEL_DYNAMIC_BOOT` is never pruned and the loop
  stops at the first boot with the name, the stopped one.

### Proofs

`RegistryProofs` proves `TypeOK`, `NoDanglingRoute`, `PublishedBootServes` and
`NoOwnerlessListener` invariant for all values of the constants, from
`NoneAssumption`, `PortAssumption` and `ConfigAssumption` alone (null is no object; the
default port is not among the ports clients ask for; clients ask for names and
ports that exist).  None of the last three is inductive.  A route may lead to
a connection that is being torn down, and what makes the end of that teardown
safe is how far it has come: `KeepsName(c, n)` says that the list of `c` has
`n` at a place `channelInactive` has not passed.  `RouteOK` says so of every
route; `ListenOK` says the same of bound boots, with the exception of the one
that is bound and about to be published.  `ListOK` (a list holds only boots of its
own connection), `StartOK` (a boot being started is in no list), `TakeDownOK`
(a boot being stopped is no longer in `DYNAMIC_BOOT`, and was in a list, so it can
not be one that is just starting) and `PortOK` (a published boot is bound to
this port, and in a list) are what the steps of other connections must not
disturb.  `CallOK` ties `task[c]` to `chan[c]`.  One lemma per action proves that it
preserves their conjunction `IInv`; the four theorems follow from it.

`RegistryRefinement` proves the refinements from the same invariant.  For routes
the steps that matter are `Gone` (it retires a connection: `RouteOK` says that
no route leads to it any more) and the moves from open to closed, which the
mapping hides.  For ports they are `Bind` (a boot that joins was in no list:
`StartOK`), `Publish` (the claim, by a bound boot) and the three stops (a boot
that retires is listed and unpublished: `TakeDownOK`).

`RegistryPrivateProofs` proves `ToldRouteLeadsHome` and `ToldPortIsServed`, which are
false when two clients compete (`registry_told_route`).  Each theorem is about the
behaviours in which connections that are *present* at once, from `channelActive` to the
end of `channelInactive`, have no name in common (`NamesInTurn`) or no port
(`PortsInTurn`).  That is more than different clients with different mappings and less
than one connection per client: a client may reconnect with its names as often as it
likes.  What the hypothesis excludes is a reconnect that the server accepts before it has
torn the old connection down.  There the promise is false: `RegisterHandler` 141 removes the
routes of all names in the old connection's list, whoever holds them by then.
`NamesOK` says that a connection's handler
calls, list and client know of its own names only, and that a client that is not
connected was told nothing; so a step moves a route of its own connection's names only
(`MovesOwnRoutes`), and not while that client believes in it.  For ports, `BootsOK` says
that a boot has the name and port of a mapping of its connection, `CallsOK` that a
handler call works on a boot of its own connection, which for an eviction is what
`PortsApart` gives, and `ServedOK` strengthens the property: the boot was started for
the very name, since a cancellation stops the first boot of that name; and a
connection that has evicted itself no longer has it, but is about to close.

Model-checked only: the liveness property (fairness is out of the prover's reach).

## 4. Relay

### Correspondence

| Code | Model |
|---|---|
| a Netty channel of an external peer | `x \in Exts`; `kind[x]` is `http` or `ws` on the default port, `port` (HTTP) or `tcp` on a port of its own; `ext[x]` its life |
| a transfer connection, its two ends | `c \in Links`; `server[c]`, `client[c]`, which end at different times |
| a request id (`IdUtil.generateId`) | the pair of the connection and the number of the message that made it: ids of different messages differ |
| a channel to the local service | `local[l]`, named by the message `l` the client opened it for; two of them may have the same id |
| `REQUEST_MAPPING`, of the server and of the client (one static field, two processes) | `SERVER_MAPPING`, `CLIENT_MAPPING` |
| `ROUTE_MAPPING` for the name, which `Registry` models | `route`, which registration changes freely |
| `CLIENT_FORWARD` of a channel, has the service | `CLIENT_FORWARD[c]` |
| `TCP_FLAG` of an external channel | `TCP_FLAG[x]` |
| `channel.writeAndFlush` from another event loop | `outbox[c]`: `Flush(c)` is the write on the loop of `c`, followed by its listener |
| a connection attempt, its promise and the listener that adds the handlers | `Connected`, `ConnectFails`, then `Ready`; between `Connected` and `Ready` nobody reads the local connection |

A handler call reads or writes each map once, so every handler is one action
(those of `Registry` need several).  The races are between handlers: `Close(x)` before `Flush` puts the entry of x's
request, `ReadMessage` between `Connected` and `Ready`, a service that writes or
closes in the same place.

`Request` is the handler of the default port, which looks up `ROUTE_MAPPING`
(`HttpServerHandler` 41–94), and that of a port of its own, whose link was fixed
by the boot (`DynamicHttpServerHandler` 44–79); from the write on they agree.
An upgrade is modelled on the default port; `DynamicHttpServerHandler` 48–50
calls the same `HandlerKit.upWebSocket`.  After it `WebSocketHandler` keeps the
request's id and link, so `Frame` sends without a name; the client writes frames
raw only after the first answer has been forwarded (`ClientResponseHandler`
37–46), which is `Reaches`.

Abstracted: contents of messages; the error paths of handlers (an I/O error
closes the connection, any other is logged), which are `Close`, `LocalEnds`,
`ServerEnds` and `ClientEnds` at any moment.  The service is external: an HTTP
service answers what it has read, a TCP service may also greet (`Greeting`).
So is the patience of an external client (`Patient`).

### Runs

| Run | Instance | Shows |
|---|---|---|
| `relay_live` | one patient connection (`http`, `ws` or `tcp`), two links, two messages answered in two pieces each, fairness | `TypeOK`, `RequestAnswered`, `EndedIsForgotten`, `AnswersComeHomeInOrder`, `StreamStaysTogether`, `FramesFindTheirService` |
| `relay_pair` | a patient connection on a port (HTTP or TCP) and an impatient TCP one whose service greets, over one link | `AnswersGoToWhoAsked`, `ChunksInOrder` |

Why these bounds: the second link shows a request in flight when the first is
lost, and an old local connection that still answers on it; a second message shows a
stream that goes on, or goes on over a second local connection; a second piece shows
an answer cut by a close.  HTTP on a port of its own (`port`) is left to `relay_pair`: it differs from
`http` in that its link is fixed, as that of `tcp` is.  With three messages of a stream the same safety properties hold
as well (not kept as a run: the proofs cover every number).  Two external connections share only a link and the two
maps, so two show an answer that goes astray.  Messages and links are used up, so
the runs end and deadlock is not checked.

Fairness (`LiveSpec`): an event loop goes on with what is queued for it
(`Flush`, `ReadMessage`, `ReadAnswer`, `Ready`), a connection attempt ends, and a
service answers what it has read.  No external client and no end of a link is
fair.  `RequestAnswered` names every way a request may stay unanswered; those
are what the code does without a word to the external client: the connection to
the service fails or ends (`ClientMessageHandler` 162 has no `else`), the name is
no longer known (68–69 meets null), the link closes.

What the code does not promise, and no property says:
entries of all but the last request of a kept-alive connection stay, and so does
the last one's if x closes before the write completes; pipelined requests are
answered in the order of their services; the greeting of a service may be lost;
a stream whose client does not wait is split over several local connections;
a close is told neither to the external nor to the local side.

### Proofs

`RelayProofs` proves `TypeOK` and `AnswersGoToWhoAsked` for all values of the
constants, from `BoundAssumption` (the bounds are positive) and `NoneAssumption`.
Where an answer is handed over is decided by an id that went from an external
connection through a queue and a wire to the client's map or a new local
connection, into the handler of that connection, back over a wire and into the
server's map.  The invariant `IInv` says at each of these places that the id was
made for the connection the message or answer belongs to: `FlagOK` (`TCP_FLAG`),
`WiresOK` (`outbox`, `down`, `up` hold only such messages and answers), `LocalOK`
(a local connection's handler), `MappingOK` (an entry leads to the connection its
id was made for), `GotOK`.  Most of it needs no order of events; `FlagOK` also says
that an upgraded connection has an id, which its frames repeat.

`RelayOrderProofs` proves `ChunksInOrder`, `StreamStaysTogether`,
`FramesFindTheirService`, `AnswersComeHomeInOrder` and `EndedIsForgotten`, with
`NoLocalAssumption` (null is no local connection) besides.  None is inductive:
each depends on what may still be on the wires.  `WireOK` says that the messages of an
external connection are in order in `outbox` and `down`, on one link each, and what a
request's and a stream's messages look like.  `LocalsOK` says that all
messages on their way for a local connection are newer than the one that opened it
and than what its service has read, and that nobody has read the message that a pending
connection waits to write: `ChunksInOrder` follows.  `PatientOK` says that what is under
way of a connection that waits for its answers is its last message, so a second
local connection is opened only when the first has closed.  `HomeOK` keeps the entry of
the server's map while the external connection is open, and `PiecesOK` says that of the
pieces a service has written none is missing between what has arrived and what is on
its way up, and none overtakes another: `AnswersComeHomeInOrder` is its last part.
`AnswersOK` ties pieces to the local connections that wrote them, `SentOK` and `LinkOK`
say who can have sent on what.

Model-checked only: `RequestAnswered` (fairness is out of the prover's reach).

## 5. ClientSession

### Correspondence

| Code | Model |
|---|---|
| a Netty channel of the client, made by one attempt to connect | `c \in Chans`; `conn[c]`: `connecting`, `connected` (the attempt has succeeded), `open` (`channelActive` has run), `closed` |
| the server's end of it | `server[c]`, which ends at another time |
| a pending call of `ClientBoot.connection` on the event loop of `c` (or the main thread) | `c \in scheduled` |
| a thread that waits in `sync()` (71) | `syncing[c]`, the thread; it does nothing else meanwhile (`Free`) |
| `ClientKit.channel`, `CLIENT_FORWARD` of a channel, `ChannelUtil.stateMap` | the variables of these names; a mapping is its name |
| the timers of `reRegister` | `retries[c][n]`, how many the loop of `c` has ahead for `n` |
| the table of mappings as committed | `row`; a call in its transaction is `call` |
| a call of `reboot()` | the thread `Reboot`; `stopping` while it waits in `stop()` |
| the server, as `Registry` has it | `route`, `ServerReads`, `ServerPuts`, `ServerEnds`; `putting[c]` is the name that a loop has found free (`RegisterHandler` 82) and not put yet (89) |
| the other clients | `OtherPuts(n)`, whoever holds `n`, since the look-up before it may be as old as it likes; `OtherRemoves(n)`, whoever holds `n`, by a cancellation (50–52) or a teardown (141) |

`connection` begins an attempt; on an event loop `sync()` may throw at once, because
the group gives the new channel the same loop after as many connections as it
has loops.  The listener has been added by then, so the attempt goes on, but
`setChannel` is skipped.  Otherwise `setChannel` is the return of `sync()`, which
`channelActive` and everything after it may precede.  `ConnectFails` is the
listener's failure branch.  If the first attempt of all fails, `sync()` ends
`HttpPierceApplication.run` with an exception and Spring closes the web server:
no administration calls after that (`calls` jumps to its bound); the event loop is
no daemon thread and goes on reconnecting, and that `channelActive` still finds
its beans in the closed context is assumed.

`reboot()` (`ClientConfigApi` 62–67) is `stop`, then `LoopEnds(c)` for every event loop
that has something to end, then `start`.  `stop` (`ClientBoot` 84–95) begins to shut
the loops down and waits.  A loop that ends closes its connection, for which
`channelInactive` runs, or its attempt, which fails in the thread that waits for
it, and it drops its timers: the retries, and the reconnect, the one of this very
`channelInactive` included.  It does not end while it is itself blocked in `sync()`,
and until it ends its timers may still fire.  `start` makes new loops and calls `connection`.  The administration's
other calls go on meanwhile.  Two calls of `reboot()` at once, and one before the main
thread has made its first attempt, are left out: nothing in the code keeps them
apart, and they make two groups of loops with a connection each.

Abstracted: the fields of a mapping besides name and `enable`, names on the
default port only; the token is right; refusals have one state (0 for the code's
0 and 2, which the client treats alike).  The calls of the administration come one at a time:
each writes to SQLite, which has one writer, before it talks to the server.
The wait for the answer (`ClientKit` 107) may end at any time.
The server evicts no holder that cannot be written to (`RegisterHandler` 85–87), and
its teardown is one step; `Registry` has both in detail.
Other clients hold no state of their own but what they have in `route`: any of them may
put or remove any name at any time, which includes all they can do in `Registry`.
`taken` is a history variable: no action reads it but to update it.

### Runs

| Run | Instance | Shows |
|---|---|---|
| `session` | two connections, one row, one name, two administration calls of which any may be a reboot, other clients that put and remove the name at any time, fairness | `TypeOK`, `OneConnection`, `StateIsHonest`, `RefusedIsRetried`, `ComesBack` |
| `session_auth` | the same without administration | a finding: `AuthRegisters` is violated |

Why these bounds: one connection that is lost and one that replaces it show
timers, threads and static state of the first meeting the second; two calls are a
change and its reversal (disable and enable, delete and add), a change during a
reboot, or a reboot after one.  Messages of
different names meet only in the order of a wire, so one name shows the races;
with two names and no reboot, the same invariants also hold (not kept as a run:
it takes ten times as long).  The client runs out of connections, so deadlock is not checked, and
`ComesBack` promises a connection only while there is one left to make.

Fairness (`LiveSpec`): timers fire (`connection`, `reRegister`), attempts end, loops
that are shut down end (`LoopEnds`) and the thread that waits for them goes on (`start`), a
thread whose future is done wakes up (`setChannel`), both ends read what
arrived.  The network is not fair to anybody: an attempt may fail, and a connection
may end, at any time.

### What the finding is

**An answered AUTH may register nothing** (`ClientMessageHandler` 139–148,
`ClientBoot` 66–78).  `handleAuth` takes the mappings of its own channel and
writes the registrations to the static one, which is still the lost connection's
while `sync()` waits, and for good when it threw.  Nothing sends them again: the
client is connected and serves nothing, and its own `addMapping` then changes
the map of the dead channel.

### What is checked and what is not promised

`StateIsHonest` excuses a name that somebody else has put or removed since the server last
granted it to this connection (`taken`).  The code gives three ways, and in none of them is the
client told: a cancellation removes the route whoever has put it (`RegisterHandler` 50–52),
a teardown removes the routes of every name ever put for its connection (141), and of
two loops that have both found the name free the second puts it over the first (82, 89).
The somebody may be another client, which is the finding of `registry_told_route`, or an
earlier connection of this client: its cancellation may be handled, or its teardown run,
when the name belongs to the successor already.  So 1 means: granted over the open
connection, and nobody has interfered since; not: requests come here.
State 0 is no promise: a retry that is still pending when a reconnect registers
the name is refused because of the client's own entry, and the client then reports
0 for a name it holds, and goes on retrying.  Disabling a refused mapping does not
cancel it; a retry may overtake the answer to a cancellation; a call that commits
after `channelActive` has read the table leaves the two different.  The model has
all of these; the code promises nothing that they break.

### Proofs

`SessionProofs` proves `TypeOK` and `OneConnection` for all values of the constants,
from `SessionAssumption` (null is no object and no map, clients differ from
threads, and names are finitely many).  The types need `OpenHasMap`: an open connection has a map, so no
handler of its messages meets null there.  `OneConnection` is inductive together with the types: it
says that what is scheduled, attempted and connected is one thing at a time,
so each step that consumes one (`connection` takes the only pending call, a failed
attempt or a lost connection was the only one) may create the next; and `start`
may, because it waits for loops that have none of the three.

`SessionStateProofs` proves `StateIsHonest` and `RefusedIsRetried`, relative to that
invariant.  A grant is read long after the server has decided it, so `HonestOK` says of
every grant on its way to the client, with no cancellation behind it, what
`StateIsHonest` says of a state the client shows: the server still has the name for this
connection, or has lost the connection, or a cancellation is on its way to it, or somebody
has interfered (`taken`).  That every way to lose a route is one of these is the lemma
`TakenIsKept`, which the steps of the server, of other connections and of other clients
share.  `RetryOK` says that a refused name of the static channel that it still forwards has a
retry ahead or a registration or its answer on a wire or in the hands of the server; it needs
`SyncOK` (`sync()` has returned for a connection that registrations have gone over, so
the static channel does not change under a refusal unnoticed) and `EarlyOK` (nothing is
answered before both ends are connected).

Model-checked only: `ComesBack` (fairness is out of the prover's reach).

## 6. TransferLink

### Correspondence

| Code | Model |
|---|---|
| a transfer connection of a client whose names are registered | its two ends, `end["server"]`, `end["client"]` |
| a request of the default port (`FullHttpRequest`) | a record: the routing header (`path`), the words of the uri, the method, the headers in order, the body; a text is a value with its size in bytes |
| what `HttpServerHandler` has read, and what it or the service answered | `asked`, `reply` |
| frames on the wire | `down` (to the client), `up` |
| the requests `handlerHttp` makes of what the codec has read | `handed` |
| bytes a failed `decode` leaves in the codec | `~clean` |
| `IdleStateHandler(0, 0, timeout)` | `idle[e]`, restarted by whatever that end reads or writes |
| the kernels: what is not acknowledged is retransmitted for a while, keep-alive probes fail after a longer one | `unacked[e]`, `since`, `GiveUp`, `KeepAlive` |

The headers go into a map at the server, from which the last of a name comes out
(`HeadsOf`); `handlerHttp` adds them to the request and then sets `Host` to the address of
the service, in place of every spelling of it that was sent (`HostOf`, `OwnHeads`).

`Codec` has `MessageCodec` field by field: every field with the length written before
it, as the reader will read it, an int or one signed byte (`writeByte` 87, `readMethod`
169).  `encode` gives the length of the frame as well, and `decode` is what the reader
makes of a frame in which all lengths are right (`InPlace`).  If one is not, `decode`
throws and `ByteToMessageDecoder` keeps the bytes it has not read: the next frames
are read behind them (`FrameMisread`), until the rest happens to be used up.
`UrlRoute` has the path of `HttpServerHandler` 45–54 (`split` drops trailing empty
words) and the `replaceAll` of `handlerHttp` 153, on words between slashes.

The server's pipeline has its idle timer in front of the frame decoder, the client's
behind the codec (`ServerHandlerInitializer` 43, `ClientHandlerInitializer` 41): at the
client only whole messages count.

Time: a tick passes when nothing is left to do that takes less: a timer that is due
has been handled, and once the network is cut, what had arrived has been read.  A
working network may delay frames for any number of ticks.  `Cut(i, j)` stops
delivery for good; the first `i` and `j` frames had arrived.  An end is told nothing: its
kernel gives up (`Lost`) after `GiveUp` ticks of retransmission or when keep-alive
probes fail; both ends set `SO_KEEPALIVE` (`ClientBoot` 47, `BootStrapFactory` 61).  The
network, the kernels and external clients are external.

Abstracted: what `Relay` models, so an answer is one frame and the local connection
works; contents of headers and answers; a message that the codec finds by chance in
kept bytes; uris in absolute form, and names with characters that mean something in
a regular expression.

### Runs

`link`: two requests of fifteen sorts: by url and by header, with the name once, twice,
within a longer word and not at all, of slashes only, with repeated and different
headers, with `Host`, `host` and neither, with a body that fits a frame, though one byte would not hold its length, and
one that does not, with a method longer than its length byte holds.  `MaxByte` is 3 and the frame limit 45 for 127 and the
configured bytes, so that both sides of each limit are reached by few bytes.
Timeouts of two ticks and `GiveUp` 2 let a heartbeat be due before, while and after
another frame is retransmitted; `KeepAlive` is longer, as the kernels' default is.  Two
requests show one frame following a dropped, a broken or a whole one.  `MaxUnread`
stops time while the server's end leaves more than two frames unread.  When both ends are
closed nothing happens any more: deadlock is not checked.

| Property | Says |
|---|---|
| `DeadServerIsNoticed` | a client's link is closed within its timeout and `GiveUp` ticks after the cut |
| `RequestsArriveWhole` | what reaches the service is what was asked, once and in order; missing are only a frame that is too long and what follows a method too long for its length byte; all headers arrive unless a name is repeated, except that `Host` is the service's own address |
| `ServiceSeesItsOwnUrl` | a service whose mapping deletes the name sees the url without it, unless the rest has it again |
| `AnswersArrive` | no answer is lost on a working link, and the server itself answers only what has no route |

`link_dead_client`, on the same instance, is the other direction of `DeadServerIsNoticed`, and a
finding: `DeadClientIsNoticed` is violated.  `ServerHeartBeatHandler` 22 waits for
`READER_IDLE`, and `ServerHandlerInitializer` 43 installs a timer for `ALL_IDLE` alone, so
the server's own timer closes nothing (`ServerIdle`).  It notices a client that vanished
only when it has something to write, or by keep-alive, and the client keeps its names
until then.  `ServerHeartBeatHandler` 23 logs, for the event that never comes, "The server
actively closes the connection".

What the code does and no property denies: a service never learns the host an external
client asked for; a path of slashes throws at
`HttpServerHandler` 53 and is never answered; `/name?x=1` is routed by `name?x=1` and
refused; a frame that is too long is dropped without an answer; a method of 128
bytes or more spoils the link for what follows.

### Proofs

`LinkProofs` proves `TypeOK`, `DeadServerIsNoticed`,
`RequestsArriveWhole`, `ServiceSeesItsOwnUrl` and `AnswersArrive` for all values of the
constants, from `LinkAssumption` (requests are what Netty makes of http, timeouts are
positive, `KeepAlive` is longer than timeout and `GiveUp`, the version fits its byte,
`Host` is one of its own spellings)
and `RestAssumption` (nothing is left of a name after itself).  Under them
are facts about the codec: `ByteLength` (a signed byte holds a length just if that is at
most `MaxByte`), `FrameInPlace`, and `DecodeUndoesEncode`.  The invariant has four parts.
`HttpOK`: what was asked and answered.  `WholeOK`: `handed` and then `down` are messages
of the requests in their order, and none is missing between them but what may be
(`NoneMissing`), and the codec keeps bytes only behind a method that is too long
(`CleanOK`).  `UpOK`: what is on its way up; `AnswersArrive` is inductive with it.  `TimeOK` with `Noticing`: after the cut
the client's own timer and then its kernel's count the ticks since, so these cannot
exceed the sum; the client's timer cannot be restarted without a frame to read or a
frame being written, and the latter starts the kernel's.

The urls need no invariant of their own: `handed` is what the messages said.  `Joined`
drops the pieces of no character by their places and not by recursion, so that
`TextFrom` can say what is left of pieces of which just the first are blank: for a url
that is to lose its first word, the others (`NameDeleted`).

Nothing is only model-checked here but the counterexample of `link_dead_client`.

## 7. Not modelled

* The user interface is a minified bundle of Vue, Element Plus and axios; the
  application is part of one line of it (`index-b3812390.js` 41) and the rest is
  vendored.  It keeps a list on the screen and calls the administration; those
  calls come in any order and number in `ClientSession`.  What the screen shows is
  not modelled.
* Two calls of `reboot()` at once (section 5), and that `BootStrapFactory` 30 keeps the
  bootstrap with the event loops a reboot has ended, so that no local connection is made
  after it: each such attempt is `ConnectFails` in `Relay`, that all are is not modelled.
* A token the server refuses: the client logs it and stays connected, unregistered.
* Start and shutdown of the server, pipelines, TLS, serialisation, configuration and
  persistence: they are sequential or wrap a library, and keep no protocol state.
