------------------------------ MODULE Registry ------------------------------
(***************************************************************************)
(* The server's registration side: RegisterHandler, the handlers in front  *)
(* of it (AuthHandler) and behind it (the dynamic boots), and the two      *)
(* process-wide tables of ChannelUtil they share.                          *)
(*                                                                         *)
(* Every transfer connection is served by one event loop, so one handler   *)
(* call runs at a time per connection, but handler calls of different      *)
(* connections interleave.  A handler call is cut into steps at every      *)
(* access to what other loops can see (ROUTE_MAPPING, DYNAMIC_BOOT, a bound *)
(* port, another connection's channel); what it does to its own            *)
(* connection goes with the step it follows.  task[c] is where the handler *)
(* call of connection c stands.  Two connections that share a loop         *)
(* interleave less, never more.                                            *)
(*                                                                         *)
(* A reconnecting client is a new element of Conns, as Netty gives it a    *)
(* new Channel.                                                            *)
(***************************************************************************)
EXTENDS Naturals, Sequences

CONSTANTS
    Conns,     \* transfer connections (Netty channels) that may ever be opened
    Names,     \* register names
    Ports,     \* ports a client may ask the server to open
    Boots,     \* DynamicTcpBoot / DynamicHttpBoot objects that may be created
    None,      \* Java null, an absent map entry
    HttpPort,  \* the server's default http port (httpServerPort)
    Busy,      \* ports that some other program or server of the host holds
    Config,    \* Config[c]: the <<name, port>> pairs c's client may register;
               \* port HttpPort means newServerPort = false
    MaxList    \* bound on REGISTER_CHANNEL's length

\* The fields of a dynamic boot.
BootFields == [port : Ports, registerName : Names, channel : Conns]

\* null is no object of any kind.
ASSUME NoneAssumption ==
    /\ None \notin Conns \cup Names \cup Ports \cup Boots \cup {HttpPort}
    /\ None \notin BootFields

ASSUME PortAssumption == HttpPort \notin Ports /\ Busy \subseteq Ports

ASSUME ConfigAssumption ==
    Config \in [Conns -> SUBSET (Names \X (Ports \cup {HttpPort}))]

VARIABLES
    chan,                 \* chan[c]: "new", "open", "closed" (no longer active,
                          \* channelInactive pending or running) or "gone"
    authed,               \* authed[c]: AuthHandler has left c's pipeline
    closeReq,             \* closeReq[c]: another loop called c.close()
    task,                 \* task[c]: the handler call running on c's loop
    ROUTE_MAPPING,        \* name -> connection
    DYNAMIC_BOOT,         \* port -> boot
    REGISTER_CHANNEL,     \* per connection, the names it put, in order
    CHANNEL_DYNAMIC_BOOT, \* per connection, the boots it started, in order
    boot,                 \* boot[b]: the fields of a created boot, None before
    listening,            \* the boots whose port is bound
    stateMap              \* stateMap[c][n]: the port under which c's client was
                          \* told that n is registered (its state 1), or None

connVars == <<chan, authed, closeReq>>
tables == <<ROUTE_MAPPING, DYNAMIC_BOOT>>
lists == <<REGISTER_CHANNEL, CHANNEL_DYNAMIC_BOOT>>
bootVars == <<boot, listening>>
vars == <<connVars, task, tables, lists, bootVars, stateMap>>

-----------------------------------------------------------------------------
(* Handler calls in progress *)

OpenOps == {"idle", "putRoute", "bind", "publish", "evictRemove", "evictStop",
            "evictClose", "cancelRoute", "cancelRemove", "cancelStop"}
CloseOps == {"dropRoutes", "dropBoots", "stopBoot"}

Task == [op : OpenOps \cup CloseOps, name : Names \cup {None},
         boot : Boots \cup {None}, pos : Nat]

At(o, n, b, i) == [op |-> o, name |-> n, boot |-> b, pos |-> i]
Idle == At("idle", None, None, 0)
ChannelInactive == At("dropRoutes", None, None, 1)

Do(c, t) == task' = [task EXCEPT ![c] = t]

\* What c's client knows: nothing is registered once its channel is inactive.
Unregistered == [n \in Names |-> None]
Tell(c, n, p) == stateMap' = [stateMap EXCEPT ![c][n] = p]

Reading(c) == chan[c] = "open" /\ task[c].op = "idle" /\ authed[c]

\* The channel of c closes on its own loop, and channelInactive is fired.
GoInactive(c) ==
    /\ chan' = [chan EXCEPT ![c] = "closed"]
    /\ Do(c, ChannelInactive)
    /\ stateMap' = [stateMap EXCEPT ![c] = Unregistered]
    /\ closeReq' = [closeReq EXCEPT ![c] = FALSE]

\* The handler of c calls d.close(), answers its client with p for n, and
\* returns.  close() runs at once on c's own loop, and the answer is then
\* lost; on another loop it is queued.
CloseThenTell(c, d, n, p) ==
    IF d = c
    THEN GoInactive(c)
    ELSE /\ closeReq' = [closeReq EXCEPT ![d] = chan[d] = "open"]
         /\ Tell(c, n, p)
         /\ Do(c, Idle)
         /\ UNCHANGED chan

-----------------------------------------------------------------------------
Init ==
    /\ chan = [c \in Conns |-> "new"]
    /\ authed = [c \in Conns |-> FALSE]
    /\ closeReq = [c \in Conns |-> FALSE]
    /\ task = [c \in Conns |-> Idle]
    /\ ROUTE_MAPPING = [n \in Names |-> None]
    /\ DYNAMIC_BOOT = [p \in Ports |-> None]
    /\ REGISTER_CHANNEL = [c \in Conns |-> <<>>]
    /\ CHANNEL_DYNAMIC_BOOT = [c \in Conns |-> <<>>]
    /\ boot = [b \in Boots |-> None]
    /\ listening = {}
    /\ stateMap = [c \in Conns |-> Unregistered]

(* A client connects; channelActive gives the channel its two empty lists. *)
ChannelActive(c) ==
    /\ chan[c] = "new"
    /\ chan' = [chan EXCEPT ![c] = "open"]
    /\ UNCHANGED <<authed, closeReq, task, tables, lists, bootVars, stateMap>>

(* AuthHandler reads the first AUTH message: only the right token makes it *)
(* leave the pipeline; until then it swallows every SysMessage.            *)
Authenticate(c) ==
    /\ chan[c] = "open" /\ ~authed[c]
    /\ authed' = [authed EXCEPT ![c] = TRUE]
    /\ UNCHANGED <<chan, closeReq, task, tables, lists, bootVars, stateMap>>

-----------------------------------------------------------------------------
(* REGISTER on the default port *)

\* The name is free when ROUTE_MAPPING.get reads it; the put comes later.
RegisterDefaultPort(c, n) ==
    /\ Reading(c) /\ <<n, HttpPort>> \in Config[c]
    /\ ROUTE_MAPPING[n] = None
    /\ Len(REGISTER_CHANNEL[c]) < MaxList
    /\ Do(c, At("putRoute", n, None, 0))
    /\ UNCHANGED <<connVars, tables, lists, bootVars, stateMap>>

\* Mutant: the name is not kept in the connection's own list.
PutRouteUnlisted(c) ==
    /\ task[c].op = "putRoute"
    /\ ROUTE_MAPPING' = [ROUTE_MAPPING EXCEPT ![task[c].name] = c]
    /\ Tell(c, task[c].name, HttpPort)
    /\ Do(c, Idle)
    /\ UNCHANGED <<connVars, DYNAMIC_BOOT, lists, bootVars>>

PutRoute(c) ==
    /\ task[c].op = "putRoute"
    /\ ROUTE_MAPPING' = [ROUTE_MAPPING EXCEPT ![task[c].name] = c]
    /\ REGISTER_CHANNEL' = [REGISTER_CHANNEL EXCEPT ![c] = Append(@, task[c].name)]
    /\ Tell(c, task[c].name, HttpPort)
    /\ Do(c, Idle)
    /\ UNCHANGED <<connVars, DYNAMIC_BOOT, CHANNEL_DYNAMIC_BOOT, bootVars>>

\* The name is taken: state 0, and the holder is closed if it is inactive or
\* (at this moment) not writable.
RefuseName(c, n) ==
    /\ Reading(c) /\ <<n, HttpPort>> \in Config[c]
    /\ ROUTE_MAPPING[n] # None
    /\ \/ /\ chan[ROUTE_MAPPING[n]] = "open"
          /\ Tell(c, n, None)
          /\ UNCHANGED <<chan, closeReq, task>>
       \/ CloseThenTell(c, ROUTE_MAPPING[n], n, None)
    /\ UNCHANGED <<authed, tables, lists, bootVars>>

-----------------------------------------------------------------------------
(* REGISTER on a port of its own *)

\* Mutant: the boot does not learn the channel it serves.
RegisterNewPortNoChannel(c, n, p, b) ==
    /\ Reading(c) /\ <<n, p>> \in Config[c]
    /\ DYNAMIC_BOOT[p] = None
    /\ boot[b] = None
    /\ boot' = [boot EXCEPT ![b] = [port |-> p, registerName |-> n, channel |-> None]]
    /\ Do(c, At("bind", n, b, 0))
    /\ UNCHANGED <<connVars, tables, lists, listening, stateMap>>

\* The port is free when DYNAMIC_BOOT.get reads it: a boot is created.
RegisterNewPort(c, n, p, b) ==
    /\ Reading(c) /\ <<n, p>> \in Config[c]
    /\ DYNAMIC_BOOT[p] = None
    /\ boot[b] = None
    /\ boot' = [boot EXCEPT ![b] = [port |-> p, registerName |-> n, channel |-> c]]
    /\ Do(c, At("bind", n, b, 0))
    /\ UNCHANGED <<connVars, tables, lists, listening, stateMap>>

Bindable(p) == p \notin Busy /\ \A b \in listening : boot[b].port # p

Bind(c) ==
    /\ task[c].op = "bind"
    /\ Bindable(boot[task[c].boot].port)
    /\ listening' = listening \cup {task[c].boot}
    /\ Do(c, At("publish", task[c].name, task[c].boot, 0))
    /\ UNCHANGED <<connVars, tables, lists, boot, stateMap>>

\* Mutant: a failed bind is answered as a success.
BindFailsQuietly(c) ==
    /\ task[c].op = "bind"
    /\ ~Bindable(boot[task[c].boot].port)
    /\ Tell(c, task[c].name, boot[task[c].boot].port)
    /\ Do(c, Idle)
    /\ UNCHANGED <<connVars, tables, lists, bootVars>>

\* bind(port).sync() rethrows the BindException: channelRead0 is left, and no
\* answer is ever written.
BindFails(c) ==
    /\ task[c].op = "bind"
    /\ ~Bindable(boot[task[c].boot].port)
    /\ Do(c, Idle)
    /\ UNCHANGED <<connVars, tables, lists, bootVars, stateMap>>

\* Mutant: the boot is not kept in the connection's own list.
PublishUnlisted(c) ==
    LET b == task[c].boot IN
    /\ task[c].op = "publish"
    /\ DYNAMIC_BOOT' = [DYNAMIC_BOOT EXCEPT ![boot[b].port] = b]
    /\ Tell(c, task[c].name, boot[b].port)
    /\ Do(c, Idle)
    /\ UNCHANGED <<connVars, ROUTE_MAPPING, lists, bootVars>>

Publish(c) ==
    LET b == task[c].boot IN
    /\ task[c].op = "publish"
    /\ DYNAMIC_BOOT' = [DYNAMIC_BOOT EXCEPT ![boot[b].port] = b]
    /\ CHANNEL_DYNAMIC_BOOT' = [CHANNEL_DYNAMIC_BOOT EXCEPT ![c] = Append(@, b)]
    /\ Tell(c, task[c].name, boot[b].port)
    /\ Do(c, Idle)
    /\ UNCHANGED <<connVars, ROUTE_MAPPING, REGISTER_CHANNEL, bootVars>>

\* The port is taken: the holder is left alone if it is active and (at this
\* moment) not writable, and evicted otherwise.  State 2 either way.
RefusePort(c, n, p) ==
    LET b == DYNAMIC_BOOT[p] IN
    /\ Reading(c) /\ <<n, p>> \in Config[c]
    /\ b # None
    /\ \/ /\ chan[boot[b].channel] = "open"
          /\ Tell(c, n, None)
          /\ UNCHANGED task
       \/ /\ Do(c, At("evictRemove", n, b, 0))
          /\ UNCHANGED stateMap
    /\ UNCHANGED <<connVars, tables, lists, bootVars>>

\* Mutant: the evicted boot's entry stays in DYNAMIC_BOOT.
EvictRemoveNothing(c) ==
    /\ task[c].op = "evictRemove"
    /\ Do(c, [task[c] EXCEPT !.op = "evictStop"])
    /\ UNCHANGED <<connVars, tables, lists, bootVars, stateMap>>

EvictRemove(c) ==
    /\ task[c].op = "evictRemove"
    /\ DYNAMIC_BOOT' = [DYNAMIC_BOOT EXCEPT ![boot[task[c].boot].port] = None]
    /\ Do(c, [task[c] EXCEPT !.op = "evictStop"])
    /\ UNCHANGED <<connVars, ROUTE_MAPPING, lists, bootVars, stateMap>>

EvictStop(c) ==
    /\ task[c].op = "evictStop"
    /\ listening' = listening \ {task[c].boot}
    /\ Do(c, [task[c] EXCEPT !.op = "evictClose"])
    /\ UNCHANGED <<connVars, tables, lists, boot, stateMap>>

EvictClose(c) ==
    /\ task[c].op = "evictClose"
    /\ CloseThenTell(c, boot[task[c].boot].channel, task[c].name, None)
    /\ UNCHANGED <<authed, tables, lists, bootVars>>

-----------------------------------------------------------------------------
(* CANCEL_REGISTER *)

ConfigNames(c) == {pair[1] : pair \in Config[c]}

\* The positions of c's list whose boot was registered under n.
BootsNamed(c, n) ==
    {i \in DOMAIN CHANNEL_DYNAMIC_BOOT[c] :
        boot[CHANNEL_DYNAMIC_BOOT[c][i]].registerName = n}

CancelFindsRoute(c, n) ==
    /\ Reading(c) /\ n \in ConfigNames(c)
    /\ ROUTE_MAPPING[n] # None
    /\ Do(c, At("cancelRoute", n, None, 0))
    /\ UNCHANGED <<connVars, tables, lists, bootVars, stateMap>>

CancelRoute(c) ==
    /\ task[c].op = "cancelRoute"
    /\ ROUTE_MAPPING' = [ROUTE_MAPPING EXCEPT ![task[c].name] = None]
    /\ Tell(c, task[c].name, None)
    /\ Do(c, Idle)
    /\ UNCHANGED <<connVars, DYNAMIC_BOOT, lists, bootVars>>

\* No route: the first boot of c's own list with that name is taken down.
CancelFindsBoot(c, n, i) ==
    /\ Reading(c) /\ n \in ConfigNames(c)
    /\ ROUTE_MAPPING[n] = None
    /\ i \in BootsNamed(c, n)
    /\ \A j \in BootsNamed(c, n) : i <= j
    /\ Do(c, At("cancelRemove", n, CHANNEL_DYNAMIC_BOOT[c][i], 0))
    /\ UNCHANGED <<connVars, tables, lists, bootVars, stateMap>>

\* Mutant: the cancelled boot's entry stays in DYNAMIC_BOOT.
CancelRemoveNothing(c) ==
    /\ task[c].op = "cancelRemove"
    /\ Do(c, [task[c] EXCEPT !.op = "cancelStop"])
    /\ UNCHANGED <<connVars, tables, lists, bootVars, stateMap>>

CancelRemove(c) ==
    /\ task[c].op = "cancelRemove"
    /\ DYNAMIC_BOOT' = [DYNAMIC_BOOT EXCEPT ![boot[task[c].boot].port] = None]
    /\ Do(c, [task[c] EXCEPT !.op = "cancelStop"])
    /\ UNCHANGED <<connVars, ROUTE_MAPPING, lists, bootVars, stateMap>>

CancelStop(c) ==
    /\ task[c].op = "cancelStop"
    /\ listening' = listening \ {task[c].boot}
    /\ Tell(c, task[c].name, None)
    /\ Do(c, Idle)
    /\ UNCHANGED <<connVars, tables, lists, boot>>

CancelFindsNothing(c, n) ==
    /\ Reading(c) /\ n \in ConfigNames(c)
    /\ ROUTE_MAPPING[n] = None
    /\ BootsNamed(c, n) = {}
    /\ Tell(c, n, None)
    /\ UNCHANGED <<connVars, task, tables, lists, bootVars>>

-----------------------------------------------------------------------------
(* The end of a connection *)

\* The peer closes, or the connection is reset.
PeerCloses(c) ==
    /\ chan[c] = "open" /\ task[c].op = "idle"
    /\ GoInactive(c)
    /\ UNCHANGED <<authed, tables, lists, bootVars>>

\* The loop of c runs the close() that another loop queued.
QueuedClose(c) == closeReq[c] /\ PeerCloses(c)

\* Mutant: the last name of the list is left in ROUTE_MAPPING.
DropRouteButLast(c) ==
    LET names == REGISTER_CHANNEL[c]
        i == task[c].pos IN
    /\ task[c].op = "dropRoutes"
    /\ \/ /\ i < Len(names)
          /\ ROUTE_MAPPING' = [ROUTE_MAPPING EXCEPT ![names[i]] = None]
          /\ Do(c, At("dropRoutes", None, None, i + 1))
       \/ /\ i >= Len(names)
          /\ Do(c, At("dropBoots", None, None, 1))
          /\ UNCHANGED ROUTE_MAPPING
    /\ UNCHANGED <<connVars, DYNAMIC_BOOT, lists, bootVars, stateMap>>

\* Mutant: the teardown clears the whole of ROUTE_MAPPING.
DropRouteClears(c) ==
    /\ task[c].op = "dropRoutes"
    /\ ROUTE_MAPPING' = [n \in Names |-> None]
    /\ Do(c, At("dropBoots", None, None, 1))
    /\ UNCHANGED <<connVars, DYNAMIC_BOOT, lists, bootVars, stateMap>>

\* channelInactive removes every name of the list, whoever holds it by now.
DropRoute(c) ==
    LET names == REGISTER_CHANNEL[c]
        i == task[c].pos IN
    /\ task[c].op = "dropRoutes"
    /\ \/ /\ i <= Len(names)
          /\ ROUTE_MAPPING' = [ROUTE_MAPPING EXCEPT ![names[i]] = None]
          /\ Do(c, At("dropRoutes", None, None, i + 1))
       \/ /\ i > Len(names)
          /\ Do(c, At("dropBoots", None, None, 1))
          /\ UNCHANGED ROUTE_MAPPING
    /\ UNCHANGED <<connVars, DYNAMIC_BOOT, lists, bootVars, stateMap>>

\* ... then the port entry of every boot of the list, and stops the boot.
DropBoot(c) ==
    LET b == CHANNEL_DYNAMIC_BOOT[c][task[c].pos] IN
    /\ task[c].op = "dropBoots"
    /\ task[c].pos <= Len(CHANNEL_DYNAMIC_BOOT[c])
    /\ DYNAMIC_BOOT' = [DYNAMIC_BOOT EXCEPT ![boot[b].port] = None]
    /\ Do(c, At("stopBoot", None, b, task[c].pos))
    /\ UNCHANGED <<connVars, ROUTE_MAPPING, lists, bootVars, stateMap>>

\* Mutant: the walk over the boots never advances.
StopBootAgain(c) ==
    /\ task[c].op = "stopBoot"
    /\ listening' = listening \ {task[c].boot}
    /\ Do(c, At("dropBoots", None, None, task[c].pos))
    /\ UNCHANGED <<connVars, tables, lists, boot, stateMap>>

StopBoot(c) ==
    /\ task[c].op = "stopBoot"
    /\ listening' = listening \ {task[c].boot}
    /\ Do(c, At("dropBoots", None, None, task[c].pos + 1))
    /\ UNCHANGED <<connVars, tables, lists, boot, stateMap>>

Gone(c) ==
    /\ task[c].op = "dropBoots"
    /\ task[c].pos > Len(CHANNEL_DYNAMIC_BOOT[c])
    /\ chan' = [chan EXCEPT ![c] = "gone"]
    /\ Do(c, Idle)
    /\ UNCHANGED <<authed, closeReq, tables, lists, bootVars, stateMap>>

-----------------------------------------------------------------------------
\* The step a loop owes: the rest of a handler call it has begun.
Continue(c) ==
    \/ PutRoute(c) \/ Bind(c) \/ BindFails(c) \/ Publish(c)
    \/ EvictRemove(c) \/ EvictStop(c) \/ EvictClose(c)
    \/ CancelRoute(c) \/ CancelRemove(c) \/ CancelStop(c)
    \/ DropRoute(c) \/ DropBoot(c) \/ StopBoot(c) \/ Gone(c)

\* What clients may make a loop do next.
Receive(c) ==
    \/ ChannelActive(c) \/ Authenticate(c) \/ PeerCloses(c)
    \/ \E n \in Names :
         \/ RegisterDefaultPort(c, n) \/ RefuseName(c, n)
         \/ \E p \in Ports : RefusePort(c, n, p)
         \/ \E p \in Ports, b \in Boots : RegisterNewPort(c, n, p, b)
         \/ CancelFindsRoute(c, n) \/ CancelFindsNothing(c, n)
         \/ \E i \in DOMAIN CHANNEL_DYNAMIC_BOOT[c] : CancelFindsBoot(c, n, i)

Next == \E c \in Conns : Receive(c) \/ Continue(c)

Spec == Init /\ [][Next]_vars

\* A handler call that has begun goes on.  The loop runs its task queue after
\* every pass over its sockets, so a queued close() is run although the client
\* keeps sending: strong fairness, as every request disables it for a while.
Fairness == \A c \in Conns : WF_vars(Continue(c)) /\ SF_vars(QueuedClose(c))

LiveSpec == Spec /\ Fairness

-----------------------------------------------------------------------------
(* Properties *)

\* Type invariant of the state above (ChannelUtil's tables, the channel
\* attributes and the running handler calls).
TypeOK ==
    /\ chan \in [Conns -> {"new", "open", "closed", "gone"}]
    /\ authed \in [Conns -> BOOLEAN]
    /\ closeReq \in [Conns -> BOOLEAN]
    /\ task \in [Conns -> Task]
    /\ ROUTE_MAPPING \in [Names -> Conns \cup {None}]
    /\ DYNAMIC_BOOT \in [Ports -> Boots \cup {None}]
    /\ REGISTER_CHANNEL \in [Conns -> Seq(Names)]
    /\ CHANNEL_DYNAMIC_BOOT \in [Conns -> Seq(Boots)]
    /\ boot \in [Boots -> BootFields \cup {None}]
    /\ listening \subseteq Boots
    /\ stateMap \in [Conns -> [Names -> Ports \cup {HttpPort, None}]]

\* No route leads to a connection whose teardown is over: whatever the order
\* in which registrations, cancellations and teardowns of several clients
\* interleave, channelInactive finds in its own list every name that still
\* maps to its channel (RegisterHandler 89-92, 141).
NoDanglingRoute ==
    \A n \in Names : ROUTE_MAPPING[n] # None => chan[ROUTE_MAPPING[n]] # "gone"

\* A port entry leads to a boot that is bound to this very port and whose
\* client connection is not gone: every path that stops a boot has taken its
\* entry out before, also when two loops take the same boot down at once
\* (RegisterHandler 57-58, 122-123, 144-145).
PublishedBootServes ==
    \A p \in Ports :
        LET b == DYNAMIC_BOOT[p] IN
        b # None => /\ b \in listening
                    /\ boot[b].port = p
                    /\ chan[boot[b].channel] # "gone"

\* No port stays bound for a client that has gone: a boot is in the list that
\* channelInactive walks whenever it is bound, even if its entry was taken
\* out of DYNAMIC_BOOT by somebody else (RegisterHandler 109-111, 142-146).
NoOwnerlessListener ==
    \A b \in listening : chan[boot[b].channel] # "gone"

\* A connection that another loop closes, or whose peer leaves, is in the end
\* forgotten: no route, no bound port (RegisterHandler 125, 139-148).
ClosedIsForgotten ==
    \A c \in Conns :
        closeReq[c] \/ chan[c] = "closed" ~>
            /\ chan[c] = "gone"
            /\ \A n \in Names : ROUTE_MAPPING[n] # c
            /\ \A b \in listening : boot[b].channel # c

\* The connections the server still has to do with: channelInactive of a closed
\* one has not come to its end.
Present(c) == chan[c] \in {"open", "closed"}

\* No two connections that are present at once may register the same name: two
\* clients do not share one, and a client that reconnects is accepted only when
\* the teardown of its old connection is over.
NamesInTurn ==
    \A c, d \in Conns :
        c # d /\ Present(c) /\ Present(d) => ConfigNames(c) \cap ConfigNames(d) = {}

\* Nor may they register on the same port of their own.
PortsInTurn ==
    \A c, d \in Conns : c # d /\ Present(c) /\ Present(d) =>
        \A n, m \in Names, p \in Ports :
            <<n, p>> \in Config[c] => <<m, p>> \notin Config[d]

\* A client that was told its name is registered, and is still connected, is
\* the one the name leads to (README.md:5, routing by register name).
ToldRouteLeadsHome ==
    \A c \in Conns, n \in Names :
        (chan[c] = "open" /\ stateMap[c][n] = HttpPort) => ROUTE_MAPPING[n] = c

\* A client that was told its port is open, and is still connected and not in
\* the middle of a request, has a boot of its own bound to that port.
ToldPortIsServed ==
    \A c \in Conns, n \in Names :
        (chan[c] = "open" /\ task[c].op = "idle" /\ stateMap[c][n] \in Ports) =>
            \E b \in listening : /\ boot[b].channel = c
                                 /\ boot[b].port = stateMap[c][n]

\* A port is bound only for a registration that stands (README.md:5, "the
\* services the server creates and those the client registers correspond one
\* to one"): while no handler call runs, a boot of a connected client that is
\* bound is the one its port's entry in DYNAMIC_BOOT leads to.
BoundPortIsPublished ==
    (\A c \in Conns : task[c].op = "idle") =>
        \A b \in listening :
            chan[boot[b].channel] = "open" => DYNAMIC_BOOT[boot[b].port] = b

\* A client whose registration is answered "port already in use" has not taken
\* that port from a connected client (ClientMessageHandler.java:126).
RefusalSparesHolder ==
    \A c \in Conns :
        task[c].op = "evictStop" => chan[boot[task[c].boot].channel] # "open"

\* The boots that some connection's list names.
Listed == UNION {{CHANNEL_DYNAMIC_BOOT[c][i] : i \in DOMAIN CHANNEL_DYNAMIC_BOOT[c]} :
                    c \in Conns}

\* What the two tables promise: each is a lease table.
RouteLease == INSTANCE LeaseTable WITH
    Keys <- Names, Holders <- Conns, table <- ROUTE_MAPPING,
    live <- {c \in Conns : chan[c] \in {"open", "closed"}},
    retired <- {c \in Conns : chan[c] = "gone"}

PortLease == INSTANCE LeaseTable WITH
    Keys <- Ports, Holders <- Boots, table <- DYNAMIC_BOOT,
    live <- listening, retired <- Listed \ listening

\* ROUTE_MAPPING implements a lease table whose holders are the connections:
\* one entry changes at a time, a connection claims a name only between its
\* channelActive and the end of its channelInactive, and that end comes only
\* when no name leads to it (RegisterHandler 52, 89, 131-148).
RoutesFollowLease == RouteLease!Spec

\* DYNAMIC_BOOT implements one whose holders are the boots: a port is claimed
\* only for a bound boot, no path stops a boot that is still published, and a
\* stopped boot never comes back (RegisterHandler 57-58, 109-124, 144-145).
PortsFollowLease == PortLease!Spec
=============================================================================
