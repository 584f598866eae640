---------------------------- MODULE ClientSession ----------------------------
(***************************************************************************)
(* The client's side of registration: connecting and reconnecting          *)
(* (ClientBoot, ReconnectionFutureListener), the system messages of        *)
(* ClientMessageHandler, the static state of ClientKit, and the calls of   *)
(* the local administration (ServiceMappingServiceImpl; reboot()).         *)
(*                                                                         *)
(* Four sorts of thread meet here: the event loop of each connection, the  *)
(* loops of earlier connections, on which retries and reconnects run, the  *)
(* main thread, and the threads of administration calls.  They share the   *)
(* static channel, the CLIENT_FORWARD map of a channel, and stateMap.      *)
(*                                                                         *)
(* The server is what Registry says of one client on the default port:     *)
(* a name is put if it was free when it was looked up, and refused         *)
(* otherwise.  Any number of other clients do the same; as nobody asks who *)
(* holds a name, they put it over this client's, and their cancellations   *)
(* and teardowns remove it.                                                *)
(***************************************************************************)
EXTENDS Naturals, Sequences, FiniteSets, SequencesExt

CONSTANTS
    Chans,      \* transfer connections (Netty channels) the client may make
    Names,      \* register names
    Rows,       \* ids of the table service_mapping
    None,       \* Java null
    Main,       \* the main thread
    Reboot,     \* the thread of a call of reboot()
    Other,      \* the other clients
    MaxCalls    \* bound on the calls of the administration

ASSUME SessionAssumption ==
    /\ \A S \in SUBSET Names : S # None
    /\ None \notin Chans \cup Names \cup Rows \cup {Main, Reboot, Other, 0, 1}
    /\ {Main, Reboot, Other} \cap Chans = {} /\ Main # Reboot
    /\ IsFiniteSet(Names)
    /\ MaxCalls \in Nat

VARIABLES
    conn,           \* conn[c]: "new", "connecting", "connected" (the attempt has
                    \* succeeded), "open" (channelActive has run) or "closed"
    server,         \* server[c]: the server's end, "new", "open" or "closed"
    scheduled,      \* the threads that have a call of connection() ahead
    syncing,        \* syncing[c]: the thread that waits in sync() for c, or None
    channel,        \* ClientKit.channel
    CLIENT_FORWARD, \* CLIENT_FORWARD[c]: the names of c's map, None before
    stateMap,       \* stateMap[n]: 1 registered, 0 refused, or None
    retries,        \* retries[c][n]: calls of reRegister(n) that c's loop has ahead
    toServer,       \* messages on their way from the client over c
    toClient,       \* answers on their way to the client over c
    route,          \* ROUTE_MAPPING: a connection of this client, Other or None
    REGISTER_CHANNEL, \* REGISTER_CHANNEL[c]: the names the server ever put for c
    putting,        \* putting[c]: the name that c's loop has found free and is
                    \* about to put, or None
    taken,          \* history: taken[c], the names that somebody else has put or
                    \* removed while they were c's, and c has not put since
    row,            \* row[r]: what the table has, as committed, or None
    call,           \* the administration call in progress, or None
    calls,          \* how many there have been, those of reboot() included
    stopping        \* reboot() waits for the event loops to end

netVars == <<conn, server, scheduled, syncing>>
kitVars == <<channel, CLIENT_FORWARD, stateMap, retries>>
wires == <<toServer, toClient>>
adminVars == <<row, call, calls, stopping>>
serverVars == <<route, REGISTER_CHANNEL, putting, taken>>
vars == <<netVars, kitVars, wires, serverVars, adminVars>>

Mapping == [name : Names, enable : {0, 1}]

\* A message: REG and CANCEL both ways, a refused or granted REG has a state.
Message ==
    [op : {"AUTH"}, name : {None}, state : {0, 1}]
        \cup [op : {"REG", "CANCEL"}, name : Names, state : {0, 1}]
Msg(o, n, s) == [op |-> o, name |-> n, state |-> s]

\* A call waits with the row it will commit; todo is what it asks of ClientKit
\* before, for name.
Call == [row : Rows, new : Mapping \cup {None}, todo : {"add", "cancel", "wait"}, name : Names]

Live == {"connecting", "connected", "open"}
Threads == Chans \cup {Main, Reboot}

Init ==
    /\ conn = [c \in Chans |-> "new"]
    /\ server = [c \in Chans |-> "new"]
    /\ scheduled = {Main}
    /\ syncing = [c \in Chans |-> None]
    /\ channel = None
    /\ CLIENT_FORWARD = [c \in Chans |-> None]
    /\ stateMap = [n \in Names |-> None]
    /\ retries = [c \in Chans |-> [n \in Names |-> 0]]
    /\ toServer = [c \in Chans |-> <<>>]
    /\ toClient = [c \in Chans |-> <<>>]
    /\ route = [n \in Names |-> None]
    /\ REGISTER_CHANNEL = [c \in Chans |-> {}]
    /\ putting = [c \in Chans |-> None]
    /\ taken = [c \in Chans |-> {}]
    /\ row \in [Rows -> Mapping \cup {None}]
    /\ call = None
    /\ calls = 0
    /\ stopping = FALSE

\* A write to a channel; on a closed one it fails, and nobody looks.
Sent(c, s) ==
    IF conn[c] \in Live /\ server[c] = "open"
    THEN [toServer EXCEPT ![c] = @ \o s] ELSE toServer

-----------------------------------------------------------------------------
(* Connecting *)

\* A thread that is not blocked in sync().
Free(t) == \A c \in Chans : syncing[c] # t

\* Mutant: where sync() throws, another call is scheduled.
ConnectionRetries(t, c) ==
    /\ t \in scheduled /\ Free(t)
    /\ conn[c] = "new"
    /\ conn' = [conn EXCEPT ![c] = "connecting"]
    /\ \/ /\ syncing' = [syncing EXCEPT ![c] = t]
          /\ scheduled' = scheduled \ {t}
       \/ t \in Chans /\ UNCHANGED <<syncing, scheduled>>
    /\ UNCHANGED <<server, kitVars, wires, serverVars, adminVars>>

\* connection() begins an attempt and waits for it.  On an event loop, sync()
\* throws at once if the new channel is of the same loop.
connection(t, c) ==
    /\ t \in scheduled /\ Free(t)
    /\ conn[c] = "new"
    /\ conn' = [conn EXCEPT ![c] = "connecting"]
    /\ scheduled' = scheduled \ {t}
    /\ syncing' \in {[syncing EXCEPT ![c] = t]} \cup (IF t \in Chans THEN {syncing} ELSE {})
    /\ UNCHANGED <<server, kitVars, wires, serverVars, adminVars>>

Connected(c) ==
    /\ conn[c] = "connecting"
    /\ conn' = [conn EXCEPT ![c] = "connected"]
    /\ server' = [server EXCEPT ![c] = "open"]
    /\ UNCHANGED <<scheduled, syncing, kitVars, wires, serverVars, adminVars>>

\* Mutant: the listener leaves a failed attempt alone.
ConnectFailsForGood(c) ==
    /\ conn[c] = "connecting"
    /\ conn' = [conn EXCEPT ![c] = "closed"]
    /\ syncing' = [syncing EXCEPT ![c] = None]
    /\ UNCHANGED <<server, scheduled, kitVars, wires, serverVars, adminVars>>

\* sync() rethrows a failed attempt.  In the main thread that ends run(), and
\* Spring closes the administration.
Rethrown(c) ==
    /\ conn[c] = "connecting"
    /\ syncing' = [syncing EXCEPT ![c] = None]
    /\ calls' = IF syncing[c] = Main THEN MaxCalls ELSE calls

\* The listener schedules another attempt.
ConnectFails(c) ==
    /\ Rethrown(c)
    /\ conn' = [conn EXCEPT ![c] = "closed"]
    /\ scheduled' = scheduled \cup {c}
    /\ UNCHANGED <<server, kitVars, wires, serverVars, row, call, stopping>>

\* sync() returns to the thread that called connection().
setChannel(c) ==
    /\ syncing[c] # None /\ conn[c] # "connecting"
    /\ syncing' = [syncing EXCEPT ![c] = None]
    /\ channel' = c
    /\ UNCHANGED <<conn, server, scheduled, CLIENT_FORWARD, stateMap, retries, wires, serverVars, adminVars>>

\* The names of the enabled rows of the table.
Enabled == {row[r].name : r \in {r \in Rows : row[r] # None /\ row[r].enable = 1}}

channelActive(c) ==
    /\ conn[c] = "connected"
    /\ conn' = [conn EXCEPT ![c] = "open"]
    /\ CLIENT_FORWARD' = [CLIENT_FORWARD EXCEPT ![c] = Enabled]
    /\ toServer' = Sent(c, <<Msg("AUTH", None, 0)>>)
    /\ UNCHANGED <<server, scheduled, syncing, channel, stateMap, retries, toClient, serverVars, adminVars>>

\* The names of c's map, none while it has none.
Forwards(c) == IF CLIENT_FORWARD[c] = None THEN {} ELSE CLIENT_FORWARD[c]

\* Mutant: what was registered over c is not forgotten.
channelInactiveKeepsState(c) ==
    /\ conn[c] = "open"
    /\ conn' = [conn EXCEPT ![c] = "closed"]
    /\ scheduled' = scheduled \cup {c}
    /\ toClient' = [toClient EXCEPT ![c] = <<>>]
    /\ UNCHANGED <<server, syncing, kitVars, toServer, serverVars, adminVars>>

channelInactive(c) ==
    /\ conn[c] = "open"
    /\ conn' = [conn EXCEPT ![c] = "closed"]
    /\ stateMap' = [n \in Names |-> None]
    /\ scheduled' = scheduled \cup {c}
    /\ toClient' = [toClient EXCEPT ![c] = <<>>]
    /\ UNCHANGED <<server, syncing, channel, CLIENT_FORWARD, retries, toServer, serverVars, adminVars>>

-----------------------------------------------------------------------------
(* The server *)

Answered(c, m) ==
    IF conn[c] \in Live THEN [toClient EXCEPT ![c] = Append(@, m)] ELSE toClient

\* The routes of S are no longer what they were, by a step of a: other connections
\* of this client lose them.
TakenBy(a, S) == [d \in Chans |-> taken[d] \cup {n \in S : d # a /\ route[n] = d}]

\* A free name is put in a step of its own, any other refused; a cancellation
\* removes it whoever has put it.
ServerReads(c) ==
    /\ server[c] = "open" /\ putting[c] = None
    /\ toServer[c] # <<>>
    /\ toServer' = [toServer EXCEPT ![c] = Tail(@)]
    /\ LET m == Head(toServer[c]) IN
       \/ /\ m.op = "REG" /\ route[m.name] = None
          /\ putting' = [putting EXCEPT ![c] = m.name]
          /\ UNCHANGED <<toClient, route, taken>>
       \/ /\ m.op = "REG" => route[m.name] # None
          /\ toClient' = Answered(c, [m EXCEPT !.state = IF m.op = "AUTH" THEN 1 ELSE 0])
          /\ route' = IF m.op = "CANCEL" THEN [route EXCEPT ![m.name] = None] ELSE route
          /\ taken' = IF m.op = "CANCEL" THEN TakenBy(c, {m.name}) ELSE taken
          /\ UNCHANGED putting
    /\ UNCHANGED <<REGISTER_CHANNEL, netVars, kitVars, adminVars>>

\* The name is c's, although another loop may have put it after c's looked.
ServerPuts(c) ==
    LET n == putting[c] IN
    /\ n # None
    /\ putting' = [putting EXCEPT ![c] = None]
    /\ route' = [route EXCEPT ![n] = c]
    /\ taken' = [TakenBy(c, {n}) EXCEPT ![c] = @ \ {n}]
    /\ REGISTER_CHANNEL' = [REGISTER_CHANNEL EXCEPT ![c] = @ \cup {n}]
    /\ toClient' = Answered(c, Msg("REG", n, 1))
    /\ UNCHANGED <<toServer, netVars, kitVars, adminVars>>

\* The server's end is gone, and the routes of all names ever put for it,
\* whoever has put them since.
ServerEnds(c) ==
    /\ server[c] = "open" /\ putting[c] = None
    /\ server' = [server EXCEPT ![c] = "closed"]
    /\ route' = [n \in Names |-> IF n \in REGISTER_CHANNEL[c] THEN None ELSE route[n]]
    /\ taken' = TakenBy(c, REGISTER_CHANNEL[c])
    /\ toServer' = [toServer EXCEPT ![c] = <<>>]
    /\ UNCHANGED <<REGISTER_CHANNEL, putting, conn, scheduled, syncing, kitVars, toClient, adminVars>>

\* Another client's name is put: its loop may have found it free at any time.
OtherPuts(n) ==
    /\ route[n] # Other
    /\ route' = [route EXCEPT ![n] = Other]
    /\ taken' = TakenBy(Other, {n})
    /\ UNCHANGED <<REGISTER_CHANNEL, putting, netVars, kitVars, wires, adminVars>>

\* Another client cancels n, or its connection, for which n was once put, is gone.
OtherRemoves(n) ==
    /\ route[n] # None
    /\ route' = [route EXCEPT ![n] = None]
    /\ taken' = TakenBy(Other, {n})
    /\ UNCHANGED <<REGISTER_CHANNEL, putting, netVars, kitVars, wires, adminVars>>

-----------------------------------------------------------------------------
(* System messages, on the loop of the connection they come by *)

Reads(c, op) ==
    /\ conn[c] = "open" /\ toClient[c] # <<>> /\ Head(toClient[c]).op = op
    /\ toClient' = [toClient EXCEPT ![c] = Tail(@)]

\* Registrations for the names of c's map, over the static channel.
handleAuth(c) ==
    /\ Reads(c, "AUTH")
    /\ \E order \in SetToSeqs(Forwards(c)) :
         toServer' = IF channel = None THEN toServer
                     ELSE Sent(channel, [i \in DOMAIN order |-> Msg("REG", order[i], 0)])
    /\ UNCHANGED <<netVars, kitVars, serverVars, adminVars>>

\* Mutant: a refused registration is not tried again.
handleRegisterOnce(c) ==
    /\ Reads(c, "REG")
    /\ LET m == Head(toClient[c]) IN stateMap' = [stateMap EXCEPT ![m.name] = m.state]
    /\ UNCHANGED <<netVars, channel, CLIENT_FORWARD, retries, toServer, serverVars, adminVars>>

\* A refused registration is tried again ten seconds later, by c's loop.
handleRegister(c) ==
    /\ Reads(c, "REG")
    /\ LET m == Head(toClient[c]) IN
       /\ stateMap' = [stateMap EXCEPT ![m.name] = m.state]
       /\ retries' = IF m.state = 0 THEN [retries EXCEPT ![c][m.name] = @ + 1] ELSE retries
    /\ UNCHANGED <<netVars, channel, CLIENT_FORWARD, toServer, serverVars, adminVars>>

handleCancelRegister(c) ==
    /\ Reads(c, "CANCEL")
    /\ LET n == Head(toClient[c]).name IN
       /\ stateMap' = [stateMap EXCEPT ![n] = None]
       /\ CLIENT_FORWARD' = [CLIENT_FORWARD EXCEPT ![c] = @ \ {n}]
    /\ UNCHANGED <<netVars, channel, retries, toServer, serverVars, adminVars>>

\* The static channel is set and has a map: without one ClientKit throws.
HasMap == IF channel = None THEN FALSE ELSE CLIENT_FORWARD[channel] # None
Known == IF HasMap THEN Forwards(channel) ELSE {}

\* Mutant: a retry that runs whether it was scheduled or not.
reRegisterAlways(c, n) ==
    /\ Free(c)
    /\ retries' = [retries EXCEPT ![c][n] = @ - 1]
    /\ toServer' = IF n \in Known THEN Sent(channel, <<Msg("REG", n, 0)>>) ELSE toServer
    /\ UNCHANGED <<netVars, channel, CLIENT_FORWARD, stateMap, toClient, serverVars, adminVars>>

reRegister(c, n) ==
    /\ retries[c][n] > 0 /\ Free(c)
    /\ retries' = [retries EXCEPT ![c][n] = @ - 1]
    /\ toServer' = IF n \in Known THEN Sent(channel, <<Msg("REG", n, 0)>>) ELSE toServer
    /\ UNCHANGED <<netVars, channel, CLIENT_FORWARD, stateMap, toClient, serverVars, adminVars>>

-----------------------------------------------------------------------------
(* The administration.  A call updates the table in a transaction that is    *)
(* committed when the call returns, after it has waited for the server.      *)

Begin(r, new, todo, n) ==
    /\ call = None /\ calls < MaxCalls
    /\ call' = [row |-> r, new |-> new, todo |-> todo, name |-> n]
    /\ calls' = calls + 1
    /\ UNCHANGED <<netVars, kitVars, wires, serverVars, row, stopping>>

\* edit: a new row, or an update that adds or cancels when enable changes,
\* under the new name.
edit(r, new) ==
    Begin(r, new,
          CASE new.enable = (IF row[r] = None THEN 0 ELSE row[r].enable) -> "wait"
            [] new.enable = 1 -> "add"
            [] OTHER -> "cancel",
          new.name)

\* delById and the disabling half of enable cancel only what is registered.
CancelIfRegistered(n) == IF stateMap[n] = 1 THEN "cancel" ELSE "wait"

delById(r) ==
    /\ row[r] # None
    /\ Begin(r, None, CancelIfRegistered(row[r].name), row[r].name)

enable(r) ==
    /\ row[r] # None
    /\ IF row[r].enable = 1
       THEN Begin(r, [row[r] EXCEPT !.enable = 0], CancelIfRegistered(row[r].name), row[r].name)
       ELSE Begin(r, [row[r] EXCEPT !.enable = 1], "add", row[r].name)

\* ClientKit.addMapping
addMapping ==
    /\ call # None /\ call.todo = "add"
    /\ HasMap
    /\ call' = [call EXCEPT !.todo = "wait"]
    /\ IF call.name \in Known
       THEN UNCHANGED <<CLIENT_FORWARD, toServer>>
       ELSE /\ CLIENT_FORWARD' = [CLIENT_FORWARD EXCEPT ![channel] = @ \cup {call.name}]
            /\ toServer' = Sent(channel, <<Msg("REG", call.name, 0)>>)
    /\ UNCHANGED <<netVars, channel, stateMap, retries, toClient, serverVars, row, calls, stopping>>

\* ClientKit.cancelRegister: the map keeps the name until the answer is read.
cancelRegister ==
    /\ call # None /\ call.todo = "cancel"
    /\ HasMap
    /\ call' = [call EXCEPT !.todo = "wait"]
    /\ toServer' = IF call.name \in Known
                   THEN Sent(channel, <<Msg("CANCEL", call.name, 0)>>) ELSE toServer
    /\ UNCHANGED <<netVars, kitVars, toClient, serverVars, row, calls, stopping>>

\* The answer, or ten seconds, end the wait, and the call commits.
Return ==
    /\ call # None /\ call.todo = "wait"
    /\ row' = [row EXCEPT ![call.row] = call.new]
    /\ call' = None
    /\ UNCHANGED <<netVars, kitVars, wires, serverVars, calls, stopping>>

\* Without a channel the call throws, and the transaction is rolled back.
RollBack ==
    /\ call # None /\ call.todo # "wait"
    /\ ~HasMap
    /\ call' = None
    /\ UNCHANGED <<netVars, kitVars, wires, serverVars, row, calls, stopping>>

-----------------------------------------------------------------------------
(* reboot(): stop() and start().  One call at a time, after the first attempt *)
(* to connect; what two starts at once do is not modelled.                    *)

\* stop() begins to shut the event loops down, and waits for all of them.
stop ==
    /\ calls < MaxCalls
    /\ ~stopping /\ {Main, Reboot} \cap scheduled = {} /\ Free(Reboot)
    /\ stopping' = TRUE
    /\ calls' = calls + 1
    /\ UNCHANGED <<netVars, kitVars, wires, serverVars, row, call>>

\* The loop of c has nothing left to do but timers.
Idle(c) == conn[c] \notin Live /\ c \notin scheduled /\ \A n \in Names : retries[c][n] = 0

\* The loop of c ends: it closes its connection or attempt, and drops its timers,
\* the one of the reconnect included.
LoopEnds(c) ==
    /\ stopping /\ Free(c)
    /\ ~Idle(c) /\ conn[c] # "connected"
    /\ conn' = [conn EXCEPT ![c] = "closed"]
    /\ scheduled' = scheduled \ {c}
    /\ retries' = [retries EXCEPT ![c] = [n \in Names |-> 0]]
    /\ stateMap' = IF conn[c] = "open" THEN [n \in Names |-> None] ELSE stateMap
    /\ toClient' = [toClient EXCEPT ![c] = <<>>]
    /\ Rethrown(c) \/ (conn[c] # "connecting" /\ UNCHANGED <<syncing, calls>>)
    /\ UNCHANGED <<server, channel, CLIENT_FORWARD, toServer, serverVars, row, call, stopping>>

\* With new event loops, start() calls connection().
start ==
    /\ stopping
    /\ \A c \in Chans : Idle(c) /\ Free(c)
    /\ stopping' = FALSE
    /\ scheduled' = {Reboot}
    /\ UNCHANGED <<conn, server, syncing, kitVars, wires, serverVars, row, call, calls>>

-----------------------------------------------------------------------------
Next ==
    \/ \E c \in Chans :
         \/ \E t \in Threads : connection(t, c)
         \/ Connected(c) \/ ConnectFails(c) \/ setChannel(c)
         \/ channelActive(c) \/ channelInactive(c)
         \/ ServerReads(c) \/ ServerPuts(c) \/ ServerEnds(c)
         \/ handleAuth(c) \/ handleRegister(c) \/ handleCancelRegister(c)
         \/ \E n \in Names : reRegister(c, n)
    \/ \E n \in Names : OtherPuts(n) \/ OtherRemoves(n)
    \/ \E r \in Rows : delById(r) \/ enable(r) \/ \E new \in Mapping : edit(r, new)
    \/ addMapping \/ cancelRegister \/ Return \/ RollBack
    \/ stop \/ start \/ \E c \in Chans : LoopEnds(c)

Spec == Init /\ [][Next]_vars

\* Timers run in the end, attempts end, threads wake up, both ends read.
Fairness ==
    /\ \A c \in Chans :
         /\ WF_vars(\E t \in Threads : connection(t, c))
         /\ WF_vars(Connected(c) \/ ConnectFails(c))
         /\ WF_vars(setChannel(c)) /\ WF_vars(channelActive(c))
         /\ WF_vars(ServerReads(c) \/ ServerPuts(c))
         /\ WF_vars(handleAuth(c) \/ handleRegister(c) \/ handleCancelRegister(c))
         /\ \A n \in Names : WF_vars(reRegister(c, n))
         /\ WF_vars(LoopEnds(c))
    /\ WF_vars(start)

LiveSpec == Spec /\ Fairness

-----------------------------------------------------------------------------
(* Properties *)

\* Type invariant of the connections, the static state of ClientKit and the
\* administration.
TypeOK ==
    /\ conn \in [Chans -> {"new", "closed"} \cup Live]
    /\ server \in [Chans -> {"new", "open", "closed"}]
    /\ scheduled \subseteq Threads
    /\ syncing \in [Chans -> Threads \cup {None}]
    /\ channel \in Chans \cup {None}
    /\ CLIENT_FORWARD \in [Chans -> (SUBSET Names) \cup {None}]
    /\ stateMap \in [Names -> {0, 1, None}]
    /\ retries \in [Chans -> [Names -> Nat]]
    /\ toServer \in [Chans -> Seq(Message)]
    /\ toClient \in [Chans -> Seq(Message)]
    /\ route \in [Names -> Chans \cup {Other, None}]
    /\ row \in [Rows -> Mapping \cup {None}]
    /\ call \in Call \cup {None}
    /\ REGISTER_CHANNEL \in [Chans -> SUBSET Names]
    /\ putting \in [Chans -> Names \cup {None}]
    /\ taken \in [Chans -> SUBSET Names]
    /\ calls \in 0..MaxCalls
    /\ stopping \in BOOLEAN

\* The client never has two connections, nor a connection and an attempt ahead:
\* the listener of a failed attempt and channelInactive of a lost connection
\* each call connection() once, whatever sync() does (ClientBoot 66-78,
\* ReconnectionFutureListener 22-30, ClientMessageHandler 194-198).
OneConnection ==
    /\ \A c, d \in Chans : {conn[c], conn[d]} \subseteq Live => c = d
    /\ scheduled # {} => \A c \in Chans : conn[c] \notin Live
    /\ \A t, u \in scheduled : t = u

\* A message of this kind for n is on its way, there or back, or being answered.
OnItsWay(c, op, n) ==
    \/ op = "REG" /\ putting[c] = n
    \/ \E i \in DOMAIN (toServer[c] \o toClient[c]) :
           LET m == (toServer[c] \o toClient[c])[i] IN m.op = op /\ m.name = n

\* What querylist shows as registered is registered over the open connection,
\* unless the server has lost the connection, or a cancellation is on its way, or
\* somebody else has the name or has removed it since it was last granted: the put,
\* the cancellation or the teardown of another connection, of this client or of
\* another (ClientMessageHandler 108-137, 194-196; ServiceMappingServiceImpl
\* 84-98).  Of the last the client is never told (RegisterHandler 50-52, 82-89, 141).
StateIsHonest ==
    \A n \in Names : stateMap[n] = 1 =>
        \E c \in Chans :
            /\ conn[c] = "open"
            /\ \/ server[c] = "closed" \/ route[n] = c
               \/ OnItsWay(c, "CANCEL", n) \/ n \in taken[c]

\* A refused name that the client still forwards has a retry ahead of it or a
\* registration on its way, or is being rebooted (ClientMessageHandler 125-135, ClientKit 60-70).
RefusedIsRetried ==
    \A n \in Names, c \in Chans :
        (stateMap[n] = 0 /\ conn[c] = "open" /\ channel = c /\ n \in Known) =>
            \/ \E d \in Chans : retries[d][n] > 0
            \/ OnItsWay(c, "REG", n)
            \/ server[c] = "closed" \/ stopping

\* A client without a connection gets one, while it may still try (ClientBoot
\* 66-78, ReconnectionFutureListener 22-30, ClientMessageHandler 194-198).
ComesBack ==
    (\A c \in Chans : conn[c] # "open") ~>
        \/ \E c \in Chans : conn[c] = "open"
        \/ \A c \in Chans : conn[c] # "new"

\* "Verification successful, start registering service" (ClientMessageHandler
\* 142): a name of a connection whose AUTH was granted is registered or refused,
\* unless the connection ends or the name is cancelled.
AuthRegisters ==
    \A c \in Chans, n \in Names :
        (conn[c] = "open" /\ n \in Forwards(c) /\ OnItsWay(c, "AUTH", None)) ~>
            \/ stateMap[n] # None \/ n \notin Forwards(c)
            \/ "closed" \in {conn[c], server[c]}
=============================================================================
