---------------------------- MODULE SessionProofs ----------------------------
(***************************************************************************)
(* Proofs about ClientSession, for any number of connections, names and    *)
(* rows of the table, and any administration calls, reboot() included.     *)
(*                                                                         *)
(* OneConnection is inductive together with the types.  The types need one *)
(* fact that is not a type: an open connection has a map, so the handlers  *)
(* of its messages never meet null there.                                  *)
(***************************************************************************)
EXTENDS ClientSession, FiniteSetTheorems, TLAPS

NetOK ==
    /\ conn \in [Chans -> {"new", "closed"} \cup Live]
    /\ server \in [Chans -> {"new", "open", "closed"}]
    /\ scheduled \subseteq Threads
    /\ syncing \in [Chans -> Threads \cup {None}]

KitOK ==
    /\ channel \in Chans \cup {None}
    /\ CLIENT_FORWARD \in [Chans -> (SUBSET Names) \cup {None}]
    /\ stateMap \in [Names -> {0, 1, None}]
    /\ retries \in [Chans -> [Names -> Nat]]

\* channelActive sets the map before anything is read.
OpenHasMap == \A c \in Chans : conn[c] = "open" => CLIENT_FORWARD[c] # None

WiresOK ==
    /\ toServer \in [Chans -> Seq(Message)]
    /\ toClient \in [Chans -> Seq(Message)]

ServerOK ==
    /\ route \in [Names -> Chans \cup {Other, None}]
    /\ REGISTER_CHANNEL \in [Chans -> SUBSET Names]
    /\ putting \in [Chans -> Names \cup {None}]
    /\ taken \in [Chans -> SUBSET Names]

AdminOK ==
    /\ row \in [Rows -> Mapping \cup {None}]
    /\ call \in Call \cup {None}
    /\ calls \in 0..MaxCalls
    /\ stopping \in BOOLEAN

IInv == NetOK /\ KitOK /\ OpenHasMap /\ WiresOK /\ ServerOK /\ AdminOK /\ OneConnection

LEMMA Types == IInv => TypeOK
BY DEF IInv, NetOK, KitOK, WiresOK, ServerOK, AdminOK, TypeOK

-----------------------------------------------------------------------------
(* The operators the handlers are built from *)

LEMMA SentTyped ==
    ASSUME IInv, NEW c \in Chans, NEW s \in Seq(Message)
    PROVE  Sent(c, s) \in [Chans -> Seq(Message)]
<1>1. toServer[c] \o s \in Seq(Message)
  BY DEF IInv, WiresOK
<1> QED BY <1>1 DEF IInv, WiresOK, Sent

LEMMA AnsweredTyped ==
    ASSUME IInv, NEW c \in Chans, NEW m \in Message
    PROVE  Answered(c, m) \in [Chans -> Seq(Message)]
<1>1. Append(toClient[c], m) \in Seq(Message)
  BY DEF IInv, WiresOK
<1> QED BY <1>1 DEF IInv, WiresOK, Answered

LEMMA MsgTyped ==
    /\ Msg("AUTH", None, 0) \in Message /\ <<Msg("AUTH", None, 0)>> \in Seq(Message)
    /\ \A o \in {"REG", "CANCEL"}, n \in Names :
         Msg(o, n, 0) \in Message /\ <<Msg(o, n, 0)>> \in Seq(Message)
    /\ \A n \in Names : Msg("REG", n, 1) \in Message
<1>1. Msg("AUTH", None, 0) \in Message
  BY DEF Msg, Message
<1>2. ASSUME NEW o \in {"REG", "CANCEL"}, NEW n \in Names PROVE Msg(o, n, 0) \in Message
  BY DEF Msg, Message
<1>3. ASSUME NEW n \in Names PROVE Msg("REG", n, 1) \in Message
  BY DEF Msg, Message
<1> QED BY <1>1, <1>2, <1>3

\* What others have taken stays a set of names of each connection.
LEMMA TakenNames ==
    ASSUME IInv, NEW a, NEW S \in SUBSET Names
    PROVE  TakenBy(a, S) \in [Chans -> SUBSET Names]
BY DEF IInv, ServerOK, TakenBy

LEMMA KnownTyped ==
    ASSUME IInv
    PROVE  /\ \A c \in Chans : Forwards(c) \subseteq Names
           /\ Known \subseteq Names
           /\ HasMap => channel \in Chans /\ CLIENT_FORWARD[channel] \subseteq Names
<1>1. \A c \in Chans : CLIENT_FORWARD[c] # None => CLIENT_FORWARD[c] \subseteq Names
  BY DEF IInv, KitOK
<1>2. HasMap => channel \in Chans /\ CLIENT_FORWARD[channel] \subseteq Names
  BY <1>1 DEF IInv, KitOK, HasMap
<1> QED BY <1>1, <1>2 DEF Forwards, Known

\* What one reads is the rest of the wire, and its head is a message.
LEMMA ReadTyped ==
    ASSUME IInv, NEW c \in Chans, NEW op, Reads(c, op)
    PROVE  /\ conn[c] = "open"
           /\ toClient' \in [Chans -> Seq(Message)]
           /\ Head(toClient[c]) \in Message
<1>1. toClient[c] \in Seq(Message) /\ toClient[c] # <<>>
  BY DEF IInv, WiresOK, Reads
<1>2. Tail(toClient[c]) \in Seq(Message) /\ Head(toClient[c]) \in Message
  BY <1>1
<1> QED BY <1>2 DEF IInv, WiresOK, Reads

\* Registrations for a set of names, in any order, are messages.
LEMMA OrdersTyped ==
    ASSUME NEW S \in SUBSET Names, NEW order \in SetToSeqs(S)
    PROVE  [i \in DOMAIN order |-> Msg("REG", order[i], 0)] \in Seq(Message)
<1>1. Cardinality(S) \in Nat
  BY SessionAssumption, FS_Subset, FS_CardinalityType
<1>2. DOMAIN order = 1..Cardinality(S) /\ \A i \in DOMAIN order : order[i] \in Names
  BY DEF SetToSeqs
<1>3. \A i \in DOMAIN order : Msg("REG", order[i], 0) \in Message
  BY <1>2, MsgTyped
<1> QED BY <1>1, <1>2, <1>3

-----------------------------------------------------------------------------
LEMMA Start == Init => IInv
<1> SUFFICES ASSUME Init PROVE IInv
  OBVIOUS
<1> USE DEF Init
<1>1. NetOK
  BY DEF NetOK, Threads
<1>2. KitOK
  BY DEF KitOK
<1>3. OpenHasMap
  BY DEF OpenHasMap
<1>4. WiresOK
  BY DEF WiresOK
<1>5. ServerOK
  BY DEF ServerOK
<1>6. AdminOK
  <2>1. calls \in 0..MaxCalls
    BY SessionAssumption
  <2>2. stopping \in BOOLEAN
    OBVIOUS
  <2> QED BY <2>1, <2>2 DEF AdminOK
<1>7. OneConnection
  BY DEF OneConnection, Live
<1> QED BY <1>1, <1>2, <1>3, <1>4, <1>5, <1>6, <1>7 DEF IInv

-----------------------------------------------------------------------------
(* Connecting: these steps are the ones OneConnection is about *)

LEMMA connectionKeeps ==
    ASSUME IInv, NEW t \in Threads, NEW c \in Chans, connection(t, c)
    PROVE  IInv'
<1> USE DEF IInv
<1>1. NetOK'
  BY DEF NetOK, connection, Live, Threads
<1>2. KitOK' /\ WiresOK' /\ ServerOK' /\ AdminOK'
  BY DEF KitOK, WiresOK, ServerOK, AdminOK, connection, kitVars, wires, serverVars, adminVars
<1>3. OpenHasMap'
  BY DEF OpenHasMap, NetOK, connection, kitVars
<1>4. scheduled' = {}
  BY DEF connection, OneConnection
<1>5. OneConnection'
  BY <1>4 DEF OneConnection, NetOK, connection, Live
<1> QED BY <1>1, <1>2, <1>3, <1>5

LEMMA ConnectedKeeps ==
    ASSUME IInv, NEW c \in Chans, Connected(c)
    PROVE  IInv'
<1> USE DEF IInv
<1>1. NetOK'
  BY DEF NetOK, Connected, Live
<1>2. KitOK' /\ WiresOK' /\ ServerOK' /\ AdminOK'
  BY DEF KitOK, WiresOK, ServerOK, AdminOK, Connected, kitVars, wires, serverVars, adminVars
<1>3. OpenHasMap'
  BY DEF OpenHasMap, NetOK, Connected, kitVars
<1>4. OneConnection'
  BY DEF OneConnection, NetOK, Connected, Live
<1> QED BY <1>1, <1>2, <1>3, <1>4

LEMMA ConnectFailsKeeps ==
    ASSUME IInv, NEW c \in Chans, ConnectFails(c)
    PROVE  IInv'
<1> USE DEF IInv
<1>1. NetOK'
  BY DEF NetOK, ConnectFails, Rethrown, Live, Threads
<1>2. KitOK' /\ WiresOK' /\ ServerOK'
  BY DEF KitOK, WiresOK, ServerOK, ConnectFails, kitVars, wires, serverVars
<1>3. AdminOK'
  BY SessionAssumption DEF AdminOK, ConnectFails, Rethrown
<1>4. OpenHasMap'
  BY DEF OpenHasMap, NetOK, ConnectFails, kitVars
<1>5. scheduled = {} /\ scheduled' = {c}
  BY DEF OneConnection, ConnectFails, Rethrown, Live
<1>6. OneConnection'
  BY <1>5 DEF OneConnection, NetOK, ConnectFails, Rethrown, Live
<1> QED BY <1>1, <1>2, <1>3, <1>4, <1>6

LEMMA setChannelKeeps ==
    ASSUME IInv, NEW c \in Chans, setChannel(c)
    PROVE  IInv'
<1> USE DEF IInv
<1>1. NetOK'
  BY DEF NetOK, setChannel
<1>2. KitOK' /\ WiresOK' /\ ServerOK' /\ AdminOK'
  BY DEF KitOK, WiresOK, ServerOK, AdminOK, setChannel, wires, serverVars, adminVars
<1>3. OpenHasMap' /\ OneConnection'
  BY DEF OpenHasMap, OneConnection, setChannel
<1> QED BY <1>1, <1>2, <1>3

LEMMA channelActiveKeeps ==
    ASSUME IInv, NEW c \in Chans, channelActive(c)
    PROVE  IInv'
<1> USE DEF IInv
<1>1. NetOK'
  BY DEF NetOK, channelActive, Live
<1>2. Enabled \in SUBSET Names /\ Enabled # None
  <2>1. \A r \in Rows : row[r] # None => row[r].name \in Names
    BY DEF AdminOK, Mapping
  <2>2. Enabled \in SUBSET Names
    BY <2>1 DEF Enabled
  <2> QED BY <2>2, SessionAssumption
<1>3. KitOK'
  BY <1>2 DEF KitOK, channelActive
<1>4. OpenHasMap'
  BY <1>2 DEF OpenHasMap, NetOK, KitOK, channelActive
<1>5. WiresOK'
  BY MsgTyped, SentTyped DEF WiresOK, channelActive
<1>6. ServerOK' /\ AdminOK'
  BY DEF ServerOK, AdminOK, channelActive, serverVars, adminVars
<1>7. OneConnection'
  BY DEF OneConnection, NetOK, channelActive, Live
<1> QED BY <1>1, <1>3, <1>4, <1>5, <1>6, <1>7

LEMMA channelInactiveKeeps ==
    ASSUME IInv, NEW c \in Chans, channelInactive(c)
    PROVE  IInv'
<1> USE DEF IInv
<1>1. NetOK'
  BY DEF NetOK, channelInactive, Live, Threads
<1>2. KitOK' /\ ServerOK' /\ AdminOK'
  BY DEF KitOK, ServerOK, AdminOK, channelInactive, serverVars, adminVars
<1>3. WiresOK'
  BY DEF WiresOK, channelInactive
<1>4. OpenHasMap'
  BY DEF OpenHasMap, NetOK, channelInactive
<1>5. scheduled = {} /\ scheduled' = {c}
  BY DEF OneConnection, channelInactive, Live
<1>6. OneConnection'
  BY <1>5 DEF OneConnection, NetOK, channelInactive, Live
<1> QED BY <1>1, <1>2, <1>3, <1>4, <1>6

-----------------------------------------------------------------------------
(* The other steps leave the connections alone *)

LEMMA ServerReadsKeeps ==
    ASSUME IInv, NEW c \in Chans, ServerReads(c)
    PROVE  IInv'
<1> USE DEF IInv
<1> DEFINE m == Head(toServer[c])
<1>1. m \in Message /\ Tail(toServer[c]) \in Seq(Message)
  BY DEF WiresOK, ServerReads
<1>2. [m EXCEPT !.state = 1] \in Message /\ [m EXCEPT !.state = 0] \in Message
  BY <1>1 DEF Message
<1>3. m.op # "AUTH" => m.name \in Names
  BY <1>1 DEF Message
<1>4. /\ toServer' = [toServer EXCEPT ![c] = Tail(@)]
      /\ UNCHANGED <<REGISTER_CHANNEL, netVars, kitVars, adminVars>>
      /\ \/ /\ m.op = "REG" /\ putting' = [putting EXCEPT ![c] = m.name]
            /\ UNCHANGED <<toClient, route, taken>>
         \/ /\ \E a \in Message : toClient' = Answered(c, a)
            /\ route' \in {route, [route EXCEPT ![m.name] = None]}
            /\ (m.op = "CANCEL" /\ taken' = TakenBy(c, {m.name})) \/ taken' = taken
            /\ UNCHANGED putting
  BY <1>2 DEF ServerReads
<1> HIDE DEF m
<1>5. WiresOK'
  BY <1>1, <1>4, AnsweredTyped DEF WiresOK
<1>6. ServerOK'
  <2>1. m.op = "CANCEL" => TakenBy(c, {m.name}) \in [Chans -> SUBSET Names]
    BY <1>3, TakenNames
  <2> QED BY <1>3, <1>4, <2>1 DEF ServerOK
<1>7. NetOK' /\ KitOK' /\ AdminOK' /\ OpenHasMap' /\ OneConnection'
  BY <1>4 DEF NetOK, KitOK, AdminOK, OpenHasMap, OneConnection, netVars, kitVars, adminVars
<1> QED BY <1>5, <1>6, <1>7

LEMMA ServerPutsKeeps ==
    ASSUME IInv, NEW c \in Chans, ServerPuts(c)
    PROVE  IInv'
<1> USE DEF IInv
<1>1. putting[c] \in Names
  BY DEF ServerOK, ServerPuts
<1>2. WiresOK'
  BY <1>1, MsgTyped, AnsweredTyped DEF WiresOK, ServerPuts
<1>3. ServerOK'
  <2>1. TakenBy(c, {putting[c]}) \in [Chans -> SUBSET Names]
    BY <1>1, TakenNames
  <2>2. taken' \in [Chans -> SUBSET Names]
    BY <2>1 DEF ServerPuts
  <2> QED BY <1>1, <2>2 DEF ServerOK, ServerPuts
<1>4. NetOK' /\ KitOK' /\ AdminOK' /\ OpenHasMap' /\ OneConnection'
  BY DEF NetOK, KitOK, AdminOK, OpenHasMap, OneConnection, ServerPuts, netVars, kitVars, adminVars
<1> QED BY <1>2, <1>3, <1>4

LEMMA ServerEndsKeeps ==
    ASSUME IInv, NEW c \in Chans, ServerEnds(c)
    PROVE  IInv'
<1> USE DEF IInv
<1>1. NetOK' /\ WiresOK'
  BY DEF NetOK, WiresOK, ServerEnds
<1>2. ServerOK'
  <2>1. taken' \in [Chans -> SUBSET Names]
    BY TakenNames DEF ServerOK, ServerEnds
  <2> QED BY <2>1 DEF ServerOK, ServerEnds
<1>3. KitOK' /\ AdminOK' /\ OpenHasMap' /\ OneConnection'
  BY DEF KitOK, AdminOK, OpenHasMap, OneConnection, ServerEnds, kitVars, adminVars
<1> QED BY <1>1, <1>2, <1>3

LEMMA OtherKeeps ==
    ASSUME IInv, NEW n \in Names, OtherPuts(n) \/ OtherRemoves(n)
    PROVE  IInv'
<1> USE DEF IInv
<1>1. taken' \in [Chans -> SUBSET Names]
  BY TakenNames DEF OtherPuts, OtherRemoves
<1>2. ServerOK'
  BY <1>1 DEF ServerOK, OtherPuts, OtherRemoves
<1>3. NetOK' /\ KitOK' /\ WiresOK' /\ AdminOK' /\ OpenHasMap' /\ OneConnection'
  BY DEF NetOK, KitOK, WiresOK, AdminOK, OpenHasMap, OneConnection, OtherPuts, OtherRemoves,
         netVars, kitVars, wires, adminVars
<1> QED BY <1>2, <1>3

\* Steps that leave alone what OneConnection is about and the administration.
LEMMA HandlerKeeps ==
    ASSUME IInv, UNCHANGED <<netVars, serverVars, adminVars>>, KitOK', WiresOK', OpenHasMap'
    PROVE  IInv'
BY DEF IInv, NetOK, ServerOK, AdminOK, OneConnection, netVars, serverVars, adminVars

LEMMA handleAuthKeeps ==
    ASSUME IInv, NEW c \in Chans, handleAuth(c)
    PROVE  IInv'
<1>1. PICK order \in SetToSeqs(Forwards(c)) :
        toServer' = IF channel = None THEN toServer
                    ELSE Sent(channel, [i \in DOMAIN order |-> Msg("REG", order[i], 0)])
  BY DEF handleAuth
<1>2. [i \in DOMAIN order |-> Msg("REG", order[i], 0)] \in Seq(Message)
  BY KnownTyped, OrdersTyped
<1>3. toServer' \in [Chans -> Seq(Message)]
  BY <1>1, <1>2, SentTyped DEF IInv, KitOK, WiresOK
<1>4. WiresOK'
  BY <1>3, ReadTyped DEF handleAuth, WiresOK
<1>5. KitOK' /\ OpenHasMap'
  BY DEF IInv, KitOK, OpenHasMap, handleAuth, netVars, kitVars
<1> QED BY <1>4, <1>5, HandlerKeeps DEF handleAuth

LEMMA handleRegisterKeeps ==
    ASSUME IInv, NEW c \in Chans, handleRegister(c)
    PROVE  IInv'
<1> DEFINE m == Head(toClient[c])
<1>1. m \in Message /\ toClient' \in [Chans -> Seq(Message)]
  BY ReadTyped DEF handleRegister
<1>2. m.state \in {0, 1}
  BY <1>1 DEF Message
<1>3. stateMap' \in [Names -> {0, 1, None}]
  BY <1>2 DEF IInv, KitOK, handleRegister
<1>4. retries' \in [Chans -> [Names -> Nat]]
  <2>1. [retries[c] EXCEPT ![m.name] = retries[c][m.name] + 1] \in [Names -> Nat]
    <3>1. retries[c] \in [Names -> Nat]
      BY DEF IInv, KitOK
    <3>2. CASE m.name \in Names
      <4>1. retries[c][m.name] + 1 \in Nat
        BY <3>1, <3>2
      <4> QED BY <3>1, <4>1
    <3>3. CASE m.name \notin Names
      BY <3>1, <3>3
    <3> QED BY <3>2, <3>3
  <2> QED BY <2>1 DEF IInv, KitOK, handleRegister
<1>5. WiresOK'
  BY <1>1 DEF IInv, WiresOK, handleRegister
<1>6. KitOK' /\ OpenHasMap'
  BY <1>3, <1>4 DEF IInv, KitOK, OpenHasMap, handleRegister, netVars
<1> QED BY <1>5, <1>6, HandlerKeeps DEF handleRegister

LEMMA handleCancelRegisterKeeps ==
    ASSUME IInv, NEW c \in Chans, handleCancelRegister(c)
    PROVE  IInv'
<1> DEFINE n == Head(toClient[c]).name
<1>1. conn[c] = "open" /\ toClient' \in [Chans -> Seq(Message)]
  BY ReadTyped DEF handleCancelRegister
<1>2. CLIENT_FORWARD[c] \ {n} \in SUBSET Names
  BY <1>1 DEF IInv, KitOK, OpenHasMap
<1>3. CLIENT_FORWARD[c] \ {n} # None
  BY <1>2, SessionAssumption
<1>4. WiresOK'
  BY <1>1 DEF IInv, WiresOK, handleCancelRegister
<1>5. KitOK' /\ OpenHasMap'
  BY <1>2, <1>3 DEF IInv, KitOK, OpenHasMap, handleCancelRegister, netVars
<1> QED BY <1>4, <1>5, HandlerKeeps DEF handleCancelRegister

LEMMA reRegisterKeeps ==
    ASSUME IInv, NEW c \in Chans, NEW n \in Names, reRegister(c, n)
    PROVE  IInv'
<1>1. retries' \in [Chans -> [Names -> Nat]]
  BY DEF IInv, KitOK, reRegister
<1>2. n \in Known => channel \in Chans
  BY KnownTyped DEF Known
<1>3. WiresOK'
  BY <1>2, MsgTyped, SentTyped DEF IInv, WiresOK, reRegister
<1>4. KitOK' /\ OpenHasMap'
  BY <1>1 DEF IInv, KitOK, OpenHasMap, reRegister, netVars
<1> QED BY <1>3, <1>4, HandlerKeeps DEF reRegister

-----------------------------------------------------------------------------
(* The administration *)

\* Steps that change the call, what ClientKit has and the wire to the server.
LEMMA CallKeeps ==
    ASSUME IInv, UNCHANGED <<netVars, serverVars>>, KitOK', WiresOK', OpenHasMap', AdminOK'
    PROVE  IInv'
BY DEF IInv, NetOK, ServerOK, OneConnection, netVars, serverVars

LEMMA BeginKeeps ==
    ASSUME IInv, NEW r \in Rows, NEW new \in Mapping \cup {None},
           NEW todo \in {"add", "cancel", "wait"}, NEW n \in Names, Begin(r, new, todo, n)
    PROVE  IInv'
<1>1. AdminOK'
  BY SessionAssumption DEF IInv, AdminOK, Begin, Call
<1>2. KitOK' /\ WiresOK' /\ OpenHasMap'
  BY DEF IInv, KitOK, WiresOK, OpenHasMap, Begin, netVars, kitVars, wires
<1> QED BY <1>1, <1>2, CallKeeps DEF Begin

LEMMA RowCallsKeep ==
    ASSUME IInv, NEW r \in Rows,
           delById(r) \/ enable(r) \/ \E new \in Mapping : edit(r, new)
    PROVE  IInv'
<1>1. row[r] # None => row[r] \in Mapping /\ row[r].name \in Names
  BY DEF IInv, AdminOK, Mapping
<1>2. \A n : CancelIfRegistered(n) \in {"add", "cancel", "wait"}
  BY DEF CancelIfRegistered
<1>3. CASE delById(r)
  BY <1>1, <1>2, <1>3, BeginKeeps DEF delById
<1>4. CASE enable(r)
  <2>1. row[r] # None
    BY <1>4 DEF enable
  <2>2. [row[r] EXCEPT !.enable = 0] \in Mapping /\ [row[r] EXCEPT !.enable = 1] \in Mapping
    BY <1>1, <2>1 DEF Mapping
  <2> QED BY <1>1, <1>2, <1>4, <2>1, <2>2, BeginKeeps DEF enable
<1>5. CASE \E new \in Mapping : edit(r, new)
  <2>1. PICK new \in Mapping : edit(r, new)
    BY <1>5
  <2>2. new.name \in Names
    BY DEF Mapping
  <2>3. PICK todo \in {"add", "cancel", "wait"} : Begin(r, new, todo, new.name)
    BY <2>1 DEF edit
  <2> QED BY <2>2, <2>3, BeginKeeps
<1> QED BY <1>3, <1>4, <1>5

\* A call in progress goes on as a call.
LEMMA GoesOn ==
    ASSUME IInv, call # None
    PROVE  call.name \in Names /\ [call EXCEPT !.todo = "wait"] \in Call
BY DEF IInv, AdminOK, Call

LEMMA addMappingKeeps ==
    ASSUME IInv, addMapping
    PROVE  IInv'
<1>1. call.name \in Names /\ call' \in Call
  BY GoesOn DEF addMapping
<1>2. channel \in Chans /\ CLIENT_FORWARD[channel] \subseteq Names
  BY KnownTyped DEF addMapping
<1>3. CLIENT_FORWARD[channel] \cup {call.name} \in SUBSET Names
  BY <1>1, <1>2
<1>4. CLIENT_FORWARD[channel] \cup {call.name} # None
  BY <1>3, SessionAssumption
<1>5. AdminOK'
  BY <1>1 DEF IInv, AdminOK, addMapping
<1>6. WiresOK'
  BY <1>1, <1>2, MsgTyped, SentTyped DEF IInv, WiresOK, addMapping
<1>7. KitOK' /\ OpenHasMap'
  BY <1>3, <1>4 DEF IInv, KitOK, OpenHasMap, addMapping, netVars
<1> QED BY <1>5, <1>6, <1>7, CallKeeps DEF addMapping

LEMMA cancelRegisterKeeps ==
    ASSUME IInv, cancelRegister
    PROVE  IInv'
<1>1. call.name \in Names /\ call' \in Call
  BY GoesOn DEF cancelRegister
<1>2. channel \in Chans
  BY KnownTyped DEF cancelRegister
<1>3. AdminOK'
  BY <1>1 DEF IInv, AdminOK, cancelRegister
<1>4. WiresOK'
  BY <1>1, <1>2, MsgTyped, SentTyped DEF IInv, WiresOK, cancelRegister
<1>5. KitOK' /\ OpenHasMap'
  BY DEF IInv, KitOK, OpenHasMap, cancelRegister, netVars, kitVars
<1> QED BY <1>3, <1>4, <1>5, CallKeeps DEF cancelRegister

LEMMA CallEndsKeeps ==
    ASSUME IInv, Return \/ RollBack
    PROVE  IInv'
<1>1. call \in Call => call.row \in Rows /\ call.new \in Mapping \cup {None}
  BY DEF Call
<1>2. AdminOK'
  BY <1>1 DEF IInv, AdminOK, Return, RollBack
<1>3. KitOK' /\ WiresOK' /\ OpenHasMap'
  BY DEF IInv, KitOK, WiresOK, OpenHasMap, Return, RollBack, netVars, kitVars, wires
<1> QED BY <1>2, <1>3, CallKeeps DEF Return, RollBack

-----------------------------------------------------------------------------
(* reboot() *)

LEMMA stopKeeps ==
    ASSUME IInv, stop
    PROVE  IInv'
<1>1. AdminOK'
  BY SessionAssumption DEF IInv, AdminOK, stop
<1>2. KitOK' /\ WiresOK' /\ OpenHasMap'
  BY DEF IInv, KitOK, WiresOK, OpenHasMap, stop, netVars, kitVars, wires
<1> QED BY <1>1, <1>2, CallKeeps DEF stop

LEMMA LoopEndsKeeps ==
    ASSUME IInv, NEW c \in Chans, LoopEnds(c)
    PROVE  IInv'
<1> USE DEF IInv
<1>1. syncing' \in {syncing, [syncing EXCEPT ![c] = None]} /\ calls' \in {calls, MaxCalls}
  BY DEF LoopEnds, Rethrown
<1>2. NetOK'
  BY <1>1 DEF NetOK, LoopEnds, Live, Threads
<1>3. KitOK' /\ ServerOK'
  BY DEF KitOK, ServerOK, LoopEnds, serverVars
<1>4. WiresOK'
  BY DEF WiresOK, LoopEnds
<1>5. AdminOK'
  BY <1>1, SessionAssumption DEF AdminOK, LoopEnds
<1>6. OpenHasMap' /\ OneConnection'
  BY DEF OpenHasMap, OneConnection, NetOK, LoopEnds, Live
<1> QED BY <1>2, <1>3, <1>4, <1>5, <1>6

LEMMA startKeeps ==
    ASSUME IInv, start
    PROVE  IInv'
<1> USE DEF IInv
<1>1. NetOK'
  BY DEF NetOK, start, Threads
<1>2. KitOK' /\ WiresOK' /\ ServerOK' /\ AdminOK'
  BY DEF KitOK, WiresOK, ServerOK, AdminOK, start, kitVars, wires, serverVars
<1>3. OpenHasMap' /\ OneConnection'
  BY DEF OpenHasMap, OneConnection, start, Idle, kitVars
<1> QED BY <1>1, <1>2, <1>3

-----------------------------------------------------------------------------
LEMMA Step == IInv /\ [Next]_vars => IInv'
<1> SUFFICES ASSUME IInv, [Next]_vars PROVE IInv'
  OBVIOUS
<1>1. CASE UNCHANGED vars
  BY <1>1 DEF vars, netVars, kitVars, wires, serverVars, adminVars, IInv, NetOK, KitOK,
              OpenHasMap, WiresOK, ServerOK, AdminOK, OneConnection
<1>2. ASSUME NEW c \in Chans,
             \/ \E t \in Threads : connection(t, c)
             \/ Connected(c) \/ ConnectFails(c) \/ setChannel(c)
             \/ channelActive(c) \/ channelInactive(c)
      PROVE  IInv'
  BY <1>2, connectionKeeps, ConnectedKeeps, ConnectFailsKeeps, setChannelKeeps,
     channelActiveKeeps, channelInactiveKeeps
<1>3. ASSUME NEW c \in Chans,
             \/ ServerReads(c) \/ ServerPuts(c) \/ ServerEnds(c)
             \/ handleAuth(c) \/ handleRegister(c) \/ handleCancelRegister(c)
             \/ \E n \in Names : reRegister(c, n)
      PROVE  IInv'
  BY <1>3, ServerReadsKeeps, ServerPutsKeeps, ServerEndsKeeps, handleAuthKeeps,
     handleRegisterKeeps, handleCancelRegisterKeeps, reRegisterKeeps
<1>4. CASE \/ \E n \in Names : OtherPuts(n) \/ OtherRemoves(n)
           \/ \E r \in Rows : delById(r) \/ enable(r) \/ \E new \in Mapping : edit(r, new)
           \/ addMapping \/ cancelRegister \/ Return \/ RollBack
  BY <1>4, OtherKeeps, RowCallsKeep, addMappingKeeps, cancelRegisterKeeps, CallEndsKeeps
<1>5. CASE stop \/ start \/ \E c \in Chans : LoopEnds(c)
  BY <1>5, stopKeeps, startKeeps, LoopEndsKeeps
<1> QED BY <1>1, <1>2, <1>3, <1>4, <1>5 DEF Next

LEMMA Invariant == Spec => []IInv
BY Start, Step, PTL DEF Spec

\* Every reachable state of the session has the types of TypeOK; that an open
\* connection has a map (ClientMessageHandler 179) is part of why.
THEOREM SessionTypes == Spec => []TypeOK
BY Invariant, Types, PTL

\* The client never has two connections, nor one and an attempt ahead, however
\* its attempts fail, on whatever thread sync() throws, and whenever reboot() is
\* called.
THEOREM NeverTwoConnections == Spec => []OneConnection
<1>1. IInv => OneConnection
  BY DEF IInv
<1> QED BY Invariant, <1>1, PTL
==============================================================================
