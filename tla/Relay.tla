-------------------------------- MODULE Relay --------------------------------
(***************************************************************************)
(* The tunnel: messages from external connections of the server, over a    *)
(* transfer connection, to local connections of one client process, and    *)
(* the answers on their way back.                                          *)
(*                                                                         *)
(* Three sorts of connection, each on an event loop of its own:             *)
(*   external  Exts; "http" and "ws" (an HTTP connection that asks for an  *)
(*             upgrade) on the default port, "port" (HTTP) and "tcp" on a  *)
(*             port that was opened for one transfer connection;           *)
(*   transfer  Links; the client opens the next when the last is closed.   *)
(*             Its two ends close at different times;                      *)
(*   local     one for each message that made the client open it, and so   *)
(*             named by that message.                                      *)
(*                                                                         *)
(* Which link a name leads to is Registry's business; here it is a         *)
(* variable that registration changes freely.  A written message is        *)
(* delivered in order, or lost with the link.                              *)
(***************************************************************************)
EXTENDS Naturals, Sequences, SequencesExt

CONSTANTS
    Exts,        \* external connections
    Links,       \* transfer connections of the one client
    None,        \* Java null
    Kinds,       \* Kinds[x]: the kinds that x may be of
    Patient,     \* external connections that send a message only when the one
                 \* before it was answered
    Greeting,    \* external connections whose service, if TCP, speaks first
    MaxMsgs,     \* bound on the messages of an external connection
    MaxAnswers   \* bound on the pieces of answers of a local connection

ASSUME KindAssumption == Kinds \in [Exts -> SUBSET {"http", "ws", "port", "tcp"}]

ASSUME ServiceAssumption == Patient \subseteq Exts /\ Greeting \subseteq Exts

ASSUME BoundAssumption == MaxMsgs \in Nat \ {0} /\ MaxAnswers \in Nat \ {0}

ASSUME NoneAssumption == None \notin Exts \cup Links \cup (Exts \X (1..MaxMsgs))

\* The k-th message of x.  A request has an id of its own, and so has the
\* first message of a stream, whose id the later ones repeat.
Keys == Exts \X (1..MaxMsgs)

VARIABLES
    kind,            \* kind[x]: what x is, which never changes
    server,          \* server[c]: "new", "open" or "closed", the server's end
    client,          \* client[c]: the client's end
    route,           \* the link that ROUTE_MAPPING has for the service's name
    CLIENT_FORWARD,  \* CLIENT_FORWARD[c]: c's client end knows the service
    ext,             \* ext[x]: "new", "open" or "closed"
    home,            \* the link x is tied to (its boot's, or the upgrade's)
    sent,            \* how many messages x has sent
    TCP_FLAG,        \* the id x was given last
    got,             \* what x has received
    outbox,          \* writes to c queued on its loop at the server
    down,            \* messages on their way to the client
    up,              \* answers on their way to the server
    SERVER_MAPPING,  \* the server's REQUEST_MAPPING: id -> external connection
    CLIENT_MAPPING,  \* the client's REQUEST_MAPPING: id -> local connection
    local            \* local[l]: the local connection that message l opened

linkVars == <<server, client, route, CLIENT_FORWARD>>
extVars == <<kind, ext, home, sent, TCP_FLAG, got>>
wires == <<outbox, down, up>>
vars == <<linkVars, extVars, wires, SERVER_MAPPING, CLIENT_MAPPING, local>>

\* named: it carries dstServer, and url, method and heads if it is HTTP.
Message == [key : Keys, id : Keys, named : BOOLEAN]

\* The n-th piece that local connection from sent; it had read message re.
Answer == [id : Keys, from : Keys, n : 0..MaxAnswers, re : 0..MaxMsgs]

\* A local connection: "connecting"; "deaf", established but its handlers not
\* added yet; "dead", closed while it was deaf; "ready", and "stale", a dead one
\* that got its handlers; "closed"; "failed".  id and link are those of its
\* response handler, got what the service read, sent the pieces it wrote.
Phases == {"connecting", "deaf", "dead", "ready", "stale", "closed", "failed"}
Local == [phase : Phases, id : Keys, link : Links, got : Seq(1..MaxMsgs),
          sent : 0..MaxAnswers]

\* null is no local connection.
ASSUME NoLocalAssumption == None \notin Local

OwnPort(x) == kind[x] \in {"port", "tcp"}

Init ==
    /\ kind \in [Exts -> {"http", "ws", "port", "tcp"}]
    /\ \A x \in Exts : kind[x] \in Kinds[x]
    /\ server = [c \in Links |-> "new"]
    /\ client = [c \in Links |-> "new"]
    /\ route = None
    /\ CLIENT_FORWARD = [c \in Links |-> FALSE]
    /\ ext = [x \in Exts |-> "new"]
    /\ home = [x \in Exts |-> None]
    /\ sent = [x \in Exts |-> 0]
    /\ TCP_FLAG = [x \in Exts |-> None]
    /\ got = [x \in Exts |-> <<>>]
    /\ outbox = [c \in Links |-> <<>>]
    /\ down = [c \in Links |-> <<>>]
    /\ up = [c \in Links |-> <<>>]
    /\ SERVER_MAPPING = [id \in Keys |-> None]
    /\ CLIENT_MAPPING = [id \in Keys |-> None]
    /\ local = [l \in Keys |-> None]

-----------------------------------------------------------------------------
(* Transfer connections *)

\* The client connects, when its last connection is closed; channelActive fills
\* CLIENT_FORWARD with the enabled services.
Connect(c) ==
    /\ server[c] = "new"
    /\ \A d \in Links : client[d] # "open"
    /\ server' = [server EXCEPT ![c] = "open"]
    /\ client' = [client EXCEPT ![c] = "open"]
    /\ CLIENT_FORWARD' = [CLIENT_FORWARD EXCEPT ![c] = TRUE]
    /\ UNCHANGED <<route, extVars, wires, SERVER_MAPPING, CLIENT_MAPPING, local>>

\* The name is put in ROUTE_MAPPING, over another link's if two handlers race,
\* or removed from it.
Register(c) ==
    /\ server[c] = "open" /\ route # c
    /\ route' = c
    /\ UNCHANGED <<server, client, CLIENT_FORWARD, extVars, wires, SERVER_MAPPING,
                   CLIENT_MAPPING, local>>

Unregister ==
    /\ route # None
    /\ route' = None
    /\ UNCHANGED <<server, client, CLIENT_FORWARD, extVars, wires, SERVER_MAPPING,
                   CLIENT_MAPPING, local>>

\* The client reads the answer to its CANCEL_REGISTER.
CancelRegister(c) ==
    /\ client[c] = "open" /\ CLIENT_FORWARD[c]
    /\ CLIENT_FORWARD' = [CLIENT_FORWARD EXCEPT ![c] = FALSE]
    /\ UNCHANGED <<server, client, route, extVars, wires, SERVER_MAPPING,
                   CLIENT_MAPPING, local>>

\* An end of a link is gone: nobody reads there any more.
ServerEnds(c) ==
    /\ server[c] = "open"
    /\ server' = [server EXCEPT ![c] = "closed"]
    /\ up' = [up EXCEPT ![c] = <<>>]
    /\ UNCHANGED <<client, route, CLIENT_FORWARD, extVars, outbox, down,
                   SERVER_MAPPING, CLIENT_MAPPING, local>>

ClientEnds(c) ==
    /\ client[c] = "open"
    /\ client' = [client EXCEPT ![c] = "closed"]
    /\ down' = [down EXCEPT ![c] = <<>>]
    /\ UNCHANGED <<server, route, CLIENT_FORWARD, extVars, outbox, up,
                   SERVER_MAPPING, CLIENT_MAPPING, local>>

-----------------------------------------------------------------------------
(* External connections, on the server *)

\* A boot takes connections until it is stopped, which is after its link has ended.
Accept(x) ==
    /\ ext[x] = "new"
    /\ ext' = [ext EXCEPT ![x] = "open"]
    /\ IF OwnPort(x)
       THEN \E c \in Links : server[c] # "new" /\ home' = [home EXCEPT ![x] = c]
       ELSE UNCHANGED home
    /\ UNCHANGED <<linkVars, kind, sent, TCP_FLAG, got, wires, SERVER_MAPPING,
                   CLIENT_MAPPING, local>>

\* The next message of x is due.
Sends(x) ==
    /\ ext[x] = "open"
    /\ sent[x] < MaxMsgs
    /\ (x \in Patient /\ sent[x] > 0) => \E i \in DOMAIN got[x] : got[x][i].re = sent[x]
    /\ sent' = [sent EXCEPT ![x] = @ + 1]

NextKey(x) == <<x, sent[x] + 1>>

\* A write to link c from another loop is queued on c's loop.
Write(c, m) == outbox' = [outbox EXCEPT ![c] = Append(@, m)]

\* No client has the name: the server answers by itself.
NoRoute(x) ==
    /\ kind[x] \in {"http", "ws"} /\ home[x] = None /\ route = None
    /\ Sends(x)
    /\ got' = [got EXCEPT ![x] =
                  Append(@, [id |-> NextKey(x), from |-> NextKey(x), n |-> 0, re |-> NextKey(x)[2]])]
    /\ UNCHANGED <<linkVars, kind, ext, home, TCP_FLAG, wires, SERVER_MAPPING,
                   CLIENT_MAPPING, local>>

\* Where a request of x goes: the boot's connection, or that of its name now.
LinkOf(x) == IF OwnPort(x) THEN home[x] ELSE route

\* A request carries a new id.
NewRequest(x) == [key |-> NextKey(x), id |-> NextKey(x), named |-> TRUE]

\* The handler of an upgraded connection keeps the link (and TCP_FLAG the id).
upWebSocket(x, c) == IF kind[x] = "ws" THEN [home EXCEPT ![x] = c] ELSE home

\* The entry of the server's map follows the write: see Flush.
Request(x) ==
    /\ kind[x] # "tcp"
    /\ kind[x] = "ws" => home[x] = None
    /\ LinkOf(x) # None
    /\ Sends(x)
    /\ TCP_FLAG' = [TCP_FLAG EXCEPT ![x] = NextKey(x)]
    /\ home' = upWebSocket(x, LinkOf(x))
    /\ Write(LinkOf(x), NewRequest(x))
    /\ UNCHANGED <<linkVars, kind, ext, got, down, up, SERVER_MAPPING, CLIENT_MAPPING, local>>

\* Mutant: every frame gets an id of its own.
FrameNewId(x) ==
    /\ kind[x] = "ws" /\ home[x] # None
    /\ Sends(x)
    /\ Write(home[x], [key |-> NextKey(x), id |-> NextKey(x), named |-> FALSE])
    /\ UNCHANGED <<linkVars, kind, ext, home, TCP_FLAG, got, down, up, SERVER_MAPPING,
                   CLIENT_MAPPING, local>>

\* A frame, once HandlerKit.upWebSocket has put WebSocketHandler in charge.
Frame(x) ==
    /\ kind[x] = "ws" /\ home[x] # None
    /\ Sends(x)
    /\ Write(home[x], [key |-> NextKey(x), id |-> TCP_FLAG[x], named |-> FALSE])
    /\ UNCHANGED <<linkVars, kind, ext, home, TCP_FLAG, got, down, up, SERVER_MAPPING,
                   CLIENT_MAPPING, local>>

\* Mutant: the id is kept with the transfer connection, not with x.
ChunkLinkId(x) ==
    LET used == {TCP_FLAG[y] : y \in {y \in Exts : home[y] = home[x]}} \ {None}
        id == IF used = {} THEN NextKey(x) ELSE CHOOSE i \in used : TRUE IN
    /\ kind[x] = "tcp"
    /\ Sends(x)
    /\ TCP_FLAG' = [TCP_FLAG EXCEPT ![x] = id]
    /\ SERVER_MAPPING' = [SERVER_MAPPING EXCEPT ![id] = x]
    /\ Write(home[x], [key |-> NextKey(x), id |-> id, named |-> TRUE])
    /\ UNCHANGED <<linkVars, kind, ext, home, got, down, up, CLIENT_MAPPING, local>>

\* A chunk of a TCP stream: the entry precedes the write.
Chunk(x) ==
    LET id == IF TCP_FLAG[x] = None THEN NextKey(x) ELSE TCP_FLAG[x] IN
    /\ kind[x] = "tcp"
    /\ Sends(x)
    /\ TCP_FLAG' = [TCP_FLAG EXCEPT ![x] = id]
    /\ SERVER_MAPPING' = [SERVER_MAPPING EXCEPT ![id] = x]
    /\ Write(home[x], [key |-> NextKey(x), id |-> id, named |-> TRUE])
    /\ UNCHANGED <<linkVars, kind, ext, home, got, down, up, CLIENT_MAPPING, local>>

\* x closes: its peer leaves, it is idle for too long, or its boot is stopped.
Close(x) ==
    /\ ext[x] = "open"
    /\ ext' = [ext EXCEPT ![x] = "closed"]
    /\ SERVER_MAPPING' = IF TCP_FLAG[x] = None THEN SERVER_MAPPING
                         ELSE [SERVER_MAPPING EXCEPT ![TCP_FLAG[x]] = None]
    /\ UNCHANGED <<linkVars, kind, home, sent, TCP_FLAG, got, wires, CLIENT_MAPPING, local>>

\* Mutant: no entry follows the write of a request.
FlushNoEntry(c) ==
    /\ outbox[c] # <<>>
    /\ outbox' = [outbox EXCEPT ![c] = Tail(@)]
    /\ LET m == Head(outbox[c]) IN
       IF server[c] = "open"
       THEN /\ down' = IF client[c] = "open" THEN [down EXCEPT ![c] = Append(@, m)] ELSE down
       ELSE UNCHANGED down
    /\ UNCHANGED <<linkVars, extVars, up, SERVER_MAPPING, CLIENT_MAPPING, local>>

\* Mutant: the entry of a TCP chunk follows its write too.
FlushEntryForAll(c) ==
    /\ outbox[c] # <<>>
    /\ outbox' = [outbox EXCEPT ![c] = Tail(@)]
    /\ LET m == Head(outbox[c])
           x == m.key[1] IN
       IF server[c] = "open"
       THEN /\ down' = IF client[c] = "open" THEN [down EXCEPT ![c] = Append(@, m)] ELSE down
            /\ SERVER_MAPPING' = IF m.named
                                 THEN [SERVER_MAPPING EXCEPT ![m.id] = x]
                                 ELSE SERVER_MAPPING
       ELSE UNCHANGED <<down, SERVER_MAPPING>>
    /\ UNCHANGED <<linkVars, extVars, up, CLIENT_MAPPING, local>>

\* c's loop at the server runs a queued write.  Where the write succeeds, the
\* listener of a request puts its entry; where it fails, it only logs.
Flush(c) ==
    /\ outbox[c] # <<>>
    /\ outbox' = [outbox EXCEPT ![c] = Tail(@)]
    /\ LET m == Head(outbox[c])
           x == m.key[1] IN
       IF server[c] = "open"
       THEN /\ down' = IF client[c] = "open" THEN [down EXCEPT ![c] = Append(@, m)] ELSE down
            /\ SERVER_MAPPING' = IF kind[x] # "tcp" /\ m.named
                                 THEN [SERVER_MAPPING EXCEPT ![m.id] = x]
                                 ELSE SERVER_MAPPING
       ELSE UNCHANGED <<down, SERVER_MAPPING>>
    /\ UNCHANGED <<linkVars, extVars, up, CLIENT_MAPPING, local>>

\* MessageTransferHandler reads an answer; without an entry it drops it.
ReadAnswer(c) ==
    /\ up[c] # <<>>
    /\ up' = [up EXCEPT ![c] = Tail(@)]
    /\ LET a == Head(up[c])
           x == SERVER_MAPPING[a.id] IN
       got' = IF x # None /\ ext[x] = "open" THEN [got EXCEPT ![x] = Append(@, a)] ELSE got
    /\ UNCHANGED <<linkVars, kind, ext, home, sent, TCP_FLAG, outbox, down, SERVER_MAPPING,
                   CLIENT_MAPPING, local>>

-----------------------------------------------------------------------------
(* The client *)

Is(l, phase) == local[l] # None /\ local[l].phase = phase
Becomes(l, phase) == local' = [local EXCEPT ![l].phase = phase]

\* What the service behind l reads: an established connection, and for frames
\* one whose pipeline ClientResponseHandler has freed of HTTP, which it does
\* when it has forwarded the first answer.
Reaches(l, m) ==
    /\ Is(l, "ready")
    /\ m.named \/ local[l].sent > 0

Receive(l, m) ==
    local' = IF Reaches(l, m) THEN [local EXCEPT ![l].got = Append(@, m.key[2])] ELSE local

\* handleDataMsg: the message goes to the local connection of its id, if there
\* is one; otherwise one is opened for it, if the service is known.
ReadMessage(c) ==
    /\ down[c] # <<>>
    /\ down' = [down EXCEPT ![c] = Tail(@)]
    /\ LET m == Head(down[c])
           l == CLIENT_MAPPING[m.id] IN
       IF l # None
       THEN Receive(l, m)
       ELSE local' = IF m.named /\ CLIENT_FORWARD[c]
                     THEN [local EXCEPT ![m.key] = [phase |-> "connecting", id |-> m.id,
                                                    link |-> c, got |-> <<>>, sent |-> 0]]
                     ELSE local
    /\ UNCHANGED <<linkVars, extVars, outbox, up, SERVER_MAPPING, CLIENT_MAPPING>>

Connected(l) ==
    /\ Is(l, "connecting")
    /\ Becomes(l, "deaf")
    /\ UNCHANGED <<linkVars, extVars, wires, SERVER_MAPPING, CLIENT_MAPPING>>

\* Nothing is answered.
ConnectFails(l) ==
    /\ Is(l, "connecting")
    /\ Becomes(l, "failed")
    /\ UNCHANGED <<linkVars, extVars, wires, SERVER_MAPPING, CLIENT_MAPPING>>

\* Mutant: the entry leads to the transfer connection.
ReadyMapsLink(l) ==
    /\ Is(l, "deaf") \/ Is(l, "dead")
    /\ CLIENT_MAPPING' = [CLIENT_MAPPING EXCEPT ![local[l].id] = local[l].link]
    /\ local' = IF Is(l, "deaf")
                THEN [local EXCEPT ![l].phase = "ready", ![l].got = Append(@, l[2])]
                ELSE [local EXCEPT ![l].phase = "stale"]
    /\ UNCHANGED <<linkVars, extVars, wires, SERVER_MAPPING>>

\* Mutant: no entry is put.
ReadyMapsNothing(l) ==
    /\ Is(l, "deaf") \/ Is(l, "dead")
    /\ local' = IF Is(l, "deaf")
                THEN [local EXCEPT ![l].phase = "ready", ![l].got = Append(@, l[2])]
                ELSE [local EXCEPT ![l].phase = "stale"]
    /\ UNCHANGED <<linkVars, extVars, wires, SERVER_MAPPING, CLIENT_MAPPING>>

\* Mutant: the message is written before the handlers are added.
ReadyWritesFirst(l) ==
    \/ /\ Is(l, "deaf") /\ local[l].got = <<>>
       /\ local' = [local EXCEPT ![l].got = Append(@, l[2])]
       /\ UNCHANGED <<linkVars, extVars, wires, SERVER_MAPPING, CLIENT_MAPPING>>
    \/ /\ (Is(l, "deaf") /\ local[l].got # <<>>) \/ Is(l, "dead")
       /\ CLIENT_MAPPING' = [CLIENT_MAPPING EXCEPT ![local[l].id] = l]
       /\ Becomes(l, IF Is(l, "deaf") THEN "ready" ELSE "stale")
       /\ UNCHANGED <<linkVars, extVars, wires, SERVER_MAPPING>>

\* Mutant: the listener runs on another loop than the link's, so that a message
\* can be read between the put of the entry and the write.
ReadyInTwoSteps(l) ==
    \/ /\ Is(l, "deaf") \/ Is(l, "dead")
       /\ CLIENT_MAPPING' = [CLIENT_MAPPING EXCEPT ![local[l].id] = l]
       /\ Becomes(l, IF Is(l, "deaf") THEN "ready" ELSE "stale")
       /\ UNCHANGED <<linkVars, extVars, wires, SERVER_MAPPING>>
    \/ /\ Is(l, "ready") /\ \A i \in DOMAIN local[l].got : local[l].got[i] # l[2]
       /\ local' = [local EXCEPT ![l].got = Append(@, l[2])]
       /\ UNCHANGED <<linkVars, extVars, wires, SERVER_MAPPING, CLIENT_MAPPING>>

\* The listener of the promise, on the loop of the link: the entry, the
\* handlers, and the message that opened the connection.
Ready(l) ==
    /\ Is(l, "deaf") \/ Is(l, "dead")
    /\ CLIENT_MAPPING' = [CLIENT_MAPPING EXCEPT ![local[l].id] = l]
    /\ local' = IF Is(l, "deaf")
                THEN [local EXCEPT ![l].phase = "ready", ![l].got = Append(@, l[2])]
                ELSE [local EXCEPT ![l].phase = "stale"]
    /\ UNCHANGED <<linkVars, extVars, wires, SERVER_MAPPING>>

\* The service writes; what it writes to a connection without handlers is lost.
\* An HTTP service has read a request before, a TCP service may greet.
Answers(l) ==
    /\ Is(l, "deaf") \/ Is(l, "ready")
    /\ local[l].sent < MaxAnswers
    /\ local[l].got # <<>> \/ (l[1] \in Greeting /\ kind[l[1]] = "tcp")
    /\ local' = [local EXCEPT ![l].sent = @ + 1]
    /\ LET c == local[l].link
           a == [id |-> local[l].id, from |-> l, n |-> local[l].sent + 1,
                 re |-> IF local[l].got = <<>> THEN 0 ELSE Last(local[l].got)] IN
       up' = IF Is(l, "ready") /\ client[c] = "open" /\ server[c] = "open"
             THEN [up EXCEPT ![c] = Append(@, a)] ELSE up
    /\ UNCHANGED <<linkVars, extVars, outbox, down, SERVER_MAPPING, CLIENT_MAPPING>>

\* The service closes, or the connection breaks.  channelInactive removes the
\* entry of the id, whichever connection it leads to.
LocalEnds(l) ==
    \/ /\ Is(l, "deaf")
       /\ Becomes(l, "dead")
       /\ UNCHANGED <<linkVars, extVars, wires, SERVER_MAPPING, CLIENT_MAPPING>>
    \/ /\ Is(l, "ready")
       /\ Becomes(l, "closed")
       /\ CLIENT_MAPPING' = [CLIENT_MAPPING EXCEPT ![local[l].id] = None]
       /\ UNCHANGED <<linkVars, extVars, wires, SERVER_MAPPING>>

-----------------------------------------------------------------------------
Next ==
    \/ Unregister
    \/ \E c \in Links :
         \/ Connect(c) \/ Register(c) \/ CancelRegister(c) \/ ServerEnds(c) \/ ClientEnds(c)
         \/ Flush(c) \/ ReadMessage(c) \/ ReadAnswer(c)
    \/ \E x \in Exts :
         Accept(x) \/ NoRoute(x) \/ Request(x) \/ Frame(x) \/ Chunk(x) \/ Close(x)
    \/ \E l \in Keys :
         Connected(l) \/ ConnectFails(l) \/ Ready(l) \/ Answers(l) \/ LocalEnds(l)

Spec == Init /\ [][Next]_vars

\* Every loop goes on with what is queued for it, a connection attempt ends, and
\* a service answers what it has read.  Nobody owes a message, or an end.
Fairness ==
    /\ \A c \in Links : WF_vars(Flush(c)) /\ WF_vars(ReadMessage(c)) /\ WF_vars(ReadAnswer(c))
    /\ \A l \in Keys : /\ WF_vars(Connected(l) \/ ConnectFails(l))
                       /\ WF_vars(Ready(l)) /\ WF_vars(Answers(l))

LiveSpec == Spec /\ Fairness

-----------------------------------------------------------------------------
(* Properties *)

\* Type invariant of the four kinds of connection, the wires between them and
\* the two maps called REQUEST_MAPPING.
TypeOK ==
    /\ server \in [Links -> {"new", "open", "closed"}]
    /\ client \in [Links -> {"new", "open", "closed"}]
    /\ route \in Links \cup {None}
    /\ CLIENT_FORWARD \in [Links -> BOOLEAN]
    /\ kind \in [Exts -> {"http", "ws", "port", "tcp"}]
    /\ ext \in [Exts -> {"new", "open", "closed"}]
    /\ home \in [Exts -> Links \cup {None}]
    /\ sent \in [Exts -> 0..MaxMsgs]
    /\ TCP_FLAG \in [Exts -> Keys \cup {None}]
    /\ got \in [Exts -> Seq(Answer)]
    /\ outbox \in [Links -> Seq(Message)]
    /\ down \in [Links -> Seq(Message)]
    /\ up \in [Links -> Seq(Answer)]
    /\ SERVER_MAPPING \in [Keys -> Exts \cup {None}]
    /\ CLIENT_MAPPING \in [Keys -> Keys \cup {None}]
    /\ local \in [Keys -> Local \cup {None}]

\* An external connection receives only what was written for it: ids of
\* different connections never meet, in the server's map, the client's, or a
\* local connection's handler (DynamicTcpServerHandler 35-40, HttpServerHandler
\* 83-86, ClientMessageHandler 88-91, MessageTransferHandler 26-30).
AnswersGoToWhoAsked ==
    \A x \in Exts : \A i \in DOMAIN got[x] : got[x][i].from[1] = x

\* Of what a local connection wrote x receives all up to some piece, in order:
\* the entry is in the server's map before the first answer is read, and leaves
\* it only when x closes (HttpServerHandler 84-93, DynamicTcpServerHandler
\* 40-46, MessageTransferHandler 27-30).  A service that greets loses pieces.
AnswersComeHomeInOrder ==
    \A x \in Exts \ Greeting : \A i \in DOMAIN got[x] :
        LET a == got[x][i]
            Before(n) == \E j \in 1..(i - 1) : got[x][j].from = a.from /\ got[x][j].n = n IN
        a.n > 0 => /\ \A n \in a.n..MaxAnswers : ~Before(n)
                   /\ \A n \in 1..(a.n - 1) : Before(n)

\* A service reads the messages of one connection in the order they were sent,
\* none twice, although the first is written only when the connection has been
\* established (ClientMessageHandler 63-70, 86-94).
ChunksInOrder ==
    \A l \in Keys : local[l] # None =>
        \A i, j \in DOMAIN local[l].got : i < j => local[l].got[i] < local[l].got[j]

InUse(l) == \E p \in {"connecting", "deaf", "dead", "ready"} : Is(l, p)

\* The stream of a client that waits for answers is not split: there is one
\* local connection for its id at a time, and once it is ready the client's map
\* leads to it (ClientMessageHandler 63-70, 88; ClientResponseHandler2 43).
StreamStaysTogether ==
    \A l \in Keys :
        (l[1] \in Patient /\ InUse(l)) =>
            /\ Is(l, "ready") => CLIENT_MAPPING[local[l].id] = l
            /\ \A k \in Keys \ {l} : InUse(k) => local[k].id # local[l].id

\* A frame of a WebSocket client that waited for the upgrade finds the local
\* connection it belongs to, already freed of its HTTP handlers, unless the
\* service has closed it (WebSocketHandler 26-32, ClientResponseHandler 37-46).
FramesFindTheirService ==
    \A c \in Links : \A i \in DOMAIN down[c] :
        LET m == down[c][i] IN
        (~m.named /\ m.key[1] \in Patient) => (Is(m.id, "closed") \/ Reaches(m.id, m))

\* A connection that ends leaves no entry for its last id in the server's map,
\* if that id was answered, or at once if it is TCP (HttpServerHandler 83-86,
\* 107-111; DynamicTcpServerHandler 40, 51-54).
EndedIsForgotten ==
    \A x \in Exts :
        (/\ ext[x] = "closed" /\ TCP_FLAG[x] # None
         /\ kind[x] = "tcp" \/ \E i \in DOMAIN got[x] : got[x][i].id = TCP_FLAG[x])
        => SERVER_MAPPING[TCP_FLAG[x]] = None

\* A request that was written to a transfer connection is answered, unless
\* somebody on its way gave up: the external connection, this transfer
\* connection, the registration, or the local service (the whole path).
RequestAnswered ==
    \A c \in Links, id \in Keys :
        (/\ id[1] \notin Greeting
         /\ \E i \in DOMAIN outbox[c] : outbox[c][i].key = id /\ outbox[c][i].id = id) ~>
            \/ \E i \in DOMAIN got[id[1]] : got[id[1]][i].id = id
            \/ ext[id[1]] = "closed"
            \/ "closed" \in {server[c], client[c]}
            \/ ~CLIENT_FORWARD[c]
            \/ \E p \in {"failed", "stale", "closed"} : Is(id, p)
=============================================================================
