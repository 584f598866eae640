----------------------------- MODULE TransferLink -----------------------------
(***************************************************************************)
(* One transfer connection between a server and a client that has          *)
(* registered its names: the pipelines of ServerHandlerInitializer and     *)
(* ClientHandlerInitializer (frames, codec, idle timers, heartbeats), the  *)
(* requests of the default port that become messages (HttpServerHandler)   *)
(* and the requests the local services get (handlerHttp).                  *)
(*                                                                         *)
(* Time is counted in ticks, one for as long as it takes that nothing      *)
(* smaller matters: what has arrived is read, and what is due is done,     *)
(* before the next.  The network may delay what it delivers, and it may be *)
(* cut: nothing gets through any more and neither end is told.             *)
(***************************************************************************)
EXTENDS Codec, UrlRoute, SequencesExt

CONSTANTS
    Catalogue,      \* the http requests external clients may send
    Names,          \* the names the client has registered
    Deletes,        \* those whose mapping has delRegisterName = 1
    Version,        \* HTTP/1.1, a text
    Hosts,          \* the spellings of the header name Host
    Address,        \* Address[n]: where the service of name n listens, host:port
    Bad,            \* the server's own 400
    MaxFrameLength, \* max-frame-length of the client
    Timeout,        \* Timeout[e], in ticks
    GiveUp,         \* ticks for which a kernel retransmits
    KeepAlive,      \* ticks after which its keep-alive probes have failed
    MaxRequests,    \* bound on the requests
    MaxUnread       \* bound on what the server's end lets pile up

Ends == {"server", "client"}

\* What an external client sends: the header that names a route, or Empty, the
\* words of the uri, a method, headers in order, a body or Null.
IsRequest(q) ==
    /\ DOMAIN q = {"path", "uri", "method", "heads", "body"}
    /\ q.uri \in Seq(Range(q.uri)) \ {<<>>}
    /\ q.heads \in Seq(Range(q.heads))
    /\ q.method.bytes \in Nat \ {0}
    /\ q.body = Null \/ q.body.bytes \in Nat \ {0}

ASSUME LinkAssumption ==
    /\ \A q \in Catalogue : IsRequest(q)
    /\ MaxByte \in Nat /\ MaxFrameLength \in Nat
    /\ Version.bytes \in 1..MaxByte
    /\ \A i \in 1..MaxRequests : Bad \notin {Null, Text(i, 1)}
    /\ Timeout \in [Ends -> Nat \ {0}]
    /\ GiveUp \in Nat \ {0}
    /\ KeepAlive \in Nat /\ KeepAlive > Timeout["client"] + GiveUp
    /\ MaxRequests \in Nat /\ MaxUnread \in Nat
    /\ "Host" \in Hosts

\* Nothing is left of a name after itself.
ASSUME RestAssumption == Empty # NoMatch /\ \A n \in Names : Rest(n, n) = Empty

VARIABLES
    asked,      \* the requests the default port has read, in order
    reply,      \* reply[i]: what the sender of the i-th got, or Null
    down, up,   \* frames on their way to the client, to the server
    handed,     \* the requests the client made of what it read, in order
    served,     \* how many of them the local service has answered
    clean,      \* the client's codec keeps no bytes of an earlier frame
    end,        \* end[e]: "open" or "closed"
    cut,        \* the network lets nothing through
    idle,       \* idle[e]: ticks since e has last read or written
    unacked,    \* unacked[e]: 0, or 1 + the ticks for which e's kernel retransmits
    since       \* ticks since the cut

httpVars == <<asked, reply>>
wires == <<down, up>>
localVars == <<handed, served, clean>>
timers == <<idle, unacked, since>>
vars == <<httpVars, wires, localVars, end, cut, timers>>

Init ==
    /\ asked = <<>> /\ reply = <<>>
    /\ down = <<>> /\ up = <<>>
    /\ handed = <<>> /\ served = 0
    /\ clean = TRUE
    /\ end = [e \in Ends |-> "open"]
    /\ cut = FALSE
    /\ idle = [e \in Ends |-> 0]
    /\ unacked = [e \in Ends |-> 0]
    /\ since = 0

\* The end that reads or writes restarts its timer.
Restart(e) == idle' = [idle EXCEPT ![e] = 0]

\* What e has written after the cut is retransmitted in vain.
Retransmit(e) ==
    unacked' = IF cut /\ unacked[e] = 0 THEN [unacked EXCEPT ![e] = 1] ELSE unacked

Send(wire, f) == IF cut THEN wire ELSE Append(wire, f)

-----------------------------------------------------------------------------
(* The default port, on the server *)

path(q) == IF q.path # Empty THEN q.path ELSE split1(q.uri)
Throws(q) == ~NoPath(q.uri) /\ q.path = Empty /\ ~HasPath(q.uri)
HasRoute(q) == ~NoPath(q.uri) /\ ~Throws(q) /\ path(q) \in Names

\* heads.put for every header: the last of a name stays.
HeadsOf(q) ==
    LET last(i) == \A j \in DOMAIN q.heads : q.heads[j].name = q.heads[i].name => j <= i
    IN Text({q.heads[i] : i \in {i \in DOMAIN q.heads : last(i)}}, 1)

\* The message of the i-th request.
Message(i, q) ==
    DataMessage(i, "REQUEST", Text(path(q), 1), Text(q.uri, Len(q.uri)),
                q.method, Version, HeadsOf(q), q.body)

Reads(q, r) ==
    /\ Len(asked) < MaxRequests
    /\ asked' = Append(asked, q)
    /\ reply' = Append(reply, r)

\* The server answers a request without a route itself.  The routes of a
\* connection go with it.
RequestRefused(q) ==
    /\ ~Throws(q)
    /\ HasRoute(q) => end["server"] = "closed"
    /\ Reads(q, Bad)
    /\ UNCHANGED <<wires, localVars, end, cut, timers>>

\* A path of slashes has no second element.
RequestThrows(q) ==
    /\ Throws(q)
    /\ Reads(q, Null)
    /\ UNCHANGED <<wires, localVars, end, cut, timers>>

RequestForwarded(q) ==
    /\ HasRoute(q) /\ end["server"] = "open"
    /\ Reads(q, Null)
    /\ down' = Send(down, encode(Message(Len(asked) + 1, q)))
    /\ Restart("server") /\ Retransmit("server")
    /\ UNCHANGED <<up, localVars, end, cut, since>>

-----------------------------------------------------------------------------
(* The client *)

TooLong(f) == f.length + 4 > MaxFrameLength

\* The header Host that the client sets, and those it adds: all others.
HostOf(n) == [name |-> "Host", value |-> Address[n]]
OwnHeads(heads) == {h \in heads : h.name \notin Hosts}

\* The request for the local service.
LocalRequest(m) ==
    LET n == m.dstServer.of IN
    [id |-> m.id, method |-> m.method, version |-> m.version,
     url |-> IF n \in Deletes THEN replaceAll(m.url.of, n) ELSE Plain(m.url.of),
     heads |-> OwnHeads(m.heads.of) \cup {HostOf(n)}, body |-> m.bytes]

\* The client's end takes the next frame.
NextFrame ==
    /\ end["client"] = "open" /\ down # <<>>
    /\ down' = Tail(down)
    /\ UNCHANGED <<httpVars, up, served, end, cut, unacked, since>>

\* The frame decoder drops a frame that is too long; the idle timer is behind it
\* and the codec, and sees only messages.
FrameDropped ==
    /\ NextFrame
    /\ TooLong(Head(down))
    /\ UNCHANGED <<handed, clean, idle>>

\* The codec throws and keeps what it has not read.
FrameBroken ==
    /\ NextFrame
    /\ ~TooLong(Head(down)) /\ clean /\ ~InPlace(Head(down))
    /\ clean' = FALSE
    /\ UNCHANGED <<handed, idle>>

\* The codec reads on in what it has kept, as if a frame began there, and may
\* or may not come to the end of this one.  A message that it finds there by
\* chance is left out.
FrameMisread ==
    /\ NextFrame
    /\ ~TooLong(Head(down)) /\ ~clean
    /\ clean' \in BOOLEAN
    /\ UNCHANGED <<handed, idle>>

FrameRead ==
    /\ NextFrame
    /\ ~TooLong(Head(down)) /\ clean /\ InPlace(Head(down))
    /\ handed' = Append(handed, LocalRequest(decode(Head(down))))
    /\ Restart("client")
    /\ UNCHANGED clean

\* An answer has an id, no headers, and bytes: Text(id, 1), what the service said.
Response(id) ==
    DataMessage(id, "RESPONSE", Null, Null, Null, Null, Text({}, 1), Text(id, 1))

\* Mutant: the answer gets the id of the last request.
AnswerToLast ==
    /\ end["client"] = "open"
    /\ served < Len(handed)
    /\ served' = served + 1
    /\ up' = Send(up, encode([Response(handed[served + 1].id) EXCEPT !.id = handed[Len(handed)].id]))
    /\ Restart("client") /\ Retransmit("client")
    /\ UNCHANGED <<httpVars, down, handed, clean, end, cut, since>>

\* The service answers, one request after the other, and ClientResponseHandler
\* sends the answer.
Answer ==
    /\ end["client"] = "open"
    /\ served < Len(handed)
    /\ served' = served + 1
    /\ up' = Send(up, encode(Response(handed[served + 1].id)))
    /\ Restart("client") /\ Retransmit("client")
    /\ UNCHANGED <<httpVars, down, handed, clean, end, cut, since>>

-----------------------------------------------------------------------------
(* The server's end *)

HandOn(f) ==
    reply' = IF f.type = "DATA" THEN [reply EXCEPT ![f.id] = decode(f).bytes] ELSE reply

\* Mutant: what has arrived behind a heartbeat is lost.
ServerReadsFirst ==
    /\ end["server"] = "open"
    /\ up # <<>>
    /\ up' = IF Head(up).type = "SYS" THEN <<>> ELSE Tail(up)
    /\ HandOn(Head(up))
    /\ Restart("server")
    /\ UNCHANGED <<asked, down, localVars, end, cut, unacked, since>>

\* MessageTransferHandler hands on an answer; nobody reads a heartbeat.
ServerReads ==
    /\ end["server"] = "open"
    /\ up # <<>>
    /\ up' = Tail(up)
    /\ HandOn(Head(up))
    /\ Restart("server")
    /\ UNCHANGED <<asked, down, localVars, end, cut, unacked, since>>

-----------------------------------------------------------------------------
(* Timers and the network *)

\* Mutant: the client waits for an idle reader, like the server.
ClientIdleNothing ==
    /\ end["client"] = "open"
    /\ idle["client"] = Timeout["client"]
    /\ Restart("client")
    /\ UNCHANGED <<httpVars, wires, localVars, end, cut, unacked, since>>

\* ClientHeartBeatHandler
ClientIdle ==
    /\ end["client"] = "open"
    /\ idle["client"] = Timeout["client"]
    /\ up' = Send(up, encodeSys("HEALTH", 1))
    /\ Restart("client") /\ Retransmit("client")
    /\ UNCHANGED <<httpVars, down, localVars, end, cut, since>>

\* ServerHeartBeatHandler closes on READER_IDLE, and ServerHandlerInitializer
\* configures ALL_IDLE alone.
ServerIdle ==
    /\ end["server"] = "open"
    /\ idle["server"] = Timeout["server"]
    /\ Restart("server")
    /\ UNCHANGED <<httpVars, wires, localVars, end, cut, unacked, since>>

\* What the peer's kernel has by now can still be read; the rest is lost, and the
\* sender's kernel retransmits it.
Cut(i, j) ==
    /\ ~cut
    /\ cut' = TRUE
    /\ down' = SubSeq(down, 1, i) /\ up' = SubSeq(up, 1, j)
    /\ unacked' = [e \in Ends |->
                     IF IF e = "server" THEN i < Len(down) ELSE j < Len(up) THEN 1 ELSE 0]
    /\ UNCHANGED <<httpVars, localVars, end, idle, since>>

\* The kernel of e gives the connection up: it has retransmitted, or probed, for
\* long enough (SO_KEEPALIVE is set at both ends).
GivenUp(e) == unacked[e] > GiveUp \/ since = KeepAlive

Lost(e) ==
    /\ cut /\ end[e] = "open"
    /\ GivenUp(e)
    /\ end' = [end EXCEPT ![e] = "closed"]
    /\ UNCHANGED <<httpVars, wires, localVars, cut, timers>>

\* Nothing is left to be done before the next tick.  A link that works may
\* delay what it carries.
Settled(e) ==
    end[e] = "open" =>
        /\ idle[e] < Timeout[e]
        /\ cut => ((IF e = "client" THEN down ELSE up) = <<>> /\ ~GivenUp(e))

Tick ==
    /\ \E e \in Ends : end[e] = "open"
    /\ \A e \in Ends : Settled(e)
    /\ Len(up) < MaxUnread
    /\ idle' = [e \in Ends |-> IF end[e] = "open" THEN idle[e] + 1 ELSE idle[e]]
    /\ unacked' = [e \in Ends |-> IF end[e] = "open" /\ unacked[e] > 0
                                  THEN unacked[e] + 1 ELSE unacked[e]]
    /\ since' = IF cut THEN since + 1 ELSE since
    /\ UNCHANGED <<httpVars, wires, localVars, end, cut>>

-----------------------------------------------------------------------------
Next ==
    \/ \E q \in Catalogue : RequestRefused(q) \/ RequestThrows(q) \/ RequestForwarded(q)
    \/ FrameDropped \/ FrameBroken \/ FrameMisread \/ FrameRead \/ Answer
    \/ ServerReads
    \/ ClientIdle \/ ServerIdle
    \/ \E i \in 0..Len(down), j \in 0..Len(up) : Cut(i, j)
    \/ \E e \in Ends : Lost(e)
    \/ Tick

Spec == Init /\ [][Next]_vars

-----------------------------------------------------------------------------
(* Properties *)

\* Type invariant of the link.
TypeOK ==
    /\ asked \in Seq(Catalogue) /\ Len(asked) <= MaxRequests
    /\ Len(reply) = Len(asked)
    /\ \A i \in DOMAIN reply : reply[i] \in {Null, Bad, Text(i, 1)}
    /\ served \in 0..Len(handed)
    /\ clean \in BOOLEAN /\ cut \in BOOLEAN
    /\ end \in [Ends -> {"open", "closed"}]
    /\ DOMAIN idle = Ends /\ \A e \in Ends : idle[e] \in 0..Timeout[e]
    /\ unacked \in [Ends -> 0..(GiveUp + 1)]
    /\ since \in 0..KeepAlive

\* A client whose server is gone notices within its own timeout and the time for
\* which its kernel retransmits: its heartbeats are what is retransmitted
\* (ClientHeartBeatHandler 24-39, ClientHandlerInitializer 41).
DeadServerIsNoticed ==
    (cut /\ end["client"] = "open") => since <= Timeout["client"] + GiveUp

\* A server whose client is gone closes the connection within its own timeout, or
\* the time for which its kernel retransmits after that ("The server actively
\* closes the connection", ServerHeartBeatHandler 22-25; "the interval of the
\* heartbeat check", HttpPierceServerConfig 42).
DeadClientIsNoticed ==
    (cut /\ end["server"] = "open") => since <= Timeout["server"] + GiveUp

\* What a client must have got of the i-th request: its frame fits, and the
\* length byte of its method holds that length.
FrameOf(i) == encode(Message(i, asked[i]))
Carried(i) == HasRoute(asked[i]) /\ ~TooLong(FrameOf(i))
Arrives(i) == Carried(i) /\ \A j \in 1..i : Carried(j) => asked[j].method.bytes <= MaxByte

\* The requests of an open link reach the client complete, once and in order: a
\* frame that is too long costs only itself, and none is missing but that and
\* what comes after a method too long for its length byte (MessageCodec 34-59,
\* 102-202; ClientHandlerInitializer 39-40).  The service gets every header that
\* was sent, unless a name is repeated, but for Host: it sees its own address and
\* never the host the external client asked for (ClientMessageHandler 156-157).
RequestsArriveWhole ==
    LET ids == {handed[k].id : k \in DOMAIN handed}
    IN /\ \A k, n \in DOMAIN handed : k < n => handed[k].id < handed[n].id
       /\ \A i \in DOMAIN asked :
            Arrives(i) /\ ((down = <<>> /\ ~cut) \/ \E j \in ids : j > i) => i \in ids
       /\ \A k \in DOMAIN handed :
            LET r == handed[k]
                q == asked[r.id]
                repeats == \E m, n \in DOMAIN q.heads :
                               /\ m # n /\ q.heads[m].name = q.heads[n].name
                               /\ q.heads[m].name \notin Hosts
            IN /\ r.method = q.method /\ r.version = Version /\ r.body = q.body
               /\ {h \in r.heads : h.name \in Hosts} = {HostOf(path(q))}
               /\ repeats \/ r.heads = OwnHeads(Range(q.heads)) \cup {HostOf(path(q))}

\* The words of a uri that the service is to see.
OwnWords(q) == IF q.path = Empty THEN Tail(q.uri) ELSE q.uri

\* A service whose mapping deletes the name sees the url it would have seen without
\* the tunnel, any other the whole one; except that the name is also deleted
\* where the rest of the url has it (HttpServerHandler 50-54, ClientMessageHandler
\* 150-154).
ServiceSeesItsOwnUrl ==
    \A k \in DOMAIN handed :
        LET q == asked[handed[k].id]
            again == \E i \in DOMAIN OwnWords(q) : Rest(OwnWords(q)[i], path(q)) # NoMatch
        IN IF path(q) \notin Deletes THEN handed[k].url = Plain(q.uri)
           ELSE again \/ handed[k].url = Plain(OwnWords(q))

\* An answer that the service gave is with the sender of its request, or on its
\* way, or lost with the link; the server answers itself only what has no route
\* (MessageTransferHandler 21-32, ClientResponseHandler 32-36).
AnswersArrive ==
    /\ \A k \in 1..served :
         \/ reply[handed[k].id] = Text(handed[k].id, 1)
         \/ cut
         \/ \E i \in DOMAIN up : up[i].type = "DATA" /\ up[i].id = handed[k].id
    /\ \A i \in DOMAIN reply : reply[i] = Bad => (~HasRoute(asked[i]) \/ cut)
===============================================================================
