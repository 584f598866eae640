----------------------------- MODULE RelayProofs -----------------------------
(***************************************************************************)
(* Proofs about Relay, for any number of external connections, links,      *)
(* messages and pieces of answers, whatever the clients and services do.   *)
(*                                                                         *)
(* AnswersGoToWhoAsked is not inductive: where an answer is handed over is *)
(* decided by an id that has gone through both processes and four kinds of *)
(* connection.  IInv says of every place an id can be that it is an id of  *)
(* the external connection that the message or the answer belongs to.      *)
(***************************************************************************)
EXTENDS Relay, SequenceTheorems, TLAPS

\* Messages and answers whose id was made for the connection they belong to.
OwnMessage == {m \in Message : m.id[1] = m.key[1]}
OwnAnswer == {a \in Answer : a.id[1] = a.from[1]}
For(x) == {a \in Answer : a.from[1] = x}

ConnectionsOK ==
    /\ server \in [Links -> {"new", "open", "closed"}]
    /\ client \in [Links -> {"new", "open", "closed"}]
    /\ route \in Links \cup {None}
    /\ CLIENT_FORWARD \in [Links -> BOOLEAN]
    /\ kind \in [Exts -> {"http", "ws", "port", "tcp"}]
    /\ ext \in [Exts -> {"new", "open", "closed"}]
    /\ home \in [Exts -> Links \cup {None}]
    /\ sent \in [Exts -> 0..MaxMsgs]

\* x keeps an id of its own, and has one if it was upgraded.
FlagOK ==
    /\ TCP_FLAG \in [Exts -> Keys \cup {None}]
    /\ \A x \in Exts : TCP_FLAG[x] # None => TCP_FLAG[x][1] = x
    /\ \A x \in Exts : kind[x] = "ws" /\ home[x] # None => TCP_FLAG[x] # None

\* The server's map leads from an id to the connection it was made for.
MappingOK ==
    /\ SERVER_MAPPING \in [Keys -> Exts \cup {None}]
    /\ \A id \in Keys : SERVER_MAPPING[id] # None => SERVER_MAPPING[id] = id[1]

WiresOK ==
    /\ outbox \in [Links -> Seq(OwnMessage)]
    /\ down \in [Links -> Seq(OwnMessage)]
    /\ up \in [Links -> Seq(OwnAnswer)]

\* The handler of a local connection has an id of the connection whose message
\* opened it.
LocalOK ==
    /\ CLIENT_MAPPING \in [Keys -> Keys \cup {None}]
    /\ local \in [Keys -> Local \cup {None}]
    /\ \A l \in Keys : local[l] # None => local[l].id[1] = l[1]

GotOK ==
    /\ got \in [Exts -> Seq(Answer)]
    /\ \A x \in Exts : got[x] \in Seq(For(x))

IInv == ConnectionsOK /\ FlagOK /\ MappingOK /\ WiresOK /\ LocalOK /\ GotOK

-----------------------------------------------------------------------------
\* The next message of a connection that may send one.
LEMMA NextMessage ==
    ASSUME IInv, NEW x \in Exts, Sends(x)
    PROVE  /\ NextKey(x) \in Keys /\ NextKey(x)[1] = x /\ NextKey(x)[2] \in 1..MaxMsgs
           /\ sent' \in [Exts -> 0..MaxMsgs]
BY BoundAssumption DEF IInv, ConnectionsOK, Sends, NextKey, Keys

\* A write appends a message with an id of its own to one link's outbox.
LEMMA Written ==
    ASSUME IInv, NEW c, NEW m \in OwnMessage, Write(c, m)
    PROVE  outbox' \in [Links -> Seq(OwnMessage)]
<1>1. c \in Links => Append(outbox[c], m) \in Seq(OwnMessage)
  BY DEF IInv, WiresOK
<1> QED BY <1>1 DEF IInv, WiresOK, Write

\* What x is handed, when it was made for x, keeps GotOK.
LEMMA Handed ==
    ASSUME IInv, NEW x \in Exts, NEW a \in For(x), got' = [got EXCEPT ![x] = Append(@, a)]
    PROVE  GotOK'
<1>1. a \in Answer
  BY DEF For
<1>2. got[x] \in Seq(Answer) /\ got[x] \in Seq(For(x)) /\ got \in [Exts -> Seq(Answer)]
  BY DEF IInv, GotOK
<1>3. Append(got[x], a) \in Seq(Answer) /\ Append(got[x], a) \in Seq(For(x))
  BY <1>1, <1>2
<1>4. got' \in [Exts -> Seq(Answer)]
  BY <1>2, <1>3
<1>5. ASSUME NEW y \in Exts PROVE got'[y] \in Seq(For(y))
  <2>1. CASE y = x
    BY <1>2, <1>3, <2>1
  <2>2. CASE y # x
    BY <1>2, <2>2 DEF IInv, GotOK
  <2> QED BY <2>1, <2>2
<1> QED BY <1>4, <1>5 DEF GotOK

LEMMA InitInv == Init => IInv
<1> SUFFICES ASSUME Init PROVE IInv
  OBVIOUS
<1>1. \A S : <<>> \in Seq(S)
  OBVIOUS
<1>2. ConnectionsOK /\ FlagOK /\ MappingOK /\ LocalOK
  BY BoundAssumption DEF Init, ConnectionsOK, FlagOK, MappingOK, LocalOK
<1>3. WiresOK /\ GotOK
  BY <1>1 DEF Init, WiresOK, GotOK
<1> QED BY <1>2, <1>3 DEF IInv

\* Links come, go and change what leads to them; wires are cut.
LEMMA LinkStep ==
    ASSUME IInv, NEW c \in Links,
           \/ Connect(c) \/ Register(c) \/ Unregister \/ CancelRegister(c)
           \/ ServerEnds(c) \/ ClientEnds(c)
    PROVE  IInv'
<1> USE DEF linkVars, extVars, wires, Connect, Register, Unregister, CancelRegister,
            ServerEnds, ClientEnds
<1>1. ConnectionsOK'
  BY DEF IInv, ConnectionsOK
<1>2. FlagOK' /\ MappingOK' /\ LocalOK' /\ GotOK'
  BY DEF IInv, FlagOK, MappingOK, LocalOK, GotOK
<1>3. WiresOK'
  <2>1. <<>> \in Seq(OwnMessage) /\ <<>> \in Seq(OwnAnswer)
    OBVIOUS
  <2> QED BY <2>1 DEF IInv, WiresOK
<1> QED BY <1>1, <1>2, <1>3 DEF IInv

LEMMA AcceptStep == ASSUME IInv, NEW x \in Exts, Accept(x) PROVE IInv'
<1> USE DEF linkVars, extVars, wires, Accept
<1>1. ConnectionsOK'
  BY DEF IInv, ConnectionsOK
<1>2. \A y \in Exts : kind[y] = "ws" => home'[y] = home[y]
  BY DEF OwnPort, IInv, ConnectionsOK
<1>3. FlagOK'
  BY <1>2 DEF IInv, FlagOK
<1>4. MappingOK' /\ LocalOK' /\ GotOK' /\ WiresOK'
  BY DEF IInv, MappingOK, LocalOK, GotOK, WiresOK
<1> QED BY <1>1, <1>3, <1>4 DEF IInv

LEMMA NoRouteStep == ASSUME IInv, NEW x \in Exts, NoRoute(x) PROVE IInv'
<1> DEFINE a == [id |-> NextKey(x), from |-> NextKey(x), n |-> 0, re |-> NextKey(x)[2]]
<1>1. /\ Sends(x) /\ got' = [got EXCEPT ![x] = Append(@, a)]
      /\ UNCHANGED <<linkVars, kind, ext, home, TCP_FLAG, wires, SERVER_MAPPING,
                     CLIENT_MAPPING, local>>
  BY DEF NoRoute
<1>2. a \in For(x)
  BY <1>1, NextMessage, BoundAssumption DEF For, Answer
<1>3. GotOK'
  BY <1>1, <1>2, Handed
<1>4. ConnectionsOK'
  BY <1>1, NextMessage DEF IInv, ConnectionsOK, linkVars
<1>5. FlagOK' /\ MappingOK' /\ LocalOK' /\ WiresOK'
  BY <1>1 DEF IInv, FlagOK, MappingOK, LocalOK, WiresOK, wires
<1> QED BY <1>3, <1>4, <1>5 DEF IInv

LEMMA RequestStep == ASSUME IInv, NEW x \in Exts, Request(x) PROVE IInv'
<1> DEFINE c == LinkOf(x)
           m == NewRequest(x)
<1>1. /\ c # None /\ Sends(x)
      /\ TCP_FLAG' = [TCP_FLAG EXCEPT ![x] = NextKey(x)]
      /\ home' = IF kind[x] = "ws" THEN [home EXCEPT ![x] = c] ELSE home
      /\ Write(c, m)
      /\ UNCHANGED <<linkVars, kind, ext, got, down, up, SERVER_MAPPING, CLIENT_MAPPING, local>>
  BY DEF Request, upWebSocket
<1>2. m \in OwnMessage
  BY <1>1, NextMessage DEF NewRequest, OwnMessage, Message
<1>3. c \in Links
  BY <1>1 DEF LinkOf, IInv, ConnectionsOK
<1>4. ConnectionsOK'
  BY <1>1, <1>3, NextMessage DEF IInv, ConnectionsOK, linkVars
<1>5. FlagOK'
  BY <1>1, NextMessage, NoneAssumption DEF IInv, FlagOK, ConnectionsOK, Keys
<1>6. WiresOK'
  BY <1>1, <1>2, Written DEF IInv, WiresOK
<1>7. MappingOK' /\ LocalOK' /\ GotOK'
  BY <1>1 DEF IInv, MappingOK, LocalOK, GotOK
<1> QED BY <1>4, <1>5, <1>6, <1>7 DEF IInv

LEMMA FrameStep == ASSUME IInv, NEW x \in Exts, Frame(x) PROVE IInv'
<1> DEFINE m == [key |-> NextKey(x), id |-> TCP_FLAG[x], named |-> FALSE]
<1>1. /\ Sends(x) /\ Write(home[x], m)
      /\ UNCHANGED <<linkVars, kind, ext, home, TCP_FLAG, got, down, up, SERVER_MAPPING,
                     CLIENT_MAPPING, local>>
  BY DEF Frame
<1>2. m \in OwnMessage
  BY <1>1, NextMessage DEF Frame, OwnMessage, Message, IInv, FlagOK
<1>3. WiresOK'
  BY <1>1, <1>2, Written DEF IInv, WiresOK
<1>4. ConnectionsOK'
  BY <1>1, NextMessage DEF IInv, ConnectionsOK, linkVars
<1>5. FlagOK' /\ MappingOK' /\ LocalOK' /\ GotOK'
  BY <1>1 DEF IInv, FlagOK, MappingOK, LocalOK, GotOK
<1> QED BY <1>3, <1>4, <1>5 DEF IInv

LEMMA ChunkStep == ASSUME IInv, NEW x \in Exts, Chunk(x) PROVE IInv'
<1> DEFINE id == IF TCP_FLAG[x] = None THEN NextKey(x) ELSE TCP_FLAG[x]
           m == [key |-> NextKey(x), id |-> id, named |-> TRUE]
<1>1. /\ kind[x] = "tcp" /\ Sends(x)
      /\ TCP_FLAG' = [TCP_FLAG EXCEPT ![x] = id]
      /\ SERVER_MAPPING' = [SERVER_MAPPING EXCEPT ![id] = x]
      /\ Write(home[x], m)
      /\ UNCHANGED <<linkVars, kind, ext, home, got, down, up, CLIENT_MAPPING, local>>
  BY DEF Chunk
<1>2. id \in Keys /\ id[1] = x
  BY <1>1, NextMessage DEF IInv, FlagOK
<1>3. m \in OwnMessage
  BY <1>1, <1>2, NextMessage DEF OwnMessage, Message
<1>4. ConnectionsOK'
  BY <1>1, NextMessage DEF IInv, ConnectionsOK, linkVars
<1>5. FlagOK'
  BY <1>1, <1>2, NoneAssumption DEF IInv, FlagOK, ConnectionsOK, Keys
<1>6. MappingOK'
  BY <1>1, <1>2 DEF IInv, MappingOK
<1>7. WiresOK'
  BY <1>1, <1>3, Written DEF IInv, WiresOK
<1>8. LocalOK' /\ GotOK'
  BY <1>1 DEF IInv, LocalOK, GotOK
<1> QED BY <1>4, <1>5, <1>6, <1>7, <1>8 DEF IInv

LEMMA CloseStep == ASSUME IInv, NEW x \in Exts, Close(x) PROVE IInv'
<1> USE DEF Close, linkVars, wires
<1>1. ConnectionsOK' /\ FlagOK'
  BY DEF IInv, ConnectionsOK, FlagOK
<1>2. MappingOK'
  BY DEF IInv, MappingOK
<1>3. WiresOK' /\ LocalOK' /\ GotOK'
  BY DEF IInv, WiresOK, LocalOK, GotOK
<1> QED BY <1>1, <1>2, <1>3 DEF IInv

\* The loop of a link writes: the entry is that of the message's connection.
LEMMA FlushStep == ASSUME IInv, NEW c \in Links, Flush(c) PROVE IInv'
<1> DEFINE m == Head(outbox[c])
           x == m.key[1]
<1>1. /\ outbox[c] # <<>> /\ outbox' = [outbox EXCEPT ![c] = Tail(@)]
      /\ UNCHANGED <<linkVars, extVars, up, CLIENT_MAPPING, local>>
  BY DEF Flush
<1>2. down' = down \/ down' = [down EXCEPT ![c] = Append(@, m)]
  BY DEF Flush
<1>3. SERVER_MAPPING' = SERVER_MAPPING \/ SERVER_MAPPING' = [SERVER_MAPPING EXCEPT ![m.id] = x]
  BY DEF Flush
<1>4. outbox[c] \in Seq(OwnMessage) /\ down[c] \in Seq(OwnMessage)
  BY DEF IInv, WiresOK
<1>5. m \in OwnMessage /\ Tail(outbox[c]) \in Seq(OwnMessage)
  BY <1>1, <1>4, HeadTailProperties
<1>6. Append(down[c], m) \in Seq(OwnMessage)
  BY <1>4, <1>5
<1>7. WiresOK'
  BY <1>1, <1>2, <1>5, <1>6 DEF IInv, WiresOK
<1>8. x \in Exts /\ m.id \in Keys /\ m.id[1] = x
  BY <1>5 DEF OwnMessage, Message, Keys
<1>9. MappingOK'
  BY <1>3, <1>8 DEF IInv, MappingOK
<1>10. ConnectionsOK' /\ FlagOK' /\ LocalOK' /\ GotOK'
  BY <1>1 DEF IInv, ConnectionsOK, FlagOK, LocalOK, GotOK, linkVars, extVars
<1> QED BY <1>7, <1>9, <1>10 DEF IInv

\* What the server's map hands over was made for the connection it leads to.
LEMMA ReadAnswerStep == ASSUME IInv, NEW c \in Links, ReadAnswer(c) PROVE IInv'
<1> DEFINE a == Head(up[c])
           x == SERVER_MAPPING[a.id]
<1>1. /\ up[c] # <<>> /\ up' = [up EXCEPT ![c] = Tail(@)]
      /\ got' = IF x # None /\ ext[x] = "open" THEN [got EXCEPT ![x] = Append(@, a)] ELSE got
      /\ UNCHANGED <<linkVars, kind, ext, home, sent, TCP_FLAG, outbox, down, SERVER_MAPPING,
                     CLIENT_MAPPING, local>>
  BY DEF ReadAnswer
<1>2. up[c] \in Seq(OwnAnswer)
  BY DEF IInv, WiresOK
<1>3. a \in OwnAnswer /\ Tail(up[c]) \in Seq(OwnAnswer)
  BY <1>1, <1>2, HeadTailProperties
<1>4. WiresOK'
  BY <1>1, <1>3 DEF IInv, WiresOK
<1>5. GotOK'
  <2>1. CASE x # None /\ ext[x] = "open"
    <3>1. a \in Answer /\ a.id \in Keys /\ a.id[1] = a.from[1]
      BY <1>3 DEF OwnAnswer, Answer
    <3>2. x \in Exts /\ a \in For(x)
      BY <2>1, <3>1 DEF IInv, MappingOK, For
    <3> QED BY <1>1, <2>1, <3>2, Handed
  <2>2. CASE ~(x # None /\ ext[x] = "open")
    BY <1>1, <2>2 DEF IInv, GotOK
  <2> QED BY <2>1, <2>2
<1>6. ConnectionsOK' /\ FlagOK' /\ MappingOK' /\ LocalOK'
  BY <1>1 DEF IInv, ConnectionsOK, FlagOK, MappingOK, LocalOK, linkVars
<1> QED BY <1>4, <1>5, <1>6 DEF IInv

-----------------------------------------------------------------------------
\* A local connection keeps its id when its phase, its service's input or the
\* count of its pieces change.
LEMMA Changed ==
    ASSUME IInv, NEW l \in Keys, local[l] # None,
           NEW r \in Local, r.id = local[l].id, local' = [local EXCEPT ![l] = r],
           UNCHANGED CLIENT_MAPPING \/ \E k \in Keys \cup {None} :
               CLIENT_MAPPING' = [CLIENT_MAPPING EXCEPT ![local[l].id] = k]
    PROVE  LocalOK'
<1>1. local' \in [Keys -> Local \cup {None}]
  BY DEF IInv, LocalOK
<1>2. \A k \in Keys : local'[k] # None => local'[k].id[1] = k[1]
  BY DEF IInv, LocalOK
<1>3. CLIENT_MAPPING' \in [Keys -> Keys \cup {None}]
  BY DEF IInv, LocalOK
<1> QED BY <1>1, <1>2, <1>3 DEF LocalOK

\* A local connection with one field changed.
LEMMA Field ==
    ASSUME NEW r \in Local
    PROVE  /\ \A g \in Seq(1..MaxMsgs) :
                [r EXCEPT !.got = g] \in Local /\ [r EXCEPT !.got = g].id = r.id
           /\ \A p \in Phases :
                [r EXCEPT !.phase = p] \in Local /\ [r EXCEPT !.phase = p].id = r.id
           /\ \A n \in 0..MaxAnswers :
                [r EXCEPT !.sent = n] \in Local /\ [r EXCEPT !.sent = n].id = r.id
           /\ \A p \in Phases, g \in Seq(1..MaxMsgs) :
                /\ [r EXCEPT !.phase = p, !.got = g] \in Local
                /\ [r EXCEPT !.phase = p, !.got = g].id = r.id
<1>1. \A g \in Seq(1..MaxMsgs) :
        [r EXCEPT !.got = g] \in Local /\ [r EXCEPT !.got = g].id = r.id
  BY DEF Local
<1>2. \A p \in Phases :
        [r EXCEPT !.phase = p] \in Local /\ [r EXCEPT !.phase = p].id = r.id
  BY DEF Local
<1>3. \A n \in 0..MaxAnswers :
        [r EXCEPT !.sent = n] \in Local /\ [r EXCEPT !.sent = n].id = r.id
  BY DEF Local
<1>4. \A p \in Phases, g \in Seq(1..MaxMsgs) :
        /\ [r EXCEPT !.phase = p, !.got = g] \in Local
        /\ [r EXCEPT !.phase = p, !.got = g].id = r.id
  BY DEF Local
<1> QED BY <1>1, <1>2, <1>3, <1>4

LEMMA ReadMessageStep == ASSUME IInv, NEW c \in Links, ReadMessage(c) PROVE IInv'
<1> DEFINE m == Head(down[c])
           l == CLIENT_MAPPING[m.id]
           r == [phase |-> "connecting", id |-> m.id, link |-> c, got |-> <<>>, sent |-> 0]
<1>1. /\ down[c] # <<>> /\ down' = [down EXCEPT ![c] = Tail(@)]
      /\ UNCHANGED <<linkVars, extVars, outbox, up, SERVER_MAPPING, CLIENT_MAPPING>>
  BY DEF ReadMessage
<1>2. down[c] \in Seq(OwnMessage)
  BY DEF IInv, WiresOK
<1>3. m \in OwnMessage /\ Tail(down[c]) \in Seq(OwnMessage)
  BY <1>1, <1>2, HeadTailProperties
<1>4. WiresOK'
  BY <1>1, <1>3 DEF IInv, WiresOK
<1>5. m.key \in Keys /\ m.id \in Keys /\ m.id[1] = m.key[1] /\ m.key[2] \in 1..MaxMsgs
  BY <1>3 DEF OwnMessage, Message, Keys
<1>6. LocalOK'
  <2>1. CASE l # None /\ Reaches(l, m)
    <3>1. l \in Keys /\ local[l] \in Local /\ local[l] # None
      BY <1>5, <2>1 DEF IInv, LocalOK, Reaches, Is
    <3>2. local' = [local EXCEPT ![l] = [local[l] EXCEPT !.got = Append(@, m.key[2])]]
      BY <2>1 DEF ReadMessage, Receive
    <3> DEFINE g == Append(local[l].got, m.key[2])
    <3>3. g \in Seq(1..MaxMsgs)
      BY <1>5, <3>1 DEF Local
    <3>4. local' = [local EXCEPT ![l] = [local[l] EXCEPT !.got = g]]
      BY <3>2
    <3> HIDE DEF g, l, m
    <3> QED BY <1>1, <3>1, <3>3, <3>4, Field, Changed
  <2>2. CASE local' = [local EXCEPT ![m.key] = r]
    <3>1. r \in Local
      BY <1>5, BoundAssumption DEF Local, Phases
    <3> QED BY <1>1, <1>5, <2>2, <3>1 DEF IInv, LocalOK
  <2>3. CASE local' = local
    BY <1>1, <2>3 DEF IInv, LocalOK
  <2> QED BY <2>1, <2>2, <2>3 DEF ReadMessage, Receive
<1>7. ConnectionsOK' /\ FlagOK' /\ MappingOK' /\ GotOK'
  BY <1>1 DEF IInv, ConnectionsOK, FlagOK, MappingOK, GotOK, linkVars, extVars
<1> QED BY <1>4, <1>6, <1>7 DEF IInv

\* The step of a local connection, its record replaced by r.
LEMMA LocalStep ==
    ASSUME IInv, NEW l \in Keys, local[l] # None, NEW r \in Local, r.id = local[l].id,
           local' = [local EXCEPT ![l] = r],
           UNCHANGED CLIENT_MAPPING \/ \E k \in Keys \cup {None} :
               CLIENT_MAPPING' = [CLIENT_MAPPING EXCEPT ![local[l].id] = k],
           UNCHANGED <<linkVars, extVars, outbox, down, SERVER_MAPPING>>,
           up' \in [Links -> Seq(OwnAnswer)]
    PROVE  IInv'
<1>1. LocalOK'
  BY Changed
<1>2. ConnectionsOK' /\ FlagOK' /\ MappingOK' /\ GotOK' /\ WiresOK'
  BY DEF IInv, ConnectionsOK, FlagOK, MappingOK, GotOK, WiresOK, linkVars, extVars
<1> QED BY <1>1, <1>2 DEF IInv

LEMMA AttemptStep ==
    ASSUME IInv, NEW l \in Keys, Connected(l) \/ ConnectFails(l)
    PROVE  IInv'
<1>1. local[l] # None /\ local[l] \in Local
  BY DEF Connected, ConnectFails, Is, IInv, LocalOK
<1>2. PICK p \in Phases : local' = [local EXCEPT ![l] = [local[l] EXCEPT !.phase = p]]
  BY DEF Connected, ConnectFails, Becomes, Phases
<1>3. UNCHANGED <<linkVars, extVars, wires, SERVER_MAPPING, CLIENT_MAPPING>>
  BY DEF Connected, ConnectFails
<1>4. up' \in [Links -> Seq(OwnAnswer)]
  BY <1>3 DEF IInv, WiresOK, wires
<1> QED BY <1>1, <1>2, <1>3, <1>4, Field, LocalStep DEF wires

LEMMA ReadyStep == ASSUME IInv, NEW l \in Keys, Ready(l) PROVE IInv'
<1> DEFINE g == Append(local[l].got, l[2])
<1>1. local[l] # None /\ local[l] \in Local
  BY DEF Ready, Is, IInv, LocalOK
<1>2. g \in Seq(1..MaxMsgs)
  BY <1>1 DEF Local, Keys
<1>3. \/ local' = [local EXCEPT ![l] = [local[l] EXCEPT !.phase = "ready", !.got = g]]
      \/ local' = [local EXCEPT ![l] = [local[l] EXCEPT !.phase = "stale"]]
  BY <1>1 DEF Ready, IInv, LocalOK
<1>4. /\ CLIENT_MAPPING' = [CLIENT_MAPPING EXCEPT ![local[l].id] = l]
      /\ UNCHANGED <<linkVars, extVars, wires, SERVER_MAPPING>>
  BY DEF Ready
<1>5. up' \in [Links -> Seq(OwnAnswer)]
  BY <1>4 DEF IInv, WiresOK, wires
<1> HIDE DEF g
<1>6. PICK r \in Local : r.id = local[l].id /\ local' = [local EXCEPT ![l] = r]
  <2>1. "ready" \in Phases /\ "stale" \in Phases
    BY DEF Phases
  <2>2. CASE local' = [local EXCEPT ![l] = [local[l] EXCEPT !.phase = "ready", !.got = g]]
    BY <1>1, <1>2, <2>1, <2>2, Field
  <2>3. CASE local' = [local EXCEPT ![l] = [local[l] EXCEPT !.phase = "stale"]]
    BY <1>1, <2>1, <2>3, Field
  <2> QED BY <1>3, <2>2, <2>3
<1> QED BY <1>1, <1>4, <1>5, <1>6, LocalStep DEF wires

\* What a service writes goes out under the id of its connection's handler.
LEMMA AnswersStep == ASSUME IInv, NEW l \in Keys, Answers(l) PROVE IInv'
<1> DEFINE c == local[l].link
           a == [id |-> local[l].id, from |-> l, n |-> local[l].sent + 1,
                 re |-> IF local[l].got = <<>> THEN 0 ELSE Last(local[l].got)]
           n == local[l].sent + 1
<1>1. local[l] # None /\ local[l] \in Local /\ local[l].id[1] = l[1]
  BY DEF Answers, Is, IInv, LocalOK
<1>2. n \in 0..MaxAnswers
  BY <1>1, BoundAssumption DEF Answers, Local
<1>3. local' = [local EXCEPT ![l] = [local[l] EXCEPT !.sent = n]]
  BY DEF Answers
<1>4. UNCHANGED <<linkVars, extVars, outbox, down, SERVER_MAPPING, CLIENT_MAPPING>>
  BY DEF Answers
<1>5. a.re \in 0..MaxMsgs
  <2>1. local[l].got \in Seq(1..MaxMsgs)
    BY <1>1 DEF Local
  <2>2. CASE local[l].got = <<>>
    BY <2>2, BoundAssumption
  <2>3. CASE local[l].got # <<>>
    <3>1. Len(local[l].got) \in 1..Len(local[l].got)
      BY <2>1, <2>3, EmptySeq
    <3>2. Last(local[l].got) \in 1..MaxMsgs
      BY <2>1, <3>1, ElementOfSeq DEF Last
    <3> QED BY <2>3, <3>2, BoundAssumption
  <2> QED BY <2>2, <2>3
<1>6. a \in OwnAnswer
  BY <1>1, <1>2, <1>5 DEF OwnAnswer, Answer, Local
<1>7. up' \in [Links -> Seq(OwnAnswer)]
  <2>1. up \in [Links -> Seq(OwnAnswer)]
    BY DEF IInv, WiresOK
  <2>2. up' = [up EXCEPT ![c] = Append(@, a)] \/ up' = up
    BY DEF Answers
  <2>3. c \in Links
    BY <1>1 DEF Local
  <2> HIDE DEF a, c
  <2>4. Append(up[c], a) \in Seq(OwnAnswer)
    BY <1>6, <2>1, <2>3
  <2> QED BY <2>1, <2>2, <2>4
<1> HIDE DEF n
<1> QED BY <1>1, <1>2, <1>3, <1>4, <1>7, Field, LocalStep

LEMMA LocalEndsStep == ASSUME IInv, NEW l \in Keys, LocalEnds(l) PROVE IInv'
<1>1. local[l] # None /\ local[l] \in Local
  BY DEF LocalEnds, Is, IInv, LocalOK
<1>2. PICK p \in Phases : local' = [local EXCEPT ![l] = [local[l] EXCEPT !.phase = p]]
  BY DEF LocalEnds, Becomes, Phases
<1>3. /\ UNCHANGED <<linkVars, extVars, wires, SERVER_MAPPING>>
      /\ UNCHANGED CLIENT_MAPPING \/
           CLIENT_MAPPING' = [CLIENT_MAPPING EXCEPT ![local[l].id] = None]
  BY DEF LocalEnds
<1>4. up' \in [Links -> Seq(OwnAnswer)]
  BY <1>3 DEF IInv, WiresOK, wires
<1> QED BY <1>1, <1>2, <1>3, <1>4, Field, LocalStep DEF wires

-----------------------------------------------------------------------------
LEMMA NextInv == IInv /\ [Next]_vars => IInv'
<1> SUFFICES ASSUME IInv, [Next]_vars PROVE IInv'
  OBVIOUS
<1>1. CASE UNCHANGED vars
  BY <1>1 DEF vars, linkVars, extVars, wires, IInv, ConnectionsOK, FlagOK, MappingOK,
              WiresOK, LocalOK, GotOK
<1>2. CASE Unregister
  <2> USE <1>2 DEF Unregister, linkVars, extVars, wires
  <2>1. ConnectionsOK'
    BY DEF IInv, ConnectionsOK
  <2>2. FlagOK' /\ MappingOK' /\ LocalOK' /\ GotOK' /\ WiresOK'
    BY DEF IInv, FlagOK, MappingOK, LocalOK, GotOK, WiresOK
  <2> QED BY <2>1, <2>2 DEF IInv
<1>3. ASSUME NEW c \in Links,
             \/ Connect(c) \/ Register(c) \/ CancelRegister(c) \/ ServerEnds(c)
             \/ ClientEnds(c) \/ Flush(c) \/ ReadMessage(c) \/ ReadAnswer(c)
      PROVE  IInv'
  BY <1>3, LinkStep, FlushStep, ReadMessageStep, ReadAnswerStep
<1>4. ASSUME NEW x \in Exts,
             \/ Accept(x) \/ NoRoute(x) \/ Request(x) \/ Frame(x) \/ Chunk(x) \/ Close(x)
      PROVE  IInv'
  BY <1>4, AcceptStep, NoRouteStep, RequestStep, FrameStep, ChunkStep, CloseStep
<1>5. ASSUME NEW l \in Keys,
             \/ Connected(l) \/ ConnectFails(l) \/ Ready(l) \/ Answers(l) \/ LocalEnds(l)
      PROVE  IInv'
  BY <1>5, AttemptStep, ReadyStep, AnswersStep, LocalEndsStep
<1> QED BY <1>1, <1>2, <1>3, <1>4, <1>5 DEF Next

LEMMA Inductive == Spec => []IInv
<1> QED BY InitInv, NextInv, PTL DEF Spec

-----------------------------------------------------------------------------
\* The two processes, the wires and both maps keep their types, for any number
\* of connections and messages.
THEOREM RelayTypes == Spec => []TypeOK
<1>1. ASSUME IInv PROVE TypeOK
  <2>1. \A s : s \in Seq(OwnMessage) => s \in Seq(Message)
    BY SeqMonotonic DEF OwnMessage
  <2>2. \A s : s \in Seq(OwnAnswer) => s \in Seq(Answer)
    BY SeqMonotonic DEF OwnAnswer
  <2>3. outbox \in [Links -> Seq(Message)] /\ down \in [Links -> Seq(Message)]
    BY <1>1, <2>1 DEF IInv, WiresOK
  <2>4. up \in [Links -> Seq(Answer)]
    BY <1>1, <2>2 DEF IInv, WiresOK
  <2> QED BY <1>1, <2>3, <2>4 DEF IInv, ConnectionsOK, FlagOK, MappingOK, LocalOK, GotOK, TypeOK
<1> QED BY <1>1, Inductive, PTL

\* However connections, reconnections, ids and late answers interleave, an
\* external connection is handed only what was written for it.
THEOREM AnswersReachWhoAsked == Spec => []AnswersGoToWhoAsked
<1>1. ASSUME IInv PROVE AnswersGoToWhoAsked
  <2> SUFFICES ASSUME NEW x \in Exts, NEW i \in DOMAIN got[x]
               PROVE  got[x][i].from[1] = x
    BY DEF AnswersGoToWhoAsked
  <2>1. got[x] \in Seq(For(x))
    BY <1>1 DEF IInv, GotOK
  <2>2. got[x][i] \in For(x)
    BY <2>1
  <2> QED BY <2>2 DEF For
<1> QED BY <1>1, Inductive, PTL
=============================================================================
