------------------------------ MODULE LinkProofs ------------------------------
(***************************************************************************)
(* Proofs about TransferLink: its types, that a client notices a dead      *)
(* server, that requests arrive complete and in order, with every header   *)
(* but Host and with the url the service is to see, and that answers       *)
(* arrive; for any requests, names and timeouts.                           *)
(***************************************************************************)
EXTENDS TransferLink, SequenceTheorems, FiniteSetTheorems, TLAPS

\* The i-th request was read, and its name had a route.
Asked(i) == i \in DOMAIN asked /\ HasRoute(asked[i])

Frames == {encode(Message(i, q)) : i \in 1..MaxRequests, q \in Catalogue}
Locals == {LocalRequest(Message(i, q)) : i \in 1..MaxRequests, q \in Catalogue}
Heartbeat == encodeSys("HEALTH", 1)
Responses == {encode(Response(i)) : i \in 1..MaxRequests}
Replies == {Null, Bad} \cup {Text(i, 1) : i \in 1..MaxRequests}

HttpOK ==
    /\ asked \in Seq(Catalogue) /\ Len(asked) <= MaxRequests
    /\ reply \in Seq(Replies) /\ Len(reply) = Len(asked)
    /\ \A i \in DOMAIN reply : reply[i] \in {Null, Bad, Text(i, 1)}

\* What is on its way down are frames of requests, in order.
DownOK ==
    /\ down \in Seq(Frames)
    /\ \A k \in DOMAIN down : Asked(down[k].id) /\ down[k] = FrameOf(down[k].id)
    /\ \A k, n \in DOMAIN down : k < n => down[k].id < down[n].id

\* What the client has made of earlier ones is what they said.
HandedOK ==
    /\ handed \in Seq(Locals)
    /\ \A k \in DOMAIN handed :
         /\ Asked(handed[k].id)
         /\ handed[k] = LocalRequest(Message(handed[k].id, asked[handed[k].id]))
    /\ \A k, n \in DOMAIN handed : k < n => handed[k].id < handed[n].id
    /\ \A k \in DOMAIN handed, n \in DOMAIN down : handed[k].id < down[n].id

\* No request of those that should arrive is missing: it has arrived, or is on its
\* way, or comes after all that ever will.
NoneMissing ==
    \A i \in DOMAIN asked : Arrives(i) =>
        \/ \E k \in DOMAIN handed : handed[k].id = i
        \/ \E n \in DOMAIN down : down[n].id = i
        \/ /\ cut
           /\ \A k \in DOMAIN handed : handed[k].id < i
           /\ \A n \in DOMAIN down : down[n].id < i

\* The codec keeps bytes only behind a request that excuses what follows it.
Broken(j) == Asked(j) /\ Carried(j) /\ asked[j].method.bytes > MaxByte
CleanOK ==
    clean \/ \E j \in DOMAIN asked : Broken(j) /\ \A n \in DOMAIN down : j < down[n].id

WholeOK == DownOK /\ HandedOK /\ NoneMissing /\ CleanOK /\ clean \in BOOLEAN

UpOK ==
    /\ up \in Seq({Heartbeat} \cup Responses)
    /\ \A i \in DOMAIN up : up[i].type = "DATA" => Asked(up[i].id)
    /\ served \in 0..Len(handed)

\* How long ago the cut was is known from the timer of the client, until its
\* heartbeat is retransmitted, and from the retransmissions then.
Noticing ==
    (cut /\ end["client"] = "open") =>
        /\ since > 0 => down = <<>>
        /\ unacked["client"] = 0 => since <= idle["client"]
        /\ unacked["client"] > 0 => since < Timeout["client"] + unacked["client"]

\* An end is closed only when the network has been cut.
ClosedAfterCut == (\E e \in Ends : end[e] = "closed") => cut

TimeOK ==
    /\ cut \in BOOLEAN
    /\ end \in [Ends -> {"open", "closed"}]
    /\ idle \in [Ends -> Nat] /\ \A e \in Ends : idle[e] <= Timeout[e]
    /\ unacked \in [Ends -> 0..(GiveUp + 1)]
    /\ since \in 0..KeepAlive
    /\ ~cut => since = 0 /\ \A e \in Ends : unacked[e] = 0
    /\ ClosedAfterCut
    /\ Noticing

IInv == HttpOK /\ WholeOK /\ UpOK /\ AnswersArrive /\ TimeOK

-----------------------------------------------------------------------------
(* The codec *)

\* A length that one signed byte holds is read as it was written, any other is not
\* (MessageCodec 82-90, 157, 169).
LEMMA ByteLength ==
    ASSUME NEW n \in Nat
    PROVE  SignedByte(n) = n <=> n <= MaxByte
<1> DEFINE w == 2 * (MaxByte + 1)
<1>1. MaxByte \in Nat /\ w \in Nat \ {0}
  BY LinkAssumption
<1>2. (n + MaxByte + 1) % w \in 0..(w - 1)
  BY <1>1
<1>3. CASE n <= MaxByte
  <2>1. n + MaxByte + 1 \in 0..(w - 1)
    BY <1>1, <1>3
  <2>2. (n + MaxByte + 1) % w = n + MaxByte + 1
    BY <1>1, <2>1
  <2> QED BY <1>1, <1>3, <2>2 DEF SignedByte
<1>4. CASE ~(n <= MaxByte)
  <2> HIDE DEF w
  <2>1. SignedByte(n) = ((n + MaxByte + 1) % w) - (MaxByte + 1)
    BY DEF SignedByte, w
  <2>2. SignedByte(n) <= MaxByte
    BY <1>1, <1>2, <2>1 DEF w
  <2> QED BY <1>1, <1>4, <2>2, <2>1, <1>2
<1> QED BY <1>3, <1>4

LEMMA RequestFields ==
    ASSUME NEW q \in Catalogue
    PROVE  /\ q.uri \in Seq(Range(q.uri)) /\ Len(q.uri) \in Nat \ {0}
           /\ q.method.bytes \in Nat \ {0}
           /\ q.body = Null \/ q.body.bytes \in Nat \ {0}
           /\ q.heads \in Seq(Range(q.heads))
<1>1. IsRequest(q)
  BY LinkAssumption
<1> QED BY <1>1 DEF IsRequest

\* The frame of a request can be read if and only if the length of its method fits
\* its byte.
LEMMA FrameInPlace ==
    ASSUME NEW i, NEW q \in Catalogue
    PROVE  InPlace(encode(Message(i, q))) <=> q.method.bytes <= MaxByte
<1> DEFINE f == encode(Message(i, q))
<1>1. \A k \in TextFields \ {"method", "version"} : f[k].len = f[k].text.bytes
  BY DEF TextFields, encode, writeInt
<1>2. f.method.len = SignedByte(q.method.bytes) /\ f.method.text.bytes = q.method.bytes
  BY DEF encode, writeByte, Message, DataMessage
<1>3. f.version.len = f.version.text.bytes
  <2>1. f.version.len = SignedByte(Version.bytes) /\ f.version.text.bytes = Version.bytes
    BY DEF encode, writeByte, Message, DataMessage
  <2> QED BY <2>1, ByteLength, LinkAssumption
<1>4. InPlace(f) <=> f.method.len = f.method.text.bytes
  BY <1>1, <1>3 DEF InPlace, TextFields
<1> QED BY <1>2, <1>4, ByteLength, RequestFields

\* Decoding undoes encoding (MessageCodec 34-100, 102-202).
LEMMA DecodeUndoesEncode ==
    ASSUME NEW i, NEW q \in Catalogue, InPlace(encode(Message(i, q)))
    PROVE  decode(encode(Message(i, q))) = Message(i, q)
<1> DEFINE m == Message(i, q)
           f == encode(m)
<1>1. \A k \in TextFields : f[k].text = m[k] /\ f[k].len = m[k].bytes
  <2>1. \A k \in TextFields : f[k].text = m[k]
    BY DEF TextFields, encode, writeInt, writeByte
  <2> QED BY <2>1 DEF InPlace
<1>2. \A k \in TextFields : m[k] = Null \/ m[k].bytes # 0
  BY RequestFields, LinkAssumption DEF TextFields, Message, DataMessage, Text, HeadsOf
<1>3. Null.bytes = 0
  BY DEF Null, Text
<1>4. \A k \in TextFields : read(f[k]) = m[k]
  BY <1>1, <1>2, <1>3 DEF read
<1>5. f.id = m.id /\ f.command = m.command
  BY DEF encode
<1>6. m = [id |-> m.id, command |-> m.command, dstServer |-> m.dstServer, url |-> m.url,
           method |-> m.method, version |-> m.version, heads |-> m.heads, bytes |-> m.bytes]
  BY DEF Message, DataMessage
<1> HIDE DEF m, f
<1>7. decode(f) = m
  BY <1>4, <1>5, <1>6 DEF decode, TextFields
<1> QED BY <1>7 DEF m, f

LEMMA FrameFacts ==
    ASSUME NEW i
    PROVE  /\ \A q : encode(Message(i, q)).id = i /\ Message(i, q).id = i
           /\ \A q : LocalRequest(Message(i, q)).id = i
           /\ encode(Response(i)).id = i /\ encode(Response(i)).type = "DATA"
           /\ decode(encode(Response(i))).bytes = Text(i, 1)
           /\ Heartbeat.type = "SYS"
<1>1. encode(Response(i)).bytes = [len |-> 1, text |-> Text(i, 1)]
  BY DEF encode, Response, DataMessage, writeInt, Text
<1>2. decode(encode(Response(i))).bytes = Text(i, 1)
  BY <1>1 DEF decode, read
<1> QED BY <1>2 DEF encode, Message, DataMessage, LocalRequest, Response, Heartbeat, encodeSys

\* If no header but Host is repeated, all others are sent (HttpServerHandler 66,
\* 78-79).
LEMMA HeadsWhole ==
    ASSUME NEW q \in Catalogue,
           \A m, n \in DOMAIN q.heads :
               m # n /\ q.heads[m].name \notin Hosts => q.heads[m].name # q.heads[n].name
    PROVE  OwnHeads(HeadsOf(q).of) = OwnHeads(Range(q.heads))
<1> DEFINE last(i) == \A j \in DOMAIN q.heads : q.heads[j].name = q.heads[i].name => j <= i
<1>1. \A i \in DOMAIN q.heads : i \in Nat
  BY RequestFields
<1>2. HeadsOf(q).of = {q.heads[i] : i \in {i \in DOMAIN q.heads : last(i)}}
  BY DEF HeadsOf, Text
<1>3. ASSUME NEW i \in DOMAIN q.heads, q.heads[i].name \notin Hosts PROVE last(i)
  BY <1>1, <1>3
<1> HIDE DEF last
<1> QED BY <1>2, <1>3 DEF OwnHeads, Range

-----------------------------------------------------------------------------
(* What the parts of the invariant need to stay as they are *)

LEMMA HttpSame ==
    ASSUME IInv, UNCHANGED httpVars
    PROVE  HttpOK'
BY DEF IInv, HttpOK, httpVars

LEMMA WholeSame ==
    ASSUME IInv, UNCHANGED <<asked, down, handed, clean, cut>>
    PROVE  WholeOK'
<1>1. \A i : Asked(i)' = Asked(i) /\ FrameOf(i)' = FrameOf(i) /\ Arrives(i)' = Arrives(i)
             /\ Broken(i)' = Broken(i)
  BY DEF Asked, FrameOf, Arrives, Carried, Broken
<1>2. DownOK'
  BY <1>1 DEF IInv, WholeOK, DownOK
<1>3. HandedOK'
  BY <1>1 DEF IInv, WholeOK, HandedOK
<1>4. NoneMissing'
  BY <1>1 DEF IInv, WholeOK, NoneMissing
<1>5. CleanOK'
  BY <1>1 DEF IInv, WholeOK, CleanOK
<1> QED BY <1>2, <1>3, <1>4, <1>5 DEF IInv, WholeOK

LEMMA UpSame ==
    ASSUME IInv, UNCHANGED <<asked, up, served, handed>>
    PROVE  UpOK'
BY DEF IInv, UpOK, Asked

LEMMA AnswersSame ==
    ASSUME IInv, UNCHANGED <<asked, reply, up, served, handed>>, cut => cut'
    PROVE  AnswersArrive'
BY DEF IInv, AnswersArrive

LEMMA TimeSame ==
    ASSUME IInv, UNCHANGED <<end, cut, timers>>, down' = down \/ (cut => since = 0)
    PROVE  TimeOK'
<1>1. ClosedAfterCut'
  BY DEF IInv, TimeOK, ClosedAfterCut
<1>2. Noticing'
  BY DEF IInv, TimeOK, Noticing, timers
<1> QED BY <1>1, <1>2 DEF IInv, TimeOK, timers

\* An end that reads or writes restarts its timer; the client, if it writes what is
\* retransmitted or has just read what came before the cut.
LEMMA RestartTime ==
    ASSUME IInv, NEW e \in Ends, Restart(e), UNCHANGED <<end, cut, since>>,
           down' = down \/ (cut => since = 0) ,
           e = "client" /\ cut => unacked["client"] > 0 \/ unacked'["client"] > 0 \/ since = 0,
           unacked' = unacked \/ Retransmit(e)
    PROVE  TimeOK'
<1>1. /\ idle' \in [Ends -> Nat] /\ \A x \in Ends : idle'[x] <= Timeout[x]
      /\ \A x \in Ends \ {e} : idle'[x] = idle[x]
  <2>1. idle \in [Ends -> Nat] /\ \A x \in Ends : idle[x] <= Timeout[x] /\ Timeout[x] \in Nat
    BY LinkAssumption DEF IInv, TimeOK
  <2>2. idle' = [x \in Ends |-> IF x = e THEN 0 ELSE idle[x]]
    BY <2>1 DEF Restart
  <2> QED BY <2>1, <2>2
<1>2. /\ unacked' \in [Ends -> 0..(GiveUp + 1)]
      /\ \A x \in Ends : unacked'[x] = unacked[x] \/ (cut /\ unacked[x] = 0 /\ unacked'[x] = 1)
  BY LinkAssumption DEF IInv, TimeOK, Retransmit
<1>3. ClosedAfterCut'
  BY DEF IInv, TimeOK, ClosedAfterCut
<1>4. Noticing'
  <2>1. SUFFICES ASSUME cut, end["client"] = "open"
                 PROVE  /\ since > 0 => down' = <<>>
                        /\ unacked'["client"] = 0 => since <= idle'["client"]
                        /\ unacked'["client"] > 0 => since < Timeout["client"] + unacked'["client"]
    BY DEF Noticing
  <2>2. /\ "client" \in Ends /\ since \in Nat /\ idle["client"] \in Nat
        /\ Timeout["client"] \in Nat \ {0} /\ idle["client"] <= Timeout["client"]
        /\ unacked["client"] \in Nat
    BY LinkAssumption DEF IInv, TimeOK, Ends
  <2>3. /\ since > 0 => down = <<>>
        /\ unacked["client"] = 0 => since <= idle["client"]
        /\ unacked["client"] > 0 => since < Timeout["client"] + unacked["client"]
    BY <2>1 DEF IInv, TimeOK, Noticing
  <2>4. unacked'["client"] = 0 => since <= idle'["client"]
    BY <1>1, <1>2, <2>1, <2>2, <2>3
  <2>5. unacked'["client"] > 0 => since < Timeout["client"] + unacked'["client"]
    BY <1>2, <2>2, <2>3
  <2> QED BY <2>1, <2>2, <2>3, <2>4, <2>5
<1> QED BY <1>1, <1>2, <1>3, <1>4 DEF IInv, TimeOK

\* After the cut, what arrived before it is read before time goes on.
LEMMA ReadAtOnce ==
    ASSUME IInv, cut, end["client"] = "open", down # <<>>
    PROVE  since = 0
BY DEF IInv, TimeOK, Noticing

-----------------------------------------------------------------------------
(* The default port *)

AskedGrows(q, r) ==
    /\ asked'[Len(asked) + 1] = q /\ reply'[Len(asked) + 1] = r
    /\ Len(asked) \in Nat /\ Len(asked) < MaxRequests
    /\ DOMAIN asked = 1..Len(asked) /\ DOMAIN reply = 1..Len(asked)
    /\ DOMAIN asked' = 1..(Len(asked) + 1) /\ DOMAIN reply' = 1..(Len(asked) + 1)
    /\ \A i \in DOMAIN asked :
         /\ asked'[i] = asked[i] /\ reply'[i] = reply[i]
         /\ Asked(i)' = Asked(i) /\ FrameOf(i)' = FrameOf(i)
         /\ Arrives(i)' = Arrives(i) /\ Broken(i)' = Broken(i)

LEMMA ReadsKeeps ==
    ASSUME IInv, NEW q \in Catalogue, NEW r \in {Null, Bad}, Reads(q, r)
    PROVE  HttpOK' /\ AskedGrows(q, r)
<1>1. /\ asked \in Seq(Catalogue) /\ reply \in Seq(Replies) /\ Len(asked) = Len(reply)
      /\ asked' = Append(asked, q) /\ reply' = Append(reply, r) /\ Len(asked) < MaxRequests
      /\ \A i \in DOMAIN reply : reply[i] \in {Null, Bad, Text(i, 1)}
      /\ r \in Replies
  BY DEF IInv, HttpOK, Reads, Replies
<1>2. /\ asked' \in Seq(Catalogue) /\ reply' \in Seq(Replies)
      /\ Len(asked') = Len(asked) + 1 /\ Len(reply') = Len(reply) + 1
      /\ Len(asked) \in Nat /\ DOMAIN asked = 1..Len(asked)
      /\ DOMAIN asked' = 1..(Len(asked) + 1) /\ DOMAIN reply' = 1..(Len(asked) + 1)
      /\ DOMAIN reply = 1..Len(asked)
      /\ \A i \in 1..Len(asked) : asked'[i] = asked[i] /\ reply'[i] = reply[i]
      /\ asked'[Len(asked) + 1] = q /\ reply'[Len(asked) + 1] = r
  BY <1>1
<1>3. MaxRequests \in Nat
  BY LinkAssumption
<1>4. HttpOK'
  <2>1. \A i \in DOMAIN reply' : reply'[i] \in {Null, Bad, Text(i, 1)}
    BY <1>1, <1>2
  <2> QED BY <1>1, <1>2, <1>3, <2>1 DEF HttpOK
<1>5. ASSUME NEW i \in DOMAIN asked
      PROVE  /\ Asked(i)' = Asked(i) /\ FrameOf(i)' = FrameOf(i)
             /\ Arrives(i)' = Arrives(i) /\ Broken(i)' = Broken(i)
  <2>1. \A j \in 1..i : j \in DOMAIN asked /\ j \in DOMAIN asked' /\ asked'[j] = asked[j]
    BY <1>2
  <2>2. i \in 1..i
    BY <1>2
  <2>3. \A j \in 1..i : FrameOf(j)' = FrameOf(j) /\ Carried(j)' = Carried(j) /\ Asked(j)' = Asked(j)
    BY <2>1 DEF FrameOf, Carried, Asked
  <2>4. (\A j \in 1..i : Carried(j) => asked[j].method.bytes <= MaxByte)'
          = (\A j \in 1..i : Carried(j) => asked[j].method.bytes <= MaxByte)
    BY <2>1, <2>3
  <2> QED BY <2>1, <2>2, <2>3, <2>4 DEF Arrives, Broken
<1> QED BY <1>1, <1>2, <1>4, <1>5 DEF AskedGrows

\* A request that is not forwarded has no route, or comes after the cut.
LEMMA ReadsWhole ==
    ASSUME IInv, NEW q \in Catalogue, NEW r \in {Null, Bad}, Reads(q, r),
           HasRoute(q) => cut,
           UNCHANGED <<down, handed, clean, cut>>
    PROVE  WholeOK'
<1>0. AskedGrows(q, r)
  BY ReadsKeeps
<1>1. UNCHANGED <<down, handed, clean, cut>>
  OBVIOUS
<1>2. \A i : Asked(i) => i \in DOMAIN asked
  BY DEF Asked
<1>3. DownOK'
  BY <1>1, <1>2, <1>0 DEF AskedGrows, IInv, WholeOK, DownOK
<1>4. HandedOK'
  BY <1>1, <1>2, <1>0 DEF AskedGrows, IInv, WholeOK, HandedOK
<1>5. NoneMissing'
  <2>1. ASSUME NEW i \in DOMAIN asked', Arrives(i)', i \in DOMAIN asked
        PROVE  \/ \E k \in DOMAIN handed : handed[k].id = i
               \/ \E n \in DOMAIN down : down[n].id = i
               \/ /\ cut
                  /\ \A k \in DOMAIN handed : handed[k].id < i
                  /\ \A n \in DOMAIN down : down[n].id < i
    BY <2>1, <1>0 DEF AskedGrows, IInv, WholeOK, NoneMissing
  <2>2. ASSUME NEW i \in DOMAIN asked', Arrives(i)', i \notin DOMAIN asked
        PROVE  /\ cut
               /\ \A k \in DOMAIN handed : handed[k].id < i
               /\ \A n \in DOMAIN down : down[n].id < i
    <3>1. asked'[i] = q
      BY <2>2, <1>0 DEF AskedGrows
    <3>2. HasRoute(q)
      BY <2>2, <3>1 DEF Arrives, Carried
    <3>3. \A j \in DOMAIN asked : j < i
      BY <2>2, <1>0 DEF AskedGrows
    <3> QED BY <3>2, <3>3, <1>2 DEF IInv, WholeOK, HandedOK, DownOK
  <2>3. /\ handed' = handed /\ down' = down /\ cut' = cut
    BY <1>1
  <2> QED BY <2>1, <2>2, <2>3 DEF NoneMissing
<1>6. CleanOK'
  <2>1. ASSUME ~clean'
        PROVE  \E j \in DOMAIN asked' : Broken(j)' /\ \A n \in DOMAIN down' : j < down'[n].id
    <3>1. PICK j \in DOMAIN asked : Broken(j) /\ \A n \in DOMAIN down : j < down[n].id
      BY <1>1, <2>1 DEF IInv, WholeOK, CleanOK
    <3>2. j \in DOMAIN asked' /\ Broken(j)'
      BY <3>1, <1>0 DEF AskedGrows
    <3> QED BY <1>1, <3>1, <3>2
  <2> QED BY <2>1 DEF CleanOK
<1> QED BY <1>1, <1>3, <1>4, <1>5, <1>6 DEF IInv, WholeOK

LEMMA ReadsAnswers ==
    ASSUME IInv, NEW q \in Catalogue, NEW r \in {Null, Bad}, Reads(q, r),
           r = Bad => ~HasRoute(q) \/ cut,
           UNCHANGED <<up, handed, served, cut>>
    PROVE  UpOK' /\ AnswersArrive'
<1>0. AskedGrows(q, r)
  BY ReadsKeeps
<1>1. UpOK'
  <2>1. \A i : Asked(i) => Asked(i)'
    BY <1>0 DEF AskedGrows, Asked
  <2> QED BY <2>1 DEF IInv, UpOK
<1>2. ASSUME NEW k \in 1..served
      PROVE  handed[k].id \in DOMAIN asked /\ reply'[handed[k].id] = reply[handed[k].id]
  <2>1. k \in DOMAIN handed
    BY DEF IInv, UpOK, WholeOK, HandedOK
  <2> QED BY <2>1, <1>0 DEF IInv, WholeOK, HandedOK, Asked, AskedGrows
<1>3. ASSUME NEW i \in DOMAIN reply', reply'[i] = Bad
      PROVE  ~HasRoute(asked'[i]) \/ cut'
  <2>1. CASE i \in DOMAIN asked
    BY <1>0, <1>3, <2>1 DEF AskedGrows, IInv, AnswersArrive
  <2>2. CASE i \notin DOMAIN asked
    <3>1. i = Len(asked) + 1
      BY <1>0, <1>3, <2>2 DEF AskedGrows
    <3> QED BY <1>0, <1>3, <3>1 DEF AskedGrows
  <2> QED BY <2>1, <2>2
<1>4. \A k \in 1..served' :
        \/ reply'[handed'[k].id] = Text(handed'[k].id, 1)
        \/ cut'
        \/ \E i \in DOMAIN up' : up'[i].type = "DATA" /\ up'[i].id = handed'[k].id
  BY <1>2 DEF IInv, AnswersArrive
<1> QED BY <1>1, <1>3, <1>4 DEF AnswersArrive

LEMMA RequestRefusedKeeps ==
    ASSUME IInv, NEW q \in Catalogue, RequestRefused(q)
    PROVE  IInv'
<1>1. /\ HasRoute(q) => end["server"] = "closed"
      /\ Reads(q, Bad) /\ Bad \in {Null, Bad}
      /\ UNCHANGED <<down, up, handed, served, clean, end, cut, timers>>
  BY DEF RequestRefused, wires, localVars
<1>2. HasRoute(q) => cut
  BY <1>1 DEF IInv, TimeOK, ClosedAfterCut, Ends
<1>3. HttpOK'
  BY <1>1, ReadsKeeps
<1>4. WholeOK'
  BY <1>1, <1>2, ReadsWhole
<1>5. UpOK' /\ AnswersArrive'
  BY <1>1, <1>2, ReadsAnswers
<1>6. TimeOK'
  BY <1>1, TimeSame
<1> QED BY <1>3, <1>4, <1>5, <1>6 DEF IInv

LEMMA RequestThrowsKeeps ==
    ASSUME IInv, NEW q \in Catalogue, RequestThrows(q)
    PROVE  IInv'
<1>1. /\ ~HasRoute(q)
      /\ Reads(q, Null) /\ Null \in {Null, Bad}
      /\ UNCHANGED <<down, up, handed, served, clean, end, cut, timers>>
  BY DEF RequestThrows, HasRoute, wires, localVars
<1>2. HttpOK'
  BY <1>1, ReadsKeeps
<1>3. WholeOK'
  BY <1>1, ReadsWhole
<1>4. UpOK' /\ AnswersArrive'
  BY <1>1, ReadsAnswers
<1>5. TimeOK'
  BY <1>1, TimeSame
<1> QED BY <1>2, <1>3, <1>4, <1>5 DEF IInv

\* The new frame is behind all others, and is of the newest request.
LEMMA ForwardedWhole ==
    ASSUME IInv, NEW q \in Catalogue, Reads(q, Null), HasRoute(q), ~cut,
           down' = Append(down, encode(Message(Len(asked) + 1, q))),
           UNCHANGED <<handed, clean, cut>>
    PROVE  WholeOK'
<1>0. AskedGrows(q, Null)
  BY ReadsKeeps
<1>1. PICK new : new = Len(asked) + 1
  OBVIOUS
<1>2. PICK f : f = encode(Message(new, q))
  OBVIOUS
<1>3. /\ asked'[new] = q /\ new \in DOMAIN asked' /\ new \in 1..MaxRequests
      /\ new \notin DOMAIN asked /\ \A i \in DOMAIN asked : i < new /\ i \in DOMAIN asked'
      /\ \A i \in DOMAIN asked' : i \in DOMAIN asked \/ i = new
  BY <1>0, <1>1, LinkAssumption DEF AskedGrows
<1>4. f.id = new /\ f \in Frames /\ new \in DOMAIN asked' /\ HasRoute(asked'[new])
      /\ f = encode(Message(new, asked'[new]))
  <2>1. f.id = new
    BY <1>2, FrameFacts
  <2>2. f \in Frames
    BY <1>2, <1>3 DEF Frames
  <2>3. f = encode(Message(new, asked'[new]))
    BY <1>2, <1>3
  <2> QED BY <2>1, <2>2, <2>3, <1>3
<1>5. /\ down \in Seq(Frames) /\ down' \in Seq(Frames)
      /\ DOMAIN down' = 1..(Len(down) + 1) /\ DOMAIN down = 1..Len(down) /\ Len(down) \in Nat
      /\ \A k \in DOMAIN down : down'[k] = down[k]
      /\ down'[Len(down) + 1] = f
  <2>1. down' = Append(down, f) /\ down \in Seq(Frames)
    BY <1>1, <1>2 DEF IInv, WholeOK, DownOK
  <2> QED BY <2>1, <1>4
<1>6. \A k \in DOMAIN down : Asked(down[k].id) /\ down[k] = FrameOf(down[k].id) /\ down[k].id < new
  BY <1>3 DEF IInv, WholeOK, DownOK, Asked
<1>7. \A i : Asked(i) => /\ Asked(i)' /\ FrameOf(i)' = FrameOf(i) /\ asked'[i] = asked[i]
                         /\ i \in DOMAIN asked' /\ HasRoute(asked'[i])
                         /\ FrameOf(i) = encode(Message(i, asked'[i]))
  BY <1>0 DEF AskedGrows, Asked, FrameOf
<1>8. DownOK'
  <2>1. ASSUME NEW k \in DOMAIN down'
        PROVE  /\ down'[k].id \in DOMAIN asked' /\ HasRoute(asked'[down'[k].id])
               /\ down'[k] = encode(Message(down'[k].id, asked'[down'[k].id]))
    <3>1. k \in DOMAIN down \/ k = Len(down) + 1
      BY <1>5
    <3>2. CASE k \in DOMAIN down
      BY <3>2, <1>5, <1>6, <1>7
    <3>3. CASE k = Len(down) + 1
      BY <3>3, <1>4, <1>5
    <3> QED BY <3>1, <3>2, <3>3
  <2>2. ASSUME NEW k \in DOMAIN down', NEW n \in DOMAIN down', k < n
        PROVE  down'[k].id < down'[n].id
    <3>1. k \in DOMAIN down
      BY <1>5, <2>2
    <3>2. n \in DOMAIN down \/ n = Len(down) + 1
      BY <1>5
    <3> QED BY <3>1, <3>2, <2>2, <1>4, <1>5, <1>6 DEF IInv, WholeOK, DownOK
  <2> QED BY <1>5, <2>1, <2>2 DEF DownOK, Asked, FrameOf
<1>9. HandedOK'
  <2>1. \A k \in DOMAIN handed : handed[k].id < new
    BY <1>3 DEF IInv, WholeOK, HandedOK, Asked
  <2>2. \A k \in DOMAIN handed, n \in DOMAIN down' : handed[k].id < down'[n].id
    BY <2>1, <1>4, <1>5 DEF IInv, WholeOK, HandedOK
  <2> QED BY <2>2, <1>7 DEF IInv, WholeOK, HandedOK
<1>10. NoneMissing'
  <2>1. ASSUME NEW i \in DOMAIN asked', Arrives(i)'
        PROVE  \/ \E k \in DOMAIN handed : handed[k].id = i
               \/ \E n \in DOMAIN down' : down'[n].id = i
    <3>1. CASE i = new
      BY <3>1, <1>4, <1>5
    <3>2. CASE i \in DOMAIN asked
      <4>1. \/ \E k \in DOMAIN handed : handed[k].id = i
            \/ \E n \in DOMAIN down : down[n].id = i
        BY <3>2, <2>1, <1>0 DEF AskedGrows, IInv, WholeOK, NoneMissing
      <4> QED BY <4>1, <1>5
    <3> QED BY <3>1, <3>2, <1>3
  <2> QED BY <2>1 DEF NoneMissing
<1>11. CleanOK'
  <2>1. ASSUME ~clean'
        PROVE  \E j \in DOMAIN asked' : Broken(j)' /\ \A n \in DOMAIN down' : j < down'[n].id
    <3>1. PICK j \in DOMAIN asked : Broken(j) /\ \A n \in DOMAIN down : j < down[n].id
      BY <2>1 DEF IInv, WholeOK, CleanOK
    <3>2. j \in DOMAIN asked' /\ Broken(j)' /\ j < new
      BY <3>1, <1>0, <1>3 DEF AskedGrows
    <3>3. \A n \in DOMAIN down' : j < down'[n].id
      BY <3>1, <3>2, <1>4, <1>5
    <3> QED BY <3>2, <3>3
  <2> QED BY <2>1 DEF CleanOK
<1> QED BY <1>8, <1>9, <1>10, <1>11 DEF IInv, WholeOK

LEMMA RequestForwardedKeeps ==
    ASSUME IInv, NEW q \in Catalogue, RequestForwarded(q)
    PROVE  IInv'
<1>1. /\ HasRoute(q) /\ Reads(q, Null) /\ Null \in {Null, Bad}
      /\ down' = IF cut THEN down ELSE Append(down, encode(Message(Len(asked) + 1, q)))
      /\ Restart("server") /\ Retransmit("server")
      /\ UNCHANGED <<up, handed, served, clean, end, cut, since>>
  BY DEF RequestForwarded, Send, localVars
<1>2. HttpOK'
  BY <1>1, ReadsKeeps
<1>3. WholeOK'
  <2>1. CASE cut
    BY <1>1, <2>1, ReadsWhole
  <2>2. CASE ~cut
    BY <1>1, <2>2, ForwardedWhole
  <2> QED BY <2>1, <2>2
<1>4. UpOK' /\ AnswersArrive'
  <2>1. Null = Bad => ~HasRoute(q) \/ cut
    <3>1. 1 \in 1..MaxRequests
      BY <1>1, LinkAssumption, ReadsKeeps DEF AskedGrows
    <3>2. Null # Bad
      BY <3>1, LinkAssumption
    <3> QED BY <3>2
  <2> QED BY <1>1, <2>1, ReadsAnswers
<1>5. TimeOK'
  <2>1. "server" \in Ends /\ "server" # "client"
    BY DEF Ends
  <2>2. down' = down \/ (cut => since = 0)
    BY <1>1
  <2> QED BY <1>1, <2>1, <2>2, RestartTime
<1> QED BY <1>2, <1>3, <1>4, <1>5 DEF IInv

-----------------------------------------------------------------------------
(* The client *)

LEMMA NextFrameKeeps ==
    ASSUME IInv, NextFrame
    PROVE  /\ HttpOK' /\ DownOK'
           /\ Asked(Head(down).id) /\ Head(down) = FrameOf(Head(down).id)
           /\ \A k \in DOMAIN handed : handed[k].id < Head(down).id
           /\ \A k \in DOMAIN down :
                down[k] = Head(down) \/ \E n \in DOMAIN down' : down'[n] = down[k]
           /\ \A n \in DOMAIN down' :
                /\ \E k \in DOMAIN down : down'[n] = down[k]
                /\ Head(down).id < down'[n].id
<1>1. UNCHANGED <<asked, reply>> /\ down # <<>> /\ down' = Tail(down)
  BY DEF NextFrame, httpVars
<1>2. /\ down \in Seq(Frames)
      /\ \A k \in DOMAIN down : Asked(down[k].id) /\ down[k] = FrameOf(down[k].id)
      /\ \A k, n \in DOMAIN down : k < n => down[k].id < down[n].id
  BY DEF IInv, WholeOK, DownOK
<1>3. /\ down' \in Seq(Frames) /\ 1 \in DOMAIN down /\ Head(down) = down[1]
      /\ Len(down) \in Nat \ {0} /\ DOMAIN down = 1..Len(down)
      /\ DOMAIN down' = 1..(Len(down) - 1)
      /\ \A n \in DOMAIN down' : down'[n] = down[n + 1]
  BY <1>1, <1>2
<1>4. \A n \in DOMAIN down' : n + 1 \in DOMAIN down /\ 1 < n + 1
  BY <1>3
<1>5. HttpOK'
  BY <1>1, HttpSame DEF httpVars
<1>6. DownOK'
  <2>1. \A n \in DOMAIN down' : Asked(down'[n].id) /\ down'[n] = FrameOf(down'[n].id)
    BY <1>2, <1>3, <1>4
  <2>2. ASSUME NEW k \in DOMAIN down', NEW n \in DOMAIN down', k < n
        PROVE  down'[k].id < down'[n].id
    <3>1. k + 1 \in DOMAIN down /\ n + 1 \in DOMAIN down /\ k + 1 < n + 1
      BY <1>3, <2>2
    <3> QED BY <3>1, <1>2, <1>3
  <2> QED BY <1>1, <1>3, <2>1, <2>2 DEF DownOK, Asked, FrameOf
<1>7. \A k \in DOMAIN down : down[k] = Head(down) \/ \E n \in DOMAIN down' : down'[n] = down[k]
  <2>1. ASSUME NEW k \in DOMAIN down, k # 1
        PROVE  \E n \in DOMAIN down' : down'[n] = down[k]
    <3>1. k - 1 \in DOMAIN down' /\ down'[k - 1] = down[k]
      BY <1>3, <2>1
    <3> QED BY <3>1
  <2> QED BY <2>1, <1>3
<1>8. \A n \in DOMAIN down' : Head(down).id < down'[n].id /\ \E k \in DOMAIN down : down'[n] = down[k]
  BY <1>2, <1>3, <1>4
<1>9. \A k \in DOMAIN handed : handed[k].id < Head(down).id
  BY <1>3 DEF IInv, WholeOK, HandedOK
<1> QED BY <1>2, <1>3, <1>5, <1>6, <1>7, <1>8, <1>9

\* A frame that is not read is one that need not arrive.
LEMMA NotReadKeeps ==
    ASSUME IInv, NextFrame, UNCHANGED <<handed, idle>>,
           ~Arrives(Head(down).id),
           clean' \in BOOLEAN,
           \/ clean'
           \/ clean /\ Broken(Head(down).id)
           \/ ~clean
    PROVE  IInv'
<1>0. /\ UNCHANGED <<asked, reply, up, served, handed, end, cut, idle, unacked, since>>
      /\ end["client"] = "open" /\ down # <<>>
  BY DEF NextFrame, httpVars
<1>1. \A i : Asked(i)' = Asked(i) /\ Arrives(i)' = Arrives(i) /\ Broken(i)' = Broken(i)
             /\ FrameOf(i)' = FrameOf(i)
  BY <1>0 DEF Asked, Arrives, Carried, Broken, FrameOf
<1>2. HandedOK'
  <2>1. \A k \in DOMAIN handed, n \in DOMAIN down' : handed[k].id < down'[n].id
    BY NextFrameKeeps DEF IInv, WholeOK, HandedOK
  <2> QED BY <2>1, <1>0, <1>1 DEF IInv, WholeOK, HandedOK
<1>3. NoneMissing'
  <2>1. ASSUME NEW i \in DOMAIN asked, Arrives(i)
        PROVE  \/ \E k \in DOMAIN handed : handed[k].id = i
               \/ \E n \in DOMAIN down' : down'[n].id = i
               \/ /\ cut
                  /\ \A k \in DOMAIN handed : handed[k].id < i
                  /\ \A n \in DOMAIN down' : down'[n].id < i
    <3>1. i # Head(down).id
      BY <2>1
    <3>2. CASE \E n \in DOMAIN down : down[n].id = i
      BY <3>1, <3>2, NextFrameKeeps
    <3>3. CASE ~\E n \in DOMAIN down : down[n].id = i
      BY <3>3, <2>1, NextFrameKeeps DEF IInv, WholeOK, NoneMissing
    <3> QED BY <3>2, <3>3
  <2> QED BY <2>1, <1>0, <1>1 DEF NoneMissing
<1>4. CleanOK'
  <2>1. ASSUME ~clean'
        PROVE  \E j \in DOMAIN asked : Broken(j) /\ \A n \in DOMAIN down' : j < down'[n].id
    <3>1. CASE clean
      <4>1. Broken(Head(down).id) /\ Head(down).id \in DOMAIN asked
        BY <2>1, <3>1, NextFrameKeeps DEF Asked
      <4> QED BY <4>1, NextFrameKeeps
    <3>2. CASE ~clean
      <4>1. PICK j \in DOMAIN asked : Broken(j) /\ \A n \in DOMAIN down : j < down[n].id
        BY <3>2 DEF IInv, WholeOK, CleanOK
      <4> QED BY <4>1, NextFrameKeeps
    <3> QED BY <3>1, <3>2
  <2> QED BY <2>1, <1>0, <1>1 DEF CleanOK
<1>5. WholeOK'
  BY <1>2, <1>3, <1>4, NextFrameKeeps DEF WholeOK
<1>6. UpOK' /\ AnswersArrive'
  BY <1>0, UpSame, AnswersSame
<1>7. TimeOK'
  <2>1. cut => since = 0
    BY <1>0, ReadAtOnce
  <2> QED BY <1>0, <2>1, TimeSame DEF timers
<1> QED BY <1>5, <1>6, <1>7, NextFrameKeeps DEF IInv

LEMMA FrameDroppedKeeps ==
    ASSUME IInv, FrameDropped
    PROVE  IInv'
<1>1. NextFrame /\ TooLong(Head(down)) /\ UNCHANGED <<handed, clean, idle>>
  BY DEF FrameDropped
<1>2. ~Arrives(Head(down).id)
  BY <1>1, NextFrameKeeps DEF Arrives, Carried
<1> QED BY <1>1, <1>2, NotReadKeeps DEF IInv, WholeOK

\* The frame of a method that is too long, or any behind it.
LEMMA HeadInPlace ==
    ASSUME IInv, NextFrame, ~TooLong(Head(down))
    PROVE  /\ Asked(Head(down).id) /\ Carried(Head(down).id)
           /\ asked[Head(down).id] \in Catalogue
           /\ InPlace(Head(down)) <=> asked[Head(down).id].method.bytes <= MaxByte
           /\ asked[Head(down).id].method.bytes \in Nat
<1> DEFINE i == Head(down).id
<1>1. Asked(i) /\ Head(down) = FrameOf(i)
  BY NextFrameKeeps
<1>2. asked[i] \in Catalogue
  BY <1>1 DEF IInv, HttpOK, Asked
<1>3. Carried(i)
  BY <1>1 DEF Carried, Asked
<1>4. InPlace(Head(down)) <=> asked[i].method.bytes <= MaxByte
  BY <1>1, <1>2, FrameInPlace DEF FrameOf
<1> QED BY <1>1, <1>2, <1>3, <1>4, RequestFields

LEMMA FrameBrokenKeeps ==
    ASSUME IInv, FrameBroken
    PROVE  IInv'
<1> DEFINE h == Head(down).id
<1>1. /\ NextFrame /\ ~TooLong(Head(down)) /\ clean /\ ~InPlace(Head(down))
      /\ clean' = FALSE /\ UNCHANGED <<handed, idle>>
  BY DEF FrameBroken
<1>2. Broken(h) /\ h \in Nat \ {0}
  BY <1>1, HeadInPlace, LinkAssumption DEF Broken, Asked, IInv, HttpOK
<1>3. ~Arrives(h)
  <2>1. h \in 1..h /\ ~(asked[h].method.bytes <= MaxByte)
    BY <1>1, <1>2, HeadInPlace
  <2> QED BY <1>2, <2>1 DEF Arrives, Broken
<1> QED BY <1>1, <1>2, <1>3, NotReadKeeps

LEMMA FrameMisreadKeeps ==
    ASSUME IInv, FrameMisread
    PROVE  IInv'
<1>1. /\ NextFrame /\ ~clean /\ clean' \in BOOLEAN /\ UNCHANGED <<handed, idle>>
  BY DEF FrameMisread
<1>2. PICK j \in DOMAIN asked : Broken(j) /\ \A n \in DOMAIN down : j < down[n].id
  BY <1>1 DEF IInv, WholeOK, CleanOK
<1>3. j < Head(down).id /\ Head(down).id \in DOMAIN asked
  <2>1. down \in Seq(Frames) /\ down # <<>>
    BY <1>1 DEF IInv, WholeOK, DownOK, NextFrame
  <2>2. 1 \in DOMAIN down /\ Head(down) = down[1]
    BY <2>1
  <2> QED BY <1>1, <1>2, <2>2, NextFrameKeeps DEF Asked
<1>4. j \in 1..Head(down).id
  BY <1>3 DEF IInv, HttpOK
<1>5. ~Arrives(Head(down).id)
  <2>1. asked[j] \in Catalogue
    BY DEF IInv, HttpOK
  <2>2. Carried(j) /\ ~(asked[j].method.bytes <= MaxByte)
    BY <1>2, <2>1, RequestFields, LinkAssumption DEF Broken
  <2> QED BY <1>4, <2>2 DEF Arrives
<1> QED BY <1>1, <1>5, NotReadKeeps

LEMMA FrameReadKeeps ==
    ASSUME IInv, FrameRead
    PROVE  IInv'
<1>0. /\ NextFrame /\ ~TooLong(Head(down)) /\ InPlace(Head(down)) /\ clean
      /\ handed' = Append(handed, LocalRequest(decode(Head(down))))
      /\ Restart("client") /\ clean' = clean
      /\ UNCHANGED <<asked, reply, up, served, end, cut, unacked, since>>
      /\ end["client"] = "open" /\ down # <<>>
  BY DEF FrameRead, NextFrame, httpVars
<1>1. PICK h : h = Head(down).id
  OBVIOUS
<1>2. PICK r : r = LocalRequest(Message(h, asked[h]))
  OBVIOUS
<1>3. Asked(h) /\ asked[h] \in Catalogue /\ h \in 1..MaxRequests
  BY <1>0, <1>1, NextFrameKeeps, LinkAssumption DEF IInv, HttpOK, Asked
<1>4. r.id = h /\ r \in Locals
  BY <1>2, <1>3, FrameFacts DEF Locals
<1>5. handed' = Append(handed, r)
  <2>1. Head(down) = encode(Message(h, asked[h]))
    BY <1>0, <1>1, NextFrameKeeps DEF FrameOf
  <2>2. decode(Head(down)) = Message(h, asked[h])
    BY <2>1, <1>0, <1>3, DecodeUndoesEncode
  <2> QED BY <2>2, <1>0, <1>2
<1>6. /\ handed \in Seq(Locals) /\ handed' \in Seq(Locals)
      /\ Len(handed) \in Nat /\ DOMAIN handed = 1..Len(handed)
      /\ Len(handed') = Len(handed) + 1 /\ DOMAIN handed' = 1..(Len(handed) + 1)
      /\ \A k \in DOMAIN handed : handed'[k] = handed[k] /\ k \in DOMAIN handed'
      /\ handed'[Len(handed) + 1] = r
      /\ \A k \in DOMAIN handed' : k \in DOMAIN handed \/ k = Len(handed) + 1
  <2>1. handed \in Seq(Locals)
    BY DEF IInv, WholeOK, HandedOK
  <2> QED BY <2>1, <1>4, <1>5
<1>7. \A i : Asked(i)' = Asked(i) /\ Arrives(i)' = Arrives(i)
  BY <1>0 DEF Asked, Arrives, Carried, FrameOf
<1>8. HandedOK'
  <2>1. ASSUME NEW k \in DOMAIN handed'
        PROVE  /\ Asked(handed'[k].id)
               /\ handed'[k] = LocalRequest(Message(handed'[k].id, asked[handed'[k].id]))
    BY <1>2, <1>3, <1>4, <1>6 DEF IInv, WholeOK, HandedOK
  <2>2. ASSUME NEW k \in DOMAIN handed', NEW n \in DOMAIN handed', k < n
        PROVE  handed'[k].id < handed'[n].id
    <3>1. k \in DOMAIN handed
      BY <2>2, <1>6
    <3>2. CASE n \in DOMAIN handed
      BY <3>1, <3>2, <2>2, <1>6 DEF IInv, WholeOK, HandedOK
    <3>3. CASE n = Len(handed) + 1
      BY <3>1, <3>3, <1>0, <1>1, <1>4, <1>6, NextFrameKeeps
    <3> QED BY <3>2, <3>3, <1>6
  <2>3. ASSUME NEW k \in DOMAIN handed', NEW n \in DOMAIN down'
        PROVE  handed'[k].id < down'[n].id
    <3>1. CASE k \in DOMAIN handed
      BY <3>1, <1>0, <1>6, NextFrameKeeps DEF IInv, WholeOK, HandedOK
    <3>2. CASE k = Len(handed) + 1
      BY <3>2, <1>0, <1>1, <1>4, <1>6, NextFrameKeeps
    <3> QED BY <3>1, <3>2, <1>6
  <2> QED BY <2>1, <2>2, <2>3, <1>0, <1>6 DEF HandedOK, Asked
<1>9. NoneMissing'
  <2>1. ASSUME NEW i \in DOMAIN asked, Arrives(i)
        PROVE  \/ \E k \in DOMAIN handed' : handed'[k].id = i
               \/ \E n \in DOMAIN down' : down'[n].id = i
               \/ /\ cut
                  /\ \A k \in DOMAIN handed' : handed'[k].id < i
                  /\ \A n \in DOMAIN down' : down'[n].id < i
    <3>1. CASE \E k \in DOMAIN handed : handed[k].id = i
      BY <3>1, <1>6
    <3>2. CASE \E n \in DOMAIN down : down[n].id = i
      <4>1. i = h \/ \E n \in DOMAIN down' : down'[n].id = i
        BY <3>2, <1>0, <1>1, NextFrameKeeps
      <4>2. Len(handed) + 1 \in DOMAIN handed'
        BY <1>6
      <4> QED BY <4>1, <4>2, <1>4, <1>6
    <3>3. CASE /\ cut
               /\ \A k \in DOMAIN handed : handed[k].id < i
               /\ \A n \in DOMAIN down : down[n].id < i
      <4>1. h < i
        <5>1. down \in Seq(Frames)
          BY DEF IInv, WholeOK, DownOK
        <5>2. 1 \in DOMAIN down /\ Head(down) = down[1]
          BY <5>1, <1>0
        <5> QED BY <5>2, <3>3, <1>1
      <4>2. \A n \in DOMAIN down' : down'[n].id < i
        BY <3>3, <1>0, NextFrameKeeps
      <4>3. \A k \in DOMAIN handed' : handed'[k].id < i
        BY <3>3, <4>1, <1>4, <1>6
      <4> QED BY <3>3, <4>2, <4>3
    <3> QED BY <2>1, <3>1, <3>2, <3>3 DEF IInv, WholeOK, NoneMissing
  <2> QED BY <2>1, <1>0, <1>7 DEF NoneMissing
<1>10. WholeOK'
  BY <1>0, <1>8, <1>9, NextFrameKeeps DEF WholeOK, CleanOK
<1>11. UpOK' /\ AnswersArrive'
  <2>1. \A k \in 1..served : handed'[k] = handed[k]
    BY <1>6 DEF IInv, UpOK
  <2>2. UpOK'
    BY <1>0, <1>6, <1>7 DEF IInv, UpOK
  <2>3. \A k \in 1..served :
          \/ reply[handed'[k].id] = Text(handed'[k].id, 1)
          \/ cut
          \/ \E i \in DOMAIN up : up[i].type = "DATA" /\ up[i].id = handed'[k].id
    BY <2>1 DEF IInv, AnswersArrive
  <2>4. \A i \in DOMAIN reply : reply[i] = Bad => (~HasRoute(asked[i]) \/ cut)
    BY DEF IInv, AnswersArrive
  <2> QED BY <2>2, <2>3, <2>4, <1>0 DEF AnswersArrive
<1>12. TimeOK'
  <2>1. cut => since = 0
    BY <1>0, ReadAtOnce
  <2> QED BY <2>1, <1>0, RestartTime DEF Ends
<1> QED BY <1>0, <1>10, <1>11, <1>12, NextFrameKeeps DEF IInv

LEMMA SendTyped ==
    ASSUME NEW S, NEW wire, NEW f, wire \in Seq(S), f \in S
    PROVE  /\ Send(wire, f) \in Seq(S)
           /\ \A i \in DOMAIN wire : i \in DOMAIN Send(wire, f) /\ Send(wire, f)[i] = wire[i]
           /\ \A i \in DOMAIN Send(wire, f) : i \in DOMAIN wire \/ Send(wire, f)[i] = f
           /\ cut \/ \E i \in DOMAIN Send(wire, f) : Send(wire, f)[i] = f
<1>1. CASE cut
  BY <1>1 DEF Send
<1>2. CASE ~cut
  <2>1. Send(wire, f) = Append(wire, f)
    BY <1>2 DEF Send
  <2>2. /\ Append(wire, f) \in Seq(S) /\ Len(wire) \in Nat /\ DOMAIN wire = 1..Len(wire)
        /\ DOMAIN Append(wire, f) = 1..(Len(wire) + 1)
        /\ \A i \in 1..Len(wire) : Append(wire, f)[i] = wire[i]
        /\ Append(wire, f)[Len(wire) + 1] = f
    OBVIOUS
  <2>3. Len(wire) + 1 \in DOMAIN Append(wire, f)
    BY <2>2
  <2> QED BY <2>1, <2>2, <2>3
<1> QED BY <1>1, <1>2

\* What the client writes restarts its timer, and is retransmitted after the cut.
LEMMA ClientWritesTime ==
    ASSUME IInv, Restart("client"), Retransmit("client"), UNCHANGED <<down, end, cut, since>>
    PROVE  TimeOK'
<1>1. cut => unacked["client"] > 0 \/ unacked'["client"] > 0
  BY DEF IInv, TimeOK, Retransmit, Ends
<1> QED BY <1>1, RestartTime DEF Ends

LEMMA AnswerKeeps ==
    ASSUME IInv, Answer
    PROVE  IInv'
<1>1. /\ served < Len(handed) /\ served' = served + 1
      /\ up' = Send(up, encode(Response(handed[served + 1].id)))
      /\ Restart("client") /\ Retransmit("client")
      /\ UNCHANGED <<asked, reply, down, handed, clean, end, cut, since>>
  BY DEF Answer, httpVars
<1>2. PICK i : i = handed[served + 1].id
  OBVIOUS
<1>3. PICK f : f = encode(Response(i))
  OBVIOUS
<1>4. /\ handed \in Seq(Locals) /\ served \in Nat /\ Len(handed) \in Nat
      /\ served + 1 \in 1..Len(handed) /\ served + 1 \in DOMAIN handed
  <2>1. handed \in Seq(Locals) /\ served \in 0..Len(handed)
    BY DEF IInv, WholeOK, HandedOK, UpOK
  <2> QED BY <2>1, <1>1
<1>5. Asked(i) /\ i \in 1..MaxRequests
  <2>1. Asked(i)
    BY <1>2, <1>4 DEF IInv, WholeOK, HandedOK
  <2> QED BY <2>1, LinkAssumption DEF Asked, IInv, HttpOK
<1>6. f.id = i /\ f.type = "DATA" /\ f \in {Heartbeat} \cup Responses
  BY <1>3, <1>5, FrameFacts DEF Responses
<1>7. /\ up' \in Seq({Heartbeat} \cup Responses)
      /\ \A k \in DOMAIN up : k \in DOMAIN up' /\ up'[k] = up[k]
      /\ \A k \in DOMAIN up' : k \in DOMAIN up \/ up'[k] = f
      /\ cut \/ \E k \in DOMAIN up' : up'[k] = f
  <2>1. up \in Seq({Heartbeat} \cup Responses) /\ up' = Send(up, f)
    BY <1>1, <1>2, <1>3 DEF IInv, UpOK
  <2>2. PICK S : S = {Heartbeat} \cup Responses
    OBVIOUS
  <2>3. up \in Seq(S) /\ f \in S
    BY <2>1, <2>2, <1>6
  <2>4. /\ Send(up, f) \in Seq(S)
        /\ \A k \in DOMAIN up : k \in DOMAIN Send(up, f) /\ Send(up, f)[k] = up[k]
        /\ \A k \in DOMAIN Send(up, f) : k \in DOMAIN up \/ Send(up, f)[k] = f
        /\ cut \/ \E k \in DOMAIN Send(up, f) : Send(up, f)[k] = f
    BY <2>3, SendTyped
  <2> QED BY <2>1, <2>2, <2>4
<1>8. HttpOK' /\ WholeOK' /\ TimeOK'
  BY <1>1, HttpSame, WholeSame, ClientWritesTime DEF httpVars
<1>9. UpOK'
  <2>1. \A k \in DOMAIN up' : up'[k].type = "DATA" => Asked(up'[k].id)
    BY <1>5, <1>6, <1>7 DEF IInv, UpOK
  <2> QED BY <2>1, <1>1, <1>4, <1>7 DEF UpOK, Asked
<1>10. AnswersArrive'
  <2>1. ASSUME NEW k \in 1..served'
        PROVE  \/ reply[handed[k].id] = Text(handed[k].id, 1)
               \/ cut
               \/ \E n \in DOMAIN up' : up'[n].type = "DATA" /\ up'[n].id = handed[k].id
    <3>1. k \in 1..served \/ k = served + 1
      BY <1>1, <1>4
    <3>2. CASE k \in 1..served
      BY <3>2, <1>7 DEF IInv, AnswersArrive
    <3>3. CASE k = served + 1
      BY <3>3, <1>2, <1>6, <1>7
    <3> QED BY <3>1, <3>2, <3>3
  <2> QED BY <2>1, <1>1 DEF IInv, AnswersArrive
<1> QED BY <1>8, <1>9, <1>10 DEF IInv

-----------------------------------------------------------------------------
(* The server's end, the timers and the network *)

LEMMA ServerReadsKeeps ==
    ASSUME IInv, ServerReads
    PROVE  IInv'
<1>1. /\ up # <<>> /\ up' = Tail(up)
      /\ reply' = IF Head(up).type = "DATA"
                  THEN [reply EXCEPT ![Head(up).id] = decode(Head(up)).bytes] ELSE reply
      /\ Restart("server")
      /\ UNCHANGED <<asked, down, handed, served, clean, end, cut, unacked, since>>
  BY DEF ServerReads, HandOn, localVars
<1>2. PICK S : S = {Heartbeat} \cup Responses
  OBVIOUS
<1>3. /\ up \in Seq(S) /\ up' \in Seq(S) /\ Head(up) \in S
      /\ 1 \in DOMAIN up /\ Head(up) = up[1]
      /\ \A k \in DOMAIN up : k = 1 \/ (k - 1 \in DOMAIN up' /\ up'[k - 1] = up[k])
      /\ \A k \in DOMAIN up' : k + 1 \in DOMAIN up /\ up'[k] = up[k + 1]
  <2>1. up \in Seq(S)
    BY <1>2 DEF IInv, UpOK
  <2> QED BY <1>1, <2>1
<1>4. WholeOK'
  BY <1>1, WholeSame
<1>5. UpOK'
  <2>1. \A k \in DOMAIN up' : up'[k].type = "DATA" => Asked(up'[k].id)
    BY <1>3 DEF IInv, UpOK
  <2> QED BY <2>1, <1>1, <1>2, <1>3 DEF IInv, UpOK, Asked
<1>6. TimeOK'
  BY <1>1, RestartTime DEF Ends
<1>7. CASE Head(up).type # "DATA"
  <2>1. reply' = reply
    BY <1>1, <1>7
  <2>2. HttpOK'
    BY <2>1, <1>1, HttpSame DEF httpVars
  <2>3. ASSUME NEW k \in 1..served
        PROVE  \/ reply[handed[k].id] = Text(handed[k].id, 1)
               \/ cut
               \/ \E i \in DOMAIN up' : up'[i].type = "DATA" /\ up'[i].id = handed[k].id
    <3>1. CASE \E i \in DOMAIN up : up[i].type = "DATA" /\ up[i].id = handed[k].id
      <4>1. PICK i \in DOMAIN up : up[i].type = "DATA" /\ up[i].id = handed[k].id
        BY <3>1
      <4>2. i - 1 \in DOMAIN up' /\ up'[i - 1] = up[i]
        BY <4>1, <1>3, <1>7
      <4> QED BY <4>1, <4>2
    <3> QED BY <3>1 DEF IInv, AnswersArrive
  <2>4. AnswersArrive'
    BY <2>1, <2>3, <1>1 DEF IInv, AnswersArrive
  <2> QED BY <2>2, <2>4, <1>4, <1>5, <1>6 DEF IInv
<1>8. CASE Head(up).type = "DATA"
  <2>1. PICK i \in 1..MaxRequests : Head(up) = encode(Response(i))
    <3>1. Heartbeat.type # "DATA"
      BY FrameFacts
    <3> QED BY <3>1, <1>2, <1>3, <1>8 DEF Responses
  <2>2. Head(up).id = i /\ decode(Head(up)).bytes = Text(i, 1)
    BY <2>1, FrameFacts
  <2>3. reply' = [reply EXCEPT ![i] = Text(i, 1)]
    BY <1>1, <1>8, <2>2
  <2>4. Asked(i)
    BY <1>3, <1>8, <2>2 DEF IInv, UpOK
  <2>5. /\ reply \in Seq(Replies) /\ i \in 1..Len(reply) /\ Len(reply) \in Nat
        /\ DOMAIN reply = 1..Len(reply) /\ DOMAIN asked = DOMAIN reply
        /\ Text(i, 1) \in Replies
    BY <2>4 DEF IInv, HttpOK, Asked, Replies
  <2>6. /\ reply' \in Seq(Replies) /\ Len(reply') = Len(reply)
        /\ DOMAIN reply' = DOMAIN reply /\ reply'[i] = Text(i, 1)
        /\ \A j \in DOMAIN reply : j # i => reply'[j] = reply[j]
    BY <2>3, <2>5, ExceptSeq
  <2>7. HttpOK'
    BY <2>5, <2>6, <1>1 DEF IInv, HttpOK
  <2>8. ASSUME NEW k \in 1..served
        PROVE  \/ reply'[handed[k].id] = Text(handed[k].id, 1)
               \/ cut
               \/ \E n \in DOMAIN up' : up'[n].type = "DATA" /\ up'[n].id = handed[k].id
    <3>1. CASE handed[k].id = i
      BY <3>1, <2>6
    <3>2. CASE handed[k].id # i
      <4>1. handed[k].id \in DOMAIN reply
        BY <2>5 DEF IInv, UpOK, WholeOK, HandedOK, Asked
      <4>2. reply'[handed[k].id] = reply[handed[k].id]
        BY <4>1, <3>2, <2>6
      <4>3. CASE \E n \in DOMAIN up : up[n].type = "DATA" /\ up[n].id = handed[k].id
        <5>1. PICK n \in DOMAIN up : up[n].type = "DATA" /\ up[n].id = handed[k].id
          BY <4>3
        <5>2. n - 1 \in DOMAIN up' /\ up'[n - 1] = up[n]
          BY <5>1, <3>2, <2>2, <1>3
        <5> QED BY <5>1, <5>2
      <4> QED BY <4>2, <4>3 DEF IInv, AnswersArrive
    <3> QED BY <3>1, <3>2
  <2>9. ASSUME NEW j \in DOMAIN reply', reply'[j] = Bad
        PROVE  ~HasRoute(asked[j]) \/ cut
    <3>1. Text(i, 1) # Bad
      BY LinkAssumption
    <3> QED BY <3>1, <2>6, <2>9 DEF IInv, AnswersArrive
  <2>10. AnswersArrive'
    BY <2>8, <2>9, <1>1 DEF AnswersArrive
  <2> QED BY <2>7, <2>10, <1>4, <1>5, <1>6 DEF IInv
<1> QED BY <1>7, <1>8

LEMMA ClientIdleKeeps ==
    ASSUME IInv, ClientIdle
    PROVE  IInv'
<1>1. /\ up' = Send(up, Heartbeat)
      /\ Restart("client") /\ Retransmit("client")
      /\ UNCHANGED <<asked, reply, down, handed, served, clean, end, cut, since>>
  BY DEF ClientIdle, Heartbeat, httpVars, localVars
<1>2. PICK S : S = {Heartbeat} \cup Responses
  OBVIOUS
<1>3. /\ up' \in Seq(S)
      /\ \A k \in DOMAIN up : k \in DOMAIN up' /\ up'[k] = up[k]
      /\ \A k \in DOMAIN up' : k \in DOMAIN up \/ up'[k] = Heartbeat
  <2>1. up \in Seq(S) /\ Heartbeat \in S
    BY <1>2 DEF IInv, UpOK
  <2>2. /\ Send(up, Heartbeat) \in Seq(S)
        /\ \A k \in DOMAIN up : k \in DOMAIN Send(up, Heartbeat) /\ Send(up, Heartbeat)[k] = up[k]
        /\ \A k \in DOMAIN Send(up, Heartbeat) :
             k \in DOMAIN up \/ Send(up, Heartbeat)[k] = Heartbeat
    BY <2>1, SendTyped
  <2> QED BY <2>2, <1>1
<1>4. HttpOK' /\ WholeOK' /\ TimeOK'
  BY <1>1, HttpSame, WholeSame, ClientWritesTime DEF httpVars
<1>5. UpOK'
  <2>1. Heartbeat.type # "DATA"
    BY FrameFacts
  <2>2. \A k \in DOMAIN up' : up'[k].type = "DATA" => Asked(up'[k].id)
    BY <2>1, <1>3 DEF IInv, UpOK
  <2> QED BY <2>2, <1>1, <1>2, <1>3 DEF IInv, UpOK, Asked
<1>6. AnswersArrive'
  <2>1. \A k \in 1..served :
          \/ reply[handed[k].id] = Text(handed[k].id, 1)
          \/ cut
          \/ \E i \in DOMAIN up' : up'[i].type = "DATA" /\ up'[i].id = handed[k].id
    BY <1>3 DEF IInv, AnswersArrive
  <2> QED BY <2>1, <1>1 DEF IInv, AnswersArrive
<1> QED BY <1>4, <1>5, <1>6 DEF IInv

LEMMA ServerIdleKeeps ==
    ASSUME IInv, ServerIdle
    PROVE  IInv'
<1>1. /\ Restart("server")
      /\ UNCHANGED <<asked, reply, down, up, handed, served, clean, end, cut, unacked, since>>
  BY DEF ServerIdle, httpVars, localVars, wires
<1>2. HttpOK' /\ WholeOK' /\ UpOK' /\ AnswersArrive'
  BY <1>1, HttpSame, WholeSame, UpSame, AnswersSame DEF httpVars
<1>3. TimeOK'
  BY <1>1, RestartTime DEF Ends
<1> QED BY <1>2, <1>3 DEF IInv

\* What the peer still has of a wire is its beginning.
LEMMA Beginning ==
    ASSUME NEW S, NEW wire, NEW n, wire \in Seq(S), n \in 0..Len(wire)
    PROVE  /\ SubSeq(wire, 1, n) \in Seq(S)
           /\ DOMAIN SubSeq(wire, 1, n) = 1..n
           /\ \A k \in 1..n : k \in DOMAIN wire /\ SubSeq(wire, 1, n)[k] = wire[k]
<1>1. n \in Int /\ 1 \in Int /\ \A k \in 1..n : k \in DOMAIN wire /\ wire[k] \in S
  OBVIOUS
<1>2. /\ SubSeq(wire, 1, n) \in Seq(S)
      /\ Len(SubSeq(wire, 1, n)) = IF 1 <= n THEN n - 1 + 1 ELSE 0
      /\ \A k \in 1..(n - 1 + 1) : SubSeq(wire, 1, n)[k] = wire[1 + k - 1]
  BY <1>1, SubSeqProperties
<1>3. Len(SubSeq(wire, 1, n)) = n
  BY <1>2
<1> QED BY <1>1, <1>2, <1>3

LEMMA CutKeeps ==
    ASSUME IInv, NEW i \in 0..Len(down), NEW j \in 0..Len(up), Cut(i, j)
    PROVE  IInv'
<1>1. /\ ~cut /\ cut' = TRUE
      /\ down' = SubSeq(down, 1, i) /\ up' = SubSeq(up, 1, j)
      /\ unacked' = [e \in Ends |->
                       IF IF e = "server" THEN i < Len(down) ELSE j < Len(up) THEN 1 ELSE 0]
      /\ UNCHANGED <<asked, reply, handed, served, clean, end, idle, since>>
  BY DEF Cut, httpVars, localVars
<1>2. /\ down \in Seq(Frames) /\ down' \in Seq(Frames)
      /\ DOMAIN down' = 1..i /\ DOMAIN down = 1..Len(down) /\ Len(down) \in Nat
      /\ \A k \in DOMAIN down' : k \in DOMAIN down /\ down'[k] = down[k]
  <2>1. down \in Seq(Frames)
    BY DEF IInv, WholeOK, DownOK
  <2> QED BY <2>1, <1>1, Beginning
<1>3. PICK S : S = {Heartbeat} \cup Responses
  OBVIOUS
<1>4. /\ up' \in Seq(S)
      /\ \A k \in DOMAIN up' : k \in DOMAIN up /\ up'[k] = up[k]
  <2>1. up \in Seq(S)
    BY <1>3 DEF IInv, UpOK
  <2> QED BY <2>1, <1>1, Beginning
<1>5. \A n : Asked(n)' = Asked(n) /\ Arrives(n)' = Arrives(n) /\ Broken(n)' = Broken(n)
  BY <1>1 DEF Asked, Arrives, Carried, Broken, FrameOf
<1>6. DownOK'
  BY <1>1, <1>2 DEF IInv, WholeOK, DownOK, Asked, FrameOf
<1>7. HandedOK'
  BY <1>1, <1>2 DEF IInv, WholeOK, HandedOK, Asked
<1>8. NoneMissing'
  <2>1. ASSUME NEW m \in DOMAIN asked, Arrives(m)
        PROVE  \/ \E k \in DOMAIN handed : handed[k].id = m
               \/ \E n \in DOMAIN down' : down'[n].id = m
               \/ /\ \A k \in DOMAIN handed : handed[k].id < m
                  /\ \A n \in DOMAIN down' : down'[n].id < m
    <3>1. \/ \E k \in DOMAIN handed : handed[k].id = m
          \/ \E n \in DOMAIN down : down[n].id = m
      BY <2>1, <1>1 DEF IInv, WholeOK, NoneMissing
    <3>2. CASE \E n \in DOMAIN down : down[n].id = m
      <4>1. PICK n \in DOMAIN down : down[n].id = m
        BY <3>2
      <4>2. CASE n \in 1..i
        BY <4>1, <4>2, <1>2
      <4>3. CASE n \notin 1..i
        <5>1. \A k \in DOMAIN down' : k < n
          BY <4>1, <4>3, <1>2
        <5>2. \A k \in DOMAIN down' : down'[k].id < m
          BY <5>1, <4>1, <1>2 DEF IInv, WholeOK, DownOK
        <5>3. \A k \in DOMAIN handed : handed[k].id < m
          BY <4>1 DEF IInv, WholeOK, HandedOK
        <5> QED BY <5>2, <5>3
      <4> QED BY <4>2, <4>3
    <3> QED BY <3>1, <3>2
  <2> QED BY <2>1, <1>1, <1>5 DEF NoneMissing
<1>9. CleanOK'
  BY <1>1, <1>2, <1>5 DEF IInv, WholeOK, CleanOK
<1>10. UpOK'
  <2>1. \A k \in DOMAIN up' : up'[k].type = "DATA" => Asked(up'[k].id)
    BY <1>4 DEF IInv, UpOK
  <2> QED BY <2>1, <1>1, <1>3, <1>4 DEF IInv, UpOK, Asked
<1>11. AnswersArrive'
  BY <1>1 DEF AnswersArrive
<1>12. TimeOK'
  <2>1. unacked' \in [Ends -> 0..1] /\ 0..1 \subseteq 0..(GiveUp + 1)
    BY <1>1, LinkAssumption
  <2>2. unacked' \in [Ends -> 0..(GiveUp + 1)]
    BY <2>1
  <2>3. since = 0
    BY <1>1 DEF IInv, TimeOK
  <2>4. Noticing'
    <3>1. "client" \in Ends /\ idle["client"] \in Nat /\ Timeout["client"] \in Nat \ {0}
      BY LinkAssumption DEF IInv, TimeOK, Ends
    <3> QED BY <1>1, <2>1, <2>3, <3>1 DEF Noticing
  <2>5. ClosedAfterCut'
    BY <1>1 DEF ClosedAfterCut
  <2> QED BY <1>1, <2>2, <2>3, <2>4, <2>5 DEF IInv, TimeOK
<1>13. HttpOK'
  BY <1>1, HttpSame DEF httpVars
<1> QED BY <1>1, <1>6, <1>7, <1>8, <1>9, <1>10, <1>11, <1>12, <1>13 DEF IInv, WholeOK

LEMMA LostKeeps ==
    ASSUME IInv, NEW e \in Ends, Lost(e)
    PROVE  IInv'
<1>1. /\ cut /\ end' = [end EXCEPT ![e] = "closed"]
      /\ UNCHANGED <<asked, reply, down, up, handed, served, clean, cut, idle, unacked, since>>
  BY DEF Lost, httpVars, wires, localVars, timers
<1>2. HttpOK' /\ WholeOK' /\ UpOK' /\ AnswersArrive'
  BY <1>1, HttpSame, WholeSame, UpSame, AnswersSame DEF httpVars
<1>3. TimeOK'
  <2>1. /\ end' \in [Ends -> {"open", "closed"}]
        /\ end'["client"] = "open" => end["client"] = "open"
    BY <1>1 DEF IInv, TimeOK, Ends
  <2>2. Noticing'
    BY <1>1, <2>1 DEF IInv, TimeOK, Noticing
  <2>3. ClosedAfterCut'
    BY <1>1 DEF ClosedAfterCut
  <2> QED BY <1>1, <2>1, <2>2, <2>3 DEF IInv, TimeOK
<1> QED BY <1>2, <1>3 DEF IInv

LEMMA TickKeeps ==
    ASSUME IInv, Tick
    PROVE  IInv'
<1>1. /\ \E e \in Ends : end[e] = "open"
      /\ \A e \in Ends : Settled(e)
      /\ idle' = [e \in Ends |-> IF end[e] = "open" THEN idle[e] + 1 ELSE idle[e]]
      /\ unacked' = [e \in Ends |-> IF end[e] = "open" /\ unacked[e] > 0
                                    THEN unacked[e] + 1 ELSE unacked[e]]
      /\ since' = IF cut THEN since + 1 ELSE since
      /\ UNCHANGED <<asked, reply, down, up, handed, served, clean, end, cut>>
  BY DEF Tick, httpVars, wires, localVars
<1>2. HttpOK' /\ WholeOK' /\ UpOK' /\ AnswersArrive'
  BY <1>1, HttpSame, WholeSame, UpSame, AnswersSame DEF httpVars
<1>3. /\ idle \in [Ends -> Nat] /\ \A e \in Ends : idle[e] <= Timeout[e]
      /\ Timeout \in [Ends -> Nat \ {0}] /\ GiveUp \in Nat /\ KeepAlive \in Nat
      /\ unacked \in [Ends -> 0..(GiveUp + 1)] /\ since \in 0..KeepAlive
      /\ ~cut => since = 0 /\ \A e \in Ends : unacked[e] = 0
  BY LinkAssumption DEF IInv, TimeOK
<1>4. \A e \in Ends : end[e] = "open" =>
        /\ idle[e] < Timeout[e]
        /\ cut => unacked[e] <= GiveUp /\ since # KeepAlive
  BY <1>1, <1>3 DEF Settled, GivenUp
<1>5. idle' \in [Ends -> Nat] /\ \A e \in Ends : idle'[e] <= Timeout[e]
  BY <1>1, <1>3, <1>4
<1>6. unacked' \in [Ends -> 0..(GiveUp + 1)]
  <2>1. ASSUME NEW e \in Ends PROVE unacked'[e] \in 0..(GiveUp + 1)
    BY <1>1, <1>3, <1>4
  <2> QED BY <2>1, <1>1
<1>7. since' \in 0..KeepAlive
  BY <1>1, <1>3, <1>4
<1>8. ~cut' => since' = 0 /\ \A e \in Ends : unacked'[e] = 0
  BY <1>1, <1>3
<1>9. ClosedAfterCut'
  BY <1>1 DEF IInv, TimeOK, ClosedAfterCut
<1>10. Noticing'
  <2>1. SUFFICES ASSUME cut, end["client"] = "open"
                 PROVE  /\ since' > 0 => down' = <<>>
                        /\ unacked'["client"] = 0 => since' <= idle'["client"]
                        /\ unacked'["client"] > 0 => since' < Timeout["client"] + unacked'["client"]
    BY <1>1 DEF Noticing
  <2>2. "client" \in Ends
    BY DEF Ends
  <2>3. down' = <<>>
    BY <1>1, <2>1, <2>2 DEF Settled
  <2>4. /\ unacked["client"] = 0 => since <= idle["client"]
        /\ unacked["client"] > 0 => since < Timeout["client"] + unacked["client"]
    BY <2>1 DEF IInv, TimeOK, Noticing
  <2>5. idle'["client"] = idle["client"] + 1 /\ since' = since + 1
    BY <1>1, <2>1, <2>2
  <2>6. unacked'["client"] = IF unacked["client"] > 0 THEN unacked["client"] + 1 ELSE unacked["client"]
    BY <1>1, <2>1, <2>2
  <2>7. /\ unacked["client"] \in Nat /\ idle["client"] \in Nat /\ since \in Nat
        /\ Timeout["client"] \in Nat
    BY <1>3, <2>2
  <2> QED BY <2>3, <2>4, <2>5, <2>6, <2>7
<1>11. TimeOK'
  BY <1>1, <1>5, <1>6, <1>7, <1>8, <1>9, <1>10 DEF IInv, TimeOK
<1> QED BY <1>2, <1>11 DEF IInv

-----------------------------------------------------------------------------
LEMMA Start == Init => IInv
<1> SUFFICES ASSUME Init PROVE IInv
  OBVIOUS
<1>1. HttpOK
  BY LinkAssumption DEF Init, HttpOK
<1>2. WholeOK
  BY DEF Init, WholeOK, DownOK, HandedOK, NoneMissing, CleanOK
<1>3. UpOK /\ AnswersArrive
  BY DEF Init, UpOK, AnswersArrive
<1>4. TimeOK
  <2>2. ClosedAfterCut
    BY DEF Init, ClosedAfterCut
  <2>3. Noticing
    BY DEF Init, Noticing
  <2>4. /\ 0 \in 0..(GiveUp + 1) /\ 0 \in 0..KeepAlive
        /\ \A e \in Ends : 0 <= Timeout[e]
    BY LinkAssumption
  <2>5. idle \in [Ends -> Nat] /\ \A e \in Ends : idle[e] <= Timeout[e]
    BY <2>4 DEF Init
  <2>6. unacked \in [Ends -> 0..(GiveUp + 1)] /\ \A e \in Ends : unacked[e] = 0
    BY <2>4 DEF Init
  <2> QED BY <2>2, <2>3, <2>4, <2>5, <2>6 DEF Init, TimeOK
<1> QED BY <1>1, <1>2, <1>3, <1>4 DEF IInv

LEMMA Step == IInv /\ [Next]_vars => IInv'
<1> SUFFICES ASSUME IInv, [Next]_vars PROVE IInv'
  OBVIOUS
<1>1. ASSUME NEW q \in Catalogue, RequestRefused(q) \/ RequestThrows(q) \/ RequestForwarded(q)
      PROVE  IInv'
  BY <1>1, RequestRefusedKeeps, RequestThrowsKeeps, RequestForwardedKeeps
<1>2. CASE FrameDropped \/ FrameBroken \/ FrameMisread \/ FrameRead \/ Answer
  BY <1>2, FrameDroppedKeeps, FrameBrokenKeeps, FrameMisreadKeeps, FrameReadKeeps, AnswerKeeps
<1>3. CASE ServerReads \/ ClientIdle \/ ServerIdle \/ Tick
  BY <1>3, ServerReadsKeeps, ClientIdleKeeps, ServerIdleKeeps, TickKeeps
<1>4. ASSUME NEW i \in 0..Len(down), NEW j \in 0..Len(up), Cut(i, j) PROVE IInv'
  BY <1>4, CutKeeps
<1>5. ASSUME NEW e \in Ends, Lost(e) PROVE IInv'
  BY <1>5, LostKeeps
<1>6. CASE UNCHANGED vars
  <2>1. UNCHANGED <<asked, reply, down, up, handed, served, clean, end, cut, timers>>
    BY <1>6 DEF vars, httpVars, wires, localVars
  <2> QED BY <2>1, HttpSame, WholeSame, UpSame, AnswersSame, TimeSame DEF IInv, httpVars
<1> QED BY <1>1, <1>2, <1>3, <1>4, <1>5, <1>6 DEF Next

LEMMA Always == Spec => []IInv
BY Start, Step, PTL DEF Spec

\* Every reachable state has the types of TypeOK: what a sender got is nothing, the
\* server's own 400 or the answer to its request, and no timer overruns.
THEOREM LinkTypes == Spec => []TypeOK
<1>1. IInv => TypeOK
  <2> SUFFICES ASSUME IInv PROVE TypeOK
    OBVIOUS
  <2>1. DOMAIN idle = Ends /\ \A e \in Ends : idle[e] \in 0..Timeout[e]
    BY LinkAssumption DEF IInv, TimeOK
  <2> QED BY <2>1 DEF IInv, TypeOK, HttpOK, WholeOK, UpOK, TimeOK
<1> QED BY <1>1, Always, PTL

\* For any timeout and any patience of the kernel, the client notices a dead server
\* within both together.
THEOREM ServerDeathIsNoticed == Spec => []DeadServerIsNoticed
<1>1. IInv => DeadServerIsNoticed
  <2> SUFFICES ASSUME IInv, cut, end["client"] = "open"
               PROVE  since <= Timeout["client"] + GiveUp
    BY DEF DeadServerIsNoticed
  <2>1. "client" \in Ends
    BY DEF Ends
  <2>2. /\ unacked["client"] \in 0..(GiveUp + 1) /\ idle["client"] \in Nat
        /\ idle["client"] <= Timeout["client"] /\ since \in Nat
        /\ Timeout["client"] \in Nat /\ GiveUp \in Nat
    BY <2>1, LinkAssumption DEF IInv, TimeOK
  <2>3. /\ unacked["client"] = 0 => since <= idle["client"]
        /\ unacked["client"] > 0 => since < Timeout["client"] + unacked["client"]
    BY DEF IInv, TimeOK, Noticing
  <2> QED BY <2>2, <2>3
<1> QED BY <1>1, Always, PTL

\* For any requests and frame sizes: what the local service is asked is what was
\* asked of the server, once and in order, with its own Host and every other
\* header, and nothing is missing but what RequestsArriveWhole excuses.
THEOREM RequestsAreWhole == Spec => []RequestsArriveWhole
<1>1. IInv => RequestsArriveWhole
  <2> SUFFICES ASSUME IInv PROVE RequestsArriveWhole
    OBVIOUS
  <2> DEFINE ids == {handed[k].id : k \in DOMAIN handed}
  <2>1. \A k, n \in DOMAIN handed : k < n => handed[k].id < handed[n].id
    BY DEF IInv, WholeOK, HandedOK
  <2>2. ASSUME NEW i \in DOMAIN asked, Arrives(i),
               (down = <<>> /\ ~cut) \/ \E j \in ids : j > i
        PROVE  i \in ids
    <3>1. i \in Nat
      BY DEF IInv, HttpOK
    <3>2. \A k \in DOMAIN handed : handed[k].id \in Nat
      BY DEF IInv, WholeOK, HandedOK, Asked, HttpOK
    <3>3. ASSUME NEW n \in DOMAIN down, down[n].id = i PROVE FALSE
      <4>1. down # <<>>
        BY <3>3
      <4>2. PICK k \in DOMAIN handed : handed[k].id > i
        BY <4>1, <2>2
      <4> QED BY <3>1, <3>2, <3>3, <4>2 DEF IInv, WholeOK, HandedOK
    <3>4. ~(cut /\ \A k \in DOMAIN handed : handed[k].id < i)
      BY <2>2, <3>1, <3>2
    <3> QED BY <2>2, <3>3, <3>4 DEF IInv, WholeOK, NoneMissing
  <2>3. ASSUME NEW k \in DOMAIN handed, NEW r, r = handed[k], NEW q, q = asked[r.id]
        PROVE  /\ r.method = q.method /\ r.version = Version /\ r.body = q.body
               /\ {h \in r.heads : h.name \in Hosts} = {HostOf(path(q))}
               /\ \/ \E m, n \in DOMAIN q.heads :
                        /\ m # n /\ q.heads[m].name = q.heads[n].name
                        /\ q.heads[m].name \notin Hosts
                  \/ r.heads = OwnHeads(Range(q.heads)) \cup {HostOf(path(q))}
    <3>1. q \in Catalogue /\ r = LocalRequest(Message(r.id, q))
      BY <2>3 DEF IInv, HttpOK, WholeOK, HandedOK, Asked
    <3>2. /\ r.method = q.method /\ r.version = Version /\ r.body = q.body
          /\ r.heads = OwnHeads(HeadsOf(q).of) \cup {HostOf(path(q))}
      BY <3>1 DEF LocalRequest, Message, DataMessage, Text
    <3>3. {h \in r.heads : h.name \in Hosts} = {HostOf(path(q))}
      BY <3>2, LinkAssumption DEF OwnHeads, HostOf
    <3>4. \/ \E m, n \in DOMAIN q.heads :
                /\ m # n /\ q.heads[m].name = q.heads[n].name
                /\ q.heads[m].name \notin Hosts
          \/ OwnHeads(HeadsOf(q).of) = OwnHeads(Range(q.heads))
      BY <3>1, HeadsWhole
    <3> QED BY <3>2, <3>3, <3>4, Zenon
  <2> QED BY <2>1, <2>2, <2>3 DEF RequestsArriveWhole
<1> QED BY <1>1, Always, PTL

\* No answer of a service is lost on a link that works.
THEOREM AnswersDoArrive == Spec => []AnswersArrive
<1>1. IInv => AnswersArrive
  BY DEF IInv
<1> QED BY <1>1, Always, PTL
-----------------------------------------------------------------------------
(* Urls *)

LEMMA PieceParts ==
    ASSUME NEW s \in BOOLEAN, NEW w
    PROVE  (Piece(s, w).slash <=> s) /\ Piece(s, w).word = w
BY DEF Piece

\* The first a of n pieces are of no character, and no other: the text is what
\* comes after them.
BlankUpTo(ps, n, a) ==
    /\ n \in Nat /\ a \in 0..n /\ DOMAIN ps = 1..n
    /\ \A i \in 1..n : (ps[i].slash \/ ps[i].word # Empty) <=> i > a

After(ps, n, a) == [k \in 1..(n - a) |-> ps[k + a]]

LEMMA TextFrom ==
    ASSUME NEW ps, NEW n, NEW a, BlankUpTo(ps, n, a)
    PROVE  Joined(ps) = After(ps, n, a)
<1> USE DEF BlankUpTo, After
<1> DEFINE there == {i \in DOMAIN ps : ps[i].slash \/ ps[i].word # Empty}
           nth(k) == CHOOSE i \in there : Cardinality({j \in there : j <= i}) = k
<1>1. Joined(ps) = [k \in 1..Cardinality(there) |-> ps[nth(k)]]
  BY DEF Joined
<1>2. there = (a + 1)..n
  OBVIOUS
<1> HIDE DEF there
<1>3. \A i \in a..n : Cardinality((a + 1)..i) = i - a
  <2> SUFFICES ASSUME NEW i \in a..n PROVE Cardinality((a + 1)..i) = i - a
    OBVIOUS
  <2>1. a + 1 \in Int /\ i \in Int /\ a <= i
    OBVIOUS
  <2>2. Cardinality((a + 1)..i) = IF a + 1 > i THEN 0 ELSE i - (a + 1) + 1
    BY <2>1, FS_Interval
  <2> QED BY <2>1, <2>2
<1>4. Cardinality(there) = n - a
  BY <1>2, <1>3
<1>5. \A i \in there : Cardinality({j \in there : j <= i}) = i - a
  <2> SUFFICES ASSUME NEW i \in there
               PROVE  Cardinality({j \in there : j <= i}) = i - a
    OBVIOUS
  <2>1. {j \in there : j <= i} = (a + 1)..i /\ i \in a..n
    BY <1>2
  <2> QED BY <1>3, <2>1
<1>6. ASSUME NEW k \in 1..(n - a)
      PROVE  nth(k) = k + a
  <2>1. k + a \in there
    BY <1>2
  <2>2. Cardinality({j \in there : j <= k + a}) = (k + a) - a
    BY <1>5, <2>1
  <2>3. (k + a) - a = k
    OBVIOUS
  <2>4. ASSUME NEW i \in there, Cardinality({j \in there : j <= i}) = k
        PROVE  i = k + a
    <3>1. i \in Int /\ i - a = k
      BY <1>2, <1>5, <2>4
    <3> QED BY <3>1
  <2> QED BY <2>1, <2>2, <2>3, <2>4
<1> HIDE DEF nth
<1> QED BY <1>1, <1>4, <1>6

\* A uri as it stands has nothing to drop.
LEMMA PlainText ==
    ASSUME NEW uri, NEW n \in Nat, DOMAIN uri = 1..n
    PROVE  Plain(uri) = [i \in 1..n |-> Piece(TRUE, uri[i])]
<1> DEFINE ps == [i \in DOMAIN uri |-> Piece(TRUE, uri[i])]
<1>1. Plain(uri) = Joined(ps)
  BY DEF Plain
<1>2. DOMAIN ps = 1..n /\ \A i \in 1..n : ps[i] = Piece(TRUE, uri[i])
  OBVIOUS
<1> HIDE DEF ps
<1>3. \A i \in 1..n : (ps[i].slash \/ ps[i].word # Empty) <=> i > 0
  <2> SUFFICES ASSUME NEW i \in 1..n
               PROVE  (ps[i].slash \/ ps[i].word # Empty) <=> i > 0
    OBVIOUS
  <2>1. ps[i].slash
    BY <1>2, PieceParts
  <2>2. i > 0
    OBVIOUS
  <2> QED BY <2>1, <2>2
<1>4. Joined(ps) = After(ps, n, 0)
  <2>1. BlankUpTo(ps, n, 0)
    BY <1>2, <1>3 DEF BlankUpTo
  <2> QED BY <2>1, TextFrom
<1>5. After(ps, n, 0) = [k \in 1..n |-> ps[k]]
  BY DEF After
<1> QED BY <1>1, <1>2, <1>4, <1>5

\* Without a name that is its first word, and that no other begins with, a uri
\* is the rest of it.
LEMMA NameDeleted ==
    ASSUME NEW uri, uri \in Seq(Range(uri)) \ {<<>>}, uri[1] \in Names,
           \A i \in DOMAIN Tail(uri) : Rest(Tail(uri)[i], uri[1]) = NoMatch
    PROVE  replaceAll(uri, uri[1]) = Plain(Tail(uri))
<1> DEFINE n == Len(uri)
           name == uri[1]
           ps == [i \in DOMAIN uri |->
                    IF Rest(uri[i], name) = NoMatch THEN Piece(TRUE, uri[i])
                    ELSE Piece(FALSE, Rest(uri[i], name))]
<1>1. /\ n \in Nat /\ n >= 1 /\ DOMAIN uri = 1..n
      /\ DOMAIN Tail(uri) = 1..(n - 1)
      /\ \A i \in 1..(n - 1) : Tail(uri)[i] = uri[i + 1]
  OBVIOUS
<1>2. Rest(uri[1], name) = Empty /\ Empty # NoMatch
  BY RestAssumption
<1>3. \A i \in 2..n : Rest(uri[i], name) = NoMatch
  <2> SUFFICES ASSUME NEW i \in 2..n PROVE Rest(uri[i], name) = NoMatch
    OBVIOUS
  <2>1. i - 1 \in 1..(n - 1) /\ (i - 1) + 1 = i
    BY <1>1
  <2>2. Tail(uri)[i - 1] = uri[i]
    BY <1>1, <2>1
  <2> QED BY <1>1, <2>1, <2>2
<1>4. replaceAll(uri, name) = Joined(ps)
  BY DEF replaceAll
<1>5. /\ DOMAIN ps = 1..n
      /\ ps[1] = Piece(FALSE, Empty)
      /\ \A i \in 2..n : ps[i] = Piece(TRUE, uri[i])
  <2>1. DOMAIN ps = 1..n /\ 1 \in 1..n /\ 2..n \subseteq 1..n
    BY <1>1
  <2>2. ps[1] = Piece(FALSE, Empty)
    BY <1>1, <1>2, <2>1
  <2>3. \A i \in 2..n : ps[i] = Piece(TRUE, uri[i])
    BY <1>1, <1>3, <2>1
  <2> QED BY <2>1, <2>2, <2>3
<1> HIDE DEF n, ps, name
<1>6. \A i \in 1..n : (ps[i].slash \/ ps[i].word # Empty) <=> i > 1
  <2> SUFFICES ASSUME NEW i \in 1..n
               PROVE  (ps[i].slash \/ ps[i].word # Empty) <=> i > 1
    OBVIOUS
  <2>1. CASE i = 1
    <3>1. ~ps[i].slash /\ ps[i].word = Empty
      BY <1>5, <2>1, PieceParts
    <3>2. ~(i > 1)
      BY <2>1
    <3> QED BY <3>1, <3>2
  <2>2. CASE i # 1
    <3>1. i \in 2..n /\ i > 1
      BY <1>1, <2>2
    <3>2. ps[i].slash
      BY ZenonT(30), <1>5, <3>1, PieceParts
    <3> QED BY <3>1, <3>2
  <2> QED BY <2>1, <2>2
<1>7. Joined(ps) = After(ps, n, 1)
  <2>1. BlankUpTo(ps, n, 1)
    BY <1>1, <1>5, <1>6 DEF BlankUpTo
  <2> QED BY <2>1, TextFrom
<1>8. Plain(Tail(uri)) = [k \in 1..(n - 1) |-> Piece(TRUE, Tail(uri)[k])]
  <2>1. n - 1 \in Nat /\ DOMAIN Tail(uri) = 1..(n - 1)
    BY <1>1
  <2> QED BY <2>1, PlainText, Zenon
<1>9. ASSUME NEW k \in 1..(n - 1)
      PROVE  ps[k + 1] = Piece(TRUE, Tail(uri)[k])
  <2>1. k + 1 \in 2..n
    BY <1>1
  <2> QED BY <1>1, <1>5, <2>1
<1> QED BY <1>4, <1>7, <1>8, <1>9 DEF name, After

\* A service whose mapping deletes the name sees its own url, unless the name
\* occurs again in it; every other service sees the url as it was sent.
THEOREM UrlsAreTheServices == Spec => []ServiceSeesItsOwnUrl
<1>1. IInv => ServiceSeesItsOwnUrl
  <2> SUFFICES ASSUME IInv, NEW k \in DOMAIN handed
               PROVE  LET q == asked[handed[k].id]
                          again == \E i \in DOMAIN OwnWords(q) :
                                       Rest(OwnWords(q)[i], path(q)) # NoMatch
                      IN IF path(q) \notin Deletes THEN handed[k].url = Plain(q.uri)
                         ELSE again \/ handed[k].url = Plain(OwnWords(q))
    BY DEF ServiceSeesItsOwnUrl
  <2> DEFINE q == asked[handed[k].id]
             words == OwnWords(q)
             again == \E i \in DOMAIN words : Rest(words[i], path(q)) # NoMatch
  <2>1. /\ q \in Catalogue /\ path(q) \in Names
        /\ handed[k] = LocalRequest(Message(handed[k].id, q))
    BY DEF IInv, HttpOK, WholeOK, HandedOK, Asked, HasRoute
  <2>2. handed[k].url = IF path(q) \in Deletes THEN replaceAll(q.uri, path(q))
                        ELSE Plain(q.uri)
    BY <2>1 DEF LocalRequest, Message, DataMessage, Text
  <2>3. q.uri \in Seq(Range(q.uri)) \ {<<>>}
    BY <2>1, LinkAssumption DEF IsRequest
  <2> HIDE DEF q
  <2>4. ASSUME path(q) \in Deletes, ~again
        PROVE  handed[k].url = Plain(words)
    <3>1. CASE q.path = Empty
      <4>1. path(q) = q.uri[1] /\ words = Tail(q.uri)
        BY <3>1 DEF path, split1, OwnWords
      <4>2. replaceAll(q.uri, q.uri[1]) = Plain(Tail(q.uri))
        BY <2>1, <2>3, <2>4, <4>1, NameDeleted
      <4> QED BY <2>2, <2>4, <4>1, <4>2
    <3>2. CASE q.path # Empty
      <4>1. words = q.uri
        BY <3>2 DEF OwnWords
      <4>2. replaceAll(q.uri, path(q)) = Plain(q.uri)
        BY <2>4, <4>1 DEF replaceAll, Plain
      <4> QED BY <2>2, <2>4, <4>1, <4>2
    <3> QED BY <3>1, <3>2
  <2> QED BY <2>2, <2>4 DEF q
<1> QED BY <1>1, Always, PTL
===============================================================================
