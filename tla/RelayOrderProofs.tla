--------------------------- MODULE RelayOrderProofs ---------------------------
(***************************************************************************)
(* Proofs about the order in which Relay's services and external           *)
(* connections receive what is sent to them, and about where a stream's    *)
(* messages and answers go, for any number of connections, links, messages *)
(* and pieces of answers.                                                  *)
(*                                                                         *)
(* All of it hangs on what may still be on the wires when a message or an  *)
(* answer is read: no message of a local connection's id that is older     *)
(* than what its service has read (LocalAhead), none of a connection that  *)
(* waits for answers other than its last one (PatientOK), and, while an    *)
(* external connection is open, every piece of an answer between the last  *)
(* one it received and the last one its service wrote (PiecesOK).          *)
(***************************************************************************)
EXTENDS RelayProofs

\* Messages of one external connection follow each other in s.
Ordered(s) ==
    \A i, j \in DOMAIN s : i < j /\ s[i].key[1] = s[j].key[1] => s[i].key[2] < s[j].key[2]

\* What is on its way to the client over c.
Wire(c) == ToSet(down[c]) \cup ToSet(outbox[c])

\* The client reads c while it is open, and a local connection's link was open.
LinkOK ==
    /\ \A c \in Links : down[c] # <<>> => client[c] = "open"
    /\ \A c \in Links : client[c] # "new" => server[c] # "new"
    /\ \A l \in Keys : local[l] # None => client[local[l].link] # "new"

\* A connection sends when it is open, on the link it is tied to, and was given
\* an id that it has used.
SentOK ==
    \A x \in Exts :
        /\ ext[x] = "new" => sent[x] = 0
        /\ TCP_FLAG[x] # None => TCP_FLAG[x][2] <= sent[x]
        /\ ext[x] = "open" /\ OwnPort(x) => home[x] # None

WireOrder ==
    /\ \A c \in Links : Ordered(down[c]) /\ Ordered(outbox[c])
    /\ \A c \in Links : \A m \in ToSet(down[c]), k \in ToSet(outbox[c]) :
         m.key[1] = k.key[1] => m.key[2] < k.key[2]
    /\ \A c, d \in Links : \A m \in Wire(c), k \in Wire(d) : m.key = k.key => c = d

\* A request has its own id and any link, a stream one id and one link.
Shape(c, m) ==
    LET x == m.key[1] IN
    /\ m.key[2] <= sent[x] /\ m.id[2] <= m.key[2]
    /\ kind[x] \in {"http", "port"} => m.named /\ m.id = m.key
    /\ kind[x] \in {"ws", "tcp"} => c = home[x] /\ m.id = TCP_FLAG[x]
    /\ kind[x] = "ws" /\ m.named => m.id = m.key
    /\ kind[x] = "tcp" => m.named

WireShape == \A c \in Links : \A m \in Wire(c) : Shape(c, m)

WireOK == WireOrder /\ WireShape

Pending(l) == \E p \in {"connecting", "deaf", "dead"} : Is(l, p)

\* So do the local connections that messages opened.
LocalShape(l) ==
    LET x == l[1] IN
    /\ l[2] <= sent[x] /\ local[l].id[2] <= l[2]
    /\ \A k \in ToSet(local[l].got) : k <= sent[x]
    /\ kind[x] \in {"http", "port"} => local[l].id = l /\ \A k \in ToSet(local[l].got) : k = l[2]
    /\ kind[x] \in {"ws", "tcp"} => local[l].link = home[x] /\ local[l].id = TCP_FLAG[x]
    /\ kind[x] = "ws" => local[l].id = l
    /\ local[l].got # <<>> => local[l].phase \in {"ready", "closed"}
    /\ Pending(l) /\ x \notin Greeting => local[l].sent = 0

\* What is on its way for l is newer than the message that opened it, and than
\* what its service has read.
Ahead(l) ==
    \A c \in Links : \A m \in Wire(c) :
        m.id = local[l].id => m.key[2] > l[2] /\ \A k \in ToSet(local[l].got) : k < m.key[2]

\* The client's map leads to a local connection of the id.
MapOK ==
    \A id \in Keys : LET l == CLIENT_MAPPING[id] IN
        l # None => local[l] # None /\ local[l].id = id

\* Nobody has read the message that a pending connection waits to write.
PendingOK ==
    \A p, l \in Keys :
        Pending(p) /\ local[l] # None /\ l[1] = p[1] => p[2] \notin ToSet(local[l].got)

LocalsOK ==
    /\ \A l \in Keys : local[l] # None => LocalShape(l) /\ Ahead(l)
    /\ MapOK /\ PendingOK /\ ChunksInOrder

\* A piece of an answer is one that its local connection sent.
Piece(a) ==
    /\ local[a.from] # None /\ local[a.from].id = a.id
    /\ a.n \in 1..local[a.from].sent
    /\ a.re \in {0} \cup ToSet(local[a.from].got)

\* The server's own answer stands for a message that was never sent on.
Refused(x, a) ==
    /\ a.id = <<x, a.re>> /\ a.re \in 1..sent[x]
    /\ local[a.id] = None /\ TCP_FLAG[x] # a.id
    /\ \A c \in Links : \A m \in Wire(c) : m.key # a.id
    /\ kind[x] = "ws" /\ home[x] # None => a.re < TCP_FLAG[x][2]

AnswersOK ==
    /\ \A c \in Links : \A a \in ToSet(up[c]) : Piece(a)
    /\ \A x \in Exts : \A a \in ToSet(got[x]) : IF a.n = 0 THEN Refused(x, a) ELSE Piece(a)

\* Where x waits for answers, what is under way is its last message; a frame of
\* it follows the upgrade's answer.
PatientOK ==
    /\ \A c \in Links : \A m \in Wire(c) : m.key[1] \in Patient =>
         /\ m.key[2] = sent[m.key[1]]
         /\ ~m.named => Is(m.id, "closed") \/ Reaches(m.id, m)
    /\ \A l \in Keys : l[1] \in Patient /\ Pending(l) => l[2] = sent[l[1]]
    /\ StreamStaysTogether

\* The server's map has what an answer may come home by, while x is open.
HomeOK ==
    /\ \A c \in Links : \A m \in ToSet(down[c]) :
         m.named /\ ext[m.key[1]] # "closed" => SERVER_MAPPING[m.id] = m.key[1]
    /\ \A l \in Keys :
         local[l] # None /\ ext[l[1]] # "closed" => SERVER_MAPPING[local[l].id] = l[1]
    /\ \A x \in Exts : kind[x] = "tcp" /\ TCP_FLAG[x] # None /\ ext[x] # "closed" =>
         SERVER_MAPPING[TCP_FLAG[x]] = x

\* Piece n of l is in s, before index i.
HasBefore(s, i, l, n) == \E j \in 1..(i - 1) : s[j].from = l /\ s[j].n = n
Has(s, l, n) == \E j \in DOMAIN s : s[j].from = l /\ s[j].n = n

\* No piece overtakes another, and none is missing between what x has received
\* and what was written last.
PiecesOK ==
    /\ \A c \in Links : \A i \in DOMAIN up[c] :
         LET b == up[c][i] IN
         /\ c = local[b.from].link
         /\ \A n \in b.n..MaxAnswers : ~HasBefore(up[c], i, b.from, n) /\ ~Has(got[b.from[1]], b.from, n)
         /\ b.from[1] \notin Greeting /\ ext[b.from[1]] # "closed" =>
              \A n \in 1..(b.n - 1) : HasBefore(up[c], i, b.from, n) \/ Has(got[b.from[1]], b.from, n)
    /\ \A l \in Keys :
         LET c == local[l].link IN
         (/\ Is(l, "ready") /\ l[1] \notin Greeting
          /\ ext[l[1]] # "closed" /\ client[c] = "open" /\ server[c] = "open") =>
         \A n \in 1..local[l].sent : Has(up[c], l, n) \/ Has(got[l[1]], l, n)
    /\ AnswersComeHomeInOrder

OInv ==
    /\ LinkOK /\ SentOK /\ WireOK /\ LocalsOK /\ AnswersOK /\ PatientOK
    /\ HomeOK /\ PiecesOK /\ EndedIsForgotten

-----------------------------------------------------------------------------
(* Sequences *)

LEMMA SetOf ==
    ASSUME NEW S, NEW s \in Seq(S)
    PROVE  /\ ToSet(s) \subseteq S
           /\ \A e : e \in ToSet(s) <=> \E i \in 1..Len(s) : s[i] = e
<1>1. Len(s) \in Nat /\ DOMAIN s = 1..Len(s) /\ \A i \in 1..Len(s) : s[i] \in S
  OBVIOUS
<1> QED BY <1>1 DEF ToSet

LEMMA EmptySet == ToSet(<<>>) = {}
BY DEF ToSet

LEMMA TailParts ==
    ASSUME NEW S, NEW s \in Seq(S), s # <<>>
    PROVE  /\ Len(s) \in Nat /\ Len(s) >= 1 /\ DOMAIN s = 1..Len(s)
           /\ DOMAIN Tail(s) = 1..(Len(s) - 1)
           /\ Head(s) = s[1] /\ Head(s) \in S /\ Tail(s) \in Seq(S)
           /\ \A i \in 1..(Len(s) - 1) : Tail(s)[i] = s[i + 1]
           /\ \A i \in 2..Len(s) : i - 1 \in 1..(Len(s) - 1) /\ Tail(s)[i - 1] = s[i]
BY HeadTailProperties, EmptySeq

LEMMA TailSet ==
    ASSUME NEW S, NEW s \in Seq(S), s # <<>>
    PROVE  ToSet(s) = ToSet(Tail(s)) \cup {Head(s)}
<1>1. ASSUME NEW e \in ToSet(Tail(s)) PROVE e \in ToSet(s)
  <2>1. PICK i \in 1..(Len(s) - 1) : Tail(s)[i] = e
    BY <1>1, TailParts DEF ToSet
  <2>2. i + 1 \in DOMAIN s /\ s[i + 1] = e
    BY <2>1, TailParts
  <2> QED BY <2>2 DEF ToSet
<1>2. Head(s) \in ToSet(s)
  <2>1. 1 \in DOMAIN s /\ Head(s) = s[1]
    BY TailParts
  <2> QED BY <2>1 DEF ToSet
<1>3. ASSUME NEW e \in ToSet(s) PROVE e \in ToSet(Tail(s)) \cup {Head(s)}
  <2>1. PICK i \in 1..Len(s) : s[i] = e
    BY <1>3, SetOf
  <2>2. CASE i = 1
    BY <2>1, <2>2, TailParts
  <2>3. CASE i # 1
    <3>1. i \in 2..Len(s)
      BY <2>1, <2>3
    <3>2. i - 1 \in DOMAIN Tail(s) /\ Tail(s)[i - 1] = e
      BY <2>1, <3>1, TailParts
    <3> QED BY <3>2 DEF ToSet
  <2> QED BY <2>2, <2>3
<1> QED BY <1>1, <1>2, <1>3

LEMMA AppendParts ==
    ASSUME NEW S, NEW s \in Seq(S), NEW e \in S
    PROVE  /\ Len(s) \in Nat /\ DOMAIN s = 1..Len(s) /\ DOMAIN Append(s, e) = 1..(Len(s) + 1)
           /\ Append(s, e)[Len(s) + 1] = e
           /\ \A i \in 1..Len(s) : Append(s, e)[i] = s[i]
           /\ Append(s, e) \in Seq(S)
BY AppendProperties

LEMMA AppendSet ==
    ASSUME NEW S, NEW s \in Seq(S), NEW e \in S
    PROVE  ToSet(Append(s, e)) = ToSet(s) \cup {e}
<1> DEFINE t == Append(s, e)
<1>1. /\ Len(s) \in Nat /\ DOMAIN s = 1..Len(s) /\ DOMAIN t = 1..(Len(s) + 1)
      /\ t[Len(s) + 1] = e /\ \A i \in 1..Len(s) : t[i] = s[i]
  BY AppendParts
<1> HIDE DEF t
<1>2. \A d : d \in ToSet(t) <=> \E i \in 1..(Len(s) + 1) : t[i] = d
  BY <1>1 DEF ToSet
<1>3. \A d : d \in ToSet(s) <=> \E i \in 1..Len(s) : s[i] = d
  BY <1>1 DEF ToSet
<1>4. ASSUME NEW d \in ToSet(s) PROVE d \in ToSet(t)
  <2>1. PICK i \in 1..Len(s) : s[i] = d
    BY <1>3, <1>4
  <2>2. i \in 1..(Len(s) + 1) /\ t[i] = d
    BY <1>1, <2>1
  <2> QED BY <1>2, <2>2
<1>5. e \in ToSet(t)
  BY <1>1, <1>2
<1>6. ASSUME NEW d \in ToSet(t) PROVE d \in ToSet(s) \cup {e}
  <2>1. PICK i \in 1..(Len(s) + 1) : t[i] = d
    BY <1>2, <1>6
  <2>2. CASE i = Len(s) + 1
    BY <1>1, <2>1, <2>2
  <2>3. CASE i # Len(s) + 1
    <3>1. i \in 1..Len(s) /\ s[i] = d
      BY <1>1, <2>1, <2>3
    <3> QED BY <1>3, <3>1
  <2> QED BY <2>2, <2>3
<1> QED BY <1>4, <1>5, <1>6 DEF t

LEMMA LastIn ==
    ASSUME NEW S, NEW s \in Seq(S), s # <<>>
    PROVE  Last(s) \in ToSet(s)
<1>1. Len(s) \in DOMAIN s
  BY EmptySeq
<1> QED BY <1>1 DEF Last, ToSet

\* Messages.
LEMMA MessageParts ==
    /\ \A m \in OwnMessage :
         /\ m.key \in Keys /\ m.id \in Keys /\ m.id[1] = m.key[1] /\ m.key[1] \in Exts
         /\ m.key[2] \in 1..MaxMsgs /\ m.id[2] \in 1..MaxMsgs /\ m.named \in BOOLEAN
    /\ \A k \in Keys : k[1] \in Exts /\ k[2] \in 1..MaxMsgs /\ k = <<k[1], k[2]>>
    /\ \A k, l \in Keys : k[1] = l[1] /\ k[2] = l[2] => k = l
    /\ \A x \in Exts, n \in 1..MaxMsgs : <<x, n>> \in Keys
BY DEF OwnMessage, Message, Keys

LEMMA OrderedTail ==
    ASSUME NEW s \in Seq(OwnMessage), s # <<>>, Ordered(s)
    PROVE  /\ Ordered(Tail(s))
           /\ \A m \in ToSet(Tail(s)) : m.key[1] = Head(s).key[1] => Head(s).key[2] < m.key[2]
<1> DEFINE t == Tail(s)
<1>1. /\ Len(s) \in Nat /\ Len(s) >= 1 /\ DOMAIN s = 1..Len(s) /\ DOMAIN t = 1..(Len(s) - 1)
      /\ Head(s) = s[1] /\ \A i \in 1..(Len(s) - 1) : t[i] = s[i + 1]
  BY TailParts
<1> HIDE DEF t
<1>2. Ordered(t)
  <2> SUFFICES ASSUME NEW i \in 1..(Len(s) - 1), NEW j \in 1..(Len(s) - 1), i < j,
                      t[i].key[1] = t[j].key[1]
               PROVE  t[i].key[2] < t[j].key[2]
    BY <1>1 DEF Ordered
  <2>1. i + 1 \in DOMAIN s /\ j + 1 \in DOMAIN s /\ i + 1 < j + 1
    BY <1>1
  <2> QED BY <1>1, <2>1 DEF Ordered
<1>3. ASSUME NEW m \in ToSet(t), m.key[1] = Head(s).key[1] PROVE Head(s).key[2] < m.key[2]
  <2>1. PICK i \in 1..(Len(s) - 1) : t[i] = m
    BY <1>1, <1>3 DEF ToSet
  <2>2. 1 \in DOMAIN s /\ i + 1 \in DOMAIN s /\ 1 < i + 1 /\ s[i + 1] = m
    BY <1>1, <2>1
  <2> QED BY <1>1, <1>3, <2>2 DEF Ordered
<1> QED BY <1>2, <1>3 DEF t

LEMMA OrderedAppend ==
    ASSUME NEW s \in Seq(OwnMessage), Ordered(s), NEW m \in OwnMessage,
           \A k \in ToSet(s) : k.key[1] = m.key[1] => k.key[2] < m.key[2]
    PROVE  Ordered(Append(s, m))
<1> DEFINE t == Append(s, m)
<1>1. /\ Len(s) \in Nat /\ DOMAIN s = 1..Len(s) /\ DOMAIN t = 1..(Len(s) + 1)
      /\ t[Len(s) + 1] = m /\ \A i \in 1..Len(s) : t[i] = s[i]
  BY AppendParts
<1> HIDE DEF t
<1>2. SUFFICES ASSUME NEW i \in 1..(Len(s) + 1), NEW j \in 1..(Len(s) + 1), i < j,
                      t[i].key[1] = t[j].key[1]
               PROVE  t[i].key[2] < t[j].key[2]
  BY <1>1 DEF Ordered, t
<1>3. i \in 1..Len(s) /\ t[i] = s[i]
  BY <1>1, <1>2
<1>4. CASE j = Len(s) + 1
  <2>1. s[i] \in ToSet(s)
    BY <1>1, <1>3 DEF ToSet
  <2> QED BY <1>1, <1>2, <1>3, <1>4, <2>1
<1>5. CASE j # Len(s) + 1
  <2>1. j \in 1..Len(s) /\ t[j] = s[j]
    BY <1>1, <1>5
  <2> QED BY <1>1, <1>2, <1>3, <2>1 DEF Ordered
<1> QED BY <1>4, <1>5

\* Pieces.
LEMMA HasTail ==
    ASSUME NEW s \in Seq(Answer), s # <<>>, NEW l, NEW n
    PROVE  /\ Has(s, l, n) <=> Has(Tail(s), l, n) \/ (Head(s).from = l /\ Head(s).n = n)
           /\ \A i \in DOMAIN Tail(s) :
                /\ i + 1 \in DOMAIN s /\ Tail(s)[i] = s[i + 1]
                /\ HasBefore(s, i + 1, l, n) <=>
                     HasBefore(Tail(s), i, l, n) \/ (Head(s).from = l /\ Head(s).n = n)
           /\ 1 \in DOMAIN s /\ s[1] = Head(s) /\ ~HasBefore(s, 1, l, n)
<1> DEFINE t == Tail(s)
           L == Len(s)
<1>1. /\ L \in Nat /\ L >= 1 /\ DOMAIN s = 1..L /\ DOMAIN t = 1..(L - 1)
      /\ Head(s) = s[1] /\ \A i \in 1..(L - 1) : t[i] = s[i + 1]
      /\ \A i \in 2..L : i - 1 \in 1..(L - 1) /\ t[i - 1] = s[i]
  BY TailParts
<1> HIDE DEF t, L
<1>2. ASSUME NEW i \in 1..L
      PROVE  (\E j \in 1..i : s[j].from = l /\ s[j].n = n) <=>
               (\E j \in 1..(i - 1) : t[j].from = l /\ t[j].n = n) \/ (Head(s).from = l /\ Head(s).n = n)
  <2>1. ASSUME NEW j \in 1..i, s[j].from = l, s[j].n = n
        PROVE  (\E k \in 1..(i - 1) : t[k].from = l /\ t[k].n = n) \/ (Head(s).from = l /\ Head(s).n = n)
    <3>1. CASE j = 1
      BY <1>1, <2>1, <3>1
    <3>2. CASE j # 1
      <4>1. j \in 2..L /\ j - 1 \in 1..(i - 1)
        BY <1>1, <3>2
      <4> QED BY <1>1, <2>1, <4>1
    <3> QED BY <3>1, <3>2
  <2>2. ASSUME NEW j \in 1..(i - 1), t[j].from = l, t[j].n = n
        PROVE  \E k \in 1..i : s[k].from = l /\ s[k].n = n
    <3>1. j \in 1..(L - 1) /\ j + 1 \in 1..i
      BY <1>1
    <3> QED BY <1>1, <2>2, <3>1
  <2>3. 1 \in 1..i
    OBVIOUS
  <2> QED BY <1>1, <2>1, <2>2, <2>3
<1>3. Has(s, l, n) <=> Has(t, l, n) \/ (Head(s).from = l /\ Head(s).n = n)
  <2>1. L \in 1..L
    BY <1>1
  <2> QED BY <1>1, <1>2, <2>1 DEF Has
<1>4. ASSUME NEW i \in 1..(L - 1)
      PROVE  /\ i + 1 \in DOMAIN s /\ t[i] = s[i + 1]
             /\ HasBefore(s, i + 1, l, n) <=>
                  HasBefore(t, i, l, n) \/ (Head(s).from = l /\ Head(s).n = n)
  <2>1. i \in 1..L /\ i + 1 \in 1..L /\ (i + 1) - 1 = i
    BY <1>1
  <2> QED BY <1>1, <1>2, <2>1 DEF HasBefore
<1>5. 1 \in DOMAIN s /\ ~HasBefore(s, 1, l, n)
  BY <1>1 DEF HasBefore
<1> QED BY <1>1, <1>3, <1>4, <1>5 DEF t

LEMMA HasAppend ==
    ASSUME NEW s \in Seq(Answer), NEW a \in Answer, NEW l, NEW n
    PROVE  /\ Has(Append(s, a), l, n) <=> Has(s, l, n) \/ (a.from = l /\ a.n = n)
           /\ \A i \in DOMAIN s :
                /\ Append(s, a)[i] = s[i]
                /\ HasBefore(Append(s, a), i, l, n) <=> HasBefore(s, i, l, n)
           /\ Append(s, a)[Len(s) + 1] = a
           /\ HasBefore(Append(s, a), Len(s) + 1, l, n) <=> Has(s, l, n)
           /\ DOMAIN Append(s, a) = DOMAIN s \cup {Len(s) + 1}
<1> DEFINE t == Append(s, a)
           L == Len(s)
<1>1. /\ L \in Nat /\ DOMAIN s = 1..L /\ DOMAIN t = 1..(L + 1)
      /\ t[L + 1] = a /\ \A i \in 1..L : t[i] = s[i]
  BY AppendParts
<1> HIDE DEF t, L
<1>2. ASSUME NEW i \in 1..L
      PROVE  t[i] = s[i] /\ (HasBefore(t, i, l, n) <=> HasBefore(s, i, l, n))
  <2>1. \A j \in 1..(i - 1) : j \in 1..L /\ t[j] = s[j]
    BY <1>1
  <2> QED BY <1>1, <2>1 DEF HasBefore
<1>3. HasBefore(t, L + 1, l, n) <=> Has(s, l, n)
  <2>1. (L + 1) - 1 = L
    BY <1>1
  <2> QED BY <1>1, <2>1 DEF HasBefore, Has
<1>4. Has(t, l, n) <=> Has(s, l, n) \/ (a.from = l /\ a.n = n)
  <2>1. 1..(L + 1) = (1..L) \cup {L + 1}
    BY <1>1
  <2> QED BY <1>1, <2>1 DEF Has
<1>5. 1..(L + 1) = (1..L) \cup {L + 1}
  BY <1>1
<1> QED BY <1>1, <1>2, <1>3, <1>4, <1>5 DEF t, L

-----------------------------------------------------------------------------
(* What the invariant says of a message, a local connection and an answer *)

LEMMA Typed ==
    ASSUME IInv
    PROVE  /\ \A c \in Links : /\ down[c] \in Seq(OwnMessage) /\ outbox[c] \in Seq(OwnMessage)
                             /\ up[c] \in Seq(OwnAnswer) /\ up[c] \in Seq(Answer)
                             /\ Wire(c) \subseteq OwnMessage
           /\ \A l \in Keys : local[l] # None =>
                /\ local[l] \in Local /\ local[l].id \in Keys /\ local[l].id[1] = l[1]
                /\ local[l].link \in Links /\ local[l].got \in Seq(1..MaxMsgs)
                /\ ToSet(local[l].got) \subseteq 1..MaxMsgs /\ local[l].sent \in 0..MaxAnswers
                /\ local[l].phase \in Phases
           /\ \A x \in Exts : got[x] \in Seq(Answer) /\ ToSet(got[x]) \subseteq For(x)
           /\ \A x \in Exts : sent[x] \in 0..MaxMsgs
<1>1. ASSUME NEW c \in Links
      PROVE  /\ down[c] \in Seq(OwnMessage) /\ outbox[c] \in Seq(OwnMessage)
             /\ up[c] \in Seq(OwnAnswer) /\ up[c] \in Seq(Answer)
             /\ Wire(c) \subseteq OwnMessage
  <2>1. /\ down[c] \in Seq(OwnMessage) /\ outbox[c] \in Seq(OwnMessage)
        /\ up[c] \in Seq(OwnAnswer)
    BY DEF IInv, WiresOK
  <2>2. up[c] \in Seq(Answer)
    BY <2>1, SeqMonotonic DEF OwnAnswer
  <2>3. ToSet(down[c]) \subseteq OwnMessage /\ ToSet(outbox[c]) \subseteq OwnMessage
    BY <2>1, SetOf
  <2> QED BY <2>1, <2>2, <2>3 DEF Wire
<1>2. ASSUME NEW l \in Keys, local[l] # None
      PROVE  /\ local[l] \in Local /\ local[l].id \in Keys /\ local[l].id[1] = l[1]
             /\ local[l].link \in Links /\ local[l].got \in Seq(1..MaxMsgs)
             /\ ToSet(local[l].got) \subseteq 1..MaxMsgs /\ local[l].sent \in 0..MaxAnswers
             /\ local[l].phase \in Phases
  <2>1. local[l] \in Local /\ local[l].id[1] = l[1]
    BY <1>2 DEF IInv, LocalOK
  <2>2. /\ local[l].id \in Keys /\ local[l].link \in Links /\ local[l].got \in Seq(1..MaxMsgs)
        /\ local[l].sent \in 0..MaxAnswers /\ local[l].phase \in Phases
    BY <2>1 DEF Local
  <2>3. ToSet(local[l].got) \subseteq 1..MaxMsgs
    BY <2>2, SetOf
  <2> QED BY <2>1, <2>2, <2>3
<1>3. ASSUME NEW x \in Exts
      PROVE  got[x] \in Seq(Answer) /\ ToSet(got[x]) \subseteq For(x)
  <2>1. got[x] \in Seq(Answer) /\ got[x] \in Seq(For(x))
    BY DEF IInv, GotOK
  <2> QED BY <2>1, SetOf
<1>4. \A x \in Exts : sent[x] \in 0..MaxMsgs
  BY DEF IInv, ConnectionsOK
<1> QED BY <1>1, <1>2, <1>3, <1>4

\* The service of a local connection has not read a message that is on its way,
\* and all messages and local connections of a stream have one id.
LEMMA Unread ==
    ASSUME IInv, OInv, NEW c \in Links, NEW m \in Wire(c), NEW l \in Keys,
           local[l] # None, l[1] = m.key[1]
    PROVE  /\ l # m.key
           /\ m.key[2] \notin ToSet(local[l].got)
           /\ kind[l[1]] \in {"ws", "tcp"} => local[l].id = m.id
<1> DEFINE x == l[1]
<1>1. /\ m \in OwnMessage /\ l \in Keys /\ Shape(c, m) /\ LocalShape(l) /\ Ahead(l)
      /\ x \in Exts /\ m.key[2] \in 1..MaxMsgs /\ l[2] \in 1..MaxMsgs
      /\ ToSet(local[l].got) \subseteq 1..MaxMsgs
      /\ kind[x] \in {"http", "ws", "port", "tcp"}
  BY Typed, MessageParts DEF OInv, WireOK, WireShape, LocalsOK, IInv, ConnectionsOK
<1>2. kind[x] \in {"ws", "tcp"} => local[l].id = m.id
  BY <1>1 DEF Shape, LocalShape
<1>3. m.id = local[l].id => l # m.key /\ m.key[2] \notin ToSet(local[l].got)
  BY <1>1 DEF Ahead
<1>4. CASE kind[x] \in {"ws", "tcp"}
  BY <1>2, <1>3, <1>4
<1>5. CASE kind[x] \in {"http", "port"}
  <2>1. m.id = m.key /\ local[l].id = l /\ \A k \in ToSet(local[l].got) : k = l[2]
    BY <1>1, <1>5 DEF Shape, LocalShape
  <2>2. m.key[2] = l[2] => m.key = l
    BY <1>1, MessageParts
  <2> QED BY <1>2, <1>3, <2>1, <2>2
<1> QED BY <1>1, <1>4, <1>5

\* A connection that waits for its answers and may send has nothing under way,
\* and the local connection of its stream has answered.
LEMMA Waited ==
    ASSUME IInv, OInv, NEW x \in Exts, x \in Patient, Sends(x)
    PROVE  /\ \A c \in Links : \A m \in Wire(c) : m.key[1] # x
           /\ \A l \in Keys : Pending(l) => l[1] # x
           /\ kind[x] = "ws" /\ home[x] # None =>
                LET l == TCP_FLAG[x] IN
                Is(l, "closed") \/ (Is(l, "ready") /\ local[l].sent > 0)
<1>1. ext[x] = "open" /\ (sent[x] > 0 => \E i \in DOMAIN got[x] : got[x][i].re = sent[x])
  BY DEF Sends
<1>2. /\ sent[x] \in 0..MaxMsgs
      /\ \A c \in Links : \A m \in Wire(c) : m \in OwnMessage /\ m.key[2] \in 1..MaxMsgs
                                             /\ m.key \in Keys /\ Shape(c, m)
      /\ \A l \in Keys : local[l] # None => l[2] \in 1..MaxMsgs /\ LocalShape(l)
  BY Typed, MessageParts DEF OInv, WireOK, WireShape, LocalsOK
<1>3. \A l \in Keys : Pending(l) => local[l] # None
  BY DEF Pending, Is
<1>4. CASE sent[x] = 0
  <2>1. \A c \in Links : \A m \in Wire(c) : m.key[1] # x
    BY <1>2, <1>4 DEF Shape
  <2>2. \A l \in Keys : Pending(l) => l[1] # x
    BY <1>2, <1>3, <1>4 DEF LocalShape
  <2>3. kind[x] = "ws" => home[x] = None
    <3>1. TCP_FLAG[x] # None => TCP_FLAG[x] \in Keys /\ TCP_FLAG[x][2] <= 0
      BY <1>4 DEF OInv, SentOK, IInv, FlagOK
    <3>2. TCP_FLAG[x] = None
      BY <3>1, MessageParts
    <3> QED BY <3>2 DEF IInv, FlagOK
  <2> QED BY <2>1, <2>2, <2>3
<1>5. CASE sent[x] > 0
  <2>1. PICK a \in ToSet(got[x]) : a.re = sent[x]
    BY <1>1, <1>5 DEF ToSet
  <2>2. a \in Answer /\ a.from[1] = x /\ a.from \in Keys /\ a.id \in Keys
    BY Typed DEF For, Answer
  <2>3. /\ \A c \in Links : \A m \in Wire(c) : m.key[1] = x => m.key[2] = sent[x]
        /\ \A l \in Keys : Pending(l) /\ l[1] = x => l[2] = sent[x]
    BY DEF OInv, PatientOK
  <2>4. CASE a.n = 0
    <3>1. Refused(x, a)
      BY <2>4 DEF OInv, AnswersOK
    <3>2. \A c \in Links : \A m \in Wire(c) : m.key[1] # x
      BY <1>2, <2>1, <2>3, <3>1, MessageParts DEF Refused
    <3>3. \A l \in Keys : Pending(l) => l[1] # x
      BY <1>3, <2>1, <2>3, <3>1, MessageParts DEF Refused
    <3>4. ~(kind[x] = "ws" /\ home[x] # None)
      <4>1. TCP_FLAG[x] # None => TCP_FLAG[x] \in Keys /\ TCP_FLAG[x][2] <= sent[x]
        BY DEF OInv, SentOK, IInv, FlagOK
      <4>2. kind[x] = "ws" /\ home[x] # None => TCP_FLAG[x] # None
        BY DEF IInv, FlagOK
      <4>3. TCP_FLAG[x] \in Keys => TCP_FLAG[x][2] \in Nat
        BY MessageParts
      <4> QED BY <1>2, <2>1, <3>1, <4>1, <4>2, <4>3 DEF Refused
    <3> QED BY <3>2, <3>3, <3>4
  <2>5. CASE a.n # 0
    <3> DEFINE l == a.from
    <3>1. l \in Keys /\ l[1] = x /\ local[l] # None /\ a.n \in 1..local[l].sent
          /\ sent[x] \in ToSet(local[l].got)
      BY <1>5, <2>1, <2>2, <2>5 DEF OInv, AnswersOK, Piece
    <3> HIDE DEF l
    <3>2. \A c \in Links : \A m \in Wire(c) : m.key[1] # x
      BY <2>3, <3>1, Unread
    <3>3. \A k \in Keys : Pending(k) => k[1] # x
      BY <2>3, <3>1 DEF OInv, LocalsOK, PendingOK
    <3>4. ASSUME kind[x] = "ws", home[x] # None
          PROVE  LET k == TCP_FLAG[x] IN Is(k, "closed") \/ (Is(k, "ready") /\ local[k].sent > 0)
      <4>1. l = TCP_FLAG[x]
        BY <1>2, <3>1, <3>4 DEF LocalShape
      <4>2. local[l].got # <<>>
        BY <3>1, EmptySet
      <4>3. local[l].phase \in {"ready", "closed"}
        BY <1>2, <3>1, <4>2 DEF LocalShape
      <4>4. local[l].sent > 0
        BY <3>1, Typed
      <4> QED BY <3>1, <4>1, <4>3, <4>4 DEF Is
    <3> QED BY <3>2, <3>3, <3>4
  <2> QED BY <2>4, <2>5
<1> QED BY <1>2, <1>4, <1>5

-----------------------------------------------------------------------------
(* What stays true when nothing it speaks of changes *)

\* Streams keep their id and link, and nobody unsends.
Steady ==
    /\ kind' = kind
    /\ \A x \in Exts :
         /\ sent'[x] \in Nat /\ sent[x] <= sent'[x]
         /\ kind[x] \in {"ws", "tcp"} /\ home[x] # None /\ TCP_FLAG[x] # None =>
              home'[x] = home[x] /\ TCP_FLAG'[x] = TCP_FLAG[x]

\* Local connections keep their id and link, and what their service did.
Grows ==
    \A l \in Keys : local[l] # None =>
        /\ local'[l] # None
        /\ local'[l].id = local[l].id /\ local'[l].link = local[l].link
        /\ local[l].sent <= local'[l].sent /\ local'[l].sent \in Nat
        /\ ToSet(local[l].got) \subseteq ToSet(local'[l].got)

LEMMA ShapeKept ==
    ASSUME IInv, OInv, Steady, NEW c \in Links, NEW m \in Wire(c)
    PROVE  Shape(c, m)'
<1>1. Shape(c, m) /\ m \in OwnMessage /\ m.key[1] \in Exts /\ m.id \in Keys /\ m.key[2] \in Nat
  BY Typed, MessageParts DEF OInv, WireOK, WireShape
<1>2. sent[m.key[1]] \in Nat
  BY <1>1, Typed
<1> QED BY <1>1, <1>2, NoneAssumption DEF Shape, Steady, Keys

LEMMA LocalKept ==
    ASSUME IInv, OInv, Steady, NEW l \in Keys, local[l] # None, local'[l] = local[l]
    PROVE  LocalShape(l)'
<1>1. /\ LocalShape(l) /\ l[1] \in Exts /\ local[l].id \in Keys /\ local[l].link \in Links
      /\ l[2] \in Nat /\ ToSet(local[l].got) \subseteq Nat /\ sent[l[1]] \in Nat
  <2>1. LocalShape(l)
    BY DEF OInv, LocalsOK
  <2>2. l[1] \in Exts /\ l[2] \in 1..MaxMsgs
    BY MessageParts
  <2>3. /\ local[l].id \in Keys /\ local[l].link \in Links
        /\ ToSet(local[l].got) \subseteq 1..MaxMsgs /\ sent[l[1]] \in 0..MaxMsgs
    BY <2>2, Typed
  <2> QED BY <2>1, <2>2, <2>3
<1>2. Pending(l)' => Pending(l)
  BY DEF Pending, Is
<1> QED BY <1>1, <1>2, NoneAssumption DEF LocalShape, Steady, Keys

LEMMA PieceKept ==
    ASSUME IInv, Grows, NEW a \in Answer, Piece(a)
    PROVE  Piece(a)'
<1>1. a.from \in Keys /\ local[a.from] # None /\ local[a.from].sent \in Nat /\ a.n \in Nat
  BY Typed DEF Answer, Piece
<1> QED BY <1>1 DEF Piece, Grows

\* A refused message stays unsent.
LEMMA RefusedKept ==
    ASSUME IInv, Steady, NEW x \in Exts, NEW a, Refused(x, a),
           local'[a.id] = None, TCP_FLAG'[x] # a.id,
           \A c \in Links : \A m \in Wire(c)' : m.key # a.id,
           kind[x] = "ws" /\ home'[x] # None => a.re < TCP_FLAG'[x][2]
    PROVE  Refused(x, a)'
<1>1. sent[x] \in Nat
  BY Typed
<1> QED BY <1>1 DEF Refused, Steady

\* Local connections are as they were, and no message was added for them.
LEMMA LocalsKept ==
    ASSUME IInv, OInv, Steady, UNCHANGED <<local, CLIENT_MAPPING>>,
           \A c \in Links : Wire(c)' \subseteq Wire(c)
    PROVE  LocalsOK'
<1>1. \A l \in Keys : local'[l] # None => LocalShape(l)'
  BY LocalKept
<1>2. \A l \in Keys : local'[l] # None => Ahead(l)'
  BY DEF OInv, LocalsOK, Ahead
<1>3. MapOK' /\ PendingOK' /\ ChunksInOrder'
  BY DEF OInv, LocalsOK, MapOK, PendingOK, Pending, Is, ChunksInOrder
<1> QED BY <1>1, <1>2, <1>3 DEF LocalsOK

LEMMA ShapesKept ==
    ASSUME IInv, OInv, Steady, \A c \in Links : Wire(c)' \subseteq Wire(c)
    PROVE  WireShape'
BY ShapeKept DEF WireShape

\* Nothing new is under way for those who wait, and nobody has sent.
LEMMA PatientKept ==
    ASSUME IInv, OInv, UNCHANGED <<local, CLIENT_MAPPING, sent>>,
           \A c \in Links : Wire(c)' \subseteq Wire(c)
    PROVE  PatientOK'
<1>1. StreamStaysTogether'
  BY DEF OInv, PatientOK, StreamStaysTogether, InUse, Is
<1>2. \A l \in Keys : l[1] \in Patient /\ Pending(l)' => l[2] = sent'[l[1]]
  BY DEF OInv, PatientOK, Pending, Is
<1>3. ASSUME NEW c \in Links, NEW m \in Wire(c)', m.key[1] \in Patient
      PROVE  /\ m.key[2] = sent'[m.key[1]]
             /\ ~m.named => (Is(m.id, "closed") \/ Reaches(m.id, m))'
  BY <1>3 DEF OInv, PatientOK, Reaches, Is
<1> QED BY <1>1, <1>2, <1>3 DEF PatientOK

\* What was received and what is on its way back is as it was.
LEMMA AnswersKept ==
    ASSUME IInv, OInv, Steady, Grows, UNCHANGED got,
           \A c \in Links : ToSet(up'[c]) \subseteq ToSet(up[c]),
           \A x \in Exts, a \in Answer : Refused(x, a) => Refused(x, a)'
    PROVE  AnswersOK'
<1>1. \A c \in Links : ToSet(up[c]) \subseteq Answer
  BY Typed, SetOf
<1>2. \A x \in Exts : ToSet(got[x]) \subseteq Answer
  BY Typed DEF For
<1>3. \A a \in Answer : Piece(a) => Piece(a)'
  BY PieceKept
<1> QED BY <1>1, <1>2, <1>3 DEF OInv, AnswersOK

LEMMA PiecesKept ==
    ASSUME IInv, OInv, UNCHANGED <<up, got, local, client, server>>,
           \A x \in Exts : ext'[x] # "closed" => ext[x] # "closed"
    PROVE  PiecesOK'
<1>1. \A c \in Links : \A i \in DOMAIN up[c] : up[c][i].from \in Keys
  <2>1. \A c \in Links : up[c] \in Seq(Answer)
    BY Typed
  <2>2. \A c \in Links : \A i \in DOMAIN up[c] : up[c][i] \in Answer
    BY <2>1
  <2> QED BY <2>2 DEF Answer
<1>2. \A l \in Keys : l[1] \in Exts
  BY MessageParts
<1>3. AnswersComeHomeInOrder'
  BY DEF OInv, PiecesOK, AnswersComeHomeInOrder
<1>4. \A l \in Keys : Is(l, "ready")' = Is(l, "ready")
  BY DEF Is
<1> QED BY <1>1, <1>2, <1>3, <1>4 DEF OInv, PiecesOK

-----------------------------------------------------------------------------
LEMMA StartOrder == Init => OInv
<1> SUFFICES ASSUME Init PROVE OInv
  OBVIOUS
<1>1. /\ \A c \in Links : down[c] = <<>> /\ outbox[c] = <<>> /\ up[c] = <<>> /\ client[c] = "new"
      /\ \A c \in Links : ToSet(down[c]) = {} /\ ToSet(up[c]) = {} /\ Wire(c) = {}
      /\ \A l \in Keys : local[l] = None
      /\ \A x \in Exts : got[x] = <<>> /\ ToSet(got[x]) = {} /\ TCP_FLAG[x] = None
      /\ \A x \in Exts : ext[x] = "new" /\ sent[x] = 0
      /\ \A id \in Keys : CLIENT_MAPPING[id] = None
  BY EmptySet DEF Init, Wire
<1>2. \A l \in Keys : \A p : ~Is(l, p)
  BY <1>1 DEF Is
<1>3. LinkOK /\ SentOK
  BY <1>1 DEF LinkOK, SentOK
<1>4. WireOK
  <2>1. Ordered(<<>>)
    BY DEF Ordered
  <2>2. WireOrder /\ WireShape
    BY <1>1, <2>1 DEF WireOrder, WireShape
  <2> QED BY <2>2 DEF WireOK
<1>5. LocalsOK
  BY <1>1, <1>2 DEF LocalsOK, MapOK, PendingOK, Pending, ChunksInOrder
<1>6. AnswersOK /\ PatientOK
  BY <1>1, <1>2 DEF AnswersOK, PatientOK, Pending, StreamStaysTogether, InUse
<1>7. HomeOK /\ PiecesOK /\ EndedIsForgotten
  BY <1>1, <1>2 DEF HomeOK, PiecesOK, EndedIsForgotten, AnswersComeHomeInOrder
<1> QED BY <1>3, <1>4, <1>5, <1>6, <1>7 DEF OInv

LEMMA UnchangedOrder == ASSUME OInv, UNCHANGED vars PROVE OInv'
<1> USE DEF vars, linkVars, extVars, wires, OInv
<1>1. LinkOK' /\ SentOK' /\ WireOK'
  BY DEF LinkOK, SentOK, OwnPort, WireOK, WireOrder, WireShape, Wire, Ordered, Shape
<1>2. LocalsOK'
  BY DEF LocalsOK, LocalShape, Ahead, Wire, MapOK, PendingOK, Pending, Is, ChunksInOrder
<1>3. AnswersOK'
  BY DEF AnswersOK, Piece, Refused, Wire
<1>4. PatientOK'
  BY DEF PatientOK, Wire, Pending, Is, Reaches, StreamStaysTogether, InUse
<1>5. HomeOK' /\ PiecesOK' /\ EndedIsForgotten'
  BY DEF HomeOK, PiecesOK, Is, AnswersComeHomeInOrder, EndedIsForgotten
<1> QED BY <1>1, <1>2, <1>3, <1>4, <1>5

\* A link that comes has nothing to do with what was there; one that goes takes
\* what was on its way with it.
LEMMA LinkOrder ==
    ASSUME IInv, OInv, NEW c \in Links,
           \/ Connect(c) \/ Register(c) \/ Unregister \/ CancelRegister(c)
           \/ ServerEnds(c) \/ ClientEnds(c)
    PROVE  OInv'
<1>1. UNCHANGED <<extVars, outbox, SERVER_MAPPING, CLIENT_MAPPING, local>>
  BY DEF Connect, Register, Unregister, CancelRegister, ServerEnds, ClientEnds, wires
<1>2. /\ \A d \in Links : down'[d] = down[d] \/ down'[d] = <<>>
      /\ \A d \in Links : up'[d] = up[d] \/ (up'[d] = <<>> /\ server'[d] = "closed")
  BY DEF Connect, Register, Unregister, CancelRegister, ServerEnds, ClientEnds, wires,
         IInv, WiresOK, ConnectionsOK
<1>3. /\ \A d \in Links : server'[d] = server[d] \/ server'[d] = "closed" \/ server[d] = "new"
      /\ \A d \in Links : client'[d] = client[d] \/ client'[d] = "closed" \/ server[d] = "new"
  BY DEF Connect, Register, Unregister, CancelRegister, ServerEnds, ClientEnds, linkVars,
         IInv, ConnectionsOK
<1>4. LinkOK'
  <2>1. CASE Connect(c)
    BY <2>1 DEF Connect, wires, OInv, LinkOK, IInv, ConnectionsOK
  <2>2. CASE Register(c) \/ Unregister \/ CancelRegister(c)
    BY <2>2 DEF Register, Unregister, CancelRegister, wires, OInv, LinkOK
  <2>3. CASE ServerEnds(c)
    BY <2>3 DEF ServerEnds, OInv, LinkOK, IInv, ConnectionsOK
  <2>4. CASE ClientEnds(c)
    BY <2>4, Typed DEF ClientEnds, OInv, LinkOK, IInv, ConnectionsOK, WiresOK
  <2> QED BY <2>1, <2>2, <2>3, <2>4
<1>5. Steady /\ Grows
  BY <1>1, Typed DEF Steady, Grows, extVars
<1>6. \A d \in Links : /\ ToSet(down'[d]) \subseteq ToSet(down[d]) /\ Wire(d)' \subseteq Wire(d)
                       /\ ToSet(up'[d]) \subseteq ToSet(up[d])
  BY <1>1, <1>2, EmptySet DEF Wire
<1>7. SentOK' /\ EndedIsForgotten'
  BY <1>1 DEF OInv, SentOK, OwnPort, EndedIsForgotten, extVars
<1>8. WireOK'
  <2>1. \A d \in Links : Ordered(down[d])' /\ Ordered(outbox[d])'
    BY <1>1, <1>2 DEF OInv, WireOK, WireOrder, Ordered
  <2>2. WireOrder'
    BY <1>1, <1>6, <2>1 DEF OInv, WireOK, WireOrder
  <2> QED BY <1>5, <1>6, <2>2, ShapesKept DEF WireOK
<1>9. LocalsOK' /\ PatientOK'
  BY <1>1, <1>5, <1>6, LocalsKept, PatientKept DEF extVars
<1>10. AnswersOK'
  <2>1. \A x \in Exts, a \in Answer : Refused(x, a) => Refused(x, a)'
    BY <1>1, <1>6 DEF Refused, extVars
  <2> QED BY <1>1, <1>5, <1>6, <2>1, AnswersKept DEF extVars
<1>11. HomeOK'
  BY <1>1, <1>6 DEF OInv, HomeOK, extVars
<1>12. PiecesOK'
  <2>1. \A d \in Links : \A i \in DOMAIN up'[d] : up'[d] = up[d]
    BY <1>2
  <2>2. ASSUME NEW l \in Keys, Is(l, "ready"),
               client'[local[l].link] = "open", server'[local[l].link] = "open"
        PROVE  LET d == local[l].link IN
               client[d] = "open" /\ server[d] = "open" /\ up'[d] = up[d]
    <3>1. /\ local[l].link \in Links /\ client[local[l].link] # "new"
          /\ server[local[l].link] # "new"
      BY <2>2, Typed DEF Is, OInv, LinkOK
    <3> QED BY <1>2, <1>3, <2>2, <3>1
  <2>3. AnswersComeHomeInOrder'
    BY <1>1 DEF OInv, PiecesOK, AnswersComeHomeInOrder, extVars
  <2>4. \A l \in Keys : Is(l, "ready")' = Is(l, "ready")
    BY <1>1 DEF Is
  <2>5. /\ \A d \in Links : \A i \in DOMAIN up[d] :
             LET b == up[d][i] IN
             /\ d = local[b.from].link
             /\ \A n \in b.n..MaxAnswers : ~HasBefore(up[d], i, b.from, n) /\ ~Has(got[b.from[1]], b.from, n)
             /\ b.from[1] \notin Greeting /\ ext[b.from[1]] # "closed" =>
                  \A n \in 1..(b.n - 1) : HasBefore(up[d], i, b.from, n) \/ Has(got[b.from[1]], b.from, n)
        /\ \A l \in Keys :
             LET d == local[l].link IN
             (/\ Is(l, "ready") /\ l[1] \notin Greeting
              /\ ext[l[1]] # "closed" /\ client[d] = "open" /\ server[d] = "open") =>
             \A n \in 1..local[l].sent : Has(up[d], l, n) \/ Has(got[l[1]], l, n)
    BY DEF OInv, PiecesOK
  <2> QED BY <1>1, <2>1, <2>2, <2>3, <2>4, <2>5 DEF PiecesOK, extVars
<1> QED BY <1>4, <1>7, <1>8, <1>9, <1>10, <1>11, <1>12 DEF OInv

-----------------------------------------------------------------------------
(* External connections *)

LEMMA AcceptOrder == ASSUME IInv, OInv, NEW x \in Exts, Accept(x) PROVE OInv'
<1>1. /\ ext[x] = "new" /\ \A y \in Exts : ext'[y] = IF y = x THEN "open" ELSE ext[y]
      /\ UNCHANGED <<linkVars, kind, sent, TCP_FLAG, got, wires, SERVER_MAPPING,
                     CLIENT_MAPPING, local>>
  BY DEF Accept, IInv, ConnectionsOK
<1>2. /\ \A y \in Exts : y # x => home'[y] = home[y]
      /\ ~OwnPort(x) => home' = home
  BY DEF Accept, IInv, ConnectionsOK
<1>3. TCP_FLAG[x] = None
  <2>1. TCP_FLAG[x] # None => TCP_FLAG[x] \in Keys /\ TCP_FLAG[x][2] <= 0
    BY <1>1 DEF OInv, SentOK, IInv, FlagOK
  <2> QED BY <2>1, MessageParts
<1>4. \A d \in Links : Wire(d)' = Wire(d)
  BY <1>1 DEF Wire, wires
<1>5. Steady /\ Grows
  BY <1>1, <1>2, <1>3, Typed DEF Steady, Grows
<1>6. LinkOK' /\ SentOK' /\ EndedIsForgotten'
  <2>1. OwnPort(x) => home'[x] # None
    BY NoneAssumption DEF Accept, IInv, ConnectionsOK
  <2> QED BY <1>1, <1>2, <2>1 DEF OInv, LinkOK, SentOK, EndedIsForgotten, OwnPort, linkVars, wires
<1>7. WireOK'
  <2>1. WireOrder'
    BY <1>1, <1>4 DEF OInv, WireOK, WireOrder, wires, Ordered
  <2> QED BY <1>4, <1>5, <2>1, ShapesKept DEF WireOK
<1>8. LocalsOK' /\ PatientOK'
  BY <1>1, <1>4, <1>5, LocalsKept, PatientKept
<1>9. AnswersOK'
  <2>1. ASSUME NEW y \in Exts, NEW a \in Answer, Refused(y, a)
        PROVE  Refused(y, a)'
    <3>1. kind[y] = "ws" /\ home'[y] # None => a.re < TCP_FLAG'[y][2]
      BY <1>1, <1>2, <2>1 DEF Refused, OwnPort
    <3> QED BY <1>1, <1>4, <1>5, <2>1, <3>1, RefusedKept DEF Refused
  <2> QED BY <1>1, <1>5, <2>1, AnswersKept DEF wires
<1>10. HomeOK'
  BY SMTT(30), <1>1, Typed, SetOf, MessageParts DEF OInv, HomeOK, wires
<1>11. PiecesOK'
  BY <1>1, PiecesKept DEF linkVars, wires
<1> QED BY <1>6, <1>7, <1>8, <1>9, <1>10, <1>11 DEF OInv

LEMMA CloseOrder == ASSUME IInv, OInv, NEW x \in Exts, Close(x) PROVE OInv'
<1>1. /\ ext[x] = "open" /\ \A y \in Exts : ext'[y] = IF y = x THEN "closed" ELSE ext[y]
      /\ UNCHANGED <<linkVars, kind, home, sent, TCP_FLAG, got, wires, CLIENT_MAPPING, local>>
  BY DEF Close, IInv, ConnectionsOK
<1>2. /\ \A id \in Keys : id[1] # x => SERVER_MAPPING'[id] = SERVER_MAPPING[id]
      /\ TCP_FLAG[x] # None => SERVER_MAPPING'[TCP_FLAG[x]] = None
      /\ \A id \in Keys : SERVER_MAPPING[id] = None => SERVER_MAPPING'[id] = None
  BY DEF Close, IInv, FlagOK, MappingOK
<1>3. \A d \in Links : Wire(d)' = Wire(d)
  BY <1>1 DEF Wire, wires
<1>4. Steady /\ Grows
  BY <1>1, Typed DEF Steady, Grows
<1>5. LinkOK' /\ SentOK'
  BY <1>1 DEF OInv, LinkOK, SentOK, OwnPort, linkVars, wires
<1>6. WireOK'
  <2>1. WireOrder'
    BY <1>1, <1>3 DEF OInv, WireOK, WireOrder, wires, Ordered
  <2> QED BY <1>3, <1>4, <2>1, ShapesKept DEF WireOK
<1>7. LocalsOK' /\ PatientOK'
  BY <1>1, <1>3, <1>4, LocalsKept, PatientKept
<1>8. AnswersOK'
  <2>1. \A y \in Exts, a \in Answer : Refused(y, a) => Refused(y, a)'
    BY <1>1, <1>3 DEF Refused
  <2> QED BY <1>1, <1>4, <2>1, AnswersKept DEF wires
<1>9. HomeOK'
  <2>1. \A d \in Links : ToSet(down[d]) \subseteq OwnMessage
    BY Typed DEF Wire
  <2>2. ASSUME NEW d \in Links, NEW m \in ToSet(down[d]), m.named, ext'[m.key[1]] # "closed"
        PROVE  SERVER_MAPPING'[m.id] = m.key[1]
    <3>1. m.id \in Keys /\ m.key[1] \in Exts /\ m.id[1] = m.key[1]
      BY <2>1, MessageParts
    <3> QED BY <1>1, <1>2, <2>2, <3>1 DEF OInv, HomeOK
  <2>3. ASSUME NEW l \in Keys, local[l] # None, ext'[l[1]] # "closed"
        PROVE  SERVER_MAPPING'[local[l].id] = l[1]
    <3>1. local[l].id \in Keys /\ l[1] \in Exts /\ local[l].id[1] = l[1]
      BY <2>3, Typed, MessageParts
    <3> QED BY <1>1, <1>2, <2>3, <3>1 DEF OInv, HomeOK
  <2>4. ASSUME NEW y \in Exts, kind[y] = "tcp", TCP_FLAG[y] # None, ext'[y] # "closed"
        PROVE  SERVER_MAPPING'[TCP_FLAG[y]] = y
    <3>1. TCP_FLAG[y] \in Keys /\ TCP_FLAG[y][1] = y
      BY <2>4 DEF IInv, FlagOK
    <3> QED BY <1>1, <1>2, <2>4, <3>1 DEF OInv, HomeOK
  <2> QED BY <1>1, <2>2, <2>3, <2>4 DEF HomeOK, wires
<1>10. PiecesOK'
  BY <1>1, PiecesKept DEF linkVars, wires
<1>11. EndedIsForgotten'
  <2>1. \A y \in Exts : TCP_FLAG[y] # None => TCP_FLAG[y] \in Keys
    BY DEF IInv, FlagOK
  <2> QED BY <1>1, <1>2, <2>1 DEF OInv, EndedIsForgotten
<1> QED BY <1>5, <1>6, <1>7, <1>8, <1>9, <1>10, <1>11 DEF OInv

\* What x receives next, and when that keeps the pieces in order.
LEMMA Received ==
    ASSUME IInv, NEW x \in Exts, NEW a \in Answer, got' = [got EXCEPT ![x] = Append(@, a)]
    PROVE  /\ \A y \in Exts : \A l, n : Has(got'[y], l, n) <=>
                Has(got[y], l, n) \/ (y = x /\ a.from = l /\ a.n = n)
           /\ \A y \in Exts : ToSet(got'[y]) = ToSet(got[y]) \cup (IF y = x THEN {a} ELSE {})
           /\ (/\ AnswersComeHomeInOrder
               /\ x \notin Greeting /\ a.n > 0 =>
                    /\ \A n \in a.n..MaxAnswers : ~Has(got[x], a.from, n)
                    /\ \A n \in 1..(a.n - 1) : Has(got[x], a.from, n)) => AnswersComeHomeInOrder'
<1> DEFINE s == got[x]
           t == Append(s, a)
<1>1. s \in Seq(Answer) /\ \A y \in Exts : got'[y] = IF y = x THEN t ELSE got[y]
  BY DEF IInv, GotOK
<1>2. \A l, n : Has(t, l, n) <=> Has(s, l, n) \/ (a.from = l /\ a.n = n)
  BY <1>1, HasAppend
<1>3. ToSet(t) = ToSet(s) \cup {a}
  BY <1>1, AppendSet
<1>4. /\ \A i \in DOMAIN s : t[i] = s[i]
      /\ t[Len(s) + 1] = a /\ DOMAIN t = DOMAIN s \cup {Len(s) + 1}
  BY <1>1, HasAppend
<1>5. /\ \A i \in DOMAIN s : \A l, n : HasBefore(t, i, l, n) <=> HasBefore(s, i, l, n)
      /\ \A l, n : HasBefore(t, Len(s) + 1, l, n) <=> Has(s, l, n)
  BY <1>1, HasAppend
<1> DEFINE InOrder(u, i) ==
             u[i].n > 0 => /\ \A n \in (u[i].n)..MaxAnswers : ~HasBefore(u, i, u[i].from, n)
                           /\ \A n \in 1..(u[i].n - 1) : HasBefore(u, i, u[i].from, n)
<1>6. AnswersComeHomeInOrder <=> \A y \in Exts \ Greeting : \A i \in DOMAIN got[y] : InOrder(got[y], i)
  BY DEF AnswersComeHomeInOrder, HasBefore
<1>7. AnswersComeHomeInOrder' <=> \A y \in Exts \ Greeting : \A i \in DOMAIN got'[y] : InOrder(got'[y], i)
  BY DEF AnswersComeHomeInOrder, HasBefore
<1> HIDE DEF t, s
<1>8. \A i \in DOMAIN s : InOrder(s, i) => InOrder(t, i)
  BY <1>4, <1>5
<1>9. ASSUME a.n > 0 => /\ \A n \in a.n..MaxAnswers : ~Has(s, a.from, n)
                        /\ \A n \in 1..(a.n - 1) : Has(s, a.from, n)
      PROVE  InOrder(t, Len(s) + 1)
  BY <1>4, <1>5, <1>9
<1> HIDE DEF InOrder
<1>10. ASSUME AnswersComeHomeInOrder,
              x \notin Greeting /\ a.n > 0 =>
                /\ \A n \in a.n..MaxAnswers : ~Has(got[x], a.from, n)
                /\ \A n \in 1..(a.n - 1) : Has(got[x], a.from, n)
       PROVE  AnswersComeHomeInOrder'
  <2> SUFFICES ASSUME NEW y \in Exts \ Greeting, NEW i \in DOMAIN got'[y] PROVE InOrder(got'[y], i)
    BY <1>7
  <2>1. CASE y # x
    BY <1>1, <1>6, <1>10, <2>1
  <2>2. CASE y = x /\ i \in DOMAIN s
    BY <1>1, <1>6, <1>8, <1>10, <2>2 DEF s
  <2>3. CASE y = x /\ i = Len(s) + 1
    BY <1>1, <1>9, <1>10, <2>3 DEF s
  <2> QED BY <1>1, <1>4, <2>1, <2>2, <2>3
<1> QED BY <1>1, <1>2, <1>3, <1>10 DEF s

\* Those who wait have nothing under way when they send, so it is only their
\* last message that is.
LEMMA PatientSends ==
    ASSUME IInv, OInv, NEW x \in Exts, Sends(x), UNCHANGED <<local, CLIENT_MAPPING>>,
           \A c \in Links : \A m \in Wire(c)' : m \in Wire(c) \/
             (/\ m.key = NextKey(x)
              /\ m.named \/ (kind[x] = "ws" /\ home[x] # None /\ m.id = TCP_FLAG[x]))
    PROVE  PatientOK'
<1>1. /\ NextKey(x)[1] = x /\ NextKey(x)[2] = sent[x] + 1
      /\ \A y \in Exts : sent'[y] = IF y = x THEN sent[x] + 1 ELSE sent[y]
  BY DEF NextKey, Sends, IInv, ConnectionsOK
<1>2. StreamStaysTogether'
  BY DEF OInv, PatientOK, StreamStaysTogether, InUse, Is
<1>3. ASSUME NEW l \in Keys, l[1] \in Patient, Pending(l)' PROVE l[2] = sent'[l[1]]
  <2>1. Pending(l) /\ l[1] \in Exts
    BY <1>3, MessageParts DEF Pending, Is
  <2>2. l[1] # x
    BY <1>3, <2>1, Waited
  <2> QED BY <1>1, <1>3, <2>1, <2>2 DEF OInv, PatientOK
<1>4. ASSUME NEW c \in Links, NEW m \in Wire(c)', m.key[1] \in Patient
      PROVE  /\ m.key[2] = sent'[m.key[1]]
             /\ ~m.named => (Is(m.id, "closed") \/ Reaches(m.id, m))'
  <2>1. CASE m \in Wire(c)
    <3>1. m.key[1] \in Exts
      BY <2>1, Typed, MessageParts
    <3>2. m.key[1] # x
      BY <1>4, <2>1, Waited
    <3> QED BY <1>1, <1>4, <2>1, <3>1, <3>2 DEF OInv, PatientOK, Reaches, Is
  <2>2. CASE m \notin Wire(c)
    <3>1. m.key = NextKey(x) /\ x \in Patient
      BY <1>1, <1>4, <2>2
    <3>2. ~m.named => kind[x] = "ws" /\ home[x] # None /\ m.id = TCP_FLAG[x]
      BY <2>2
    <3>3. ~m.named => Is(m.id, "closed") \/ (Is(m.id, "ready") /\ local[m.id].sent > 0)
      BY <3>1, <3>2, Waited
    <3> QED BY <1>1, <3>1, <3>3 DEF Reaches, Is
  <2> QED BY <2>1, <2>2
<1> QED BY <1>2, <1>3, <1>4 DEF PatientOK

LEMMA NoRouteOrder == ASSUME IInv, OInv, NEW x \in Exts, NoRoute(x) PROVE OInv'
<1> PICK a : a = [id |-> NextKey(x), from |-> NextKey(x), n |-> 0, re |-> NextKey(x)[2]]
  OBVIOUS
<1>1. /\ kind[x] \in {"http", "ws"} /\ home[x] = None /\ Sends(x)
      /\ got' = [got EXCEPT ![x] = Append(@, a)]
      /\ UNCHANGED <<linkVars, kind, ext, home, TCP_FLAG, wires, SERVER_MAPPING,
                     CLIENT_MAPPING, local>>
  BY DEF NoRoute
<1>2. /\ NextKey(x) \in Keys /\ NextKey(x) = <<x, sent[x] + 1>> /\ sent[x] \in 0..MaxMsgs
      /\ sent[x] + 1 \in 1..MaxMsgs
      /\ \A y \in Exts : sent'[y] = IF y = x THEN sent[x] + 1 ELSE sent[y]
      /\ ext[x] = "open"
  BY <1>1, NextMessage DEF NextKey, Sends, IInv, ConnectionsOK
<1>3. /\ a.id = <<x, a.re>> /\ a.re = sent[x] + 1 /\ a.n = 0 /\ a.from = a.id /\ a \in Answer
      /\ a.id = NextKey(x)
  BY <1>2, BoundAssumption DEF Answer
<1>4. \A d \in Links : Wire(d)' = Wire(d)
  BY <1>1 DEF Wire, wires
<1>5. Steady /\ Grows
  <2>1. \A y \in Exts : sent'[y] \in Nat /\ sent[y] <= sent'[y]
    BY <1>2, Typed
  <2> QED BY <1>1, <2>1, Typed DEF Steady, Grows
<1>6. SentOK'
  <2>1. \A y \in Exts : TCP_FLAG[y] # None => TCP_FLAG[y][2] \in Nat
    BY MessageParts DEF IInv, FlagOK
  <2> QED BY <1>1, <1>2, <2>1 DEF OInv, SentOK, OwnPort
<1>7. LinkOK'
  BY <1>1 DEF OInv, LinkOK, linkVars, wires
<1>8. WireOK'
  <2>1. WireOrder'
    BY <1>1, <1>4 DEF OInv, WireOK, WireOrder, wires, Ordered
  <2> QED BY <1>4, <1>5, <2>1, ShapesKept DEF WireOK
<1>9. LocalsOK'
  BY <1>1, <1>4, <1>5, LocalsKept
<1>10. PatientOK'
  BY <1>1, <1>4, PatientSends
<1>11. /\ \A y \in Exts : \A l, n : Has(got'[y], l, n) <=>
              Has(got[y], l, n) \/ (y = x /\ a.from = l /\ a.n = n)
       /\ \A y \in Exts : ToSet(got'[y]) = ToSet(got[y]) \cup (IF y = x THEN {a} ELSE {})
  BY ZenonT(30), <1>1, <1>3, Received
<1>12. AnswersComeHomeInOrder'
  <2>1. AnswersComeHomeInOrder /\ ~(a.n > 0)
    BY <1>3 DEF OInv, PiecesOK
  <2> QED BY <1>1, <1>3, <2>1, Received
<1>13. AnswersOK'
  <2>1. Refused(x, a)'
    <3>1. local'[a.id] = None
      <4>1. local[NextKey(x)] # None => sent[x] + 1 <= sent[x]
        BY <1>2 DEF OInv, LocalsOK, LocalShape
      <4> QED BY <1>1, <1>2, <1>3, <4>1
    <3>2. TCP_FLAG'[x] # a.id
      <4>1. NextKey(x) # None /\ NextKey(x)[2] = sent[x] + 1 /\ ~(sent[x] + 1 <= sent[x])
        BY <1>2, NoneAssumption DEF Keys
      <4> QED BY <1>1, <1>3, <4>1 DEF OInv, SentOK
    <3>3. \A c \in Links : \A m \in Wire(c)' : m.key # a.id
      <4>1. \A c \in Links : \A m \in Wire(c) : m.key = NextKey(x) => sent[x] + 1 <= sent[x]
        BY <1>2 DEF OInv, WireOK, WireShape, Shape
      <4> QED BY <1>2, <1>3, <1>4, <4>1
    <3> QED BY <1>1, <1>2, <1>3, <3>1, <3>2, <3>3 DEF Refused
  <2>2. ASSUME NEW y \in Exts, NEW b, Refused(y, b) PROVE Refused(y, b)'
    BY <1>1, <1>4, <1>5, <2>2, RefusedKept DEF Refused
  <2>3. \A b \in Answer : Piece(b) => Piece(b)'
    BY <1>5, PieceKept
  <2>4. \A y \in Exts : ToSet(got[y]) \subseteq Answer
    BY Typed DEF For
  <2>5. \A c \in Links : ToSet(up[c]) \subseteq Answer
    BY Typed, SetOf
  <2> QED BY <1>1, <1>3, <1>11, <2>1, <2>2, <2>3, <2>4, <2>5 DEF OInv, AnswersOK, wires
<1>14. HomeOK'
  BY <1>1 DEF OInv, HomeOK, wires
<1>15. PiecesOK'
  <2>1. /\ \A c \in Links : \A i \in DOMAIN up[c] : /\ up[c][i].from[1] \in Exts /\ up[c][i].n \in Nat
                                                  /\ up[c][i].n >= 1
        /\ \A l \in Keys : l[1] \in Exts
    <3>1. \A l \in Keys : l[1] \in Exts
      BY MessageParts
    <3>2. ASSUME NEW c \in Links, NEW i \in DOMAIN up[c]
          PROVE  up[c][i].from[1] \in Exts /\ up[c][i].n \in Nat /\ up[c][i].n >= 1
      <4>1. up[c][i] \in Answer /\ up[c][i] \in ToSet(up[c])
        BY Typed DEF ToSet
      <4>2. Piece(up[c][i])
        BY <4>1 DEF OInv, AnswersOK
      <4> QED BY <3>1, <4>1, <4>2 DEF Answer, Piece
    <3> QED BY <3>1, <3>2
  <2>2. \A y \in Exts : \A l : \A n \in Nat : n >= 1 => (Has(got'[y], l, n) <=> Has(got[y], l, n))
    BY <1>3, <1>11
  <2>3. \A l \in Keys : Is(l, "ready")' = Is(l, "ready")
    BY <1>1 DEF Is
  <2>4. \A l \in Keys : local[l] # None => local[l].sent \in Nat
    BY Typed
  <2>5. ASSUME NEW c \in Links, NEW i \in DOMAIN up[c], NEW b, b = up[c][i]
        PROVE  /\ c = local[b.from].link
               /\ \A n \in b.n..MaxAnswers : ~HasBefore(up[c], i, b.from, n) /\ ~Has(got'[b.from[1]], b.from, n)
               /\ b.from[1] \notin Greeting /\ ext[b.from[1]] # "closed" =>
                    \A n \in 1..(b.n - 1) : HasBefore(up[c], i, b.from, n) \/ Has(got'[b.from[1]], b.from, n)
    <3>1. /\ c = local[b.from].link
          /\ \A n \in b.n..MaxAnswers : ~HasBefore(up[c], i, b.from, n) /\ ~Has(got[b.from[1]], b.from, n)
          /\ b.from[1] \notin Greeting /\ ext[b.from[1]] # "closed" =>
               \A n \in 1..(b.n - 1) : HasBefore(up[c], i, b.from, n) \/ Has(got[b.from[1]], b.from, n)
      BY <2>5 DEF OInv, PiecesOK
    <3>2. b.from[1] \in Exts /\ b.n \in Nat /\ b.n >= 1
      BY <2>1, <2>5
    <3>3. /\ \A n \in b.n..MaxAnswers : n \in Nat /\ n >= 1
          /\ \A n \in 1..(b.n - 1) : n \in Nat /\ n >= 1
      BY <3>2, BoundAssumption
    <3> QED BY <2>2, <3>1, <3>2, <3>3
  <2>6. ASSUME NEW l \in Keys, NEW c, c = local[l].link, Is(l, "ready"), l[1] \notin Greeting,
               ext[l[1]] # "closed", client[c] = "open", server[c] = "open",
               NEW n \in 1..local[l].sent
        PROVE  Has(up[c], l, n) \/ Has(got'[l[1]], l, n)
    BY <2>1, <2>2, <2>4, <2>6 DEF OInv, PiecesOK, Is
  <2> QED BY <1>1, <1>12, <2>3, <2>5, <2>6 DEF PiecesOK, wires, linkVars
<1>16. EndedIsForgotten'
  BY <1>1, <1>2, <1>11 DEF OInv, EndedIsForgotten, ToSet
<1> QED BY <1>6, <1>7, <1>8, <1>9, <1>10, <1>13, <1>14, <1>15, <1>16 DEF OInv

\* A write of the next message of x to link c, under an id that fits.
LEMMA WriteOrder ==
    ASSUME IInv, OInv, NEW x \in Exts, NEW c \in Links, NEW m \in OwnMessage, Sends(x), Steady,
           Write(c, m), m.key = NextKey(x), Shape(c, m)',
           UNCHANGED <<linkVars, kind, ext, got, down, up, CLIENT_MAPPING, local>>,
           \A y \in Exts : y # x => home'[y] = home[y] /\ TCP_FLAG'[y] = TCP_FLAG[y],
           home[x] # None => home'[x] # None,
           TCP_FLAG'[x] \in {TCP_FLAG[x], NextKey(x)},
           kind[x] = "ws" => \/ home'[x] = home[x] /\ TCP_FLAG'[x] = TCP_FLAG[x]
                             \/ TCP_FLAG'[x] = NextKey(x),
           m.named \/ (kind[x] = "ws" /\ home[x] # None /\ m.id = TCP_FLAG[x]),
           SERVER_MAPPING' \in [Keys -> Exts \cup {None}],
           \A id \in Keys : SERVER_MAPPING'[id] = SERVER_MAPPING[id]
                           \/ (id[1] = x /\ SERVER_MAPPING'[id] = x),
           kind[x] = "tcp" => SERVER_MAPPING'[TCP_FLAG'[x]] = x
    PROVE  OInv'
<1>1. /\ NextKey(x) \in Keys /\ NextKey(x)[1] = x /\ NextKey(x)[2] = sent[x] + 1
      /\ sent[x] \in 0..MaxMsgs /\ sent[x] + 1 \in 1..MaxMsgs
      /\ \A y \in Exts : sent'[y] = IF y = x THEN sent[x] + 1 ELSE sent[y]
      /\ ext[x] = "open"
  BY NextMessage DEF NextKey, Sends, IInv, ConnectionsOK
<1>2. m.key[1] = x /\ m.key[2] = sent[x] + 1 /\ m.id \in Keys /\ m.id[1] = x
  BY <1>1, MessageParts
<1>3. \A d \in Links : outbox'[d] = IF d = c THEN Append(outbox[c], m) ELSE outbox[d]
  BY DEF Write, IInv, WiresOK
<1>4. \A d \in Links : /\ ToSet(outbox'[d]) = ToSet(outbox[d]) \cup (IF d = c THEN {m} ELSE {})
                       /\ Wire(d)' = Wire(d) \cup (IF d = c THEN {m} ELSE {})
  <2>1. ToSet(Append(outbox[c], m)) = ToSet(outbox[c]) \cup {m}
    BY Typed, AppendSet
  <2>2. \A d \in Links : ToSet(outbox'[d]) = ToSet(outbox[d]) \cup (IF d = c THEN {m} ELSE {})
    BY <1>3, <2>1
  <2> QED BY <2>2 DEF Wire
\* What is on the wires of x has smaller numbers.
<1>5. \A d \in Links : \A k \in Wire(d) : k.key[1] = x => k.key[2] <= sent[x] /\ k.key[2] \in Nat
  BY Typed, MessageParts DEF OInv, WireOK, WireShape, Shape
<1>6. Grows
  BY Typed DEF Grows
<1>7. LinkOK'
  BY DEF OInv, LinkOK, linkVars
<1>8. SentOK'
  <2>1. \A y \in Exts : TCP_FLAG[y] # None => TCP_FLAG[y][2] \in Nat
    BY MessageParts DEF IInv, FlagOK
  <2> QED BY <1>1, <2>1 DEF OInv, SentOK, OwnPort
<1>9. WireOrder'
  <2>1. Ordered(outbox'[c])
    <3>1. \A k \in ToSet(outbox[c]) : k.key[1] = m.key[1] => k.key[2] < m.key[2]
      BY <1>1, <1>2, <1>5 DEF Wire
    <3>2. outbox[c] \in Seq(OwnMessage) /\ Ordered(outbox[c])
      BY Typed DEF OInv, WireOK, WireOrder
    <3> QED BY <1>3, <3>1, <3>2, OrderedAppend
  <2>2. \A d \in Links : Ordered(down'[d]) /\ Ordered(outbox'[d])
    BY <1>3, <2>1 DEF OInv, WireOK, WireOrder
  <2>3. \A d \in Links : \A k \in ToSet(down'[d]), n \in ToSet(outbox'[d]) :
          k.key[1] = n.key[1] => k.key[2] < n.key[2]
    <3> SUFFICES ASSUME NEW d \in Links, NEW k \in ToSet(down[d]), NEW n \in ToSet(outbox'[d]),
                        k.key[1] = n.key[1]
                 PROVE  k.key[2] < n.key[2]
      OBVIOUS
    <3>1. CASE n \in ToSet(outbox[d])
      BY <3>1 DEF OInv, WireOK, WireOrder
    <3>2. CASE n = m
      <4>1. k.key[2] <= sent[x] /\ k.key[2] \in Nat
        BY <1>2, <1>5, <3>2 DEF Wire
      <4> QED BY <1>1, <1>2, <3>2, <4>1
    <3> QED BY <1>4, <3>1, <3>2
  <2>4. \A d \in Links : \A k \in Wire(d) : k.key # m.key
    BY <1>1, <1>2, <1>5
  <2>5. \A d, e \in Links : \A k \in Wire(d)', n \in Wire(e)' : k.key = n.key => d = e
    BY <1>4, <2>4 DEF OInv, WireOK, WireOrder
  <2> QED BY <2>2, <2>3, <2>5 DEF WireOrder, Ordered
<1>10. WireShape'
  BY <1>4, ShapeKept DEF WireShape
<1>11. LocalsOK'
  <2>1. \A l \in Keys : local'[l] # None => LocalShape(l)'
    BY LocalKept
  <2>2. ASSUME NEW l \in Keys, local[l] # None PROVE Ahead(l)'
    <3>1. Ahead(l) /\ LocalShape(l) /\ local[l].id[1] = l[1] /\ l[2] \in Nat
          /\ ToSet(local[l].got) \subseteq 1..MaxMsgs
      BY <2>2, Typed, MessageParts DEF OInv, LocalsOK
    <3>2. m.id = local[l].id => m.key[2] > l[2] /\ \A k \in ToSet(local[l].got) : k < m.key[2]
      BY <1>1, <1>2, <3>1 DEF LocalShape
    <3> QED BY <1>4, <3>1, <3>2 DEF Ahead
  <2>3. MapOK' /\ PendingOK' /\ ChunksInOrder'
    BY DEF OInv, LocalsOK, MapOK, PendingOK, Pending, Is, ChunksInOrder
  <2> QED BY <2>1, <2>2, <2>3 DEF LocalsOK
<1>12. AnswersOK'
  <2>1. ASSUME NEW y \in Exts, NEW a \in Answer, Refused(y, a) PROVE Refused(y, a)'
    <3>1. a.re \in 1..sent[y] /\ a.id = <<y, a.re>> /\ sent[y] \in Nat
      BY <2>1, Typed DEF Refused
    <3>2. a.id # m.key
      BY <1>1, <1>2, <3>1
    <3>3. TCP_FLAG'[y] # a.id
      BY <1>1, <2>1, <3>2 DEF Refused
    <3>4. kind[y] = "ws" /\ home'[y] # None => a.re < TCP_FLAG'[y][2]
      BY <1>1, <2>1, <3>1 DEF Refused
    <3>5. \A d \in Links : \A k \in Wire(d)' : k.key # a.id
      BY <1>4, <2>1, <3>2 DEF Refused
    <3> QED BY <2>1, <3>3, <3>4, <3>5, RefusedKept DEF Refused
  <2> QED BY <1>6, <2>1, AnswersKept
<1>13. PatientOK'
  BY <1>4, PatientSends
<1>14. HomeOK'
  <2>1. \A d \in Links : \A k \in ToSet(down[d]) : k.id \in Keys /\ k.id[1] = k.key[1]
    BY Typed, MessageParts DEF Wire
  <2>2. \A l \in Keys : local[l] # None => local[l].id \in Keys /\ local[l].id[1] = l[1]
    BY Typed
  <2>3. \A y \in Exts : TCP_FLAG[y] # None => TCP_FLAG[y] \in Keys /\ TCP_FLAG[y][1] = y
    BY DEF IInv, FlagOK
  <2>4. \A y \in Exts : kind[y] = "tcp" /\ TCP_FLAG'[y] # None /\ ext[y] # "closed" =>
          SERVER_MAPPING'[TCP_FLAG'[y]] = y
    BY <2>3 DEF OInv, HomeOK
  <2> QED BY <2>1, <2>2, <2>4 DEF OInv, HomeOK
<1>15. PiecesOK'
  BY PiecesKept DEF linkVars
<1>16. EndedIsForgotten'
  <2>1. \A y \in Exts : TCP_FLAG[y] # None => TCP_FLAG[y] \in Keys /\ TCP_FLAG[y][1] = y
    BY DEF IInv, FlagOK
  <2> QED BY <1>1, <2>1 DEF OInv, EndedIsForgotten
<1> QED BY <1>7, <1>8, <1>9, <1>10, <1>11, <1>12, <1>13, <1>14, <1>15, <1>16 DEF OInv, WireOK

LEMMA NextOne ==
    ASSUME IInv, NEW x \in Exts, Sends(x)
    PROVE  /\ NextKey(x) \in Keys /\ NextKey(x)[1] = x /\ NextKey(x)[2] = sent[x] + 1
           /\ sent[x] \in Nat /\ NextKey(x)[2] \in Nat
           /\ \A y \in Exts : sent'[y] = IF y = x THEN sent[x] + 1 ELSE sent[y]
<1>1. sent[x] \in 0..MaxMsgs /\ NextKey(x) = <<x, sent[x] + 1>>
  BY DEF NextKey, IInv, ConnectionsOK
<1>2. \A y \in Exts : sent'[y] = IF y = x THEN sent[x] + 1 ELSE sent[y]
  BY DEF Sends, IInv, ConnectionsOK
<1> QED BY <1>1, <1>2, NextMessage

LEMMA RequestOrder == ASSUME IInv, OInv, NEW x \in Exts, Request(x) PROVE OInv'
<1> PICK c, m : c = LinkOf(x) /\ m = NewRequest(x)
  OBVIOUS
<1>1. /\ kind[x] # "tcp" /\ (kind[x] = "ws" => home[x] = None) /\ c # None /\ Sends(x)
      /\ TCP_FLAG' = [TCP_FLAG EXCEPT ![x] = NextKey(x)]
      /\ home' = IF kind[x] = "ws" THEN [home EXCEPT ![x] = c] ELSE home
      /\ Write(c, m)
      /\ UNCHANGED <<linkVars, kind, ext, got, down, up, SERVER_MAPPING, CLIENT_MAPPING, local>>
  BY DEF Request, upWebSocket
<1>2. /\ m.key = NextKey(x) /\ m.id = NextKey(x) /\ m.named = TRUE
      /\ NextKey(x) \in Keys /\ NextKey(x)[1] = x /\ NextKey(x)[2] = sent[x] + 1
      /\ sent[x] \in Nat /\ NextKey(x)[2] \in Nat
      /\ \A y \in Exts : sent'[y] = IF y = x THEN sent[x] + 1 ELSE sent[y]
  BY <1>1, NextOne DEF NewRequest
<1>3. m \in OwnMessage
  BY <1>1, NextMessage DEF NewRequest, OwnMessage, Message
<1>4. c \in Links
  BY <1>1 DEF LinkOf, IInv, ConnectionsOK
<1>5. /\ \A y \in Exts : home'[y] = IF kind[x] = "ws" /\ y = x THEN c ELSE home[y]
      /\ \A y \in Exts : TCP_FLAG'[y] = IF y = x THEN NextKey(x) ELSE TCP_FLAG[y]
  BY <1>1 DEF IInv, ConnectionsOK, FlagOK
<1>6. Steady
  <2>1. \A y \in Exts : sent'[y] \in Nat /\ sent[y] <= sent'[y]
    BY <1>2, Typed
  <2> QED BY <1>1, <1>5, <2>1 DEF Steady
<1>7. Shape(c, m)'
  BY <1>1, <1>2, <1>5 DEF Shape
<1>8. SERVER_MAPPING' \in [Keys -> Exts \cup {None}]
  BY <1>1 DEF IInv, MappingOK
<1> QED BY <1>1, <1>2, <1>3, <1>4, <1>5, <1>6, <1>7, <1>8, WriteOrder

LEMMA FrameOrder == ASSUME IInv, OInv, NEW x \in Exts, Frame(x) PROVE OInv'
<1> PICK c, m : c = home[x] /\ m = [key |-> NextKey(x), id |-> TCP_FLAG[x], named |-> FALSE]
  OBVIOUS
<1>1. /\ kind[x] = "ws" /\ home[x] # None /\ Sends(x) /\ Write(c, m)
      /\ UNCHANGED <<linkVars, kind, ext, home, TCP_FLAG, got, down, up, SERVER_MAPPING,
                     CLIENT_MAPPING, local>>
  BY DEF Frame
<1>2. /\ m.key = NextKey(x) /\ m.id = TCP_FLAG[x] /\ m.named = FALSE
      /\ NextKey(x) \in Keys /\ NextKey(x)[1] = x /\ NextKey(x)[2] = sent[x] + 1
      /\ sent[x] \in Nat /\ NextKey(x)[2] \in Nat
      /\ \A y \in Exts : sent'[y] = IF y = x THEN sent[x] + 1 ELSE sent[y]
  BY <1>1, NextOne
<1>3. m \in OwnMessage /\ TCP_FLAG[x] \in Keys /\ TCP_FLAG[x] # None
  BY <1>1, <1>2, NextMessage DEF OwnMessage, Message, IInv, FlagOK
<1>4. c \in Links
  BY <1>1 DEF IInv, ConnectionsOK
<1>5. Steady
  <2>1. \A y \in Exts : sent'[y] \in Nat /\ sent[y] <= sent'[y]
    BY <1>2, Typed
  <2> QED BY <1>1, <2>1 DEF Steady
<1>6. TCP_FLAG[x][2] <= sent[x] /\ TCP_FLAG[x][2] \in Nat
  BY <1>3, MessageParts DEF OInv, SentOK
<1>7. Shape(c, m)'
  BY <1>1, <1>2, <1>6 DEF Shape
<1>8. SERVER_MAPPING' \in [Keys -> Exts \cup {None}]
  BY <1>1 DEF IInv, MappingOK
<1> QED BY <1>1, <1>2, <1>3, <1>4, <1>5, <1>7, <1>8, WriteOrder

LEMMA ChunkOrder == ASSUME IInv, OInv, NEW x \in Exts, Chunk(x) PROVE OInv'
<1> PICK c, id, m : /\ c = home[x]
                    /\ id = IF TCP_FLAG[x] = None THEN NextKey(x) ELSE TCP_FLAG[x]
                    /\ m = [key |-> NextKey(x), id |-> id, named |-> TRUE]
  OBVIOUS
<1>1. /\ kind[x] = "tcp" /\ Sends(x)
      /\ TCP_FLAG' = [TCP_FLAG EXCEPT ![x] = id]
      /\ SERVER_MAPPING' = [SERVER_MAPPING EXCEPT ![id] = x]
      /\ Write(c, m)
      /\ UNCHANGED <<linkVars, kind, ext, home, got, down, up, CLIENT_MAPPING, local>>
  BY DEF Chunk
<1>2. /\ m.key = NextKey(x) /\ m.id = id /\ m.named = TRUE
      /\ NextKey(x) \in Keys /\ NextKey(x)[1] = x /\ NextKey(x)[2] = sent[x] + 1
      /\ sent[x] \in Nat /\ NextKey(x)[2] \in Nat
      /\ \A y \in Exts : sent'[y] = IF y = x THEN sent[x] + 1 ELSE sent[y]
  BY <1>1, NextOne
<1>3. id \in Keys /\ id[1] = x /\ m \in OwnMessage
  <2>1. id \in Keys /\ id[1] = x
    BY <1>2 DEF IInv, FlagOK
  <2> QED BY <1>1, <1>2, <2>1, NextMessage DEF OwnMessage, Message
<1>4. id[2] <= sent[x] + 1 /\ id[2] \in Nat
  <2>1. TCP_FLAG[x] # None => TCP_FLAG[x][2] <= sent[x]
    BY DEF OInv, SentOK
  <2> QED BY <1>2, <1>3, <2>1, MessageParts
<1>5. \A y \in Exts : TCP_FLAG'[y] = IF y = x THEN id ELSE TCP_FLAG[y]
  BY <1>1 DEF IInv, FlagOK
<1>6. Steady
  <2>1. \A y \in Exts : sent'[y] \in Nat /\ sent[y] <= sent'[y]
    BY <1>2, Typed
  <2> QED BY <1>1, <1>5, <2>1 DEF Steady
<1>7. c \in Links
  <2>1. home[x] # None
    BY <1>1 DEF OInv, SentOK, OwnPort, Sends
  <2> QED BY <2>1 DEF IInv, ConnectionsOK
<1>8. Shape(c, m)'
  BY <1>1, <1>2, <1>4, <1>5 DEF Shape
<1>9. /\ SERVER_MAPPING' \in [Keys -> Exts \cup {None}]
      /\ \A k \in Keys : SERVER_MAPPING'[k] = IF k = id THEN x ELSE SERVER_MAPPING[k]
  BY <1>1, <1>3 DEF IInv, MappingOK
<1>10. TCP_FLAG'[x] \in {TCP_FLAG[x], NextKey(x)}
  BY <1>5
<1> QED BY <1>1, <1>2, <1>3, <1>5, <1>6, <1>7, <1>8, <1>9, <1>10, WriteOrder

-----------------------------------------------------------------------------
(* The server's end of a link *)

LEMMA FlushOrder == ASSUME IInv, OInv, NEW c \in Links, Flush(c) PROVE OInv'
<1> PICK m, x : m = Head(outbox[c]) /\ x = m.key[1]
  OBVIOUS
<1>1. /\ outbox[c] # <<>> /\ outbox' = [outbox EXCEPT ![c] = Tail(@)]
      /\ UNCHANGED <<linkVars, extVars, up, CLIENT_MAPPING, local>>
      /\ \/ /\ server[c] = "open"
            /\ down' = IF client[c] = "open" THEN [down EXCEPT ![c] = Append(@, m)] ELSE down
            /\ SERVER_MAPPING' = IF kind[x] # "tcp" /\ m.named
                                 THEN [SERVER_MAPPING EXCEPT ![m.id] = x] ELSE SERVER_MAPPING
         \/ UNCHANGED <<down, SERVER_MAPPING>>
  BY DEF Flush
<1>2. /\ outbox[c] \in Seq(OwnMessage) /\ down[c] \in Seq(OwnMessage) /\ m \in OwnMessage
      /\ ToSet(outbox[c]) = ToSet(Tail(outbox[c])) \cup {m}
      /\ ToSet(Append(down[c], m)) = ToSet(down[c]) \cup {m}
  <2>1. outbox[c] \in Seq(OwnMessage) /\ down[c] \in Seq(OwnMessage)
    BY Typed
  <2>2. m \in OwnMessage
    BY <1>1, <2>1, TailParts
  <2> QED BY <1>1, <2>1, <2>2, TailSet, AppendSet
<1>3. /\ x \in Exts /\ m.id \in Keys /\ m.id[1] = x /\ m.key \in Keys
      /\ m.key[2] \in Nat /\ m.id[2] \in Nat
  BY <1>2, MessageParts
<1>4. /\ \A d \in Links : outbox'[d] = IF d = c THEN Tail(outbox[c]) ELSE outbox[d]
      /\ \A d \in Links : down'[d] = down[d] \/
           (d = c /\ client[c] = "open" /\ server[c] = "open" /\ down'[d] = Append(down[c], m))
  BY <1>1 DEF IInv, WiresOK
<1>5. /\ \A d \in Links : d # c => down'[d] = down[d] /\ outbox'[d] = outbox[d]
      /\ \A d \in Links : ToSet(outbox'[d]) \subseteq ToSet(outbox[d])
      /\ ToSet(down'[c]) \subseteq ToSet(down[c]) \cup {m} /\ m \in ToSet(outbox[c])
  BY <1>2, <1>4
<1>6. \A d \in Links : Wire(d)' \subseteq Wire(d)
  BY <1>5 DEF Wire
<1>7. m \in Wire(c) /\ Shape(c, m)
  BY <1>5 DEF Wire, OInv, WireOK, WireShape
<1>8. Steady /\ Grows
  BY <1>1, Typed DEF Steady, Grows, extVars
<1>9. \A id \in Keys : SERVER_MAPPING'[id] = SERVER_MAPPING[id]
        \/ (id = m.id /\ SERVER_MAPPING'[id] = x /\ kind[x] # "tcp" /\ m.named)
  BY <1>1, <1>3 DEF IInv, MappingOK
<1>10. LinkOK' /\ SentOK'
  BY <1>1, <1>4 DEF OInv, LinkOK, SentOK, OwnPort, linkVars, extVars
<1>11. WireOrder'
  <2>1. /\ Ordered(Tail(outbox[c]))
        /\ \A k \in ToSet(Tail(outbox[c])) : k.key[1] = x => m.key[2] < k.key[2]
    BY <1>1, <1>2, OrderedTail DEF OInv, WireOK, WireOrder
  <2>2. \A k \in ToSet(down[c]) : k.key[1] = x => k.key[2] < m.key[2]
    BY <1>5 DEF OInv, WireOK, WireOrder
  <2>3. Ordered(Append(down[c], m))
    BY <1>2, <2>2, OrderedAppend DEF OInv, WireOK, WireOrder
  <2>4. \A d \in Links : Ordered(down'[d]) /\ Ordered(outbox'[d])
    BY <1>4, <2>1, <2>3 DEF OInv, WireOK, WireOrder
  <2>5. ASSUME NEW d \in Links, NEW k \in ToSet(down'[d]), NEW n \in ToSet(outbox'[d]),
               k.key[1] = n.key[1]
        PROVE  k.key[2] < n.key[2]
    <3>1. CASE k \in ToSet(down[d])
      BY <1>5, <2>5, <3>1 DEF OInv, WireOK, WireOrder
    <3>2. CASE k = m /\ d = c
      BY <1>4, <2>1, <2>5, <3>2
    <3> QED BY <1>5, <3>1, <3>2
  <2> QED BY <1>6, <2>4, <2>5 DEF WireOrder, Ordered, OInv, WireOK
<1>12. WireOK'
  BY <1>6, <1>8, <1>11, ShapesKept DEF WireOK
<1>13. LocalsOK' /\ PatientOK'
  BY <1>1, <1>6, <1>8, LocalsKept, PatientKept DEF extVars
<1>14. AnswersOK'
  <2>1. \A y \in Exts, a \in Answer : Refused(y, a) => Refused(y, a)'
    BY <1>1, <1>6 DEF Refused, extVars
  <2> QED BY <1>1, <1>8, <2>1, AnswersKept DEF extVars
<1>15. HomeOK'
  <2>1. ASSUME NEW d \in Links, NEW k \in ToSet(down'[d]), k.named, ext[k.key[1]] # "closed"
        PROVE  SERVER_MAPPING'[k.id] = k.key[1]
    <3>1. k \in OwnMessage /\ k.id \in Keys /\ k.id[1] = k.key[1]
      BY <1>2, <1>5, Typed, MessageParts DEF Wire
    <3>2. CASE k \in ToSet(down[d])
      <4>1. SERVER_MAPPING[k.id] = k.key[1]
        BY <2>1, <3>2 DEF OInv, HomeOK
      <4> QED BY <1>3, <1>9, <3>1, <4>1
    <3>3. CASE d = c /\ k = m /\ down'[c] # down[c]
      <4>1. CASE kind[x] = "tcp"
        <5>1. m.id = TCP_FLAG[x] /\ TCP_FLAG[x] # None
          BY <1>3, <1>7, <4>1, NoneAssumption DEF Shape, Keys
        <5>2. SERVER_MAPPING[m.id] = x
          BY <1>3, <2>1, <3>3, <4>1, <5>1 DEF OInv, HomeOK
        <5> QED BY <1>3, <1>9, <3>3, <5>2
      <4>2. CASE kind[x] # "tcp"
        <5>1. SERVER_MAPPING' = [SERVER_MAPPING EXCEPT ![m.id] = x]
          BY <1>1, <2>1, <3>3, <4>2
        <5> QED BY <1>3, <3>3, <5>1 DEF IInv, MappingOK
      <4> QED BY <4>1, <4>2
    <3> QED BY <1>5, <2>1, <3>2, <3>3
  <2>2. ASSUME NEW l \in Keys, local[l] # None, ext[l[1]] # "closed"
        PROVE  SERVER_MAPPING'[local[l].id] = l[1]
    <3>1. local[l].id \in Keys /\ local[l].id[1] = l[1] /\ SERVER_MAPPING[local[l].id] = l[1]
      BY <2>2, Typed DEF OInv, HomeOK
    <3> QED BY <1>3, <1>9, <3>1
  <2>3. ASSUME NEW y \in Exts, kind[y] = "tcp", TCP_FLAG[y] # None, ext[y] # "closed"
        PROVE  SERVER_MAPPING'[TCP_FLAG[y]] = y
    <3>1. TCP_FLAG[y] \in Keys /\ TCP_FLAG[y][1] = y /\ SERVER_MAPPING[TCP_FLAG[y]] = y
      BY <2>3 DEF OInv, HomeOK, IInv, FlagOK
    <3> QED BY <1>3, <1>9, <3>1
  <2> QED BY <1>1, <2>1, <2>2, <2>3 DEF HomeOK, extVars
<1>16. PiecesOK'
  BY <1>1, PiecesKept DEF linkVars, extVars
\* An id that was answered has been opened locally, so its message is gone.
<1>17. EndedIsForgotten'
  <2> SUFFICES ASSUME NEW y \in Exts, ext[y] = "closed", TCP_FLAG[y] # None,
                      kind[y] = "tcp" \/ \E i \in DOMAIN got[y] : got[y][i].id = TCP_FLAG[y],
                      SERVER_MAPPING'[TCP_FLAG[y]] # None
               PROVE  FALSE
    BY <1>1 DEF EndedIsForgotten, extVars
  <2>1. TCP_FLAG[y] \in Keys /\ TCP_FLAG[y][1] = y /\ SERVER_MAPPING[TCP_FLAG[y]] = None
    BY DEF OInv, EndedIsForgotten, IInv, FlagOK
  <2>2. TCP_FLAG[y] = m.id /\ y = x /\ kind[x] # "tcp" /\ m.named
    BY <1>3, <1>9, <2>1
  <2>3. m.id = m.key
    <3>1. kind[x] \in {"http", "ws", "port", "tcp"}
      BY <1>3 DEF IInv, ConnectionsOK
    <3>2. CASE kind[x] = "ws"
      BY <1>3, <1>7, <2>2, <3>2 DEF Shape
    <3>3. CASE kind[x] \in {"http", "port"}
      BY <1>3, <1>7, <3>3 DEF Shape
    <3> QED BY <2>2, <3>1, <3>2, <3>3
  <2>4. PICK a \in ToSet(got[x]) : a.id = m.id
    BY <2>2 DEF ToSet
  <2>5. a \in Answer /\ a.from[1] = x /\ a.from \in Keys
    BY <1>3, Typed DEF For, Answer
  <2>6. CASE a.n = 0
    <3>1. Refused(x, a)
      BY <1>3, <2>6 DEF OInv, AnswersOK
    <3> QED BY <1>7, <2>3, <2>4, <3>1 DEF Refused
  <2>7. CASE a.n # 0
    <3>1. local[a.from] # None /\ local[a.from].id = m.id
      BY <1>3, <2>4, <2>7 DEF OInv, AnswersOK, Piece
    <3>2. m.id[2] <= a.from[2] /\ m.key[2] > a.from[2] /\ a.from[2] \in Nat
      BY <1>7, <2>5, <3>1, MessageParts DEF OInv, LocalsOK, LocalShape, Ahead
    <3> QED BY <1>3, <2>3, <3>2
  <2> QED BY <2>6, <2>7
<1> QED BY <1>10, <1>12, <1>13, <1>14, <1>15, <1>16, <1>17 DEF OInv

\* What an answer on its way to the server is.
LEMMA OnTheWay ==
    ASSUME IInv, OInv, NEW d \in Links, NEW i \in DOMAIN up[d], NEW b, b = up[d][i]
    PROVE  /\ b \in Answer /\ b.from \in Keys /\ b.from[1] \in Exts /\ b.id \in Keys
           /\ b.id[1] = b.from[1] /\ b.n \in Nat /\ b.n >= 1 /\ Piece(b)
           /\ d = local[b.from].link
           /\ \A n \in b.n..MaxAnswers : ~HasBefore(up[d], i, b.from, n) /\ ~Has(got[b.from[1]], b.from, n)
           /\ b.from[1] \notin Greeting /\ ext[b.from[1]] # "closed" =>
                \A n \in 1..(b.n - 1) : HasBefore(up[d], i, b.from, n) \/ Has(got[b.from[1]], b.from, n)
<1>1. b \in ToSet(up[d])
  BY DEF ToSet
<1>2. b \in Answer /\ b.id[1] = b.from[1]
  <2>1. b \in OwnAnswer
    BY Typed
  <2> QED BY <2>1 DEF OwnAnswer
<1>3. b.from \in Keys /\ b.id \in Keys /\ b.n \in 0..MaxAnswers
  BY <1>2 DEF Answer
<1>4. Piece(b)
  BY <1>1 DEF OInv, AnswersOK
<1>5. b.n \in Nat /\ b.n >= 1
  BY <1>3, <1>4, Typed DEF Piece
<1>6. /\ d = local[b.from].link
      /\ \A n \in b.n..MaxAnswers : ~HasBefore(up[d], i, b.from, n) /\ ~Has(got[b.from[1]], b.from, n)
      /\ b.from[1] \notin Greeting /\ ext[b.from[1]] # "closed" =>
           \A n \in 1..(b.n - 1) : HasBefore(up[d], i, b.from, n) \/ Has(got[b.from[1]], b.from, n)
  BY DEF OInv, PiecesOK
<1> QED BY <1>2, <1>3, <1>4, <1>5, <1>6, MessageParts

LEMMA ReadAnswerOrder == ASSUME IInv, OInv, NEW c \in Links, ReadAnswer(c) PROVE OInv'
<1>0. PICK a, x : a = Head(up[c]) /\ x = a.from[1]
  OBVIOUS
<1>1. /\ up[c] # <<>> /\ up' = [up EXCEPT ![c] = Tail(@)]
      /\ got' = IF SERVER_MAPPING[a.id] # None /\ ext[SERVER_MAPPING[a.id]] = "open"
                THEN [got EXCEPT ![SERVER_MAPPING[a.id]] = Append(@, a)] ELSE got
      /\ UNCHANGED <<linkVars, kind, ext, home, sent, TCP_FLAG, outbox, down, SERVER_MAPPING,
                     CLIENT_MAPPING, local>>
  BY <1>0 DEF ReadAnswer
<1>2. up[c] \in Seq(Answer) /\ Head(up[c]) = a /\ 1 \in DOMAIN up[c] /\ up[c][1] = a
  <2>1. up[c] \in Seq(Answer)
    BY Typed
  <2> QED BY <1>0, <1>1, <2>1, TailParts
<1>3. /\ a \in Answer /\ a.from \in Keys /\ x \in Exts /\ a.id \in Keys
      /\ a.id[1] = x /\ a.n \in Nat /\ a.n >= 1 /\ Piece(a)
      /\ c = local[a.from].link
      /\ \A n \in a.n..MaxAnswers : ~Has(got[x], a.from, n)
      /\ x \notin Greeting /\ ext[x] # "closed" =>
           \A n \in 1..(a.n - 1) : HasBefore(up[c], 1, a.from, n) \/ Has(got[x], a.from, n)
  BY <1>0, <1>2, OnTheWay
<1>4. \A n : ~HasBefore(up[c], 1, a.from, n)
  BY <1>1, <1>2, HasTail
<1>5. \A d \in Links : up'[d] = IF d = c THEN Tail(up[c]) ELSE up[d]
  BY <1>1 DEF IInv, WiresOK
<1>6. \A d \in Links : ToSet(up'[d]) \subseteq ToSet(up[d])
  BY <1>1, <1>2, <1>5, TailSet
\* Only the end of x keeps it from the answer.
<1>7. \/ ext[x] = "open" /\ got' = [got EXCEPT ![x] = Append(@, a)]
      \/ ext[x] = "closed" /\ got' = got
  <2>1. SERVER_MAPPING[a.id] # None => SERVER_MAPPING[a.id] = x
    BY <1>3 DEF IInv, MappingOK
  <2>2. ext[x] # "closed" => SERVER_MAPPING[a.id] = x
    BY <1>0, <1>3 DEF OInv, HomeOK, Piece
  <2>3. ext[x] # "new"
    <3>1. a.from[2] \in 1..MaxMsgs /\ a.from[1] = x /\ local[a.from] # None
      BY <1>0, <1>3, MessageParts DEF Piece
    <3>2. a.from[2] <= sent[x]
      BY <1>3, <3>1 DEF OInv, LocalsOK, LocalShape
    <3>3. ext[x] = "new" => sent[x] = 0
      BY <1>3 DEF OInv, SentOK
    <3> QED BY <3>1, <3>2, <3>3
  <2>4. x # None /\ ext[x] \in {"new", "open", "closed"}
    BY <1>3, NoneAssumption DEF IInv, ConnectionsOK
  <2> QED BY <1>1, <2>1, <2>2, <2>3, <2>4
<1>8. \A y \in Exts : \A l, n :
        /\ Has(got[y], l, n) => Has(got'[y], l, n)
        /\ Has(got'[y], l, n) => Has(got[y], l, n) \/ (y = x /\ a.from = l /\ a.n = n)
        /\ y = x /\ ext[x] = "open" /\ a.from = l /\ a.n = n => Has(got'[y], l, n)
  <2>1. CASE ext[x] = "closed" /\ got' = got
    BY <2>1
  <2>2. CASE ext[x] = "open" /\ got' = [got EXCEPT ![x] = Append(@, a)]
    <3>1. \A y \in Exts : \A l, n : Has(got'[y], l, n) <=>
            Has(got[y], l, n) \/ (y = x /\ a.from = l /\ a.n = n)
      BY <1>3, <2>2, Received
    <3> QED BY <3>1
  <2> QED BY <1>7, <2>1, <2>2
<1>9. /\ \A y \in Exts : ToSet(got'[y]) \subseteq ToSet(got[y]) \cup {a}
      /\ \A y \in Exts : got'[y] # got[y] => ext[y] # "closed"
  <2>1. CASE ext[x] = "closed" /\ got' = got
    BY <2>1
  <2>2. CASE ext[x] = "open" /\ got' = [got EXCEPT ![x] = Append(@, a)]
    <3>1. \A y \in Exts : ToSet(got'[y]) = ToSet(got[y]) \cup (IF y = x THEN {a} ELSE {})
      BY <1>3, <2>2, Received
    <3>2. \A y \in Exts : y # x => got'[y] = got[y]
      BY <1>3, <2>2 DEF IInv, GotOK
    <3> QED BY <2>2, <3>1, <3>2
  <2> QED BY <1>7, <2>1, <2>2
<1>10. \A d \in Links : Wire(d)' = Wire(d)
  BY <1>1 DEF Wire
<1>11. Steady /\ Grows
  BY <1>1, Typed DEF Steady, Grows
<1>12. LinkOK' /\ SentOK' /\ HomeOK'
  BY <1>1 DEF OInv, LinkOK, SentOK, OwnPort, HomeOK, linkVars
<1>13. WireOK'
  <2>1. WireOrder'
    BY <1>1, <1>10 DEF OInv, WireOK, WireOrder, Ordered
  <2> QED BY <1>10, <1>11, <2>1, ShapesKept DEF WireOK
<1>14. LocalsOK' /\ PatientOK'
  BY <1>1, <1>10, <1>11, LocalsKept, PatientKept
<1>15. AnswersOK'
  <2>1. \A y \in Exts : \A b : Refused(y, b) => Refused(y, b)'
    BY <1>1, <1>10 DEF Refused
  <2>2. \A b \in Answer : Piece(b) => Piece(b)'
    BY <1>11, PieceKept
  <2>3. /\ \A y \in Exts : ToSet(got[y]) \subseteq Answer
        /\ \A d \in Links : ToSet(up[d]) \subseteq Answer
    BY Typed, SetOf DEF For
  <2>4. ASSUME NEW y \in Exts, NEW b \in ToSet(got'[y])
        PROVE  IF b.n = 0 THEN Refused(y, b)' ELSE Piece(b)'
    <3>1. CASE b \in ToSet(got[y])
      <4>1. b \in Answer
        BY <2>3, <3>1
      <4>2. IF b.n = 0 THEN Refused(y, b) ELSE Piece(b)
        BY <3>1 DEF OInv, AnswersOK
      <4>3. CASE b.n = 0
        BY <2>1, <4>2, <4>3
      <4>4. CASE b.n # 0
        BY <2>2, <4>1, <4>2, <4>4
      <4> QED BY <4>3, <4>4
    <3>2. CASE b = a
      BY <1>3, <2>2, <3>2
    <3> QED BY <1>9, <3>1, <3>2
  <2>5. \A d \in Links : \A b \in ToSet(up'[d]) : Piece(b)'
    BY <1>6, <2>2, <2>3 DEF OInv, AnswersOK
  <2> QED BY <2>4, <2>5 DEF AnswersOK
<1>16. PiecesOK'
  <2>1. AnswersComeHomeInOrder'
    <3>1. AnswersComeHomeInOrder
      BY DEF OInv, PiecesOK
    <3>2. CASE ext[x] = "closed" /\ got' = got
      BY SMTT(30), <1>1, <3>1, <3>2 DEF AnswersComeHomeInOrder
    <3>3. CASE ext[x] = "open" /\ got' = [got EXCEPT ![x] = Append(@, a)]
      <4>1. x \notin Greeting => \A n \in 1..(a.n - 1) : Has(got[x], a.from, n)
        BY <1>3, <1>4, <3>3
      <4>2. x \notin Greeting /\ a.n > 0 =>
              /\ \A n \in a.n..MaxAnswers : ~Has(got[x], a.from, n)
              /\ \A n \in 1..(a.n - 1) : Has(got[x], a.from, n)
        BY <1>3, <4>1
      <4>3. a \in Answer /\ x \in Exts /\ got' = [got EXCEPT ![x] = Append(@, a)]
        BY <1>3, <3>3
      <4> QED BY <3>1, <4>2, <4>3, Received
    <3> QED BY <1>7, <3>2, <3>3
  <2>2. ASSUME NEW d \in Links, NEW i \in DOMAIN up'[d], NEW b, b = up'[d][i]
        PROVE  /\ d = local[b.from].link
               /\ \A n \in b.n..MaxAnswers :
                    ~HasBefore(up'[d], i, b.from, n) /\ ~Has(got'[b.from[1]], b.from, n)
               /\ b.from[1] \notin Greeting /\ ext[b.from[1]] # "closed" =>
                    \A n \in 1..(b.n - 1) :
                      HasBefore(up'[d], i, b.from, n) \/ Has(got'[b.from[1]], b.from, n)
    <3>1. CASE d # c
      <4>1. i \in DOMAIN up[d] /\ b = up[d][i] /\ up'[d] = up[d]
        BY <1>5, <2>2, <3>1
      <4>2. /\ d = local[b.from].link /\ b.from[1] \in Exts
            /\ \A n \in b.n..MaxAnswers : ~HasBefore(up[d], i, b.from, n) /\ ~Has(got[b.from[1]], b.from, n)
            /\ b.from[1] \notin Greeting /\ ext[b.from[1]] # "closed" =>
                 \A n \in 1..(b.n - 1) : HasBefore(up[d], i, b.from, n) \/ Has(got[b.from[1]], b.from, n)
        BY <4>1, OnTheWay
      <4>3. b.from # a.from
        BY <1>3, <3>1, <4>2
      <4> QED BY <1>8, <4>1, <4>2, <4>3
    <3>2. CASE d = c
      <4>1. /\ i + 1 \in DOMAIN up[c] /\ b = up[c][i + 1] /\ up'[c] = Tail(up[c])
            /\ \A n : HasBefore(up[c], i + 1, b.from, n) <=>
                   HasBefore(up'[c], i, b.from, n) \/ (a.from = b.from /\ a.n = n)
        <5>1. up'[c] = Tail(up[c]) /\ i \in DOMAIN Tail(up[c])
          BY <1>5, <3>2
        <5>2. ASSUME NEW n
              PROVE  /\ i + 1 \in DOMAIN up[c] /\ Tail(up[c])[i] = up[c][i + 1]
                     /\ HasBefore(up[c], i + 1, b.from, n) <=>
                          HasBefore(Tail(up[c]), i, b.from, n) \/ (a.from = b.from /\ a.n = n)
          <6>1. up[c] \in Seq(Answer) /\ up[c] # <<>>
            BY <1>1, <1>2
          <6>2. \A j \in DOMAIN Tail(up[c]) :
                  /\ j + 1 \in DOMAIN up[c] /\ Tail(up[c])[j] = up[c][j + 1]
                  /\ HasBefore(up[c], j + 1, b.from, n) <=>
                       \/ HasBefore(Tail(up[c]), j, b.from, n)
                       \/ Head(up[c]).from = b.from /\ Head(up[c]).n = n
            BY <6>1, HasTail
          <6> QED BY <1>2, <5>1, <6>2
        <5> QED BY <2>2, <3>2, <5>1, <5>2
      <4>2. /\ c = local[b.from].link /\ b.from[1] \in Exts
            /\ \A n \in b.n..MaxAnswers : ~HasBefore(up[c], i + 1, b.from, n) /\ ~Has(got[b.from[1]], b.from, n)
            /\ b.from[1] \notin Greeting /\ ext[b.from[1]] # "closed" =>
                 \A n \in 1..(b.n - 1) : HasBefore(up[c], i + 1, b.from, n) \/ Has(got[b.from[1]], b.from, n)
        BY <4>1, OnTheWay
      <4>3. \A n \in b.n..MaxAnswers :
              ~HasBefore(up'[c], i, b.from, n) /\ ~Has(got'[b.from[1]], b.from, n)
        <5> SUFFICES ASSUME NEW n \in b.n..MaxAnswers
                     PROVE  ~HasBefore(up'[c], i, b.from, n) /\ ~Has(got'[b.from[1]], b.from, n)
          OBVIOUS
        <5>1. ~HasBefore(up[c], i + 1, b.from, n) /\ ~Has(got[b.from[1]], b.from, n)
          BY <4>2
        <5>2. ~HasBefore(up'[c], i, b.from, n) /\ ~(a.from = b.from /\ a.n = n)
          BY <4>1, <5>1
        <5>3. ~Has(got'[b.from[1]], b.from, n)
          BY <1>8, <4>2, <5>1, <5>2
        <5> QED BY <5>2, <5>3
      <4>4. ASSUME b.from[1] \notin Greeting, ext[b.from[1]] # "closed", NEW n \in 1..(b.n - 1)
            PROVE  HasBefore(up'[c], i, b.from, n) \/ Has(got'[b.from[1]], b.from, n)
        <5>1. CASE a.from = b.from /\ a.n = n
          BY <1>0, <1>3, <1>7, <1>8, <4>4, <5>1
        <5>2. CASE ~(a.from = b.from /\ a.n = n)
          BY <1>8, <4>1, <4>2, <4>4, <5>2
        <5> QED BY <5>1, <5>2
      <4> QED BY <3>2, <4>2, <4>3, <4>4
    <3> QED BY <3>1, <3>2
  <2>3. ASSUME NEW l \in Keys, NEW d, d = local[l].link, Is(l, "ready"), l[1] \notin Greeting,
               ext[l[1]] # "closed", client[d] = "open", server[d] = "open",
               NEW n \in 1..local[l].sent
        PROVE  Has(up'[d], l, n) \/ Has(got'[l[1]], l, n)
    <3>1. (Has(up[d], l, n) \/ Has(got[l[1]], l, n)) /\ d \in Links /\ l[1] \in Exts
      BY <2>3, Typed, MessageParts DEF OInv, PiecesOK, Is
    <3>2. CASE d # c
      BY <1>5, <1>8, <3>1, <3>2
    <3>3. CASE d = c
      <4>1. Has(up[c], l, n) => Has(up'[c], l, n) \/ (a.from = l /\ a.n = n)
        BY <1>1, <1>2, <1>5, HasTail
      <4>2. a.from = l /\ a.n = n => Has(got'[l[1]], l, n)
        BY <1>0, <1>7, <1>8, <2>3, <3>1
      <4> QED BY <1>8, <3>1, <3>3, <4>1, <4>2
    <3> QED BY <3>2, <3>3
  <2>4. \A l \in Keys : Is(l, "ready")' = Is(l, "ready")
    BY <1>1 DEF Is
  <2>5. UNCHANGED <<local, ext, client, server>>
    BY <1>1 DEF linkVars
  <2>6. \A d \in Links : \A i \in DOMAIN up'[d] :
          LET b == up'[d][i] IN
          /\ d = local'[b.from].link
          /\ \A n \in b.n..MaxAnswers :
               ~HasBefore(up'[d], i, b.from, n) /\ ~Has(got'[b.from[1]], b.from, n)
          /\ b.from[1] \notin Greeting /\ ext'[b.from[1]] # "closed" =>
               \A n \in 1..(b.n - 1) :
                 HasBefore(up'[d], i, b.from, n) \/ Has(got'[b.from[1]], b.from, n)
    <3> TAKE d \in Links
    <3> TAKE i \in DOMAIN up'[d]
    <3> QED BY <2>2, <2>5
  <2>7. \A l \in Keys :
          LET d == local'[l].link IN
          (/\ Is(l, "ready")' /\ l[1] \notin Greeting
           /\ ext'[l[1]] # "closed" /\ client'[d] = "open" /\ server'[d] = "open") =>
          \A n \in 1..local'[l].sent : Has(up'[d], l, n) \/ Has(got'[l[1]], l, n)
    <3> TAKE l \in Keys
    <3> QED BY <2>3, <2>4, <2>5
  <2> QED BY <2>1, <2>6, <2>7 DEF PiecesOK
<1>17. EndedIsForgotten'
  BY <1>1, <1>9 DEF OInv, EndedIsForgotten
<1> QED BY <1>12, <1>13, <1>14, <1>15, <1>16, <1>17 DEF OInv

-----------------------------------------------------------------------------
(* The client *)

\* Nobody writes, and what is ready now has written no more than it had.
LEMMA NothingWritten ==
    ASSUME IInv, OInv, Grows, UNCHANGED <<up, got, ext, client, server>>,
           \A k \in Keys : Is(k, "ready")' /\ k[1] \notin Greeting =>
             \/ Is(k, "ready") /\ local'[k].sent = local[k].sent
             \/ local'[k].sent = 0
    PROVE  PiecesOK'
<1>1. AnswersComeHomeInOrder'
  BY DEF OInv, PiecesOK, AnswersComeHomeInOrder
<1>2. ASSUME NEW c \in Links, NEW i \in DOMAIN up[c], NEW b, b = up[c][i]
      PROVE  /\ c = local'[b.from].link
             /\ \A n \in b.n..MaxAnswers : ~HasBefore(up[c], i, b.from, n) /\ ~Has(got[b.from[1]], b.from, n)
             /\ b.from[1] \notin Greeting /\ ext[b.from[1]] # "closed" =>
                  \A n \in 1..(b.n - 1) : HasBefore(up[c], i, b.from, n) \/ Has(got[b.from[1]], b.from, n)
  <2>1. /\ b.from \in Keys /\ Piece(b) /\ c = local[b.from].link
        /\ \A n \in b.n..MaxAnswers : ~HasBefore(up[c], i, b.from, n) /\ ~Has(got[b.from[1]], b.from, n)
        /\ b.from[1] \notin Greeting /\ ext[b.from[1]] # "closed" =>
             \A n \in 1..(b.n - 1) : HasBefore(up[c], i, b.from, n) \/ Has(got[b.from[1]], b.from, n)
    BY <1>2, OnTheWay
  <2>2. local'[b.from].link = local[b.from].link
    BY <2>1 DEF Grows, Piece
  <2> QED BY <2>1, <2>2
<1>3. ASSUME NEW k \in Keys, NEW c, c = local'[k].link, Is(k, "ready")', k[1] \notin Greeting,
             ext[k[1]] # "closed", client[c] = "open", server[c] = "open",
             NEW n \in 1..local'[k].sent
      PROVE  Has(up[c], k, n) \/ Has(got[k[1]], k, n)
  <2>1. local'[k].sent # 0
    BY <1>3
  <2>2. Is(k, "ready") /\ local'[k].sent = local[k].sent
    BY <1>3, <2>1
  <2>3. local[k].link = c
    BY <1>3, <2>2 DEF Grows, Is
  <2> QED BY <1>3, <2>2, <2>3 DEF OInv, PiecesOK
<1> QED BY <1>1, <1>2, <1>3 DEF PiecesOK

\* A step of the local connection l, which keeps its id and link.
LEMMA LocalOrder ==
    ASSUME IInv, OInv, NEW l \in Keys, NEW r \in Local, local[l] # None, InUse(l),
           local' = [local EXCEPT ![l] = r],
           r.id = local[l].id, r.link = local[l].link,
           local[l].sent <= r.sent, ToSet(local[l].got) \subseteq ToSet(r.got),
           LocalShape(l)', Ahead(l)',
           \A i, j \in DOMAIN r.got : i < j => r.got[i] < r.got[j],
           Pending(l)' => Pending(l),
           \A p \in Keys : Pending(p)' /\ p[1] = l[1] => p[2] \notin ToSet(r.got),
           Is(l, "ready") => r.phase \in {"ready", "closed"},
           r.phase = "ready" /\ l[1] \in Patient => CLIENT_MAPPING'[r.id] = l,
           \A id \in Keys : \/ CLIENT_MAPPING'[id] = CLIENT_MAPPING[id]
                            \/ id = r.id /\ CLIENT_MAPPING'[id] \in {l, None},
           UNCHANGED <<linkVars, extVars, outbox, SERVER_MAPPING>>,
           \A c \in Links : down'[c] # <<>> => down[c] # <<>>,
           \A c \in Links : ToSet(down'[c]) \subseteq ToSet(down[c]) /\ Wire(c)' \subseteq Wire(c),
           \A c \in Links : \A a \in ToSet(up'[c]) : a \in ToSet(up[c]) \/ Piece(a)',
           WireOrder', PiecesOK'
    PROVE  OInv'
<1>1. \A k \in Keys : local'[k] = IF k = l THEN r ELSE local[k]
  BY DEF IInv, LocalOK
<1>2. r # None /\ local'[l] # None
  BY <1>1, NoLocalAssumption
<1>3. Steady
  BY Typed DEF Steady, extVars
<1>4. r.sent \in Nat
  BY DEF Local
<1>5. Grows
  BY <1>1, <1>2, <1>4, Typed DEF Grows
<1>6. LinkOK' /\ SentOK' /\ EndedIsForgotten'
  <2>1. LinkOK'
    BY <1>1, <1>2 DEF OInv, LinkOK, linkVars
  <2>2. SentOK' /\ EndedIsForgotten'
    BY DEF OInv, SentOK, OwnPort, EndedIsForgotten, extVars
  <2> QED BY <2>1, <2>2
<1>7. WireOK'
  BY <1>3, ShapesKept DEF WireOK
<1>8. LocalsOK'
  <2>1. \A k \in Keys : local'[k] # None => LocalShape(k)'
    BY <1>1, <1>3, LocalKept
  <2>2. \A k \in Keys : local'[k] # None => Ahead(k)'
    <3> SUFFICES ASSUME NEW k \in Keys, local'[k] # None, k # l PROVE Ahead(k)'
      OBVIOUS
    <3>1. Ahead(k) /\ local'[k] = local[k]
      BY <1>1 DEF OInv, LocalsOK
    <3> QED BY <3>1 DEF Ahead
  <2>3. MapOK'
    <3>1. \A id \in Keys : CLIENT_MAPPING[id] # None => CLIENT_MAPPING[id] \in Keys
      BY DEF IInv, LocalOK
    <3> QED BY <1>1, <1>2, <3>1 DEF OInv, LocalsOK, MapOK
  <2>4. PendingOK'
    <3> SUFFICES ASSUME NEW p \in Keys, NEW k \in Keys, Pending(p)', local'[k] # None, k[1] = p[1]
                 PROVE  p[2] \notin ToSet(local'[k].got)
      BY DEF PendingOK
    <3>1. Pending(p)
      BY <1>1 DEF Pending, Is
    <3>2. CASE k = l
      BY <1>1, <3>2
    <3>3. CASE k # l
      BY <1>1, <3>1, <3>3 DEF OInv, LocalsOK, PendingOK
    <3> QED BY <3>2, <3>3
  <2>5. ChunksInOrder'
    BY <1>1 DEF OInv, LocalsOK, ChunksInOrder
  <2> QED BY <2>1, <2>2, <2>3, <2>4, <2>5 DEF LocalsOK
<1>9. AnswersOK'
  <2>1. \A x \in Exts : \A a : Refused(x, a) => Refused(x, a)'
    <3> SUFFICES ASSUME NEW x \in Exts, NEW a, Refused(x, a) PROVE Refused(x, a)'
      OBVIOUS
    <3>1. a.id \in Keys
      <4>1. a.id = <<x, a.re>> /\ a.re \in 1..sent[x] /\ sent[x] \in 0..MaxMsgs
        BY Typed DEF Refused
      <4>2. a.re \in 1..MaxMsgs
        BY <4>1, BoundAssumption
      <4> QED BY <4>1, <4>2 DEF Keys
    <3>2. local'[a.id] = None
      BY <1>1, <3>1 DEF Refused
    <3> QED BY <3>2, <1>3, RefusedKept DEF Refused, extVars
  <2>2. \A a \in Answer : Piece(a) => Piece(a)'
    BY <1>5, PieceKept
  <2>3. /\ \A c \in Links : ToSet(up[c]) \subseteq Answer
        /\ \A x \in Exts : ToSet(got[x]) \subseteq Answer
    BY Typed, SetOf DEF For
  <2>4. ASSUME NEW c \in Links, NEW a \in ToSet(up'[c]) PROVE Piece(a)'
    BY <2>2, <2>3 DEF OInv, AnswersOK
  <2>5. ASSUME NEW x \in Exts, NEW a \in ToSet(got[x])
        PROVE  IF a.n = 0 THEN Refused(x, a)' ELSE Piece(a)'
    BY <2>1, <2>2, <2>3 DEF OInv, AnswersOK
  <2> QED BY <2>4, <2>5 DEF AnswersOK, extVars
<1>10. PatientOK'
  <2>1. \A k \in Keys : Pending(k)' => Pending(k)
    BY <1>1 DEF Pending, Is
  <2>2. \A k \in Keys : InUse(k)' => InUse(k)
    BY <1>1 DEF InUse, Is
  <2>3. ASSUME NEW c \in Links, NEW m \in Wire(c)', m.key[1] \in Patient
        PROVE  /\ m.key[2] = sent'[m.key[1]]
               /\ ~m.named => (Is(m.id, "closed") \/ Reaches(m.id, m))'
    <3>1. m \in Wire(c) /\ m.id \in Keys
      BY Typed, MessageParts
    <3>2. /\ m.key[2] = sent[m.key[1]]
          /\ ~m.named => Is(m.id, "closed") \/ Reaches(m.id, m)
      BY <2>3, <3>1 DEF OInv, PatientOK
    <3>3. ASSUME ~m.named PROVE (Is(m.id, "closed") \/ Reaches(m.id, m))'
      <4>1. CASE m.id = l
        <5>1. Is(l, "ready") /\ local[l].sent > 0
          BY <3>2, <3>3, <4>1 DEF InUse, Is, Reaches
        <5>2. r.sent > 0 /\ r.phase \in {"ready", "closed"}
          BY <1>4, <5>1, Typed
        <5> QED BY <1>1, <1>2, <4>1, <5>2 DEF Reaches, Is
      <4>2. CASE m.id # l
        BY <1>1, <3>1, <3>2, <3>3, <4>2 DEF Reaches, Is
      <4> QED BY <4>1, <4>2
    <3> QED BY <3>2, <3>3 DEF extVars
  <2>4. \A k \in Keys : k[1] \in Patient /\ Pending(k)' => k[2] = sent'[k[1]]
    BY <2>1 DEF OInv, PatientOK, extVars
  <2>5. StreamStaysTogether'
    <3> SUFFICES ASSUME NEW k \in Keys, k[1] \in Patient, InUse(k)'
                 PROVE  /\ Is(k, "ready")' => CLIENT_MAPPING'[local'[k].id] = k
                        /\ \A j \in Keys \ {k} : InUse(j)' => local'[j].id # local'[k].id
      BY DEF StreamStaysTogether
    <3>1. InUse(k)
      BY <2>2
    <3>2. /\ Is(k, "ready") => CLIENT_MAPPING[local[k].id] = k
          /\ \A j \in Keys \ {k} : InUse(j) => local[j].id # local[k].id
      BY <3>1 DEF OInv, PatientOK, StreamStaysTogether
    <3>3. \A j \in Keys \ {k} : InUse(j)' => local'[j].id # local'[k].id
      BY <1>1, <2>2, <3>2
    <3>4. ASSUME Is(k, "ready")' PROVE CLIENT_MAPPING'[local'[k].id] = k
      <4>1. CASE k = l
        BY <1>1, <3>4, <4>1 DEF Is
      <4>2. CASE k # l
        <5>1. local[k].id # r.id /\ local[k].id \in Keys /\ local'[k] = local[k] /\ Is(k, "ready")
          BY <1>1, <3>2, <3>4, <4>2, Typed DEF Is
        <5> QED BY <3>2, <5>1
      <4> QED BY <4>1, <4>2
    <3> QED BY <3>3, <3>4
  <2> QED BY <2>3, <2>4, <2>5 DEF PatientOK
<1>11. HomeOK'
  <2>1. \A k \in Keys : local'[k] # None => local[k] # None /\ local'[k].id = local[k].id
    BY <1>1
  <2>2. UNCHANGED <<ext, kind, TCP_FLAG, SERVER_MAPPING>>
    BY DEF extVars
  <2>3. ASSUME NEW c \in Links, NEW m \in ToSet(down'[c]), m.named, ext[m.key[1]] # "closed"
        PROVE  SERVER_MAPPING[m.id] = m.key[1]
    BY <2>3 DEF OInv, HomeOK
  <2>4. ASSUME NEW k \in Keys, local'[k] # None, ext[k[1]] # "closed"
        PROVE  SERVER_MAPPING[local'[k].id] = k[1]
    BY <2>1, <2>4 DEF OInv, HomeOK
  <2>5. \A x \in Exts : kind[x] = "tcp" /\ TCP_FLAG[x] # None /\ ext[x] # "closed" =>
          SERVER_MAPPING[TCP_FLAG[x]] = x
    BY DEF OInv, HomeOK
  <2> QED BY <2>2, <2>3, <2>4, <2>5 DEF HomeOK
<1> QED BY <1>6, <1>7, <1>8, <1>9, <1>10, <1>11 DEF OInv
LEMMA AttemptOrder ==
    ASSUME IInv, OInv, NEW l \in Keys, Connected(l) \/ ConnectFails(l)
    PROVE  OInv'
<1>1. PICK p \in {"deaf", "failed"} : local' = [local EXCEPT ![l] = [local[l] EXCEPT !.phase = p]]
  BY DEF Connected, ConnectFails, Becomes
<1>2. /\ Is(l, "connecting") /\ local[l] # None
      /\ UNCHANGED <<linkVars, extVars, wires, SERVER_MAPPING, CLIENT_MAPPING>>
  BY DEF Connected, ConnectFails, Is
<1>3. PICK r : r = [local[l] EXCEPT !.phase = p]
  OBVIOUS
<1>4. /\ r \in Local /\ r.phase = p /\ r.id = local[l].id /\ r.link = local[l].link
      /\ r.got = local[l].got /\ r.sent = local[l].sent
      /\ local' = [local EXCEPT ![l] = r] /\ local'[l] = r
  BY <1>1, <1>2, <1>3, Typed DEF Local, Phases, IInv, LocalOK
<1>5. Pending(l) /\ InUse(l) /\ ~Is(l, "ready") /\ ~Is(l, "ready")'
  BY <1>1, <1>2, <1>4 DEF Pending, InUse, Is
<1>6. LocalShape(l) /\ Ahead(l)
  BY <1>2 DEF OInv, LocalsOK
<1>7. local[l].got = <<>>
  BY <1>2, <1>6 DEF LocalShape, Is
<1>8. LocalShape(l)'
  BY <1>2, <1>4, <1>5, <1>6, <1>7 DEF LocalShape, extVars
<1>9. \A c \in Links : Wire(c)' = Wire(c)
  BY <1>2 DEF Wire, wires
<1>10. Ahead(l)'
  BY <1>4, <1>6, <1>9 DEF Ahead
<1>11. Grows
  BY <1>2, <1>4, NoLocalAssumption, Typed DEF Grows, IInv, LocalOK
<1>12. PiecesOK'
  <2>1. \A k \in Keys : Is(k, "ready")' => Is(k, "ready") /\ local'[k] = local[k]
    BY <1>4, <1>5 DEF Is, IInv, LocalOK
  <2> QED BY <1>2, <1>11, <2>1, NothingWritten DEF linkVars, extVars, wires
<1>13. WireOrder'
  BY <1>2, <1>9 DEF OInv, WireOK, WireOrder, Ordered, wires
<1>14. \A q \in Keys : Pending(q)' /\ q[1] = l[1] => q[2] \notin ToSet(r.got)
  BY <1>4, <1>7, EmptySet
<1>15. \A i, j \in DOMAIN r.got : i < j => r.got[i] < r.got[j]
  BY <1>4, <1>7
<1>16. local[l].sent <= r.sent /\ ToSet(local[l].got) \subseteq ToSet(r.got)
  BY <1>2, <1>4, Typed
<1> QED BY <1>2, <1>4, <1>5, <1>8, <1>9, <1>10, <1>12, <1>13, <1>14, <1>15, <1>16, LocalOrder
        DEF wires

LEMMA ReadyOrder == ASSUME IInv, OInv, NEW l \in Keys, Ready(l) PROVE OInv'
<1>1. /\ Is(l, "deaf") \/ Is(l, "dead")
      /\ CLIENT_MAPPING' = [CLIENT_MAPPING EXCEPT ![local[l].id] = l]
      /\ UNCHANGED <<linkVars, extVars, wires, SERVER_MAPPING>>
  BY DEF Ready
<1>2. local[l] # None /\ LocalShape(l) /\ Ahead(l) /\ Pending(l) /\ InUse(l) /\ ~Is(l, "ready")
  BY <1>1 DEF Is, Pending, InUse, OInv, LocalsOK
<1>3. local[l].got = <<>>
  BY <1>1, <1>2 DEF LocalShape, Is
<1>4. PICK r : r = IF Is(l, "deaf") THEN [local[l] EXCEPT !.phase = "ready", !.got = <<l[2]>>]
                                    ELSE [local[l] EXCEPT !.phase = "stale"]
  OBVIOUS
<1>5. /\ r \in Local /\ r.id = local[l].id /\ r.link = local[l].link /\ r.sent = local[l].sent
      /\ \/ r.phase = "ready" /\ r.got = <<l[2]>>
         \/ r.phase = "stale" /\ r.got = <<>>
  <2>1. local[l] \in Local /\ l[2] \in 1..MaxMsgs
    BY <1>2, Typed, MessageParts
  <2>2. <<l[2]>> \in Seq(1..MaxMsgs)
    BY <2>1
  <2> QED BY <1>3, <1>4, <2>1, <2>2 DEF Local, Phases
<1>6. local' = [local EXCEPT ![l] = r] /\ local'[l] = r
  <2>1. local[l] \in Local /\ l[2] \in 1..MaxMsgs
    BY <1>2, Typed, MessageParts
  <2>2. Append(local[l].got, l[2]) = <<l[2]>>
    BY <1>3, <2>1
  <2> QED BY <1>1, <1>2, <1>4, <2>1, <2>2 DEF Ready, IInv, LocalOK, Local
<1>7. ToSet(r.got) \subseteq {l[2]} /\ ToSet(local[l].got) \subseteq ToSet(r.got)
  <2>1. ToSet(<<l[2]>>) = {l[2]}
    BY DEF ToSet
  <2> QED BY <1>3, <1>5, <2>1, EmptySet
<1>8. \A i, j \in DOMAIN r.got : i < j => r.got[i] < r.got[j]
  BY <1>5
<1>9. ~Pending(l)'
  BY <1>5, <1>6 DEF Pending, Is
<1>10. LocalShape(l)'
  BY <1>1, <1>2, <1>5, <1>6, <1>7, <1>9 DEF LocalShape, extVars
<1>11. \A c \in Links : Wire(c)' = Wire(c)
  BY <1>1 DEF Wire, wires
<1>12. Ahead(l)'
  <2>1. \A c \in Links : \A m \in Wire(c) : m.key[2] \in Nat
    BY Typed, MessageParts
  <2> QED BY <1>2, <1>5, <1>6, <1>7, <1>11, <2>1 DEF Ahead
<1>13. \A q \in Keys : Pending(q)' /\ q[1] = l[1] => q[2] \notin ToSet(r.got)
  BY <1>7, <1>9, MessageParts
<1>14. Grows
  BY <1>2, <1>5, <1>6, <1>7, NoLocalAssumption, Typed DEF Grows, IInv, LocalOK
<1>15. PiecesOK'
  <2>1. l[1] \notin Greeting => local'[l].sent = 0
    BY <1>2, <1>5, <1>6 DEF LocalShape
  <2>2. \A k \in Keys : k # l /\ Is(k, "ready")' => Is(k, "ready") /\ local'[k] = local[k]
    BY <1>6 DEF Is, IInv, LocalOK
  <2> QED BY <1>1, <1>14, <2>1, <2>2, NothingWritten DEF linkVars, extVars, wires
<1>16. WireOrder'
  BY <1>1, <1>11 DEF OInv, WireOK, WireOrder, Ordered, wires
<1>17. local[l].sent <= r.sent
  BY <1>2, <1>5, Typed
<1>18. /\ CLIENT_MAPPING'[r.id] = l
       /\ \A id \in Keys : CLIENT_MAPPING'[id] = CLIENT_MAPPING[id] \/ id = r.id
  BY <1>1, <1>2, <1>5, Typed DEF IInv, LocalOK
<1> QED BY ZenonT(30), <1>1, <1>2, <1>5, <1>6, <1>7, <1>8, <1>9, <1>10, <1>11, <1>12, <1>13, <1>15, <1>16,
           <1>17, <1>18, LocalOrder DEF wires

LEMMA LocalEndsOrder == ASSUME IInv, OInv, NEW l \in Keys, LocalEnds(l) PROVE OInv'
<1>1. PICK p : /\ \/ Is(l, "deaf") /\ p = "dead"
                  \/ Is(l, "ready") /\ p = "closed"
               /\ local' = [local EXCEPT ![l] = [local[l] EXCEPT !.phase = p]]
  BY DEF LocalEnds, Becomes
<1>2. /\ local[l] # None
      /\ \/ UNCHANGED CLIENT_MAPPING
         \/ CLIENT_MAPPING' = [CLIENT_MAPPING EXCEPT ![local[l].id] = None]
      /\ UNCHANGED <<linkVars, extVars, wires, SERVER_MAPPING>>
  BY DEF LocalEnds, Is
<1>3. PICK r : r = [local[l] EXCEPT !.phase = p]
  OBVIOUS
<1>4. /\ r \in Local /\ r.phase = p /\ r.id = local[l].id /\ r.link = local[l].link
      /\ r.got = local[l].got /\ r.sent = local[l].sent
      /\ local' = [local EXCEPT ![l] = r] /\ local'[l] = r
  BY <1>1, <1>2, <1>3, Typed DEF Local, Phases, IInv, LocalOK
<1>5. /\ InUse(l) /\ ~Is(l, "ready")' /\ p # "ready"
      /\ Is(l, "ready") => r.phase = "closed"
      /\ Pending(l)' => Pending(l)
  BY <1>1, <1>2, <1>4 DEF Pending, InUse, Is
<1>6. LocalShape(l) /\ Ahead(l)
  BY <1>2 DEF OInv, LocalsOK
<1>7. LocalShape(l)'
  BY <1>1, <1>2, <1>4, <1>5, <1>6 DEF LocalShape, Is, extVars
<1>8. \A c \in Links : Wire(c)' = Wire(c)
  BY <1>2 DEF Wire, wires
<1>9. Ahead(l)'
  BY <1>4, <1>6, <1>8 DEF Ahead
<1>10. Grows
  BY <1>2, <1>4, NoLocalAssumption, Typed DEF Grows, IInv, LocalOK
<1>11. PiecesOK'
  <2>1. \A k \in Keys : Is(k, "ready")' => Is(k, "ready") /\ local'[k] = local[k]
    BY <1>4, <1>5 DEF Is, IInv, LocalOK
  <2> QED BY <1>2, <1>10, <2>1, NothingWritten DEF linkVars, extVars, wires
<1>12. WireOrder'
  BY <1>2, <1>8 DEF OInv, WireOK, WireOrder, Ordered, wires
<1>13. \A q \in Keys : Pending(q)' /\ q[1] = l[1] => q[2] \notin ToSet(r.got)
  <2> SUFFICES ASSUME NEW q \in Keys, Pending(q)', q[1] = l[1] PROVE q[2] \notin ToSet(r.got)
    OBVIOUS
  <2>1. Pending(q)
    BY <1>4, <1>5 DEF Pending, Is, IInv, LocalOK
  <2> QED BY <1>2, <1>4, <2>1 DEF OInv, LocalsOK, PendingOK
<1>14. \A i, j \in DOMAIN r.got : i < j => r.got[i] < r.got[j]
  BY <1>2, <1>4 DEF OInv, LocalsOK, ChunksInOrder
<1>15. local[l].sent <= r.sent /\ ToSet(local[l].got) \subseteq ToSet(r.got)
  BY <1>2, <1>4, Typed
<1>16. \A id \in Keys : \/ CLIENT_MAPPING'[id] = CLIENT_MAPPING[id]
                        \/ id = r.id /\ CLIENT_MAPPING'[id] = None
  BY <1>2, <1>4 DEF IInv, LocalOK
<1> QED BY <1>2, <1>4, <1>5, <1>7, <1>8, <1>9, <1>11, <1>12, <1>13, <1>14, <1>15, <1>16, LocalOrder
        DEF wires

\* A new piece follows all of its connection, and closes no gap.
LEMMA AnswersOrder == ASSUME IInv, OInv, NEW l \in Keys, Answers(l) PROVE OInv'
<1>1. PICK c, n, a : /\ c = local[l].link /\ n = local[l].sent + 1
                     /\ a = [id |-> local[l].id, from |-> l, n |-> n,
                             re |-> IF local[l].got = <<>> THEN 0 ELSE Last(local[l].got)]
  OBVIOUS
<1>2. /\ Is(l, "deaf") \/ Is(l, "ready")
      /\ local[l].sent < MaxAnswers
      /\ local[l].got # <<>> \/ l[1] \in Greeting
      /\ local' = [local EXCEPT ![l] = [local[l] EXCEPT !.sent = n]]
      /\ UNCHANGED <<linkVars, extVars, outbox, down, SERVER_MAPPING, CLIENT_MAPPING>>
      /\ up' = IF Is(l, "ready") /\ client[c] = "open" /\ server[c] = "open"
               THEN [up EXCEPT ![c] = Append(@, a)] ELSE up
  BY <1>1 DEF Answers
<1>3. /\ local[l] # None /\ local[l] \in Local /\ local[l].id \in Keys /\ c \in Links
      /\ local[l].got \in Seq(1..MaxMsgs) /\ ToSet(local[l].got) \subseteq 1..MaxMsgs
      /\ local[l].sent \in Nat /\ n \in 1..MaxAnswers /\ n = local[l].sent + 1
      /\ l[1] \in Exts
  <2>1. local[l] # None
    BY <1>2 DEF Is
  <2>2. local[l].sent \in 0..MaxAnswers /\ local[l].sent < MaxAnswers
    BY <1>2, <2>1, Typed
  <2> QED BY <1>1, <2>1, <2>2, Typed, MessageParts, BoundAssumption
<1>4. PICK r : r = [local[l] EXCEPT !.sent = n]
  OBVIOUS
<1>5. /\ r \in Local /\ r.sent = n /\ r.phase = local[l].phase /\ r.id = local[l].id
      /\ r.link = c /\ r.got = local[l].got
      /\ local' = [local EXCEPT ![l] = r] /\ local'[l] = r
  <2>1. n \in 0..MaxAnswers
    BY <1>3, BoundAssumption
  <2>2. /\ r \in Local /\ r.sent = n /\ r.phase = local[l].phase /\ r.id = local[l].id
        /\ r.link = local[l].link /\ r.got = local[l].got
    BY <1>3, <1>4, <2>1 DEF Local
  <2>3. local' = [local EXCEPT ![l] = r] /\ local'[l] = r
    BY <1>2, <1>4 DEF IInv, LocalOK
  <2> QED BY <1>1, <2>2, <2>3
<1>6. \A k \in Keys : k # l => local'[k] = local[k]
  BY <1>5 DEF IInv, LocalOK
<1>7. /\ InUse(l) /\ (Is(l, "ready")' <=> Is(l, "ready")) /\ (Pending(l)' <=> Pending(l))
      /\ Is(l, "ready") => r.phase = "ready"
      /\ r.phase = "ready" => Is(l, "ready")
  BY <1>2, <1>3, <1>5, NoLocalAssumption DEF InUse, Pending, Is
<1>8. LocalShape(l) /\ Ahead(l)
  BY <1>3 DEF OInv, LocalsOK
<1>9. LocalShape(l)'
  <2>1. Pending(l) => l[1] \in Greeting
    BY <1>2, <1>8 DEF LocalShape, Pending, Is
  <2> QED BY <1>1, <1>2, <1>5, <1>7, <1>8, <2>1 DEF LocalShape, extVars
<1>10. \A d \in Links : Wire(d)' = Wire(d)
  BY <1>2 DEF Wire
<1>11. Ahead(l)'
  BY <1>5, <1>8, <1>10 DEF Ahead
<1>12. Grows
  BY <1>1, <1>3, <1>5, <1>6, NoLocalAssumption, Typed DEF Grows
<1>13. /\ a \in Answer /\ a.from = l /\ a.n = n /\ a.id = local[l].id
       /\ a.re \in {0} \cup ToSet(local[l].got)
  <2>1. a.re \in {0} \cup ToSet(local[l].got)
    <3>1. local[l].got # <<>> => Last(local[l].got) \in ToSet(local[l].got)
      BY <1>3, LastIn
    <3> QED BY <1>1, <3>1
  <2>2. a.re \in 0..MaxMsgs
    BY <1>3, <2>1, BoundAssumption
  <2>3. a.id = local[l].id /\ a.from = l /\ a.n = n /\ n \in 0..MaxAnswers
    BY <1>1, <1>3, BoundAssumption
  <2>4. a = [id |-> a.id, from |-> a.from, n |-> a.n, re |-> a.re]
    BY <1>1
  <2> QED BY <1>3, <2>1, <2>2, <2>3, <2>4 DEF Answer
<1>14. Piece(a)'
  BY <1>3, <1>5, <1>13, NoLocalAssumption DEF Piece
<1>15. \A d \in Links : \/ up'[d] = up[d]
                        \/ /\ d = c /\ up'[d] = Append(up[c], a)
  BY <1>2 DEF IInv, WiresOK
<1>16. \A d \in Links : \A b \in ToSet(up'[d]) : b \in ToSet(up[d]) \/ Piece(b)'
  <2>1. ToSet(Append(up[c], a)) = ToSet(up[c]) \cup {a}
    BY <1>3, <1>13, Typed, AppendSet
  <2> QED BY <1>14, <1>15, <2>1
<1>17. WireOrder'
  BY <1>2, <1>10 DEF OInv, WireOK, WireOrder, Ordered
<1>18. PiecesOK'
  <2>1. up[c] \in Seq(Answer)
    BY <1>3, Typed
  \* No piece of l has this number or a greater one.
  <2>2. ASSUME NEW k, k >= n, k \in Nat
        PROVE  ~Has(up[c], l, k) /\ ~Has(got[l[1]], l, k)
    <3>1. local[l].sent < k
      BY <1>3, <2>2
    <3>2. ~Has(up[c], l, k)
      <4> SUFFICES ASSUME NEW j \in DOMAIN up[c], up[c][j].from = l, up[c][j].n = k PROVE FALSE
        BY DEF Has
      <4>1. Piece(up[c][j])
        BY <1>3, OnTheWay
      <4> QED BY <1>3, <2>2, <3>1, <4>1 DEF Piece
    <3>3. ~Has(got[l[1]], l, k)
      <4> SUFFICES ASSUME NEW j \in DOMAIN got[l[1]], got[l[1]][j].from = l, got[l[1]][j].n = k
                   PROVE  FALSE
        BY DEF Has
      <4>1. got[l[1]][j] \in ToSet(got[l[1]])
        BY DEF ToSet
      <4>2. k # 0
        BY <1>3, <2>2
      <4>3. Piece(got[l[1]][j])
        BY <1>3, <4>1, <4>2 DEF OInv, AnswersOK
      <4> QED BY <1>3, <2>2, <3>1, <4>3 DEF Piece
    <3> QED BY <3>2, <3>3
  <2>3. /\ \A k, e : Has(Append(up[c], a), k, e) <=> Has(up[c], k, e) \/ (l = k /\ n = e)
        /\ \A i \in DOMAIN up[c] : Append(up[c], a)[i] = up[c][i]
        /\ \A i \in DOMAIN up[c] : \A k, e : HasBefore(Append(up[c], a), i, k, e) <=> HasBefore(up[c], i, k, e)
        /\ Append(up[c], a)[Len(up[c]) + 1] = a
        /\ \A k, e : HasBefore(Append(up[c], a), Len(up[c]) + 1, k, e) <=> Has(up[c], k, e)
        /\ DOMAIN Append(up[c], a) = DOMAIN up[c] \cup {Len(up[c]) + 1}
    BY <1>13, <2>1, HasAppend
  <2>4. AnswersComeHomeInOrder'
    BY <1>2 DEF OInv, PiecesOK, AnswersComeHomeInOrder, extVars
  \* What was there before.
  <2>5. ASSUME NEW d \in Links, NEW i \in DOMAIN up[d], NEW b, b = up[d][i]
        PROVE  /\ d = local'[b.from].link
               /\ up'[d][i] = b
               /\ \A e \in b.n..MaxAnswers : ~HasBefore(up'[d], i, b.from, e) /\ ~Has(got[b.from[1]], b.from, e)
               /\ b.from[1] \notin Greeting /\ ext[b.from[1]] # "closed" =>
                    \A e \in 1..(b.n - 1) : HasBefore(up'[d], i, b.from, e) \/ Has(got[b.from[1]], b.from, e)
    <3>1. /\ b.from \in Keys /\ Piece(b) /\ d = local[b.from].link
          /\ \A e \in b.n..MaxAnswers : ~HasBefore(up[d], i, b.from, e) /\ ~Has(got[b.from[1]], b.from, e)
          /\ b.from[1] \notin Greeting /\ ext[b.from[1]] # "closed" =>
               \A e \in 1..(b.n - 1) : HasBefore(up[d], i, b.from, e) \/ Has(got[b.from[1]], b.from, e)
      BY <2>5, OnTheWay
    <3>2. local'[b.from].link = local[b.from].link
      BY <1>12, <3>1 DEF Grows, Piece
    <3>3. up'[d][i] = b /\ \A e : HasBefore(up'[d], i, b.from, e) <=> HasBefore(up[d], i, b.from, e)
      BY <1>15, <2>3, <2>5
    <3> QED BY <3>1, <3>2, <3>3
  \* The new piece, if it is not lost.
  <2>6. ASSUME Is(l, "ready"), client[c] = "open", server[c] = "open", l[1] \notin Greeting,
               ext[l[1]] # "closed", NEW e \in 1..local[l].sent
        PROVE  Has(up[c], l, e) \/ Has(got[l[1]], l, e)
    BY <1>1, <2>6 DEF OInv, PiecesOK
  <2>7. ASSUME up'[c] # up[c]
        PROVE  /\ c = local'[a.from].link
               /\ \A e \in a.n..MaxAnswers :
                    ~HasBefore(up'[c], Len(up[c]) + 1, a.from, e) /\ ~Has(got[a.from[1]], a.from, e)
               /\ a.from[1] \notin Greeting /\ ext[a.from[1]] # "closed" =>
                    \A e \in 1..(a.n - 1) :
                      HasBefore(up'[c], Len(up[c]) + 1, a.from, e) \/ Has(got[a.from[1]], a.from, e)
    <3>1. Is(l, "ready") /\ client[c] = "open" /\ server[c] = "open" /\ up'[c] = Append(up[c], a)
      BY <1>2, <1>3, <1>15, <2>7
    <3>2. \A e : HasBefore(up'[c], Len(up[c]) + 1, l, e) <=> Has(up[c], l, e)
      BY <2>3, <3>1
    <3>3. \A e \in n..MaxAnswers : ~Has(up[c], l, e) /\ ~Has(got[l[1]], l, e)
      <4>1. \A e \in n..MaxAnswers : e >= n /\ e \in Nat
        BY <1>3, BoundAssumption
      <4> QED BY <2>2, <4>1
    <3>4. l[1] \notin Greeting /\ ext[l[1]] # "closed" =>
            \A e \in 1..(n - 1) : Has(up[c], l, e) \/ Has(got[l[1]], l, e)
      <4>1. n - 1 = local[l].sent
        BY <1>3
      <4> QED BY <2>6, <3>1, <4>1
    <3>5. c = local'[l].link
      BY <1>5
    <3> QED BY <1>13, <3>2, <3>3, <3>4, <3>5
  <2>8. ASSUME NEW d \in Links, NEW i \in DOMAIN up'[d], NEW b, b = up'[d][i]
        PROVE  /\ d = local'[b.from].link
               /\ \A e \in b.n..MaxAnswers : ~HasBefore(up'[d], i, b.from, e) /\ ~Has(got[b.from[1]], b.from, e)
               /\ b.from[1] \notin Greeting /\ ext[b.from[1]] # "closed" =>
                    \A e \in 1..(b.n - 1) : HasBefore(up'[d], i, b.from, e) \/ Has(got[b.from[1]], b.from, e)
    <3>1. CASE i \in DOMAIN up[d]
      <4>1. up[d][i] = b
        BY <2>5, <2>8, <3>1
      <4> QED BY <2>5, <3>1, <4>1
    <3>2. CASE i \notin DOMAIN up[d]
      <4>1. d = c /\ up'[d] = Append(up[c], a) /\ up'[c] # up[c]
        BY <1>15, <2>8, <3>2
      <4>2. i = Len(up[c]) + 1 /\ b = a
        BY <2>3, <2>8, <3>2, <4>1
      <4> QED BY <2>7, <4>1, <4>2
    <3> QED BY <3>1, <3>2
  <2>9. ASSUME NEW k \in Keys, NEW d, d = local'[k].link, Is(k, "ready")', k[1] \notin Greeting,
               ext[k[1]] # "closed", client[d] = "open", server[d] = "open",
               NEW e \in 1..local'[k].sent
        PROVE  Has(up'[d], k, e) \/ Has(got[k[1]], k, e)
    <3>1. \A f \in Links : Has(up[f], k, e) => Has(up'[f], k, e)
      BY <1>15, <2>3
    <3>2. CASE k # l
      <4>1. Is(k, "ready") /\ local'[k] = local[k] /\ d \in Links
        BY <1>6, <2>9, <3>2, Typed DEF Is
      <4>2. Has(up[d], k, e) \/ Has(got[k[1]], k, e)
        BY <2>9, <4>1 DEF OInv, PiecesOK
      <4> QED BY <3>1, <4>1, <4>2
    <3>3. CASE k = l
      <4>1. d = c /\ Is(l, "ready") /\ e \in 1..n
        BY <1>5, <1>7, <2>9, <3>3
      <4>2. CASE e = n
        <5>1. up'[c] = Append(up[c], a)
          BY <1>2, <1>3, <2>9, <4>1 DEF IInv, WiresOK
        <5> QED BY <2>3, <3>3, <4>1, <4>2, <5>1
      <4>3. CASE e # n
        <5>1. e \in 1..local[l].sent
          BY <1>3, <4>1, <4>3
        <5> QED BY <1>3, <2>6, <2>9, <3>1, <3>3, <4>1, <5>1
      <4> QED BY <4>2, <4>3
    <3> QED BY <3>2, <3>3
  <2>10. UNCHANGED <<got, ext, client, server>>
    BY <1>2 DEF linkVars, extVars
  <2> QED BY <2>4, <2>8, <2>9, <2>10 DEF PiecesOK
<1>19. \A q \in Keys : Pending(q)' /\ q[1] = l[1] => q[2] \notin ToSet(r.got)
  <2> SUFFICES ASSUME NEW q \in Keys, Pending(q)', q[1] = l[1] PROVE q[2] \notin ToSet(r.got)
    OBVIOUS
  <2>1. Pending(q)
    BY <1>6, <1>7 DEF Pending, Is
  <2> QED BY <1>3, <1>5, <2>1 DEF OInv, LocalsOK, PendingOK
<1>20. \A i, j \in DOMAIN r.got : i < j => r.got[i] < r.got[j]
  BY <1>3, <1>5 DEF OInv, LocalsOK, ChunksInOrder
<1>21. local[l].sent <= r.sent /\ ToSet(local[l].got) \subseteq ToSet(r.got)
  BY <1>3, <1>5
<1>22. r.phase = "ready" /\ l[1] \in Patient => CLIENT_MAPPING'[r.id] = l
  BY <1>2, <1>5, <1>7 DEF OInv, PatientOK, StreamStaysTogether
<1> QED BY <1>1, <1>2, <1>3, <1>5, <1>7, <1>9, <1>10, <1>11, <1>16, <1>17, <1>18, <1>19, <1>20,
           <1>21, <1>22, LocalOrder

\* A message that the client reads is the oldest of its stream on the wires.
LEMMA Popped ==
    ASSUME IInv, OInv, NEW c \in Links, ReadMessage(c), NEW m, m = Head(down[c])
    PROVE  /\ m \in OwnMessage /\ m \in Wire(c) /\ m \in ToSet(down[c]) /\ Shape(c, m)
           /\ m.key \in Keys /\ m.id \in Keys /\ m.id[1] = m.key[1] /\ m.key[1] \in Exts
           /\ m.key[2] \in 1..MaxMsgs
           /\ client[c] = "open"
           /\ \A d \in Links : down'[d] # <<>> => down[d] # <<>>
           /\ \A d \in Links : ToSet(down'[d]) \subseteq ToSet(down[d]) /\ Wire(d)' \subseteq Wire(d)
           /\ WireOrder'
           /\ \A d \in Links : \A k \in Wire(d)' :
                /\ k.id = m.id => m.key[2] < k.key[2]
                /\ k.key # m.key
<1>1. /\ down[c] # <<>> /\ down' = [down EXCEPT ![c] = Tail(@)]
      /\ UNCHANGED outbox
  BY DEF ReadMessage
<1>2. down[c] \in Seq(OwnMessage) /\ Ordered(down[c])
  BY Typed DEF OInv, WireOK, WireOrder
<1>3. m \in OwnMessage /\ ToSet(down[c]) = ToSet(Tail(down[c])) \cup {m}
  <2>1. m \in OwnMessage
    BY <1>1, <1>2, TailParts
  <2> QED BY <1>1, <1>2, <2>1, TailSet
<1>4. /\ Ordered(Tail(down[c]))
      /\ \A k \in ToSet(Tail(down[c])) : k.key[1] = m.key[1] => m.key[2] < k.key[2]
  BY <1>1, <1>2, OrderedTail
<1>5. \A d \in Links : down'[d] = IF d = c THEN Tail(down[c]) ELSE down[d]
  BY <1>1 DEF IInv, WiresOK
<1>6. \A d \in Links : ToSet(down'[d]) \subseteq ToSet(down[d]) /\ Wire(d)' \subseteq Wire(d)
  <2>1. \A d \in Links : ToSet(down'[d]) \subseteq ToSet(down[d])
    BY <1>3, <1>5
  <2> QED BY <1>1, <2>1 DEF Wire
<1>7. m \in ToSet(down[c]) /\ m \in Wire(c)
  BY <1>3 DEF Wire
<1>8. Shape(c, m)
  BY <1>7 DEF OInv, WireOK, WireShape
<1>9. WireOrder'
  <2>1. \A d \in Links : Ordered(down'[d]) /\ Ordered(outbox'[d])
    BY <1>1, <1>4, <1>5 DEF OInv, WireOK, WireOrder
  <2>2. \A d \in Links : \A n \in ToSet(down'[d]), k \in ToSet(outbox'[d]) :
          n.key[1] = k.key[1] => n.key[2] < k.key[2]
    BY <1>1, <1>6 DEF OInv, WireOK, WireOrder
  <2>3. \A d, e \in Links : \A n \in Wire(d)', k \in Wire(e)' : n.key = k.key => d = e
    BY <1>6 DEF OInv, WireOK, WireOrder
  <2> QED BY <2>1, <2>2, <2>3 DEF WireOrder, Ordered
\* What is left of the same connection on c.
<1>10. \A k \in Wire(c)' : k.key[1] = m.key[1] => m.key[2] < k.key[2]
  <2>1. \A k \in ToSet(outbox[c]) : k.key[1] = m.key[1] => m.key[2] < k.key[2]
    BY <1>7 DEF OInv, WireOK, WireOrder
  <2>2. Wire(c)' = ToSet(Tail(down[c])) \cup ToSet(outbox[c])
    BY <1>1, <1>5 DEF Wire
  <2> QED BY <1>4, <2>1, <2>2
<1>11. /\ m.key \in Keys /\ m.id \in Keys /\ m.id[1] = m.key[1] /\ m.key[1] \in Exts
       /\ m.key[2] \in 1..MaxMsgs
  BY <1>3, MessageParts
<1>12. ASSUME NEW d \in Links, NEW k \in Wire(d)'
       PROVE  k.key # m.key /\ (k.id = m.id => m.key[2] < k.key[2])
  <2>1. k \in Wire(d) /\ k \in OwnMessage /\ k.id[1] = k.key[1] /\ Shape(d, k)
    BY <1>6, Typed, MessageParts DEF OInv, WireOK, WireShape
  <2>2. k.key # m.key
    <3>1. k.key = m.key => d = c
      BY <1>7, <2>1 DEF OInv, WireOK, WireOrder
    <3>2. ~(m.key[2] < m.key[2])
      BY <1>11
    <3> QED BY <1>10, <3>1, <3>2
  <2>3. ASSUME k.id = m.id PROVE d = c
    <3>1. k.key[1] = m.key[1] /\ kind[m.key[1]] \in {"http", "ws", "port", "tcp"}
      BY <1>11, <2>1, <2>3 DEF IInv, ConnectionsOK
    <3>2. CASE kind[m.key[1]] \in {"ws", "tcp"}
      BY <1>8, <2>1, <3>1, <3>2 DEF Shape
    <3>3. CASE kind[m.key[1]] \in {"http", "port"}
      BY <1>8, <2>1, <2>2, <2>3, <3>1, <3>3 DEF Shape
    <3> QED BY <3>1, <3>2, <3>3
  <2>4. k.id = m.id => k.key[1] = m.key[1]
    BY <1>11, <2>1
  <2> QED BY <1>10, <2>2, <2>3, <2>4
<1>13. client[c] = "open" /\ \A d \in Links : down'[d] # <<>> => down[d] # <<>>
  <2>1. client[c] = "open"
    BY <1>1 DEF OInv, LinkOK
  <2> QED BY <1>1, <1>5, <2>1
<1> QED BY <1>3, <1>6, <1>7, <1>8, <1>9, <1>11, <1>12, <1>13

\* The service reads it: all it has read before is older.
LEMMA ReceiveOrder ==
    ASSUME IInv, OInv, NEW c \in Links, ReadMessage(c), NEW m, m = Head(down[c]),
           NEW l \in Keys, l = CLIENT_MAPPING[m.id], Reaches(l, m)
    PROVE  OInv'
<1>1. /\ m \in OwnMessage /\ m \in Wire(c) /\ Shape(c, m) /\ m.key \in Keys /\ m.id \in Keys
      /\ m.id[1] = m.key[1] /\ m.key[2] \in 1..MaxMsgs
      /\ \A d \in Links : down'[d] # <<>> => down[d] # <<>>
      /\ \A d \in Links : ToSet(down'[d]) \subseteq ToSet(down[d]) /\ Wire(d)' \subseteq Wire(d)
      /\ WireOrder'
      /\ \A d \in Links : \A k \in Wire(d)' : k.id = m.id => m.key[2] < k.key[2]
  BY Popped
<1>2. UNCHANGED <<linkVars, extVars, outbox, up, SERVER_MAPPING, CLIENT_MAPPING>>
  BY DEF ReadMessage
<1>3. local[l] # None /\ local[l].phase = "ready" /\ local[l].id = m.id
  <2>1. l # None
    BY NoneAssumption DEF Keys
  <2> QED BY <1>1, <2>1 DEF Reaches, Is, OInv, LocalsOK, MapOK
<1>4. /\ local[l] \in Local /\ local[l].got \in Seq(1..MaxMsgs)
      /\ ToSet(local[l].got) \subseteq 1..MaxMsgs /\ l[1] = m.key[1] /\ local[l].sent \in Nat
  <2>1. /\ local[l] \in Local /\ local[l].id[1] = l[1] /\ local[l].got \in Seq(1..MaxMsgs)
        /\ ToSet(local[l].got) \subseteq 1..MaxMsgs /\ local[l].sent \in 0..MaxAnswers
    BY Zenon, <1>3, Typed
  <2>2. l[1] = m.key[1]
    BY Zenon, <1>1, <1>3, <2>1
  <2>3. \A n \in 0..MaxAnswers : n \in Nat
    OBVIOUS
  <2> QED BY Zenon, <2>1, <2>2, <2>3
<1>5. PICK h, n : h = local[l].got /\ n = m.key[2]
  OBVIOUS
<1>6. h \in Seq(1..MaxMsgs) /\ n \in 1..MaxMsgs
  BY <1>1, <1>4, <1>5
<1>7. PICK g, r : g = Append(h, n) /\ r = [local[l] EXCEPT !.got = g]
  OBVIOUS
<1>8. g \in Seq(1..MaxMsgs)
  BY <1>6, <1>7, AppendParts
<1>9. ToSet(g) = ToSet(h) \cup {n} /\ ToSet(h) \subseteq 1..MaxMsgs
  <2>1. ToSet(Append(h, n)) = ToSet(h) \cup {n}
    <3>1. PICK S : S = 1..MaxMsgs
      OBVIOUS
    <3>2. h \in Seq(S) /\ n \in S
      BY <1>6, <3>1
    <3> QED BY <3>2, AppendSet
  <2>2. ToSet(h) \subseteq 1..MaxMsgs
    BY <1>6, SetOf
  <2> QED BY <1>7, <2>1, <2>2
<1>10. /\ r \in Local /\ r.got = g /\ r.phase = "ready" /\ r.id = m.id /\ r.link = local[l].link
      /\ r.sent = local[l].sent
  BY <1>3, <1>4, <1>7, <1>8 DEF Local
<1>11. local' = [local EXCEPT ![l] = r] /\ local'[l] = r
  <2>1. l # None
    BY NoneAssumption DEF Keys
  <2>2. local' = [local EXCEPT ![l] = [local[l] EXCEPT !.got = g]]
    BY <1>5, <1>7, <2>1 DEF ReadMessage, Receive
  <2> QED BY <1>7, <2>2 DEF IInv, LocalOK
<1>12. ToSet(g) = ToSet(local[l].got) \cup {m.key[2]} /\ ToSet(g) \subseteq Nat
  <2>1. ToSet(g) = ToSet(local[l].got) \cup {m.key[2]}
    BY <1>5, <1>9
  <2>2. \A k \in 1..MaxMsgs : k \in Nat
    OBVIOUS
  <2>3. \A k \in ToSet(g) : k \in 1..MaxMsgs
    BY Zenon, <1>6, <1>9
  <2> QED BY Zenon, <2>1, <2>2, <2>3
<1>13. LocalShape(l) /\ Ahead(l)
  BY <1>3 DEF OInv, LocalsOK
<1>14. m.key[2] > l[2] /\ \A k \in ToSet(local[l].got) : k < m.key[2]
  BY <1>1, <1>3, <1>13 DEF Ahead
<1>15. kind[l[1]] \notin {"http", "port"}
  <2>1. kind[l[1]] \in {"http", "port"} => m.id = m.key /\ local[l].id = l
    BY <1>1, <1>4, <1>13 DEF Shape, LocalShape
  <2>2. m.key[2] # l[2]
    BY <1>1, <1>14
  <2> QED BY <1>3, <2>1, <2>2
<1>16. LocalShape(l)'
  <2>1. m.key[2] <= sent[l[1]]
    BY <1>1, <1>4 DEF Shape
  <2>2. ~Pending(l)'
    BY <1>10, <1>11 DEF Pending, Is
  <2> QED BY ZenonT(30), <1>2, <1>3, <1>10, <1>11, <1>12, <1>13, <1>15, <2>1, <2>2 DEF LocalShape, extVars
<1>17. Ahead(l)'
  <2> SUFFICES ASSUME NEW d \in Links, NEW k \in Wire(d)', k.id = m.id
               PROVE  k.key[2] > l[2] /\ \A j \in ToSet(g) : j < k.key[2]
    BY <1>10, <1>11 DEF Ahead
  <2>1. k.key[2] \in Nat /\ m.key[2] < k.key[2]
    BY <1>1, Typed, MessageParts
  <2>2. l[2] \in Nat
    BY MessageParts
  <2>3. \A j \in ToSet(h) : j < n /\ j \in Nat
    <3>1. \A j \in ToSet(h) : j < n
      BY Zenon, <1>5, <1>14
    <3>2. \A j \in 1..MaxMsgs : j \in Nat
      OBVIOUS
    <3>3. \A j \in ToSet(h) : j \in 1..MaxMsgs
      BY Zenon, <1>9
    <3> QED BY Zenon, <3>1, <3>2, <3>3
  <2>4. n \in Nat /\ n > l[2] /\ n < k.key[2]
    BY SMTT(30), <1>5, <1>14, <1>6, <2>1
  <2>5. k.key[2] > l[2]
    BY <2>1, <2>2, <2>4
  <2>6. \A j \in ToSet(g) : j < k.key[2]
    BY <1>9, <2>1, <2>3, <2>4
  <2> QED BY <2>5, <2>6
<1>18. \A i, j \in DOMAIN r.got : i < j => r.got[i] < r.got[j]
  <2>1. /\ Len(h) \in Nat /\ DOMAIN h = 1..Len(h)
        /\ DOMAIN g = 1..(Len(h) + 1) /\ g[Len(h) + 1] = n
        /\ \A i \in 1..Len(h) : g[i] = h[i]
    BY <1>6, <1>7, AppendParts
  <2>2. \A i, j \in DOMAIN h : i < j => h[i] < h[j]
    BY <1>3, <1>5 DEF OInv, LocalsOK, ChunksInOrder
  <2>3. \A i \in 1..Len(h) : h[i] < n
    BY <1>5, <1>14, <2>1 DEF ToSet
  <2>4. \A i, j \in DOMAIN g : i < j => g[i] < g[j]
    BY <2>1, <2>2, <2>3
  <2> QED BY <1>10, <2>4
<1>19. \A p \in Keys : Pending(p)' /\ p[1] = l[1] => p[2] \notin ToSet(r.got)
  <2> SUFFICES ASSUME NEW p \in Keys, Pending(p)', p[1] = l[1] PROVE p[2] \notin ToSet(g)
    BY <1>10
  <2>1. Pending(p) /\ local[p] # None
    BY <1>10, <1>11 DEF Pending, Is, IInv, LocalOK
  <2>2. p[2] \notin ToSet(local[l].got)
    BY <1>3, <2>1 DEF OInv, LocalsOK, PendingOK
  <2>3. p # m.key
    BY <1>1, <1>4, <2>1, Unread
  <2>4. p[2] # m.key[2]
    <3>1. p[1] = m.key[1]
      BY Zenon, <1>4
    <3>2. \A k \in Keys : k[1] = p[1] /\ k[2] = p[2] => k = p
      BY Zenon, MessageParts
    <3> QED BY Zenon, <1>1, <2>3, <3>1, <3>2
  <2> QED BY <1>12, <2>2, <2>4
<1>20. Grows
  <2>1. ToSet(local[l].got) \subseteq ToSet(r.got) /\ r # None
    BY <1>10, <1>12, NoLocalAssumption
  <2>2. \A k \in Keys : k # l => local'[k] = local[k]
    BY <1>11 DEF IInv, LocalOK
  <2>3. /\ local'[l] # None /\ local'[l].id = local[l].id /\ local'[l].link = local[l].link
        /\ local[l].sent <= local'[l].sent /\ local'[l].sent \in Nat
        /\ ToSet(local[l].got) \subseteq ToSet(local'[l].got)
    <3>1. r.id = local[l].id /\ r.link = local[l].link
      BY <1>3, <1>10
    <3>2. local[l].sent <= r.sent /\ r.sent \in Nat
      <4>1. r.sent = local[l].sent /\ local[l].sent \in Nat
        BY Zenon, <1>4, <1>10
      <4> QED BY <4>1
    <3> QED BY <1>11, <2>1, <3>1, <3>2
  <2> SUFFICES ASSUME NEW k \in Keys, local[k] # None
               PROVE  /\ local'[k] # None
                      /\ local'[k].id = local[k].id /\ local'[k].link = local[k].link
                      /\ local[k].sent <= local'[k].sent /\ local'[k].sent \in Nat
                      /\ ToSet(local[k].got) \subseteq ToSet(local'[k].got)
    BY DEF Grows
  <2>4. CASE k = l
    BY <2>3, <2>4
  <2>5. CASE k # l
    <3>1. local[k].sent \in Nat
      BY Typed
    <3>2. local'[k] = local[k]
      BY <2>2, <2>5
    <3> QED BY <3>1, <3>2
  <2> QED BY <2>4, <2>5
<1>21. PiecesOK'
  <2>1. \A k \in Keys : Is(k, "ready")' => Is(k, "ready") /\ local'[k].sent = local[k].sent
    BY <1>3, <1>10, <1>11 DEF Is, IInv, LocalOK
  <2> QED BY <1>2, <1>20, <2>1, NothingWritten DEF linkVars, extVars
<1>22. InUse(l) /\ (Pending(l)' => Pending(l))
  BY <1>3, <1>10, <1>11 DEF InUse, Pending, Is
<1>23. local[l].sent <= r.sent /\ ToSet(local[l].got) \subseteq ToSet(r.got)
  <2>1. local[l].sent <= r.sent
    <3>1. r.sent = local[l].sent /\ local[l].sent \in Nat
      BY Zenon, <1>4, <1>10
    <3> QED BY <3>1
  <2>2. ToSet(local[l].got) \subseteq ToSet(r.got)
    BY <1>10, <1>12
  <2> QED BY <2>1, <2>2
<1>24. CLIENT_MAPPING'[r.id] = l
  BY <1>2, <1>10
<1> QED BY <1>1, <1>2, <1>3, <1>10, <1>11, <1>16, <1>17, <1>18, <1>19, <1>21, <1>22, <1>23, <1>24,
           LocalOrder

\* A local connection is opened for it: nothing else of its stream is there.
LEMMA OpenOrder ==
    ASSUME IInv, OInv, NEW c \in Links, ReadMessage(c), NEW m, m = Head(down[c]),
           CLIENT_MAPPING[m.id] = None, m.named, NEW r \in Local,
           r.phase = "connecting", r.id = m.id, r.link = c, r.got = <<>>, r.sent = 0,
           local' = [local EXCEPT ![m.key] = r]
    PROVE  OInv'
<1>1. /\ m \in OwnMessage /\ m \in Wire(c) /\ m \in ToSet(down[c]) /\ Shape(c, m)
      /\ m.key \in Keys /\ m.id \in Keys /\ m.id[1] = m.key[1] /\ m.key[1] \in Exts
      /\ m.key[2] \in 1..MaxMsgs /\ client[c] = "open"
  BY Popped
<1>2. /\ \A d \in Links : down'[d] # <<>> => down[d] # <<>>
      /\ \A d \in Links : ToSet(down'[d]) \subseteq ToSet(down[d]) /\ Wire(d)' \subseteq Wire(d)
      /\ WireOrder'
      /\ \A d \in Links : \A k \in Wire(d)' : k.id = m.id => m.key[2] < k.key[2]
  BY Popped
<1>3. UNCHANGED <<linkVars, extVars, outbox, up, SERVER_MAPPING, CLIENT_MAPPING>>
  BY DEF ReadMessage
<1>4. local[m.key] = None
  BY <1>1, Unread
<1>5. /\ \A k \in Keys : k # m.key => local'[k] = local[k]
      /\ local'[m.key] = r /\ r # None
      /\ \A k \in Keys : local[k] # None => local'[k] = local[k]
  BY <1>1, <1>4, NoLocalAssumption DEF IInv, LocalOK
<1>6. Steady /\ Grows
  BY <1>3, <1>5, Typed DEF Steady, Grows, extVars
<1>7. LinkOK' /\ SentOK' /\ EndedIsForgotten'
  <2>1. LinkOK'
    BY <1>1, <1>2, <1>3, <1>5 DEF OInv, LinkOK, linkVars
  <2> QED BY <1>3, <2>1 DEF OInv, SentOK, OwnPort, EndedIsForgotten, extVars
<1>8. WireOK'
  BY <1>2, <1>6, ShapesKept DEF WireOK
<1>9. ~Is(m.key, "ready")' /\ Pending(m.key)' /\ InUse(m.key)'
  BY <1>5 DEF Is, Pending, InUse
<1>10. LocalsOK'
  <2>1. LocalShape(m.key)'
    <3>1. /\ ToSet(local'[m.key].got) = {} /\ local'[m.key].got = <<>> /\ local'[m.key].sent = 0
          /\ local'[m.key].id = m.id /\ local'[m.key].link = c
      BY <1>5, EmptySet
    <3>2. kind' = kind /\ sent' = sent /\ home' = home /\ TCP_FLAG' = TCP_FLAG /\ Shape(c, m)
      BY <1>1, <1>3 DEF extVars
    <3> QED BY <3>1, <3>2 DEF LocalShape, Shape
  <2>2. \A k \in Keys : local'[k] # None => LocalShape(k)'
    BY <1>5, <1>6, <2>1, LocalKept
  <2>3. ASSUME NEW k \in Keys, local'[k] # None PROVE Ahead(k)'
    <3>1. CASE k = m.key
      <4> SUFFICES ASSUME NEW d \in Links, NEW n \in Wire(d)', n.id = m.id
                   PROVE  n.key[2] > m.key[2]
        BY <1>5, <3>1, EmptySet DEF Ahead
      <4>1. n.key[2] \in Nat /\ m.key[2] < n.key[2]
        BY <1>2, Typed, MessageParts
      <4> QED BY <1>1, <4>1
    <3>2. CASE k # m.key
      BY <1>2, <1>5, <2>3, <3>2 DEF OInv, LocalsOK, Ahead
    <3> QED BY <3>1, <3>2
  <2>4. MapOK'
    <3>1. \A id \in Keys : CLIENT_MAPPING[id] # None => CLIENT_MAPPING[id] \in Keys
      BY DEF IInv, LocalOK
    <3> QED BY <1>3, <1>5, <3>1 DEF OInv, LocalsOK, MapOK
  <2>5. PendingOK'
    <3> SUFFICES ASSUME NEW p \in Keys, NEW k \in Keys, Pending(p)', local'[k] # None, k[1] = p[1]
                 PROVE  p[2] \notin ToSet(local'[k].got)
      BY DEF PendingOK
    <3>1. CASE k = m.key
      BY <1>5, <3>1, EmptySet
    <3>2. CASE k # m.key /\ p = m.key
      <4>1. local[k] # None /\ local'[k] = local[k]
        BY <1>5, <3>2
      <4> QED BY <1>1, <3>2, <4>1, Unread
    <3>3. CASE k # m.key /\ p # m.key
      <4>1. Pending(p) /\ local'[k] = local[k]
        BY <1>5, <3>3 DEF Pending, Is
      <4> QED BY <4>1 DEF OInv, LocalsOK, PendingOK
    <3> QED BY <3>1, <3>2, <3>3
  <2>6. ChunksInOrder'
    <3> SUFFICES ASSUME NEW k \in Keys, local'[k] # None
                 PROVE  \A i, j \in DOMAIN local'[k].got : i < j => local'[k].got[i] < local'[k].got[j]
      BY DEF ChunksInOrder
    <3>1. CASE k = m.key
      BY <1>5, <3>1
    <3>2. CASE k # m.key
      BY <1>5, <3>2 DEF OInv, LocalsOK, ChunksInOrder
    <3> QED BY <3>1, <3>2
  <2> QED BY <2>2, <2>3, <2>4, <2>5, <2>6 DEF LocalsOK
<1>11. AnswersOK'
  <2> SUFFICES ASSUME NEW x \in Exts, NEW a \in Answer, Refused(x, a) PROVE Refused(x, a)'
    BY <1>3, <1>6, AnswersKept DEF extVars
  <2>1. a.id # m.key /\ a.id \in Keys
    BY <1>1 DEF Refused, Answer
  <2>2. local'[a.id] = None
    BY <1>5, <2>1 DEF Refused
  <2>3. \A d \in Links : \A k \in Wire(d)' : k.key # a.id
    BY <1>2 DEF Refused
  <2>4. UNCHANGED <<TCP_FLAG, home>>
    BY <1>3 DEF extVars
  <2> QED BY <1>6, <2>2, <2>3, <2>4, RefusedKept DEF Refused
<1>12. PatientOK'
  <2>1. ASSUME NEW d \in Links, NEW k \in Wire(d)', k.key[1] \in Patient
        PROVE  /\ k.key[2] = sent'[k.key[1]]
               /\ ~k.named => (Is(k.id, "closed") \/ Reaches(k.id, k))'
    <3>1. k \in Wire(d) /\ k.id \in Keys
      BY <1>2, Typed, MessageParts
    <3>2. /\ k.key[2] = sent[k.key[1]]
          /\ ~k.named => Is(k.id, "closed") \/ Reaches(k.id, k)
      BY <2>1, <3>1 DEF OInv, PatientOK
    <3> QED BY <1>3, <1>5, <3>1, <3>2 DEF Reaches, Is, extVars
  <2>2. m.key[1] \in Patient => m.key[2] = sent[m.key[1]]
    BY <1>1 DEF OInv, PatientOK
  <2>3. \A k \in Keys : k # m.key /\ Pending(k)' => Pending(k)
    BY <1>5 DEF Pending, Is
  <2>4. \A k \in Keys : k[1] \in Patient /\ Pending(k)' => k[2] = sent'[k[1]]
    BY <1>3, <2>2, <2>3 DEF OInv, PatientOK, extVars
  \* Whoever of the stream waits would be m itself; whoever reads is in the map.
  <2>5. ASSUME NEW k \in Keys, k # m.key, InUse(k)', m.key[1] \in Patient
        PROVE  local'[k].id # m.id
    <3> SUFFICES ASSUME local[k].id = m.id PROVE FALSE
      BY <1>5, <2>5
    <3>1. InUse(k) /\ local[k] # None
      BY <1>5, <2>5 DEF InUse, Is
    <3>2. k[1] = m.key[1]
      BY <1>1, <3>1, Typed
    <3>3. CASE Pending(k)
      <4>1. k[2] = m.key[2]
        BY <2>2, <2>5, <3>2, <3>3 DEF OInv, PatientOK
      <4> QED BY <1>1, <2>5, <3>2, <4>1, MessageParts
    <3>4. CASE Is(k, "ready")
      <4>1. CLIENT_MAPPING[m.id] = k
        BY <2>5, <3>1, <3>2, <3>4 DEF OInv, PatientOK, StreamStaysTogether
      <4> QED BY <4>1, NoneAssumption DEF Keys
    <3> QED BY <3>1, <3>3, <3>4 DEF InUse, Pending
  <2>6. StreamStaysTogether'
    <3> SUFFICES ASSUME NEW k \in Keys, k[1] \in Patient, InUse(k)'
                 PROVE  /\ Is(k, "ready")' => CLIENT_MAPPING'[local'[k].id] = k
                        /\ \A j \in Keys \ {k} : InUse(j)' => local'[j].id # local'[k].id
      BY DEF StreamStaysTogether
    <3>1. CASE k = m.key
      BY <1>5, <1>9, <2>5, <3>1
    <3>2. CASE k # m.key
      <4>1. InUse(k) /\ local[k] # None /\ local'[k] = local[k]
        BY <1>5, <3>2 DEF InUse, Is
      <4>2. /\ Is(k, "ready") => CLIENT_MAPPING[local[k].id] = k
            /\ \A j \in Keys \ {k} : InUse(j) => local[j].id # local[k].id
        BY <4>1 DEF OInv, PatientOK, StreamStaysTogether
      <4>3. Is(k, "ready")' => CLIENT_MAPPING'[local'[k].id] = k
        BY <1>3, <4>1, <4>2 DEF Is
      <4>4. ASSUME NEW j \in Keys \ {k}, InUse(j)' PROVE local'[j].id # local'[k].id
        <5>1. CASE j = m.key
          <6>1. m.id = local[k].id => m.key[1] = k[1]
            BY <1>1, <4>1, Typed
          <6> QED BY <1>5, <2>5, <3>2, <4>1, <5>1, <6>1
        <5>2. CASE j # m.key
          BY <1>5, <4>1, <4>2, <4>4, <5>2 DEF InUse, Is
        <5> QED BY <5>1, <5>2
      <4> QED BY <4>3, <4>4
    <3> QED BY <3>1, <3>2
  <2> QED BY <2>1, <2>4, <2>6 DEF PatientOK
<1>13. HomeOK'
  <2>1. UNCHANGED <<ext, kind, TCP_FLAG, SERVER_MAPPING>>
    BY <1>3 DEF extVars
  <2>2. ASSUME NEW d \in Links, NEW k \in ToSet(down'[d]), k.named, ext[k.key[1]] # "closed"
        PROVE  SERVER_MAPPING[k.id] = k.key[1]
    BY <1>2, <2>2 DEF OInv, HomeOK
  <2>3. ext[m.key[1]] # "closed" => SERVER_MAPPING[m.id] = m.key[1]
    BY <1>1 DEF OInv, HomeOK
  <2>4. ASSUME NEW k \in Keys, local'[k] # None, ext[k[1]] # "closed"
        PROVE  SERVER_MAPPING[local'[k].id] = k[1]
    BY <1>5, <2>3, <2>4 DEF OInv, HomeOK
  <2>5. \A x \in Exts : kind[x] = "tcp" /\ TCP_FLAG[x] # None /\ ext[x] # "closed" =>
          SERVER_MAPPING[TCP_FLAG[x]] = x
    BY DEF OInv, HomeOK
  <2> QED BY <2>1, <2>2, <2>4, <2>5 DEF HomeOK
<1>14. PiecesOK'
  <2>1. \A k \in Keys : Is(k, "ready")' => Is(k, "ready") /\ local'[k] = local[k]
    BY <1>5, <1>9 DEF Is
  <2> QED BY <1>3, <1>6, <2>1, NothingWritten DEF linkVars, extVars
<1> QED BY <1>7, <1>8, <1>10, <1>11, <1>12, <1>13, <1>14 DEF OInv

LEMMA ReadMessageOrder == ASSUME IInv, OInv, NEW c \in Links, ReadMessage(c) PROVE OInv'
<1>1. PICK m, l, r :
        /\ m = Head(down[c]) /\ l = CLIENT_MAPPING[m.id]
        /\ r = [phase |-> "connecting", id |-> m.id, link |-> c, got |-> <<>>, sent |-> 0]
  OBVIOUS
<1>2. /\ \A d \in Links : down'[d] # <<>> => down[d] # <<>>
      /\ \A d \in Links : ToSet(down'[d]) \subseteq ToSet(down[d]) /\ Wire(d)' \subseteq Wire(d)
      /\ WireOrder'
      /\ m.key \in Keys /\ m.id \in Keys
  BY <1>1, Popped
<1>3. UNCHANGED <<linkVars, extVars, outbox, up, SERVER_MAPPING, CLIENT_MAPPING>>
  BY DEF ReadMessage
<1>4. CASE l # None /\ Reaches(l, m)
  <2>1. l \in Keys
    BY <1>1, <1>2, <1>4 DEF IInv, LocalOK
  <2>2. m = Head(down[c]) /\ l = CLIENT_MAPPING[m.id] /\ Reaches(l, m)
    BY <1>1, <1>4
  <2> QED BY <2>1, <2>2, ReceiveOrder
<1>5. CASE l = None /\ m.named /\ local' = [local EXCEPT ![m.key] = r]
  <2>1. r \in Local
    BY <1>1, <1>2, BoundAssumption DEF Local, Phases
  <2>2. r.phase = "connecting" /\ r.id = m.id /\ r.link = c /\ r.got = <<>> /\ r.sent = 0
    BY <1>1
  <2>3. m = Head(down[c]) /\ CLIENT_MAPPING[m.id] = None /\ m.named
        /\ local' = [local EXCEPT ![m.key] = r]
    BY <1>1, <1>5
  <2> QED BY <2>1, <2>2, <2>3, OpenOrder
\* Nobody is there to read it.
<1>6. CASE local' = local
  <2>1. Steady /\ Grows
    BY <1>3, <1>6, Typed DEF Steady, Grows, extVars
  <2>2. LinkOK' /\ SentOK' /\ EndedIsForgotten'
    <3>1. LinkOK'
      BY <1>2, <1>3, <1>6 DEF OInv, LinkOK, linkVars
    <3> QED BY <1>3, <3>1 DEF OInv, SentOK, OwnPort, EndedIsForgotten, extVars
  <2>3. WireOK'
    BY <1>2, <2>1, ShapesKept DEF WireOK
  <2>4. LocalsOK' /\ PatientOK'
    BY <1>2, <1>3, <1>6, <2>1, LocalsKept, PatientKept DEF extVars
  <2>5. AnswersOK'
    <3>1. \A x \in Exts, a \in Answer : Refused(x, a) => Refused(x, a)'
      BY <1>2, <1>3, <1>6 DEF Refused, extVars
    <3> QED BY <1>3, <2>1, <3>1, AnswersKept DEF extVars
  <2>6. HomeOK'
    BY <1>2, <1>3, <1>6 DEF OInv, HomeOK, extVars
  <2>7. PiecesOK'
    BY <1>3, <1>6, PiecesKept DEF linkVars, extVars
  <2> QED BY <2>2, <2>3, <2>4, <2>5, <2>6, <2>7 DEF OInv
<1>7. \/ l # None /\ Reaches(l, m)
      \/ l = None /\ m.named /\ local' = [local EXCEPT ![m.key] = r]
      \/ local' = local
  BY <1>1 DEF ReadMessage, Receive
<1> QED BY <1>4, <1>5, <1>6, <1>7

-----------------------------------------------------------------------------
LEMMA NextOrder == IInv /\ OInv /\ [Next]_vars => OInv'
<1> SUFFICES ASSUME IInv, OInv, [Next]_vars PROVE OInv'
  OBVIOUS
<1>1. CASE UNCHANGED vars
  BY <1>1, UnchangedOrder
<1>2. CASE Unregister
  <2>1. route \in Links
    BY <1>2 DEF Unregister, IInv, ConnectionsOK
  <2> QED BY <1>2, <2>1, LinkOrder
<1>3. ASSUME NEW c \in Links,
             \/ Connect(c) \/ Register(c) \/ CancelRegister(c) \/ ServerEnds(c)
             \/ ClientEnds(c) \/ Flush(c) \/ ReadMessage(c) \/ ReadAnswer(c)
      PROVE  OInv'
  BY <1>3, LinkOrder, FlushOrder, ReadMessageOrder, ReadAnswerOrder
<1>4. ASSUME NEW x \in Exts,
             \/ Accept(x) \/ NoRoute(x) \/ Request(x) \/ Frame(x) \/ Chunk(x) \/ Close(x)
      PROVE  OInv'
  BY <1>4, AcceptOrder, NoRouteOrder, RequestOrder, FrameOrder, ChunkOrder, CloseOrder
<1>5. ASSUME NEW l \in Keys,
             \/ Connected(l) \/ ConnectFails(l) \/ Ready(l) \/ Answers(l) \/ LocalEnds(l)
      PROVE  OInv'
  BY <1>5, AttemptOrder, ReadyOrder, AnswersOrder, LocalEndsOrder
<1> QED BY <1>1, <1>2, <1>3, <1>4, <1>5 DEF Next

LEMMA OrderInductive == Spec => [](IInv /\ OInv)
BY InitInv, StartOrder, NextInv, NextOrder, PTL DEF Spec

-----------------------------------------------------------------------------
\* However late a local connection is established, and whatever else is on the
\* wires, its service reads the messages of one external connection in order,
\* none twice (ClientMessageHandler 63-70, 86-94).
THEOREM ServicesReadInOrder == Spec => []ChunksInOrder
<1>1. OInv => ChunksInOrder
  BY DEF OInv, LocalsOK
<1> QED BY <1>1, OrderInductive, PTL

\* The streams of clients that wait for their answers are never split between
\* two local connections (ClientMessageHandler 63-70, 88; ClientResponseHandler2
\* 43).
THEOREM PatientStreamsStayTogether == Spec => []StreamStaysTogether
<1>1. OInv => StreamStaysTogether
  BY DEF OInv, PatientOK
<1> QED BY <1>1, OrderInductive, PTL

\* A frame of a client that waited for its upgrade is read by the service the
\* upgrade went to, or that service has closed (WebSocketHandler 26-32,
\* ClientResponseHandler 37-46).
THEOREM PatientFramesArrive == Spec => []FramesFindTheirService
<1>1. IInv /\ OInv => FramesFindTheirService
  <2> SUFFICES ASSUME IInv, OInv, NEW c \in Links, NEW i \in DOMAIN down[c], NEW m, m = down[c][i],
                      ~m.named, m.key[1] \in Patient
               PROVE  Is(m.id, "closed") \/ Reaches(m.id, m)
    BY DEF FramesFindTheirService
  <2>1. m \in Wire(c)
    BY DEF Wire, ToSet
  <2> QED BY <2>1 DEF OInv, PatientOK
<1> QED BY <1>1, OrderInductive, PTL

\* What an external connection receives of one service is all of its pieces up
\* to some piece, in order (HttpServerHandler 84-93, DynamicTcpServerHandler
\* 40-46, MessageTransferHandler 27-30).
THEOREM AnswersArriveInOrder == Spec => []AnswersComeHomeInOrder
<1>1. OInv => AnswersComeHomeInOrder
  BY DEF OInv, PiecesOK
<1> QED BY <1>1, OrderInductive, PTL

\* The server's map forgets an external connection that has ended
\* (HttpServerHandler 83-86, 107-111; DynamicTcpServerHandler 40, 51-54).
THEOREM EndedAreForgotten == Spec => []EndedIsForgotten
<1>1. OInv => EndedIsForgotten
  BY DEF OInv
<1> QED BY <1>1, OrderInductive, PTL

===============================================================================
