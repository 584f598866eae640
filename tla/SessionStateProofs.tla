-------------------------- MODULE SessionStateProofs --------------------------
(***************************************************************************)
(* Proofs about what ClientSession says of a name: that a name shown as    *)
(* registered is (StateIsHonest), and that a refused one is not given up   *)
(* (RefusedIsRetried), for any number of connections, names, rows and      *)
(* calls.                                                                  *)
(*                                                                         *)
(* Both depend on what is still on the wires.  A grant may be read long    *)
(* after the server has changed its mind, so HonestOK speaks of the grants *)
(* in flight as well; and a state may be read long after the static        *)
(* channel has changed, so RetryOK says when that is settled.              *)
(***************************************************************************)
EXTENDS SessionProofs, SequenceTheorems

\* A message of this kind for n is on the wire s.
On(s, op, n) == \E i \in DOMAIN s : s[i].op = op /\ s[i].name = n

\* A grant of n is on the wire s, and no cancellation of n behind it.
Granted(s, n) ==
    \E i \in DOMAIN s :
        /\ s[i].op = "REG" /\ s[i].name = n /\ s[i].state = 1
        /\ \A j \in DOMAIN s : j > i => ~(s[j].op = "CANCEL" /\ s[j].name = n)

\* The server still has n for c, or c will hear that it has not, or is excused.
Kept(c, n) ==
    \/ server[c] = "closed" \/ route[n] = c \/ n \in taken[c]
    \/ On(toServer[c], "CANCEL", n)

\* Nothing is answered before the two ends are connected, or when c has closed.
EarlyOK ==
    \A c \in Chans :
        /\ conn[c] \in {"new", "connecting"} => server[c] = "new"
        /\ conn[c] \in {"connected", "open"} => server[c] # "new"
        /\ toClient[c] # <<>> => conn[c] \in {"connected", "open"}
        /\ putting[c] # None => server[c] = "open"

\* What the client has read of n, and what it is about to read.
HonestOK ==
    /\ \A n \in Names : stateMap[n] = 1 =>
         \E c \in Chans : conn[c] = "open" /\ (Kept(c, n) \/ On(toClient[c], "CANCEL", n))
    /\ \A c \in Chans, n \in Names : Granted(toClient[c], n) => Kept(c, n)

\* sync() has returned for the connection that registrations go over, and for
\* the one a refusal was read from.
SyncOK ==
    /\ \A c \in Chans : conn[c] = "new" => syncing[c] = None
    /\ \A c \in Chans : channel = c => conn[c] # "new" /\ syncing[c] = None
    /\ \A c \in Chans, n \in Names :
         On(toServer[c], "REG", n) \/ putting[c] = n \/ On(toClient[c], "REG", n) =>
             conn[c] # "new" /\ syncing[c] = None
    /\ \A n \in Names : stateMap[n] # None => \E c \in Chans : conn[c] = "open"
    /\ \A c \in Chans, n \in Names : stateMap[n] = 0 /\ conn[c] = "open" => syncing[c] = None

\* A refused name of the static channel, and why it is not given up.
RetryOK ==
    \A n \in Names, c \in Chans :
        (stateMap[n] = 0 /\ conn[c] = "open" /\ channel = c /\ n \in Forwards(c)) =>
            \/ \E d \in Chans : retries[d][n] > 0
            \/ On(toServer[c], "REG", n) \/ putting[c] = n \/ On(toClient[c], "REG", n)
            \/ server[c] = "closed" \/ stopping

StateInv == EarlyOK /\ HonestOK /\ SyncOK /\ RetryOK

-----------------------------------------------------------------------------
(* Wires *)

LEMMA WireTail ==
    ASSUME NEW s \in Seq(Message), s # <<>>, NEW n
    PROVE  /\ \A op : On(Tail(s), op, n) => On(s, op, n)
           /\ \A op : On(s, op, n) => On(Tail(s), op, n) \/ (Head(s).op = op /\ Head(s).name = n)
           /\ Granted(Tail(s), n) => Granted(s, n)
           /\ (Head(s).op = "REG" /\ Head(s).name = n /\ Head(s).state = 1)
                => Granted(s, n) \/ On(Tail(s), "CANCEL", n)
<1>1. /\ Len(s) \in Nat /\ DOMAIN s = 1..Len(s) /\ Len(s) >= 1 /\ Head(s) = s[1]
      /\ DOMAIN Tail(s) = 1..(Len(s) - 1)
      /\ \A i \in 1..(Len(s) - 1) : Tail(s)[i] = s[i + 1]
  BY HeadTailProperties, EmptySeq
<1>2. ASSUME NEW op, On(Tail(s), op, n) PROVE On(s, op, n)
  <2>1. PICK i \in 1..(Len(s) - 1) : Tail(s)[i].op = op /\ Tail(s)[i].name = n
    BY <1>1, <1>2 DEF On
  <2>2. i + 1 \in DOMAIN s /\ s[i + 1].op = op /\ s[i + 1].name = n
    BY <1>1, <2>1
  <2> QED BY <2>2 DEF On
<1>3. ASSUME NEW op, On(s, op, n)
      PROVE  On(Tail(s), op, n) \/ (Head(s).op = op /\ Head(s).name = n)
  <2>1. PICK i \in 1..Len(s) : s[i].op = op /\ s[i].name = n
    BY <1>1, <1>3 DEF On
  <2>2. CASE i # 1
    <3>1. i - 1 \in DOMAIN Tail(s) /\ Tail(s)[i - 1] = s[i]
      BY <1>1, <2>2
    <3> QED BY <2>1, <3>1 DEF On
  <2> QED BY <1>1, <2>1, <2>2
<1>4. ASSUME Granted(Tail(s), n) PROVE Granted(s, n)
  <2> DEFINE t == Tail(s)
  <2>0. PICK i \in DOMAIN t :
          /\ t[i].op = "REG" /\ t[i].name = n /\ t[i].state = 1
          /\ \A j \in DOMAIN t : j > i => ~(t[j].op = "CANCEL" /\ t[j].name = n)
    BY <1>4 DEF Granted
  <2>1. /\ i \in 1..(Len(s) - 1)
        /\ s[i + 1].op = "REG" /\ s[i + 1].name = n /\ s[i + 1].state = 1
        /\ \A j \in 1..(Len(s) - 1) : j > i => ~(s[j + 1].op = "CANCEL" /\ s[j + 1].name = n)
    BY <1>1, <2>0
  <2>2. ASSUME NEW j \in 1..Len(s), j > i + 1
        PROVE  ~(s[j].op = "CANCEL" /\ s[j].name = n)
    <3>1. j - 1 \in 1..(Len(s) - 1) /\ j - 1 > i /\ (j - 1) + 1 = j
      BY <1>1, <2>2
    <3> QED BY <2>1, <3>1
  <2>3. i + 1 \in 1..Len(s)
    BY <1>1
  <2> QED BY <1>1, <2>1, <2>2, <2>3 DEF Granted
<1>5. ASSUME Head(s).op = "REG", Head(s).name = n, Head(s).state = 1
      PROVE  Granted(s, n) \/ On(Tail(s), "CANCEL", n)
  <2>1. SUFFICES ASSUME ~On(Tail(s), "CANCEL", n) PROVE Granted(s, n)
    OBVIOUS
  <2>2. ASSUME NEW j \in 1..Len(s), j > 1
        PROVE  ~(s[j].op = "CANCEL" /\ s[j].name = n)
    <3>1. j - 1 \in DOMAIN Tail(s) /\ Tail(s)[j - 1] = s[j]
      BY <1>1, <2>2
    <3> QED BY <2>1, <3>1 DEF On
  <2>3. 1 \in DOMAIN s
    BY <1>1
  <2> QED BY <1>1, <1>5, <2>2, <2>3 DEF Granted
<1> QED BY <1>2, <1>3, <1>4, <1>5

LEMMA WireAppend ==
    ASSUME NEW s \in Seq(Message), NEW m \in Message, NEW n
    PROVE  /\ \A op : On(Append(s, m), op, n) <=> On(s, op, n) \/ (m.op = op /\ m.name = n)
           /\ Granted(Append(s, m), n) =>
                \/ Granted(s, n) /\ ~(m.op = "CANCEL" /\ m.name = n)
                \/ m.op = "REG" /\ m.name = n /\ m.state = 1
<1> DEFINE t == Append(s, m)
<1>1. /\ Len(s) \in Nat /\ DOMAIN s = 1..Len(s) /\ DOMAIN t = 1..(Len(s) + 1)
      /\ t[Len(s) + 1] = m /\ \A i \in 1..Len(s) : t[i] = s[i]
  BY AppendProperties
<1> HIDE DEF t
<1>2. ASSUME NEW op PROVE On(t, op, n) <=> On(s, op, n) \/ (m.op = op /\ m.name = n)
  BY <1>1 DEF On
<1>3. ASSUME Granted(t, n)
      PROVE  \/ Granted(s, n) /\ ~(m.op = "CANCEL" /\ m.name = n)
             \/ m.op = "REG" /\ m.name = n /\ m.state = 1
  BY <1>1, <1>3 DEF Granted
<1> QED BY <1>2, <1>3 DEF t

LEMMA WireConcat ==
    ASSUME NEW s \in Seq(Message), NEW t \in Seq(Message), NEW op, NEW n
    PROVE  On(s \o t, op, n) <=> On(s, op, n) \/ On(t, op, n)
<1>1. /\ Len(s) \in Nat /\ DOMAIN s = 1..Len(s) /\ Len(t) \in Nat /\ DOMAIN t = 1..Len(t)
      /\ DOMAIN (s \o t) = 1..(Len(s) + Len(t))
      /\ \A i \in 1..(Len(s) + Len(t)) :
           (s \o t)[i] = IF i <= Len(s) THEN s[i] ELSE t[i - Len(s)]
  BY ConcatProperties
<1>2. ASSUME On(t, op, n) PROVE On(s \o t, op, n)
  <2>1. PICK i \in 1..Len(t) : t[i].op = op /\ t[i].name = n
    BY <1>1, <1>2 DEF On
  <2>2. Len(s) + i \in DOMAIN (s \o t) /\ (s \o t)[Len(s) + i] = t[i]
    BY <1>1
  <2> QED BY <2>1, <2>2 DEF On
<1>3. ASSUME On(s, op, n) PROVE On(s \o t, op, n)
  BY <1>1, <1>3 DEF On
<1>4. ASSUME On(s \o t, op, n) PROVE On(s, op, n) \/ On(t, op, n)
  <2>1. PICK i \in 1..(Len(s) + Len(t)) : (s \o t)[i].op = op /\ (s \o t)[i].name = n
    BY <1>1, <1>4 DEF On
  <2>2. CASE i <= Len(s)
    BY <1>1, <2>1, <2>2 DEF On
  <2>3. CASE i > Len(s)
    <3>1. i - Len(s) \in DOMAIN t /\ t[i - Len(s)] = (s \o t)[i]
      BY <1>1, <2>3
    <3> QED BY <2>1, <3>1 DEF On
  <2> QED BY <1>1, <2>2, <2>3
<1> QED BY <1>2, <1>3, <1>4

LEMMA WireEmpty == \A op, n : ~On(<<>>, op, n) /\ ~Granted(<<>>, n)
BY DEF On, Granted

\* A write leaves what is on the wires; where c can be reached, it adds to them.
LEMMA SentOn ==
    ASSUME IInv, NEW d \in Chans, NEW s \in Seq(Message), toServer' = Sent(d, s)
    PROVE  \A c \in Chans : \A op, n :
             /\ On(toServer[c], op, n) => On(toServer'[c], op, n)
             /\ On(toServer'[c], op, n) => On(toServer[c], op, n) \/ (c = d /\ On(s, op, n))
             /\ c = d /\ On(s, op, n) /\ conn[d] \in Live /\ server[d] = "open"
                  => On(toServer'[c], op, n)
<1> SUFFICES ASSUME NEW c \in Chans, NEW op, NEW n
             PROVE  /\ On(toServer[c], op, n) => On(toServer'[c], op, n)
                    /\ On(toServer'[c], op, n) => On(toServer[c], op, n) \/ (c = d /\ On(s, op, n))
                    /\ c = d /\ On(s, op, n) /\ conn[d] \in Live /\ server[d] = "open"
                         => On(toServer'[c], op, n)
  OBVIOUS
<1>1. toServer \in [Chans -> Seq(Message)]
  BY DEF IInv, WiresOK
<1>2. toServer'[c] = IF c = d /\ conn[d] \in Live /\ server[d] = "open"
                     THEN toServer[c] \o s ELSE toServer[c]
  BY <1>1 DEF Sent
<1>3. On(toServer[c] \o s, op, n) <=> On(toServer[c], op, n) \/ On(s, op, n)
  BY <1>1, WireConcat
<1> QED BY <1>2, <1>3

\* The one message of a write, and the registrations of a grant of AUTH.
LEMMA OneMessage ==
    ASSUME NEW o, NEW n, NEW k
    PROVE  \A op : On(<<Msg(o, n, k)>>, op, n) <=> op = o
BY DEF On, Msg

LEMMA OneName ==
    ASSUME NEW o, NEW n, NEW k
    PROVE  \A op, m : On(<<Msg(o, n, k)>>, op, m) => op = o /\ m = n
BY DEF On, Msg

LEMMA OrderOn ==
    ASSUME NEW order, NEW op, NEW n, On([i \in DOMAIN order |-> Msg("REG", order[i], 0)], op, n)
    PROVE  op = "REG"
BY DEF On, Msg

-----------------------------------------------------------------------------
LEMMA StateStart == Init => StateInv
<1> SUFFICES ASSUME Init PROVE StateInv
  OBVIOUS
<1>1. EarlyOK
  BY SessionAssumption DEF Init, EarlyOK
<1>2. HonestOK
  BY WireEmpty, SessionAssumption DEF Init, HonestOK
<1>3. SyncOK
  BY WireEmpty, SessionAssumption DEF Init, SyncOK
<1>4. RetryOK
  BY SessionAssumption DEF Init, RetryOK
<1> QED BY <1>1, <1>2, <1>3, <1>4 DEF StateInv

\* What the lemmas below ask of a step that changes nothing of a name's state.
Untouched == <<conn, server, syncing, channel, CLIENT_FORWARD, stateMap, retries, wires, route,
               putting, taken, stopping>>

LEMMA UntouchedKeeps == ASSUME StateInv, UNCHANGED Untouched PROVE StateInv'
<1> USE DEF StateInv, Untouched, wires
<1>1. EarlyOK' /\ SyncOK'
  BY DEF EarlyOK, SyncOK
<1>2. HonestOK'
  BY DEF HonestOK, Kept
<1>3. RetryOK'
  BY DEF RetryOK, Forwards
<1> QED BY <1>1, <1>2, <1>3

-----------------------------------------------------------------------------
(* Connecting *)

LEMMA connectionState ==
    ASSUME IInv, StateInv, NEW t \in Threads, NEW c \in Chans, connection(t, c)
    PROVE  StateInv'
<1> USE DEF StateInv, connection, kitVars, wires, serverVars, adminVars
<1>1. conn[c] = "new" /\ conn' = [conn EXCEPT ![c] = "connecting"]
      /\ syncing' \in {syncing, [syncing EXCEPT ![c] = t]}
  OBVIOUS
<1>2. EarlyOK'
  BY <1>1 DEF EarlyOK, IInv, NetOK
<1>3. \A d \in Chans : d # c => conn'[d] = conn[d] /\ syncing'[d] = syncing[d]
  BY <1>1 DEF IInv, NetOK
<1>4. \A d \in Chans : conn[d] = "open" => d # c /\ conn'[d] = "open"
  BY <1>1, <1>3
<1>5. HonestOK'
  BY <1>4 DEF HonestOK, Kept
<1>6. \A n \in Names : ~On(toServer[c], "REG", n) /\ ~On(toClient[c], "REG", n)
  BY DEF SyncOK
<1>7. SyncOK'
  BY <1>1, <1>3, <1>4, <1>6 DEF SyncOK, IInv, NetOK
<1>8. RetryOK'
  BY <1>1, <1>3 DEF RetryOK, Forwards, IInv, NetOK
<1> QED BY <1>2, <1>5, <1>7, <1>8

LEMMA ConnectedState ==
    ASSUME IInv, StateInv, NEW c \in Chans, Connected(c)
    PROVE  StateInv'
<1> USE DEF StateInv, Connected, kitVars, wires, serverVars, adminVars
<1>1. conn[c] = "connecting" /\ server[c] = "new"
  BY DEF EarlyOK
<1>2. \A d \in Chans : d # c => conn'[d] = conn[d] /\ server'[d] = server[d]
  BY DEF IInv, NetOK
<1>3. \A d \in Chans : conn'[d] = "open" <=> conn[d] = "open"
  BY <1>1 DEF IInv, NetOK
<1>4. EarlyOK'
  BY <1>1, <1>2 DEF EarlyOK, IInv, NetOK
<1>5. HonestOK'
  BY <1>1, <1>2, <1>3 DEF HonestOK, Kept, IInv, NetOK
<1>6. \A d \in Chans : conn'[d] = "new" => conn[d] = "new"
  BY <1>1, <1>2 DEF IInv, NetOK
<1>7. \A d \in Chans : conn[d] # "new" => conn'[d] # "new"
  BY <1>1, <1>2 DEF IInv, NetOK
<1>8. SyncOK'
  BY <1>3, <1>6, <1>7 DEF SyncOK
<1>9. RetryOK'
  BY <1>1, <1>2, <1>3 DEF RetryOK, Forwards
<1> QED BY <1>4, <1>5, <1>8, <1>9

LEMMA ConnectFailsState ==
    ASSUME IInv, StateInv, NEW c \in Chans, ConnectFails(c)
    PROVE  StateInv'
<1> USE DEF StateInv, ConnectFails, Rethrown, kitVars, wires, serverVars
<1>1. conn[c] = "connecting" /\ toClient[c] = <<>>
  BY DEF EarlyOK
<1>2. \A d \in Chans : d # c => conn'[d] = conn[d] /\ syncing'[d] = syncing[d]
  BY DEF IInv, NetOK
<1>3. \A d \in Chans : (conn'[d] = "open" <=> conn[d] = "open") /\ (conn'[d] = "new" <=> conn[d] = "new")
  BY <1>1 DEF IInv, NetOK
<1>4. \A d \in Chans : syncing[d] = None => syncing'[d] = None
  BY DEF IInv, NetOK
<1>5. EarlyOK'
  BY <1>1, <1>2 DEF EarlyOK, IInv, NetOK
<1>6. HonestOK'
  BY <1>3 DEF HonestOK, Kept
<1>7. SyncOK'
  BY <1>3, <1>4 DEF SyncOK
<1>8. RetryOK'
  BY <1>3 DEF RetryOK, Forwards
<1> QED BY <1>5, <1>6, <1>7, <1>8

\* The static channel changes only to one whose refusals nobody has read.
LEMMA setChannelState ==
    ASSUME IInv, StateInv, NEW c \in Chans, setChannel(c)
    PROVE  StateInv'
<1> USE DEF StateInv, setChannel, wires, serverVars, adminVars
<1>1. EarlyOK'
  BY DEF EarlyOK
<1>2. HonestOK'
  BY DEF HonestOK, Kept
<1>3. conn[c] # "new" /\ syncing[c] # None
  BY DEF SyncOK
<1>4. \A d \in Chans : syncing'[d] = (IF d = c THEN None ELSE syncing[d])
  BY DEF IInv, NetOK
<1>5. SyncOK'
  BY <1>3, <1>4 DEF SyncOK
<1>6. \A n \in Names : ~(stateMap[n] = 0 /\ conn[c] = "open")
  BY <1>3 DEF SyncOK
<1>7. RetryOK'
  BY <1>6 DEF RetryOK, Forwards
<1> QED BY <1>1, <1>2, <1>5, <1>7

\* No state is known while there is no open connection.
LEMMA Stateless ==
    ASSUME IInv, StateInv, NEW c \in Chans, conn[c] \in {"connecting", "connected"}
    PROVE  \A n \in Names : stateMap[n] = None
<1>1. \A d \in Chans : conn[d] # "open"
  BY DEF IInv, OneConnection, Live
<1> QED BY <1>1 DEF StateInv, SyncOK

LEMMA channelActiveState ==
    ASSUME IInv, StateInv, NEW c \in Chans, channelActive(c)
    PROVE  StateInv'
<1> USE DEF StateInv, channelActive, serverVars, adminVars
<1>1. /\ conn[c] = "connected" /\ server[c] # "new"
      /\ \A n \in Names : stateMap[n] = None /\ stateMap'[n] = None
  BY Stateless DEF EarlyOK
<1>2. \A d \in Chans : d # c => conn'[d] = conn[d]
  BY DEF IInv, NetOK
<1>3. /\ \A d \in Chans : \A op, n : On(toServer[d], op, n) => On(toServer'[d], op, n)
      /\ \A d \in Chans : \A n : On(toServer'[d], "REG", n) => On(toServer[d], "REG", n)
  <2> DEFINE s == <<Msg("AUTH", None, 0)>>
  <2>1. toServer' = Sent(c, s) /\ s \in Seq(Message)
    BY MsgTyped
  <2>2. \A n : ~On(s, "REG", n)
    BY OneName
  <2> HIDE DEF s, channelActive
  <2> QED BY <2>1, <2>2, SentOn
<1>4. EarlyOK'
  BY <1>1, <1>2 DEF EarlyOK, IInv, NetOK
<1>5. HonestOK'
  BY <1>1, <1>3, SessionAssumption DEF HonestOK, Kept
<1>6. \A d \in Chans : conn'[d] = "new" <=> conn[d] = "new"
  BY <1>1, <1>2 DEF IInv, NetOK
<1>7. SyncOK'
  BY <1>1, <1>3, <1>6, SessionAssumption DEF SyncOK
<1>8. RetryOK'
  BY <1>1, SessionAssumption DEF RetryOK
<1> QED BY <1>4, <1>5, <1>7, <1>8

\* The loss of the open connection, or of any by the end of its loop.
LEMMA channelInactiveState ==
    ASSUME IInv, StateInv, NEW c \in Chans, channelInactive(c)
    PROVE  StateInv'
<1> USE DEF StateInv, channelInactive, serverVars, adminVars
<1>1. /\ conn[c] = "open" /\ \A n \in Names : stateMap'[n] = None
      /\ \A d \in Chans : toClient'[d] = IF d = c THEN <<>> ELSE toClient[d]
  BY DEF IInv, WiresOK
<1>2. \A d \in Chans : conn'[d] = IF d = c THEN "closed" ELSE conn[d]
  BY DEF IInv, NetOK
<1>3. EarlyOK'
  BY <1>1, <1>2 DEF EarlyOK
<1>4. HonestOK'
  <2>1. \A n \in Names : stateMap'[n] # 1
    BY <1>1, SessionAssumption
  <2>2. \A d \in Chans, n \in Names : Granted(toClient'[d], n) => Granted(toClient[d], n)
    BY <1>1, WireEmpty
  <2>3. \A d \in Chans, n \in Names : Kept(d, n)' <=> Kept(d, n)
    BY DEF Kept
  <2> QED BY <2>1, <2>2, <2>3 DEF HonestOK
<1>5. SyncOK'
  BY <1>1, <1>2, WireEmpty, SessionAssumption DEF SyncOK
<1>6. RetryOK'
  BY <1>1, SessionAssumption DEF RetryOK
<1> QED BY <1>3, <1>4, <1>5, <1>6

-----------------------------------------------------------------------------
(* The server *)

\* A free name goes from the wire into the loop's hands.
LEMMA ServerFindsFree ==
    ASSUME IInv, StateInv, NEW c \in Chans, NEW k,
           server[c] = "open", putting[c] = None, toServer[c] # <<>>,
           Head(toServer[c]).op = "REG", k = Head(toServer[c]).name,
           toServer' = [toServer EXCEPT ![c] = Tail(@)],
           putting' = [putting EXCEPT ![c] = k],
           UNCHANGED <<toClient, route, taken, REGISTER_CHANNEL, netVars, kitVars, adminVars>>
    PROVE  StateInv'
<1> USE DEF StateInv, netVars, kitVars, adminVars
<1>1. /\ toServer[c] \in Seq(Message) /\ Head(toServer[c]) \in Message
      /\ \A d \in Chans : toServer'[d] = IF d = c THEN Tail(toServer[c]) ELSE toServer[d]
      /\ \A d \in Chans : putting'[d] = IF d = c THEN k ELSE putting[d]
  BY DEF IInv, WiresOK, ServerOK
<1>2. k \in Names /\ k # None
  BY <1>1, SessionAssumption DEF Message
<1>3. /\ \A d \in Chans : \A op, n : On(toServer'[d], op, n) => On(toServer[d], op, n)
      /\ \A d \in Chans : \A op, n : On(toServer[d], op, n) =>
           On(toServer'[d], op, n) \/ (d = c /\ op = "REG" /\ n = k)
      /\ On(toServer[c], "REG", k)
  <2>1. /\ \A op, n : On(Tail(toServer[c]), op, n) => On(toServer[c], op, n)
        /\ \A op, n : On(toServer[c], op, n) =>
             On(Tail(toServer[c]), op, n) \/ (op = "REG" /\ n = k)
    BY <1>1, WireTail
  <2>2. 1 \in DOMAIN toServer[c] /\ Head(toServer[c]) = toServer[c][1]
    BY <1>1, EmptySeq
  <2>3. On(toServer[c], "REG", k)
    BY <2>2 DEF On
  <2> QED BY <1>1, <2>1, <2>3
<1>4. EarlyOK'
  BY <1>1 DEF EarlyOK
<1>5. HonestOK'
  <2>1. \A d \in Chans, n \in Names : Kept(d, n) => Kept(d, n)'
    BY <1>3 DEF Kept
  <2> QED BY <2>1 DEF HonestOK
<1>6. SyncOK'
  <2>1. \A d \in Chans, n \in Names :
          On(toServer'[d], "REG", n) \/ putting'[d] = n \/ On(toClient'[d], "REG", n) =>
              On(toServer[d], "REG", n) \/ putting[d] = n \/ On(toClient[d], "REG", n)
    BY ZenonT(30), <1>1, <1>3
  <2> QED BY <2>1 DEF SyncOK
<1>7. RetryOK'
  <2>1. \A d \in Chans, n \in Names :
          On(toServer[d], "REG", n) \/ putting[d] = n =>
              On(toServer'[d], "REG", n) \/ putting'[d] = n
    BY <1>1, <1>3, SessionAssumption
  <2> QED BY <2>1 DEF RetryOK, Forwards
<1> QED BY <1>4, <1>5, <1>6, <1>7

\* What c takes from another connection, that one remembers as taken.
LEMMA TakenIsKept ==
    ASSUME IInv, NEW a, NEW S, NEW d \in Chans, NEW n \in Names, Kept(d, n), d # a,
           \A e \in Chans : e # a => TakenBy(a, S)[e] \subseteq taken'[e],
           \A e \in Names : e \notin S => route'[e] = route[e],
           UNCHANGED server \/ server' = [server EXCEPT ![a] = "closed"],
           toServer'[d] = toServer[d]
    PROVE  Kept(d, n)'
<1>1. taken[d] \subseteq taken'[d] /\ (route[n] = d /\ n \in S => n \in taken'[d])
  BY DEF TakenBy
<1>2. server'[d] = server[d]
  BY DEF IInv, NetOK
<1> QED BY <1>1, <1>2 DEF Kept

\* Anything else is answered.
LEMMA ServerAnswers ==
    ASSUME IInv, StateInv, NEW c \in Chans, NEW m \in Message, NEW a \in Message,
           server[c] = "open", putting[c] = None, toServer[c] # <<>>, m = Head(toServer[c]),
           a.op = m.op, a.name = m.name, ~(a.op = "REG" /\ a.state = 1),
           toServer' = [toServer EXCEPT ![c] = Tail(@)],
           toClient' = Answered(c, a),
           route' = IF m.op = "CANCEL" THEN [route EXCEPT ![m.name] = None] ELSE route,
           taken' = IF m.op = "CANCEL" THEN TakenBy(c, {m.name}) ELSE taken,
           UNCHANGED <<putting, REGISTER_CHANNEL, netVars, kitVars, adminVars>>
    PROVE  StateInv'
<1>1. /\ toServer[c] \in Seq(Message) /\ toClient[c] \in Seq(Message)
      /\ \A d \in Chans :
           /\ toServer'[d] = IF d = c THEN Tail(toServer[c]) ELSE toServer[d]
           /\ toClient'[d] = IF d = c /\ conn[c] \in Live THEN Append(toClient[c], a) ELSE toClient[d]
  BY DEF IInv, WiresOK, Answered
<1>2. conn[c] \in {"connected", "open", "closed"}
  BY DEF StateInv, EarlyOK, IInv, NetOK, Live
<1>3. /\ \A op, n : On(Tail(toServer[c]), op, n) => On(toServer[c], op, n)
      /\ \A op, n : On(toServer[c], op, n) =>
           On(Tail(toServer[c]), op, n) \/ (m.op = op /\ m.name = n)
      /\ On(toServer[c], m.op, m.name)
  <2>1. 1 \in DOMAIN toServer[c] /\ m = toServer[c][1]
    BY <1>1, EmptySeq
  <2>2. On(toServer[c], m.op, m.name)
    BY <2>1 DEF On
  <2>3. ASSUME NEW n
        PROVE  /\ \A op : On(Tail(toServer[c]), op, n) => On(toServer[c], op, n)
               /\ \A op : On(toServer[c], op, n) =>
                    On(Tail(toServer[c]), op, n) \/ (m.op = op /\ m.name = n)
    <3> DEFINE s == toServer[c]
    <3>1. s \in Seq(Message) /\ s # <<>> /\ m = Head(s)
      BY <1>1
    <3> HIDE DEF s
    <3>2. /\ \A op : On(Tail(s), op, n) => On(s, op, n)
          /\ \A op : On(s, op, n) => On(Tail(s), op, n) \/ (Head(s).op = op /\ Head(s).name = n)
      BY <3>1, WireTail
    <3> QED BY <3>1, <3>2 DEF s
  <2> QED BY <2>2, <2>3
<1>4. /\ \A op, n : On(Append(toClient[c], a), op, n) <=>
           On(toClient[c], op, n) \/ (m.op = op /\ m.name = n)
      /\ \A n : Granted(Append(toClient[c], a), n) =>
           Granted(toClient[c], n) /\ ~(m.op = "CANCEL" /\ m.name = n)
  <2>1. ASSUME NEW n
        PROVE  /\ \A op : On(Append(toClient[c], a), op, n) <=>
                    On(toClient[c], op, n) \/ (a.op = op /\ a.name = n)
               /\ Granted(Append(toClient[c], a), n) =>
                    \/ Granted(toClient[c], n) /\ ~(a.op = "CANCEL" /\ a.name = n)
                    \/ a.op = "REG" /\ a.name = n /\ a.state = 1
    BY <1>1, WireAppend
  <2>2. \A op, n : On(Append(toClient[c], a), op, n) <=>
           On(toClient[c], op, n) \/ (m.op = op /\ m.name = n)
    BY <2>1
  <2>3. \A n : Granted(Append(toClient[c], a), n) =>
           Granted(toClient[c], n) /\ ~(m.op = "CANCEL" /\ m.name = n)
    BY <2>1
  <2> QED BY <2>2, <2>3
<1>5. EarlyOK'
  BY <1>1, <1>2 DEF StateInv, EarlyOK, netVars, Live
<1>6. ASSUME NEW d \in Chans, NEW n \in Names, Kept(d, n)
      PROVE  Kept(d, n)' \/ (d = c /\ m.op = "CANCEL" /\ m.name = n)
  <2>1. CASE m.op = "CANCEL" /\ d # c
    <3>1. UNCHANGED server /\ toServer'[d] = toServer[d]
      BY <1>1, <2>1 DEF netVars
    <3>2. \A e \in Chans : e # c => TakenBy(c, {m.name})[e] \subseteq taken'[e]
      BY <2>1
    <3>3. \A e \in Names : e \notin {m.name} => route'[e] = route[e]
      BY DEF IInv, ServerOK
    <3> QED BY <1>6, <2>1, <3>1, <3>2, <3>3, TakenIsKept
  <2>2. CASE m.op = "CANCEL" /\ d = c /\ m.name # n
    <3>1. taken[c] \subseteq taken'[c] /\ route'[n] = route[n] /\ server'[c] = server[c]
      BY <2>2 DEF TakenBy, IInv, ServerOK, netVars
    <3>2. On(toServer[c], "CANCEL", n) => On(toServer'[c], "CANCEL", n)
      BY <1>1, <1>3, <2>2
    <3> QED BY <1>6, <2>2, <3>1, <3>2 DEF Kept
  <2>3. CASE m.op # "CANCEL"
    BY <1>1, <1>3, <1>6, <2>3 DEF Kept, netVars
  <2> QED BY <2>1, <2>2, <2>3
<1>7. HonestOK'
  <2>1. ASSUME NEW n \in Names, stateMap'[n] = 1
        PROVE  \E d \in Chans : conn'[d] = "open" /\ (Kept(d, n)' \/ On(toClient'[d], "CANCEL", n))
    <3>1. PICK d \in Chans : conn[d] = "open" /\ (Kept(d, n) \/ On(toClient[d], "CANCEL", n))
      BY <2>1 DEF StateInv, HonestOK, kitVars
    <3>2. On(toClient[d], "CANCEL", n) => On(toClient'[d], "CANCEL", n)
      BY <1>1, <1>4
    <3>3. d = c /\ m.op = "CANCEL" /\ m.name = n => On(toClient'[d], "CANCEL", n)
      BY <1>1, <1>4, <3>1 DEF Live
    <3> QED BY <1>6, <3>1, <3>2, <3>3 DEF netVars
  <2>2. ASSUME NEW d \in Chans, NEW n \in Names, Granted(toClient'[d], n)
        PROVE  Kept(d, n)'
    <3>1. CASE d = c /\ conn[c] \in Live
      BY <1>1, <1>4, <1>6, <2>2, <3>1 DEF StateInv, HonestOK
    <3>2. CASE d # c
      BY <1>1, <1>6, <2>2, <3>2 DEF StateInv, HonestOK
    <3>3. CASE d = c /\ conn[c] \notin Live
      <4>1. toClient'[d] = <<>>
        BY <1>1, <3>3 DEF StateInv, EarlyOK, Live
      <4> QED BY <2>2, <4>1, WireEmpty
    <3> QED BY <3>1, <3>2, <3>3
  <2> QED BY <2>1, <2>2 DEF HonestOK
<1>8. \A d \in Chans, n \in Names :
        On(toServer'[d], "REG", n) \/ On(toClient'[d], "REG", n) =>
            On(toServer[d], "REG", n) \/ On(toClient[d], "REG", n)
  BY <1>1, <1>3, <1>4
<1>9. SyncOK'
  BY <1>8 DEF StateInv, SyncOK, netVars, kitVars
<1>10. RetryOK'
  BY <1>1, <1>3, <1>4 DEF StateInv, RetryOK, Forwards, netVars, kitVars, adminVars, Live
<1> QED BY <1>5, <1>7, <1>9, <1>10 DEF StateInv

LEMMA ServerReadsState ==
    ASSUME IInv, StateInv, NEW c \in Chans, ServerReads(c)
    PROVE  StateInv'
<1> DEFINE m == Head(toServer[c])
           a == [m EXCEPT !.state = IF m.op = "AUTH" THEN 1 ELSE 0]
<1>1. /\ server[c] = "open" /\ putting[c] = None /\ toServer[c] # <<>>
      /\ toServer' = [toServer EXCEPT ![c] = Tail(@)]
      /\ UNCHANGED <<REGISTER_CHANNEL, netVars, kitVars, adminVars>>
  BY DEF ServerReads
<1>2. m \in Message
  BY <1>1 DEF IInv, WiresOK
<1>3. CASE /\ m.op = "REG" /\ putting' = [putting EXCEPT ![c] = m.name]
           /\ UNCHANGED <<toClient, route, taken>>
  BY <1>1, <1>3, ServerFindsFree
<1>4. CASE /\ toClient' = Answered(c, a)
           /\ route' = IF m.op = "CANCEL" THEN [route EXCEPT ![m.name] = None] ELSE route
           /\ taken' = IF m.op = "CANCEL" THEN TakenBy(c, {m.name}) ELSE taken
           /\ UNCHANGED putting
  <2>1. /\ a \in Message /\ a.op = m.op /\ a.name = m.name
        /\ m.op # "AUTH" => a.state = 0
    BY <1>2 DEF Message
  <2> HIDE DEF a
  <2>2. m = Head(toServer[c]) /\ ~(a.op = "REG" /\ a.state = 1)
    BY <2>1
  <2> HIDE DEF m
  <2> QED BY <1>1, <1>2, <1>4, <2>1, <2>2, ServerAnswers
<1> QED BY <1>3, <1>4 DEF ServerReads

LEMMA ServerPutsState ==
    ASSUME IInv, StateInv, NEW c \in Chans, ServerPuts(c)
    PROVE  StateInv'
<1>0. PICK k \in Names : k = putting[c]
  BY DEF ServerPuts, IInv, ServerOK
<1> DEFINE a == Msg("REG", k, 1)
<1>1. /\ k # None /\ server[c] = "open"
      /\ putting' = [putting EXCEPT ![c] = None]
      /\ route' = [route EXCEPT ![k] = c]
      /\ taken' = [TakenBy(c, {k}) EXCEPT ![c] = @ \ {k}]
      /\ toClient' = Answered(c, a)
      /\ UNCHANGED <<toServer, netVars, kitVars, adminVars>>
  BY <1>0 DEF ServerPuts, StateInv, EarlyOK
<1>2. a \in Message /\ a.op = "REG" /\ a.name = k /\ a.state = 1
  BY MsgTyped DEF Msg
<1>3. /\ toClient[c] \in Seq(Message)
      /\ \A d \in Chans : /\ putting'[d] = IF d = c THEN None ELSE putting[d]
                          /\ toClient'[d] = IF d = c /\ conn[c] \in Live
                                            THEN Append(toClient[c], a) ELSE toClient[d]
  BY <1>1 DEF IInv, WiresOK, ServerOK, Answered
<1> HIDE DEF a
<1>4. /\ \A op, n : On(Append(toClient[c], a), op, n) <=>
           On(toClient[c], op, n) \/ (op = "REG" /\ n = k)
      /\ \A n : Granted(Append(toClient[c], a), n) => Granted(toClient[c], n) \/ n = k
  <2>1. ASSUME NEW n
        PROVE  /\ \A op : On(Append(toClient[c], a), op, n) <=>
                    On(toClient[c], op, n) \/ (a.op = op /\ a.name = n)
               /\ Granted(Append(toClient[c], a), n) =>
                    Granted(toClient[c], n) \/ a.name = n
    <3>1. toClient[c] \in Seq(Message)
      BY <1>3
    <3>2. a \in Message
      BY <1>2
    <3> QED BY <3>1, <3>2, WireAppend
  <2> QED BY <1>2, <2>1
<1>5. route'[k] = c /\ Kept(c, k)'
  <2>1. route'[k] = c
    BY <1>1 DEF IInv, ServerOK
  <2> QED BY <2>1 DEF Kept
<1>6. ASSUME NEW d \in Chans, NEW n \in Names, Kept(d, n)
      PROVE  Kept(d, n)'
  <2>1. CASE d # c
    <3>1. UNCHANGED server /\ toServer'[d] = toServer[d]
      BY <1>1 DEF netVars
    <3>2. \A e \in Chans : e # c => TakenBy(c, {k})[e] \subseteq taken'[e]
      BY <1>1 DEF TakenBy
    <3>3. \A e \in Names : e \notin {k} => route'[e] = route[e]
      BY <1>1 DEF IInv, ServerOK
    <3> QED BY <1>6, <2>1, <3>1, <3>2, <3>3, TakenIsKept
  <2>2. CASE d = c /\ n # k
    <3>1. route'[n] = route[n] /\ (n \in taken[c] => n \in taken'[c])
      BY <1>1, <2>2 DEF TakenBy, IInv, ServerOK
    <3> QED BY <1>1, <1>6, <2>2, <3>1 DEF Kept, netVars
  <2> QED BY <1>5, <2>1, <2>2
<1>7. EarlyOK'
  BY <1>1, <1>3 DEF StateInv, EarlyOK, netVars, IInv, NetOK, Live
<1>8. HonestOK'
  <2>1. ASSUME NEW n \in Names, stateMap'[n] = 1
        PROVE  \E d \in Chans : conn'[d] = "open" /\ (Kept(d, n)' \/ On(toClient'[d], "CANCEL", n))
    <3>1. PICK d \in Chans : conn[d] = "open" /\ (Kept(d, n) \/ On(toClient[d], "CANCEL", n))
      BY <1>1, <2>1 DEF StateInv, HonestOK, kitVars
    <3>2. On(toClient[d], "CANCEL", n) => On(toClient'[d], "CANCEL", n)
      BY <1>3, <1>4
    <3> QED BY <1>1, <1>6, <3>1, <3>2 DEF netVars
  <2>2. ASSUME NEW d \in Chans, NEW n \in Names, Granted(toClient'[d], n)
        PROVE  Kept(d, n)'
    <3>1. Granted(toClient[d], n) \/ (d = c /\ n = k)
      BY <1>3, <1>4, <2>2
    <3> QED BY <1>5, <1>6, <3>1 DEF StateInv, HonestOK
  <2> QED BY <2>1, <2>2 DEF HonestOK
<1>9. SyncOK'
  <2>1. \A d \in Chans, n \in Names :
          putting'[d] = n \/ On(toClient'[d], "REG", n) =>
              putting[d] = n \/ On(toClient[d], "REG", n)
    BY <1>0, <1>3, <1>4, SessionAssumption
  <2> QED BY <1>1, <2>1 DEF StateInv, SyncOK, netVars, kitVars
<1>10. RetryOK'
  <2>1. \A d \in Chans, n \in Names :
          conn[d] = "open" /\ (putting[d] = n \/ On(toClient[d], "REG", n)) =>
              putting'[d] = n \/ On(toClient'[d], "REG", n)
    BY <1>0, <1>3, <1>4 DEF Live
  <2> QED BY <1>1, <2>1 DEF StateInv, RetryOK, Forwards, netVars, kitVars, adminVars
<1> QED BY <1>7, <1>8, <1>9, <1>10 DEF StateInv

LEMMA ServerEndsState ==
    ASSUME IInv, StateInv, NEW c \in Chans, ServerEnds(c)
    PROVE  StateInv'
<1> USE DEF StateInv, ServerEnds, kitVars, adminVars
<1>1. /\ \A d \in Chans : server'[d] = IF d = c THEN "closed" ELSE server[d]
      /\ \A d \in Chans : toServer'[d] = IF d = c THEN <<>> ELSE toServer[d]
      /\ server[c] = "open"
  BY DEF IInv, NetOK, WiresOK
<1>2. EarlyOK'
  BY <1>1 DEF EarlyOK
<1>3. ASSUME NEW d \in Chans, NEW n \in Names, Kept(d, n)
      PROVE  Kept(d, n)'
  <2>1. CASE d = c
    BY <1>1, <2>1 DEF Kept
  <2>2. CASE d # c
    <3>1. /\ \A e \in Chans : e # c => TakenBy(c, REGISTER_CHANNEL[c])[e] \subseteq taken'[e]
          /\ \A e \in Names : e \notin REGISTER_CHANNEL[c] => route'[e] = route[e]
          /\ server' = [server EXCEPT ![c] = "closed"] /\ toServer'[d] = toServer[d]
      BY <1>1, <2>2
    <3> QED BY <1>3, <2>2, <3>1, TakenIsKept
  <2> QED BY <2>1, <2>2
<1>4. HonestOK'
  BY <1>3 DEF HonestOK
<1>5. SyncOK'
  BY <1>1, WireEmpty DEF SyncOK
<1>6. RetryOK'
  BY <1>1 DEF RetryOK, Forwards
<1> QED BY <1>2, <1>4, <1>5, <1>6

LEMMA OtherState ==
    ASSUME IInv, StateInv, NEW m \in Names, OtherPuts(m) \/ OtherRemoves(m)
    PROVE  StateInv'
<1> USE DEF StateInv, OtherPuts, OtherRemoves, netVars, kitVars, wires, adminVars
<1>1. EarlyOK' /\ SyncOK'
  BY DEF EarlyOK, SyncOK
<1>2. ASSUME NEW d \in Chans, NEW n \in Names, Kept(d, n)
      PROVE  Kept(d, n)'
  <2>1. \A e \in Names : e \notin {m} => route'[e] = route[e]
    BY DEF IInv, ServerOK
  <2>2. d # Other /\ taken' = TakenBy(Other, {m})
    BY SessionAssumption
  <2> QED BY <1>2, <2>1, <2>2, TakenIsKept
<1>3. HonestOK'
  BY <1>2 DEF HonestOK
<1>4. RetryOK'
  BY DEF RetryOK, Forwards
<1> QED BY <1>1, <1>3, <1>4

-----------------------------------------------------------------------------
(* System messages *)

\* The head is gone from the wire, and nothing else.
LEMMA ReadsOn ==
    ASSUME IInv, NEW c \in Chans, NEW o, Reads(c, o)
    PROVE  /\ conn[c] = "open"
           /\ \A d \in Chans : d # c => toClient'[d] = toClient[d]
           /\ \A d \in Chans : \A op, n : On(toClient'[d], op, n) => On(toClient[d], op, n)
           /\ \A d \in Chans : \A op, n : On(toClient[d], op, n) =>
                On(toClient'[d], op, n) \/ (d = c /\ op = o /\ n = Head(toClient[c]).name)
           /\ \A d \in Chans : \A n : Granted(toClient'[d], n) => Granted(toClient[d], n)
           /\ On(toClient[c], o, Head(toClient[c]).name)
           /\ o = "REG" /\ Head(toClient[c]).state = 1 =>
                \/ Granted(toClient[c], Head(toClient[c]).name)
                \/ On(toClient'[c], "CANCEL", Head(toClient[c]).name)
<1> DEFINE w == toClient[c]
<1>1. /\ conn[c] = "open" /\ w # <<>> /\ w \in Seq(Message) /\ Head(w).op = o
      /\ \A d \in Chans : toClient'[d] = IF d = c THEN Tail(w) ELSE toClient[d]
  BY DEF Reads, IInv, WiresOK
<1>2. 1 \in DOMAIN w /\ w[1] = Head(w)
  BY <1>1, EmptySeq
<1> HIDE DEF w
<1>3. On(w, o, Head(w).name)
  BY <1>1, <1>2 DEF On
<1>4. ASSUME NEW n
      PROVE  /\ \A op : On(Tail(w), op, n) => On(w, op, n)
             /\ \A op : On(w, op, n) => On(Tail(w), op, n) \/ (op = o /\ n = Head(w).name)
             /\ Granted(Tail(w), n) => Granted(w, n)
             /\ (o = "REG" /\ Head(w).name = n /\ Head(w).state = 1)
                  => Granted(w, n) \/ On(Tail(w), "CANCEL", n)
  BY <1>1, WireTail
<1> QED BY <1>1, <1>3, <1>4 DEF w

\* What is written to the static channel goes where sync() has returned.
LEMMA SentKeeps ==
    ASSUME IInv, StateInv, NEW s \in Seq(Message),
           toServer' = toServer \/ (channel \in Chans /\ toServer' = Sent(channel, s))
    PROVE  /\ \A d \in Chans : \A op, n : On(toServer[d], op, n) => On(toServer'[d], op, n)
           /\ \A d \in Chans, n \in Names :
                On(toServer'[d], "REG", n) => conn[d] # "new" /\ syncing[d] = None
<1>1. CASE toServer' = toServer
  BY <1>1 DEF StateInv, SyncOK
<1>2. CASE channel \in Chans /\ toServer' = Sent(channel, s)
  <2>1. /\ \A d \in Chans : \A op, n : On(toServer[d], op, n) => On(toServer'[d], op, n)
        /\ \A d \in Chans : \A op, n : On(toServer'[d], op, n) =>
             On(toServer[d], op, n) \/ (d = channel /\ On(s, op, n))
    BY <1>2, SentOn
  <2>2. conn[channel] # "new" /\ syncing[channel] = None
    BY <1>2 DEF StateInv, SyncOK
  <2> QED BY <2>1, <2>2 DEF StateInv, SyncOK
<1> QED BY <1>1, <1>2

\* A registration for a name of the static channel is on its way, or cannot be.
LEMMA RegSent ==
    ASSUME IInv, StateInv, NEW c \in Chans, NEW n \in Names, conn[c] = "open",
           toServer' = Sent(c, <<Msg("REG", n, 0)>>)
    PROVE  On(toServer'[c], "REG", n) \/ server[c] = "closed"
<1> DEFINE s == <<Msg("REG", n, 0)>>
<1>1. s \in Seq(Message) /\ On(s, "REG", n)
  BY MsgTyped, OneMessage
<1>2. conn[c] \in Live /\ server[c] \in {"open", "closed"}
  BY DEF Live, StateInv, EarlyOK, IInv, NetOK
<1> HIDE DEF s
<1>3. toServer' = Sent(c, s)
  BY DEF s
<1> QED BY <1>1, <1>2, <1>3, SentOn

LEMMA handleAuthState ==
    ASSUME IInv, StateInv, NEW c \in Chans, handleAuth(c)
    PROVE  StateInv'
<1>1. Reads(c, "AUTH") /\ UNCHANGED <<netVars, kitVars, serverVars, adminVars>>
  BY DEF handleAuth
<1>2. /\ conn[c] = "open"
      /\ \A d \in Chans : d # c => toClient'[d] = toClient[d]
      /\ \A d \in Chans, n \in Names : On(toClient'[d], "REG", n) <=> On(toClient[d], "REG", n)
      /\ \A d \in Chans, n \in Names : On(toClient[d], "CANCEL", n) => On(toClient'[d], "CANCEL", n)
      /\ \A d \in Chans, n \in Names : Granted(toClient'[d], n) => Granted(toClient[d], n)
  BY <1>1, ReadsOn
<1>3. /\ \A d \in Chans : \A op, n : On(toServer[d], op, n) => On(toServer'[d], op, n)
      /\ \A d \in Chans, n \in Names :
           On(toServer'[d], "REG", n) => conn[d] # "new" /\ syncing[d] = None
  <2>1. PICK order \in SetToSeqs(Forwards(c)) :
          toServer' = IF channel = None THEN toServer
                      ELSE Sent(channel, [i \in DOMAIN order |-> Msg("REG", order[i], 0)])
    BY DEF handleAuth
  <2> DEFINE s == [i \in DOMAIN order |-> Msg("REG", order[i], 0)]
  <2>2. Forwards(c) \in SUBSET Names
    BY KnownTyped
  <2>3. s \in Seq(Message)
    BY <2>2, OrdersTyped
  <2> HIDE DEF s
  <2>4. toServer' = toServer \/ (channel \in Chans /\ toServer' = Sent(channel, s))
    BY <2>1 DEF s, IInv, KitOK
  <2> QED BY <2>3, <2>4, SentKeeps
<1> USE DEF StateInv, netVars, kitVars, serverVars, adminVars
<1>4. EarlyOK'
  BY <1>1, <1>2 DEF EarlyOK
<1>5. HonestOK'
  BY <1>1, <1>2, <1>3 DEF HonestOK, Kept
<1>6. SyncOK'
  BY <1>1, <1>2, <1>3 DEF SyncOK
<1>7. RetryOK'
  BY <1>1, <1>2, <1>3 DEF RetryOK, Forwards
<1> QED BY <1>4, <1>5, <1>6, <1>7

LEMMA handleRegisterState ==
    ASSUME IInv, StateInv, NEW c \in Chans, handleRegister(c)
    PROVE  StateInv'
<1> DEFINE m == Head(toClient[c])
<1>1. /\ Reads(c, "REG")
      /\ stateMap' = [stateMap EXCEPT ![m.name] = m.state]
      /\ retries' = IF m.state = 0 THEN [retries EXCEPT ![c][m.name] = @ + 1] ELSE retries
      /\ UNCHANGED <<netVars, channel, CLIENT_FORWARD, toServer, serverVars, adminVars>>
  BY DEF handleRegister
<1>2. conn[c] = "open" /\ m \in Message /\ m.op = "REG"
  BY <1>1, ReadTyped DEF Reads
<1>3. m.name \in Names /\ m.state \in {0, 1}
  BY <1>2 DEF Message
<1>4. /\ \A d \in Chans : d # c => toClient'[d] = toClient[d]
      /\ \A d \in Chans : \A op, n : On(toClient'[d], op, n) => On(toClient[d], op, n)
      /\ \A d \in Chans : \A op, n : On(toClient[d], op, n) =>
           On(toClient'[d], op, n) \/ (d = c /\ op = "REG" /\ n = m.name)
      /\ \A d \in Chans : \A n : Granted(toClient'[d], n) => Granted(toClient[d], n)
      /\ On(toClient[c], "REG", m.name)
      /\ m.state = 1 => Granted(toClient[c], m.name) \/ On(toClient'[c], "CANCEL", m.name)
  BY <1>1, ReadsOn
<1> HIDE DEF m
<1>5. \A n \in Names : stateMap'[n] = IF n = m.name THEN m.state ELSE stateMap[n]
  BY <1>1, <1>3 DEF IInv, KitOK
<1>6. /\ \A d \in Chans, n \in Names : retries[d][n] > 0 => retries'[d][n] > 0
      /\ m.state = 0 => retries'[c][m.name] > 0
  BY <1>1, <1>3 DEF IInv, KitOK
<1>7. \A d \in Chans : conn[d] = "open" => d = c
  BY <1>2 DEF IInv, OneConnection, Live
<1> USE DEF StateInv, netVars, serverVars, adminVars
<1>8. EarlyOK'
  BY <1>1, <1>2, <1>4 DEF EarlyOK
<1>9. \A d \in Chans, n \in Names : Kept(d, n) => Kept(d, n)'
  BY <1>1 DEF Kept
<1>10. HonestOK'
  <2>1. ASSUME NEW n \in Names, stateMap'[n] = 1
        PROVE  \E d \in Chans : conn'[d] = "open" /\ (Kept(d, n)' \/ On(toClient'[d], "CANCEL", n))
    <3>1. CASE n = m.name
      <4>1. Kept(c, n) \/ On(toClient'[c], "CANCEL", n)
        BY <1>4, <1>5, <2>1, <3>1 DEF HonestOK
      <4> QED BY <1>1, <1>2, <1>9, <4>1
    <3>2. CASE n # m.name
      <4>1. PICK d \in Chans : conn[d] = "open" /\ (Kept(d, n) \/ On(toClient[d], "CANCEL", n))
        BY <1>5, <2>1, <3>2 DEF HonestOK
      <4>2. On(toClient[d], "CANCEL", n) => On(toClient'[d], "CANCEL", n)
        BY <1>4, <3>2
      <4> QED BY <1>1, <1>9, <4>1, <4>2
    <3> QED BY <3>1, <3>2
  <2>2. \A d \in Chans, n \in Names : Granted(toClient'[d], n) => Kept(d, n)'
    BY <1>4, <1>9 DEF HonestOK
  <2> QED BY <2>1, <2>2 DEF HonestOK
<1>11. SyncOK'
  <2>1. syncing[c] = None
    BY <1>3, <1>4 DEF SyncOK
  <2> QED BY <1>1, <1>2, <1>4, <1>5, <1>7, <2>1 DEF SyncOK
<1>12. RetryOK'
  <2>1. ASSUME NEW n \in Names, NEW d \in Chans,
               stateMap'[n] = 0, conn[d] = "open", channel = d, n \in Forwards(d)
        PROVE  \/ \E e \in Chans : retries'[e][n] > 0
               \/ On(toServer[d], "REG", n) \/ putting[d] = n \/ On(toClient'[d], "REG", n)
               \/ server[d] = "closed" \/ stopping
    <3>1. CASE n = m.name
      BY <1>5, <1>6, <2>1, <3>1
    <3>2. CASE n # m.name
      <4>1. stateMap[n] = 0
        BY <1>5, <2>1, <3>2
      <4>2. On(toClient[d], "REG", n) => On(toClient'[d], "REG", n)
        BY <1>4, <3>2
      <4> QED BY <1>6, <2>1, <4>1, <4>2 DEF RetryOK
    <3> QED BY <3>1, <3>2
  <2> QED BY <1>1, <2>1 DEF RetryOK, Forwards
<1> QED BY <1>8, <1>10, <1>11, <1>12

LEMMA handleCancelRegisterState ==
    ASSUME IInv, StateInv, NEW c \in Chans, handleCancelRegister(c)
    PROVE  StateInv'
<1> DEFINE k == Head(toClient[c]).name
<1>1. /\ Reads(c, "CANCEL")
      /\ stateMap' = [stateMap EXCEPT ![k] = None]
      /\ CLIENT_FORWARD' = [CLIENT_FORWARD EXCEPT ![c] = @ \ {k}]
      /\ UNCHANGED <<netVars, channel, retries, toServer, serverVars, adminVars>>
  BY DEF handleCancelRegister
<1>2. /\ conn[c] = "open"
      /\ \A d \in Chans : d # c => toClient'[d] = toClient[d]
      /\ \A d \in Chans, n \in Names : On(toClient'[d], "REG", n) <=> On(toClient[d], "REG", n)
      /\ \A d \in Chans, n \in Names :
           n # k /\ On(toClient[d], "CANCEL", n) => On(toClient'[d], "CANCEL", n)
      /\ \A d \in Chans, n \in Names : Granted(toClient'[d], n) => Granted(toClient[d], n)
  BY <1>1, ReadsOn
<1> HIDE DEF k
<1>3. \A n \in Names : stateMap'[n] = IF n = k THEN None ELSE stateMap[n]
  BY <1>1 DEF IInv, KitOK
<1>4. \A d \in Chans : Forwards(d)' \subseteq Forwards(d)
  <2>1. CLIENT_FORWARD[c] # None /\ CLIENT_FORWARD'[c] = CLIENT_FORWARD[c] \ {k}
    BY <1>1, <1>2 DEF IInv, KitOK, OpenHasMap
  <2>2. \A d \in Chans : d # c => CLIENT_FORWARD'[d] = CLIENT_FORWARD[d]
    BY <1>1 DEF IInv, KitOK
  <2> QED BY <2>1, <2>2 DEF Forwards
<1>5. None # 0 /\ None # 1
  BY SessionAssumption
<1> USE DEF StateInv, netVars, serverVars, adminVars
<1>6. EarlyOK'
  BY <1>1, <1>2 DEF EarlyOK
<1>7. HonestOK'
  BY <1>1, <1>2, <1>3, <1>5 DEF HonestOK, Kept
<1>8. SyncOK'
  BY <1>1, <1>2, <1>3, <1>5 DEF SyncOK
<1>9. RetryOK'
  BY <1>1, <1>2, <1>3, <1>4, <1>5 DEF RetryOK
<1> QED BY <1>6, <1>7, <1>8, <1>9

LEMMA reRegisterState ==
    ASSUME IInv, StateInv, NEW c \in Chans, NEW k \in Names, reRegister(c, k)
    PROVE  StateInv'
<1>1. /\ retries' = [retries EXCEPT ![c][k] = @ - 1]
      /\ toServer' = IF k \in Known THEN Sent(channel, <<Msg("REG", k, 0)>>) ELSE toServer
      /\ UNCHANGED <<netVars, channel, CLIENT_FORWARD, stateMap, toClient, serverVars, adminVars>>
  BY DEF reRegister
<1>2. /\ \A d \in Chans : \A op, n : On(toServer[d], op, n) => On(toServer'[d], op, n)
      /\ \A d \in Chans, n \in Names :
           On(toServer'[d], "REG", n) => conn[d] # "new" /\ syncing[d] = None
  <2>1. k \in Known => channel \in Chans
    BY KnownTyped DEF Known
  <2> DEFINE s == <<Msg("REG", k, 0)>>
  <2>2. s \in Seq(Message)
    BY MsgTyped
  <2>3. toServer' = toServer \/ (channel \in Chans /\ toServer' = Sent(channel, s))
    BY <1>1, <2>1
  <2> HIDE DEF s
  <2> QED BY <2>2, <2>3, SentKeeps
<1>3. \A d \in Chans, n \in Names : n # k => retries'[d][n] = retries[d][n]
  BY <1>1 DEF IInv, KitOK
<1>4. ASSUME NEW d \in Chans, conn[d] = "open", channel = d, k \in Forwards(d)
      PROVE  On(toServer'[d], "REG", k) \/ server[d] = "closed"
  <2>1. k \in Known
    BY <1>4, SessionAssumption DEF Known, HasMap, Forwards
  <2> QED BY <1>1, <1>4, <2>1, RegSent
<1> USE DEF StateInv, netVars, serverVars, adminVars
<1>5. EarlyOK'
  BY <1>1 DEF EarlyOK
<1>6. HonestOK'
  BY <1>1, <1>2 DEF HonestOK, Kept
<1>7. SyncOK'
  BY <1>1, <1>2 DEF SyncOK
<1>8. RetryOK'
  BY <1>1, <1>2, <1>3, <1>4 DEF RetryOK, Forwards
<1> QED BY <1>5, <1>6, <1>7, <1>8

-----------------------------------------------------------------------------
(* The administration *)

LEMMA RowCallsState ==
    ASSUME StateInv,
           \/ \E r \in Rows : delById(r) \/ enable(r) \/ \E new \in Mapping : edit(r, new)
           \/ Return \/ RollBack
    PROVE  StateInv'
<1>1. ASSUME NEW r, NEW new, NEW todo, NEW n, Begin(r, new, todo, n) PROVE UNCHANGED Untouched
  BY <1>1 DEF Begin, Untouched, netVars, kitVars, wires, serverVars
<1>2. ASSUME NEW r \in Rows, delById(r) \/ enable(r) \/ \E new \in Mapping : edit(r, new)
      PROVE  UNCHANGED Untouched
  BY <1>1, <1>2 DEF delById, enable, edit
<1>3. ASSUME Return \/ RollBack PROVE UNCHANGED Untouched
  BY <1>3 DEF Return, RollBack, Untouched, netVars, kitVars, wires, serverVars
<1> QED BY <1>2, <1>3, UntouchedKeeps

LEMMA addMappingState == ASSUME IInv, StateInv, addMapping PROVE StateInv'
<1> DEFINE k == call.name
<1>1. k \in Names
  BY DEF addMapping, IInv, AdminOK, Call
<1>2. CASE k \in Known
  <2>1. UNCHANGED Untouched
    BY <1>2 DEF addMapping, Untouched, netVars, wires, serverVars
  <2> QED BY <2>1, UntouchedKeeps
<1>3. CASE k \notin Known
  <2>1. /\ channel \in Chans /\ CLIENT_FORWARD[channel] \subseteq Names
        /\ CLIENT_FORWARD' = [CLIENT_FORWARD EXCEPT ![channel] = @ \cup {k}]
        /\ toServer' = Sent(channel, <<Msg("REG", k, 0)>>)
        /\ UNCHANGED <<netVars, channel, stateMap, retries, toClient, serverVars, stopping>>
    BY <1>3, KnownTyped DEF addMapping
  <2>2. /\ \A d \in Chans : \A op, n : On(toServer[d], op, n) => On(toServer'[d], op, n)
        /\ \A d \in Chans, n \in Names :
             On(toServer'[d], "REG", n) => conn[d] # "new" /\ syncing[d] = None
    <3> DEFINE s == <<Msg("REG", k, 0)>>
    <3>1. s \in Seq(Message) /\ toServer' = Sent(channel, s)
      BY <1>1, <2>1, MsgTyped
    <3> HIDE DEF s
    <3> QED BY <2>1, <3>1, SentKeeps
  <2>3. ASSUME NEW d \in Chans, conn[d] = "open", channel = d
        PROVE  On(toServer'[d], "REG", k) \/ server[d] = "closed"
    BY <1>1, <2>1, <2>3, RegSent
  <2> HIDE DEF k
  <2>4. \A d \in Chans, n \in Names : n # k /\ n \in Forwards(d)' => n \in Forwards(d)
    <3>1. CLIENT_FORWARD[channel] # None /\ CLIENT_FORWARD'[channel] = CLIENT_FORWARD[channel] \cup {k}
      BY <2>1 DEF IInv, KitOK, addMapping, HasMap
    <3>2. \A d \in Chans : d # channel => CLIENT_FORWARD'[d] = CLIENT_FORWARD[d]
      BY <2>1 DEF IInv, KitOK
    <3> QED BY <3>1, <3>2 DEF Forwards
  <2> USE DEF StateInv, netVars, serverVars
  <2>5. EarlyOK'
    BY <2>1 DEF EarlyOK
  <2>6. HonestOK'
    BY <2>1, <2>2 DEF HonestOK, Kept
  <2>7. SyncOK'
    BY <2>1, <2>2 DEF SyncOK
  <2>8. RetryOK'
    BY <2>1, <2>2, <2>3, <2>4 DEF RetryOK
  <2> QED BY <2>5, <2>6, <2>7, <2>8
<1> QED BY <1>2, <1>3

LEMMA cancelRegisterState == ASSUME IInv, StateInv, cancelRegister PROVE StateInv'
<1> DEFINE k == call.name
<1>1. k \in Names
  BY DEF cancelRegister, IInv, AdminOK, Call
<1>2. UNCHANGED <<netVars, kitVars, toClient, serverVars, stopping>>
  BY DEF cancelRegister
<1>3. /\ \A d \in Chans : \A op, n : On(toServer[d], op, n) => On(toServer'[d], op, n)
      /\ \A d \in Chans, n \in Names :
           On(toServer'[d], "REG", n) => conn[d] # "new" /\ syncing[d] = None
  <2> DEFINE s == <<Msg("CANCEL", k, 0)>>
  <2>1. s \in Seq(Message)
    BY <1>1, MsgTyped
  <2>2. toServer' = toServer \/ (channel \in Chans /\ toServer' = Sent(channel, s))
    BY KnownTyped DEF cancelRegister
  <2> HIDE DEF s
  <2> QED BY <2>1, <2>2, SentKeeps
<1> USE DEF StateInv, netVars, kitVars, serverVars
<1>4. EarlyOK'
  BY <1>2 DEF EarlyOK
<1>5. HonestOK'
  BY <1>2, <1>3 DEF HonestOK, Kept
<1>6. SyncOK'
  BY <1>2, <1>3 DEF SyncOK
<1>7. RetryOK'
  BY <1>2, <1>3 DEF RetryOK, Forwards
<1> QED BY <1>4, <1>5, <1>6, <1>7

LEMMA stopState == ASSUME StateInv, stop PROVE StateInv'
<1> USE DEF StateInv, stop, netVars, kitVars, wires, serverVars
<1>1. EarlyOK' /\ SyncOK'
  BY DEF EarlyOK, SyncOK
<1>2. HonestOK'
  BY DEF HonestOK, Kept
<1>3. RetryOK'
  BY DEF RetryOK
<1> QED BY <1>1, <1>2, <1>3

LEMMA LoopEndsState ==
    ASSUME IInv, StateInv, NEW c \in Chans, LoopEnds(c)
    PROVE  StateInv'
<1>1. /\ conn' = [conn EXCEPT ![c] = "closed"]
      /\ stateMap' = IF conn[c] = "open" THEN [n \in Names |-> None] ELSE stateMap
      /\ toClient' = [toClient EXCEPT ![c] = <<>>]
      /\ UNCHANGED <<server, channel, CLIENT_FORWARD, toServer, serverVars, stopping>>
      /\ stopping
  BY DEF LoopEnds
<1>2. \A d \in Chans : /\ conn'[d] = IF d = c THEN "closed" ELSE conn[d]
                       /\ toClient'[d] = IF d = c THEN <<>> ELSE toClient[d]
  BY <1>1 DEF IInv, NetOK, WiresOK
<1>3. \A d \in Chans : syncing'[d] = syncing[d] \/ syncing'[d] = None
  BY DEF LoopEnds, Rethrown, IInv, NetOK
<1>4. None # 0 /\ None # 1
  BY SessionAssumption
<1>5. \A n \in Names : stateMap'[n] = stateMap[n] \/ stateMap'[n] = None
  BY <1>1
<1>6. \A n \in Names : stateMap'[n] # None => conn[c] # "open" /\ stateMap'[n] = stateMap[n]
  BY <1>1
<1> USE DEF StateInv, serverVars
<1>7. EarlyOK'
  BY <1>1, <1>2 DEF EarlyOK
<1>8. HonestOK'
  <2>1. \A d \in Chans, n \in Names : Kept(d, n) => Kept(d, n)'
    BY <1>1 DEF Kept
  <2>2. ASSUME NEW n \in Names, stateMap'[n] = 1
        PROVE  \E d \in Chans : conn'[d] = "open" /\ (Kept(d, n)' \/ On(toClient'[d], "CANCEL", n))
    <3>1. conn[c] # "open" /\ stateMap[n] = 1
      BY <1>4, <1>6, <2>2
    <3>2. PICK d \in Chans : conn[d] = "open" /\ (Kept(d, n) \/ On(toClient[d], "CANCEL", n))
      BY <3>1 DEF HonestOK
    <3> QED BY <1>2, <2>1, <3>1, <3>2
  <2>3. \A d \in Chans, n \in Names : Granted(toClient'[d], n) => Kept(d, n)'
    BY <1>2, <2>1, WireEmpty DEF HonestOK
  <2> QED BY <2>2, <2>3 DEF HonestOK
<1>9. SyncOK'
  BY <1>1, <1>2, <1>3, <1>4, <1>6, WireEmpty DEF SyncOK
<1>10. RetryOK'
  BY <1>1 DEF RetryOK
<1> QED BY <1>7, <1>8, <1>9, <1>10

\* reboot() starts again when every connection is closed.
LEMMA startState == ASSUME StateInv, start PROVE StateInv'
<1> USE DEF StateInv, start, kitVars, wires, serverVars
<1>1. EarlyOK' /\ SyncOK'
  BY DEF EarlyOK, SyncOK
<1>2. HonestOK'
  BY DEF HonestOK, Kept
<1>3. RetryOK'
  BY DEF RetryOK, Idle, Live
<1> QED BY <1>1, <1>2, <1>3

-----------------------------------------------------------------------------
LEMMA StateStep == IInv /\ StateInv /\ [Next]_vars => StateInv'
<1> SUFFICES ASSUME IInv, StateInv, [Next]_vars PROVE StateInv'
  OBVIOUS
<1>1. CASE UNCHANGED vars
  <2>1. UNCHANGED Untouched
    BY <1>1 DEF vars, netVars, kitVars, wires, serverVars, adminVars, Untouched
  <2> QED BY <2>1, UntouchedKeeps
<1>2. ASSUME NEW c \in Chans,
             \/ \E t \in Threads : connection(t, c)
             \/ Connected(c) \/ ConnectFails(c) \/ setChannel(c)
             \/ channelActive(c) \/ channelInactive(c) \/ LoopEnds(c)
      PROVE  StateInv'
  BY <1>2, connectionState, ConnectedState, ConnectFailsState, setChannelState,
     channelActiveState, channelInactiveState, LoopEndsState
<1>3. ASSUME NEW c \in Chans,
             \/ ServerReads(c) \/ ServerPuts(c) \/ ServerEnds(c)
             \/ handleAuth(c) \/ handleRegister(c) \/ handleCancelRegister(c)
             \/ \E n \in Names : reRegister(c, n)
      PROVE  StateInv'
  BY <1>3, ServerReadsState, ServerPutsState, ServerEndsState, handleAuthState,
     handleRegisterState, handleCancelRegisterState, reRegisterState
<1>4. CASE \E n \in Names : OtherPuts(n) \/ OtherRemoves(n)
  BY <1>4, OtherState
<1>5. CASE \/ \E r \in Rows : delById(r) \/ enable(r) \/ \E new \in Mapping : edit(r, new)
           \/ Return \/ RollBack
  BY <1>5, RowCallsState
<1>6. CASE addMapping \/ cancelRegister \/ stop \/ start
  BY <1>6, addMappingState, cancelRegisterState, stopState, startState
<1> QED BY <1>1, <1>2, <1>3, <1>4, <1>5, <1>6 DEF Next

LEMMA StateInvariant == Spec => [](IInv /\ StateInv)
<1>1. Init => IInv /\ StateInv
  BY Start, StateStart
<1>2. IInv /\ StateInv /\ [Next]_vars => IInv' /\ StateInv'
  BY Step, StateStep
<1> QED BY <1>1, <1>2, PTL DEF Spec

LEMMA OnEither ==
    ASSUME IInv, NEW c \in Chans, NEW op, NEW n
    PROVE  OnItsWay(c, op, n) <=>
               \/ On(toServer[c], op, n) \/ On(toClient[c], op, n)
               \/ op = "REG" /\ putting[c] = n
<1>1. On(toServer[c] \o toClient[c], op, n) <=> On(toServer[c], op, n) \/ On(toClient[c], op, n)
  BY WireConcat DEF IInv, WiresOK
<1> QED BY <1>1 DEF OnItsWay, On

\* What querylist shows as registered is registered over the open connection, or
\* the server has lost the connection, or a cancellation is on its way, or the name
\* has been put, cancelled or torn down by another connection, of this client or
\* of another, since it was last granted (ClientMessageHandler 108-137, 194-196;
\* ServiceMappingServiceImpl 84-98; RegisterHandler 50-52, 82-89, 141).
THEOREM RegisteredIsHonest == Spec => []StateIsHonest
<1>1. IInv /\ StateInv => StateIsHonest
  BY OnEither DEF StateInv, HonestOK, Kept, StateIsHonest
<1> QED BY <1>1, StateInvariant, PTL

\* A refusal of a name that the client still forwards is tried again, whatever
\* becomes of the connection it was read from: the name has a retry ahead or a
\* registration on its way, or the client is being rebooted or the server is gone
\* (ClientMessageHandler 125-135, ClientKit 60-70).
THEOREM RefusalsAreRetried == Spec => []RefusedIsRetried
<1>1. IInv /\ StateInv => RefusedIsRetried
  BY OnEither DEF StateInv, RetryOK, RefusedIsRetried, Known, HasMap
<1> QED BY <1>1, StateInvariant, PTL
==============================================================================
