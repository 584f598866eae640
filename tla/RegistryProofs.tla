--------------------------- MODULE RegistryProofs ---------------------------
(***************************************************************************)
(* Proofs about Registry, for any number of connections, names, ports and  *)
(* boots, any clients' mappings and any bound on the lists.                *)
(*                                                                         *)
(* The invariants of Registry are not inductive: that a route never leads  *)
(* to a connection that is gone holds because the connection's own list    *)
(* names every route it holds and its teardown has not passed that place   *)
(* of the list yet.  IInv says where each teardown stands against what its *)
(* connection still holds.                                                 *)
(***************************************************************************)
EXTENDS Registry, SequenceTheorems, TLAPS

\* A handler call runs on an open channel, channelInactive on a closed one;
\* a request in progress has a name, a teardown a place in its lists.
CallOK ==
    \A c \in Conns :
        /\ chan[c] = "closed" <=> task[c].op \in CloseOps
        /\ task[c].op \in OpenOps \ {"idle"} => chan[c] = "open" /\ task[c].name \in Names
        /\ task[c].op \in CloseOps => task[c].pos >= 1

\* The list of c has n at a place that its teardown has not reached.
KeepsName(c, n) ==
    \E i \in DOMAIN REGISTER_CHANNEL[c] :
        /\ REGISTER_CHANNEL[c][i] = n
        /\ chan[c] = "closed" => task[c].op = "dropRoutes" /\ task[c].pos <= i

\* The route of n leads to a connection that will still remove it.
Routed(n) == /\ chan[ROUTE_MAPPING[n]] \in {"open", "closed"}
             /\ KeepsName(ROUTE_MAPPING[n], n)

RouteOK == \A n \in Names : ROUTE_MAPPING[n] # None => Routed(n)

\* A boot is kept only in the list of the connection it serves.
ListOK ==
    \A c \in Conns : \A i \in DOMAIN CHANNEL_DYNAMIC_BOOT[c] :
        LET b == CHANNEL_DYNAMIC_BOOT[c][i] IN boot[b] # None /\ boot[b].channel = c

\* A boot that is being started is known to nobody else.
StartOK ==
    \A c \in Conns : task[c].op \in {"bind", "publish"} =>
        /\ task[c].boot \in Boots
        /\ boot[task[c].boot] # None
        /\ boot[task[c].boot].channel = c
        /\ task[c].boot \notin Listed
        /\ task[c].boot \in listening <=> task[c].op = "publish"

StopOps == {"evictStop", "cancelStop", "stopBoot"}

\* A boot that is being taken down was in a list, and its port's entry is out
\* before it is stopped.
TakeDownOK ==
    \A c \in Conns :
        /\ task[c].op \in StopOps \cup {"evictRemove", "evictClose", "cancelRemove"} =>
               task[c].boot \in Listed
        /\ task[c].op \in StopOps => \A p \in Ports : DYNAMIC_BOOT[p] # task[c].boot
        /\ task[c].op = "stopBoot" =>
               /\ task[c].pos \in DOMAIN CHANNEL_DYNAMIC_BOOT[c]
               /\ task[c].boot = CHANNEL_DYNAMIC_BOOT[c][task[c].pos]

\* A published boot is bound to its port, and in a list.
PortOK ==
    \A p \in Ports : DYNAMIC_BOOT[p] # None =>
        /\ DYNAMIC_BOOT[p] \in listening \cap Listed
        /\ boot[DYNAMIC_BOOT[p]].port = p

\* The list of c has b at a place that its teardown has not passed.
KeepsBoot(c, b) ==
    \E i \in DOMAIN CHANNEL_DYNAMIC_BOOT[c] :
        /\ CHANNEL_DYNAMIC_BOOT[c][i] = b
        /\ chan[c] = "closed" => task[c].op = "dropRoutes" \/ task[c].pos <= i

\* b is about to be published, or its connection will still stop it.
Served(b) ==
    /\ boot[b] # None
    /\ chan[boot[b].channel] \in {"open", "closed"}
    /\ \/ task[boot[b].channel].op = "publish" /\ task[boot[b].channel].boot = b
       \/ KeepsBoot(boot[b].channel, b)

ListenOK == \A b \in listening : Served(b)

IInv == /\ TypeOK /\ CallOK /\ RouteOK /\ ListOK
        /\ StartOK /\ TakeDownOK /\ PortOK /\ ListenOK

-----------------------------------------------------------------------------
\* The places of the two lists of a connection, and what stands there.
LEMMA Places ==
    ASSUME TypeOK, NEW c \in Conns
    PROVE  /\ DOMAIN REGISTER_CHANNEL[c] = 1..Len(REGISTER_CHANNEL[c])
           /\ DOMAIN CHANNEL_DYNAMIC_BOOT[c] = 1..Len(CHANNEL_DYNAMIC_BOOT[c])
           /\ Len(REGISTER_CHANNEL[c]) \in Nat
           /\ Len(CHANNEL_DYNAMIC_BOOT[c]) \in Nat
           /\ \A i \in DOMAIN REGISTER_CHANNEL[c] : REGISTER_CHANNEL[c][i] \in Names
           /\ \A i \in DOMAIN CHANNEL_DYNAMIC_BOOT[c] : CHANNEL_DYNAMIC_BOOT[c][i] \in Boots
BY DEF TypeOK

\* What the lists gain when RegisterHandler adds an element.
LEMMA Lengthen ==
    ASSUME NEW S, NEW s \in Seq(S), NEW e \in S
    PROVE  /\ DOMAIN Append(s, e) = DOMAIN s \cup {Len(s) + 1}
           /\ Append(s, e)[Len(s) + 1] = e
           /\ \A i \in DOMAIN s : Append(s, e)[i] = s[i]
<1>1. DOMAIN s = 1..Len(s) /\ DOMAIN Append(s, e) = 1..Len(Append(s, e)) /\ Len(s) \in Nat
  BY AppendProperties
<1> QED BY <1>1, AppendProperties

\* IInv depends on the state only.
LEMMA Stutter == ASSUME IInv, UNCHANGED vars PROVE IInv'
<1> USE DEF vars, connVars, tables, lists, bootVars
<1>1. TypeOK' /\ CallOK' BY DEF IInv, TypeOK, CallOK
<1>2. RouteOK' BY DEF IInv, RouteOK, Routed, KeepsName
<1>3. Listed' = Listed BY DEF Listed
<1>4. ListOK' BY DEF IInv, ListOK
<1>5. StartOK' /\ TakeDownOK' /\ PortOK' BY <1>3 DEF IInv, StartOK, TakeDownOK, PortOK
<1>6. ListenOK' BY DEF IInv, ListenOK, Served, KeepsBoot
<1> QED BY <1>1, <1>2, <1>4, <1>5, <1>6 DEF IInv

\* The channel of c closes on its own loop (any handler that closes it).
LEMMA Inactive ==
    ASSUME IInv, NEW c \in Conns, chan[c] = "open", task[c].op # "publish", GoInactive(c),
           UNCHANGED <<authed, tables, lists, bootVars>>
    PROVE  IInv'
<1> USE DEF GoInactive, ChannelInactive, At, Do, tables, lists, bootVars
<1>1. /\ chan' = [chan EXCEPT ![c] = "closed"]
      /\ task' = [task EXCEPT ![c] = ChannelInactive]
      /\ ChannelInactive \in Task
  BY DEF Task, CloseOps
<1>2. TypeOK'
  BY <1>1 DEF IInv, TypeOK, Unregistered
<1>3. CallOK'
  BY <1>1 DEF IInv, TypeOK, CallOK, OpenOps, CloseOps
<1>4. RouteOK'
  <2> SUFFICES ASSUME NEW n \in Names, ROUTE_MAPPING[n] # None
               PROVE  Routed(n)'
    BY DEF RouteOK
  <2>1. ROUTE_MAPPING[n] \in Conns /\ KeepsName(ROUTE_MAPPING[n], n)
    BY DEF IInv, TypeOK, RouteOK, Routed
  <2> QED BY <1>1, <2>1, Places DEF IInv, TypeOK, RouteOK, Routed, KeepsName
<1>5. Listed' = Listed /\ ListOK'
  BY DEF IInv, Listed, ListOK
<1>6. StartOK' /\ TakeDownOK' /\ PortOK'
  BY <1>1, <1>5 DEF IInv, TypeOK, StartOK, TakeDownOK, StopOps, PortOK
<1>7. ListenOK'
  <2> SUFFICES ASSUME NEW b \in listening
               PROVE  Served(b)'
    BY DEF ListenOK
  <2>1. boot[b] # None /\ boot[b].channel \in Conns
    BY DEF IInv, TypeOK, ListenOK, Served, BootFields
  <2> QED BY <1>1, <2>1, Places DEF IInv, TypeOK, ListenOK, Served, KeepsBoot
<1> QED BY <1>2, <1>3, <1>4, <1>5, <1>6, <1>7 DEF IInv

\* A handler call of c ends, or is over at once, with an answer at most.
LEMMA Answer ==
    ASSUME IInv, NEW c \in Conns, NEW n \in Names, NEW p \in Ports \cup {HttpPort, None},
           chan[c] = "open", task[c].op # "publish",
           task' = task \/ Do(c, Idle),
           stateMap' = stateMap \/ Tell(c, n, p),
           closeReq' \in [Conns -> BOOLEAN],
           UNCHANGED <<chan, authed, tables, lists, bootVars>>
    PROVE  IInv'
<1> USE DEF Do, Tell, tables, lists, bootVars
<1>1. TypeOK'
  <2>1. Idle \in Task
    BY DEF Idle, At, Task, OpenOps
  <2>2. task' \in [Conns -> Task]
    BY <2>1 DEF IInv, TypeOK
  <2>3. [stateMap[c] EXCEPT ![n] = p] \in [Names -> Ports \cup {HttpPort, None}]
    BY DEF IInv, TypeOK
  <2>4. stateMap' \in [Conns -> [Names -> Ports \cup {HttpPort, None}]]
    BY <2>3 DEF IInv, TypeOK
  <2> QED BY <2>2, <2>4 DEF IInv, TypeOK
<1>2. \A d \in Conns : task'[d] = task[d] \/ (d = c /\ task'[d] = Idle)
  BY DEF IInv, TypeOK
<1>3. CallOK'
  BY <1>2 DEF IInv, CallOK, Idle, At, OpenOps, CloseOps
<1>4. RouteOK'
  <2> SUFFICES ASSUME NEW m \in Names, ROUTE_MAPPING[m] # None
               PROVE  KeepsName(ROUTE_MAPPING[m], m)'
    BY DEF IInv, RouteOK, Routed
  <2>1. ROUTE_MAPPING[m] \in Conns /\ KeepsName(ROUTE_MAPPING[m], m)
    BY DEF IInv, TypeOK, RouteOK, Routed
  <2> QED BY <1>2, <2>1 DEF KeepsName
<1>5. Listed' = Listed /\ ListOK'
  BY DEF IInv, Listed, ListOK
<1>6. StartOK' /\ TakeDownOK' /\ PortOK'
  BY <1>2, <1>5 DEF IInv, Idle, At, StartOK, TakeDownOK, StopOps, PortOK
<1>7. ListenOK'
  <2> SUFFICES ASSUME NEW b \in listening
               PROVE  Served(b)'
    BY DEF ListenOK
  <2> DEFINE d == boot[b].channel
  <2>1. /\ boot[b] # None /\ d \in Conns /\ chan[d] \in {"open", "closed"}
        /\ (task[d].op = "publish" /\ task[d].boot = b) \/ KeepsBoot(d, b)
    BY DEF IInv, TypeOK, ListenOK, Served, BootFields
  <2>2. KeepsBoot(d, b) => KeepsBoot(d, b)'
    BY <1>2, <2>1 DEF KeepsBoot
  <2> QED BY <1>2, <2>1, <2>2 DEF Served
<1> QED BY <1>1, <1>3, <1>4, <1>5, <1>6, <1>7 DEF IInv

\* A handler call of c begins with a look at the tables.
LEMMA Begin ==
    ASSUME IInv, NEW c \in Conns, NEW n \in Names, NEW b \in Boots \cup {None},
           NEW o \in {"putRoute", "cancelRoute", "evictRemove", "cancelRemove"},
           chan[c] = "open", task[c].op = "idle",
           o \in {"evictRemove", "cancelRemove"} => b \in Listed,
           Do(c, At(o, n, b, 0)),
           UNCHANGED <<connVars, tables, lists, bootVars, stateMap>>
    PROVE  IInv'
<1> USE DEF Do, connVars, tables, lists, bootVars
<1>1. At(o, n, b, 0) \in Task
  BY DEF At, Task, OpenOps
<1>2. \A d \in Conns : task'[d] = IF d = c THEN At(o, n, b, 0) ELSE task[d]
  BY DEF IInv, TypeOK
<1>3. TypeOK'
  BY <1>1 DEF IInv, TypeOK
<1>4. CallOK'
  BY <1>2 DEF IInv, CallOK, At, OpenOps, CloseOps
<1>5. RouteOK'
  <2> SUFFICES ASSUME NEW m \in Names, ROUTE_MAPPING[m] # None
               PROVE  KeepsName(ROUTE_MAPPING[m], m)'
    BY DEF IInv, RouteOK, Routed
  <2>1. ROUTE_MAPPING[m] \in Conns /\ KeepsName(ROUTE_MAPPING[m], m)
    BY DEF IInv, TypeOK, RouteOK, Routed
  <2> QED BY <1>2, <2>1 DEF KeepsName
<1>6. Listed' = Listed /\ ListOK'
  BY DEF IInv, Listed, ListOK
<1>7. StartOK' /\ TakeDownOK' /\ PortOK'
  BY <1>2, <1>6 DEF IInv, At, StartOK, TakeDownOK, StopOps, PortOK
<1>8. ListenOK'
  <2> SUFFICES ASSUME NEW l \in listening
               PROVE  Served(l)'
    BY DEF ListenOK
  <2> DEFINE d == boot[l].channel
  <2>1. /\ boot[l] # None /\ d \in Conns /\ chan[d] \in {"open", "closed"}
        /\ (task[d].op = "publish" /\ task[d].boot = l) \/ KeepsBoot(d, l)
    BY DEF IInv, TypeOK, ListenOK, Served, BootFields
  <2>2. KeepsBoot(d, l) => KeepsBoot(d, l)'
    BY <1>2, <2>1 DEF KeepsBoot
  <2> QED BY <1>2, <2>1, <2>2 DEF Served
<1> QED BY <1>3, <1>4, <1>5, <1>6, <1>7, <1>8 DEF IInv

-----------------------------------------------------------------------------
(* One lemma per action *)

LEMMA ChannelActiveStep == ASSUME IInv, NEW c \in Conns, ChannelActive(c) PROVE IInv'
<1> USE NoneAssumption, PortAssumption DEF IInv, ChannelActive, Do, At, Idle, Reading, Tell, connVars, tables, lists, bootVars
<1>1. TypeOK'
  BY DEF TypeOK, Task, OpenOps, CloseOps, BootFields
<1>2. CallOK'
  BY DEF TypeOK, CallOK, Task, OpenOps, CloseOps
<1>3. RouteOK'
  BY DEF TypeOK, CallOK, RouteOK, Routed, KeepsName, Task, OpenOps, CloseOps
<1>4. ListenOK'
  BY DEF TypeOK, CallOK, ListOK, StartOK, TakeDownOK, PortOK, ListenOK, Served, KeepsBoot, Task, OpenOps, CloseOps, BootFields
<1>5. ListOK' /\ StartOK' /\ TakeDownOK' /\ PortOK'
  BY DEF ListOK, StartOK, TakeDownOK, PortOK, Listed, StopOps
<1> QED BY <1>1, <1>2, <1>3, <1>4, <1>5

LEMMA AuthenticateStep == ASSUME IInv, NEW c \in Conns, Authenticate(c) PROVE IInv'
<1> USE NoneAssumption, PortAssumption DEF IInv, Authenticate, Do, At, Idle, Reading, Tell, connVars, tables, lists, bootVars
<1>1. TypeOK'
  BY DEF TypeOK, Task, OpenOps, CloseOps, BootFields
<1>2. CallOK' /\ RouteOK' /\ ListOK' /\ StartOK' /\ TakeDownOK' /\ PortOK' /\ ListenOK'
  BY DEF CallOK, RouteOK, Routed, KeepsName, ListOK, StartOK, TakeDownOK, PortOK, ListenOK, Served, KeepsBoot, Listed, StopOps
<1> QED BY <1>1, <1>2

LEMMA RegisterNewPortStep == ASSUME IInv, NEW c \in Conns, NEW n \in Names, NEW p \in Ports, NEW b \in Boots, RegisterNewPort(c, n, p, b) PROVE IInv'
<1> USE NoneAssumption, PortAssumption DEF IInv, RegisterNewPort, Do, At, Idle, Reading, Tell, connVars, tables, lists, bootVars
<1>1. TypeOK'
  BY DEF TypeOK, Task, OpenOps, CloseOps, BootFields
<1>2. CallOK'
  BY DEF TypeOK, CallOK, Task, OpenOps, CloseOps
<1>3. RouteOK'
  BY DEF TypeOK, CallOK, RouteOK, Routed, KeepsName, Task, OpenOps, CloseOps
<1>4. ListOK'
  BY DEF TypeOK, ListOK, StartOK, Listed, Task, OpenOps, CloseOps
<1>5. StartOK'
  <2>1. b \notin Listed /\ b \notin listening
    BY DEF ListOK, ListenOK, Served, Listed
  <2>2. ASSUME NEW d \in Conns, d # c, task[d].op \in {"bind", "publish"}
        PROVE  task'[d] = task[d] /\ boot'[task[d].boot] = boot[task[d].boot]
    BY <2>2 DEF StartOK, TypeOK
  <2>3. [port |-> p, registerName |-> n, channel |-> c] # None
    BY DEF BootFields
  <2>4. /\ task'[c] = At("bind", n, b, 0)
        /\ boot'[b] = [port |-> p, registerName |-> n, channel |-> c]
    BY DEF TypeOK
  <2>5. Listed' = Listed
    BY DEF Listed
  <2> QED BY <2>1, <2>2, <2>3, <2>4, <2>5 DEF StartOK, TypeOK
<1>6. TakeDownOK'
  BY DEF TypeOK, CallOK, TakeDownOK, ListOK, StartOK, PortOK, Listed, StopOps, Task, OpenOps, CloseOps
<1>7. PortOK'
  BY DEF TypeOK, CallOK, PortOK, ListOK, StartOK, TakeDownOK, Listed, StopOps, Task, OpenOps, CloseOps, BootFields
<1>8. ListenOK'
  BY DEF TypeOK, CallOK, ListOK, StartOK, TakeDownOK, PortOK, ListenOK, Served, KeepsBoot, Task, OpenOps, CloseOps, BootFields
<1> QED BY <1>1, <1>2, <1>3, <1>4, <1>5, <1>6, <1>7, <1>8

LEMMA PutRouteStep == ASSUME IInv, NEW c \in Conns, PutRoute(c) PROVE IInv'
<1> DEFINE name == task[c].name
           names == REGISTER_CHANNEL[c]
<1>1. /\ chan[c] = "open" /\ name \in Names
      /\ task[c].op = "putRoute"
      /\ task' = [task EXCEPT ![c] = Idle]
      /\ ROUTE_MAPPING' = [ROUTE_MAPPING EXCEPT ![name] = c]
      /\ REGISTER_CHANNEL' = [REGISTER_CHANNEL EXCEPT ![c] = Append(names, name)]
      /\ stateMap' = [stateMap EXCEPT ![c][name] = HttpPort]
      /\ UNCHANGED <<chan, authed, closeReq, DYNAMIC_BOOT, CHANNEL_DYNAMIC_BOOT, boot, listening>>
  BY DEF PutRoute, Do, Tell, connVars, bootVars, IInv, CallOK, OpenOps
<1>2. /\ DOMAIN Append(names, name) = DOMAIN names \cup {Len(names) + 1}
      /\ Append(names, name)[Len(names) + 1] = name
      /\ \A i \in DOMAIN names : Append(names, name)[i] = names[i]
      /\ Append(names, name) \in Seq(Names)
  BY <1>1, Lengthen DEF IInv, TypeOK
<1>3. TypeOK'
  <2>1. Idle \in Task
    BY DEF Idle, At, Task, OpenOps
  <2>2. [stateMap[c] EXCEPT ![name] = HttpPort] \in [Names -> Ports \cup {HttpPort, None}]
    BY DEF IInv, TypeOK
  <2>3. stateMap' \in [Conns -> [Names -> Ports \cup {HttpPort, None}]]
    BY <1>1, <2>2 DEF IInv, TypeOK
  <2>4. REGISTER_CHANNEL' \in [Conns -> Seq(Names)]
    BY <1>1, <1>2 DEF IInv, TypeOK
  <2> QED BY <1>1, <2>1, <2>3, <2>4 DEF IInv, TypeOK
<1>4. CallOK'
  BY <1>1 DEF IInv, TypeOK, CallOK, Idle, At, OpenOps, CloseOps
<1>5. RouteOK'
  <2> SUFFICES ASSUME NEW n \in Names, ROUTE_MAPPING'[n] # None
               PROVE  Routed(n)'
    BY <1>1 DEF RouteOK
  <2>1. CASE n = name
    <3>1. ROUTE_MAPPING'[n] = c /\ REGISTER_CHANNEL'[c] = Append(names, name)
      BY <1>1, <2>1 DEF IInv, TypeOK
    <3> QED BY <1>1, <1>2, <2>1, <3>1 DEF KeepsName, Routed
  <2>2. CASE n # name
    <3> DEFINE d == ROUTE_MAPPING[n]
    <3>1. /\ d \in Conns /\ d = ROUTE_MAPPING'[n]
          /\ chan[d] \in {"open", "closed"} /\ KeepsName(d, n)
      BY <1>1, <2>2 DEF IInv, TypeOK, RouteOK, Routed
    <3>2. CASE d = c
      <4>1. REGISTER_CHANNEL'[c] = Append(names, name)
        BY <1>1 DEF IInv, TypeOK
      <4> QED BY <1>1, <1>2, <3>1, <3>2, <4>1 DEF KeepsName, Routed
    <3>3. CASE d # c
      <4>1. REGISTER_CHANNEL'[d] = REGISTER_CHANNEL[d] /\ task'[d] = task[d]
        BY <1>1, <3>1, <3>3 DEF IInv, TypeOK
      <4> QED BY <1>1, <3>1, <4>1 DEF KeepsName, Routed
    <3> QED BY <3>2, <3>3
  <2> QED BY <2>1, <2>2
<1>6. Listed' = Listed /\ ListOK'
  BY <1>1 DEF IInv, Listed, ListOK
<1>7. StartOK' /\ TakeDownOK' /\ PortOK'
  BY <1>1, <1>6 DEF IInv, TypeOK, Idle, At, StartOK, TakeDownOK, StopOps, PortOK
<1>8. ListenOK'
  BY <1>1 DEF IInv, TypeOK, Idle, At, ListenOK, Served, KeepsBoot, BootFields
<1> QED BY <1>3, <1>4, <1>5, <1>6, <1>7, <1>8 DEF IInv

LEMMA BindStep == ASSUME IInv, NEW c \in Conns, Bind(c) PROVE IInv'
<1> USE NoneAssumption, PortAssumption DEF IInv, Bind, Do, At, Idle, Reading, Tell, connVars, tables, lists, bootVars
<1>1. TypeOK'
  <2>1. task[c].boot \in Boots /\ task[c].name \in Names
    BY DEF StartOK, CallOK, OpenOps
  <2>2. At("publish", task[c].name, task[c].boot, 0) \in Task
    BY <2>1 DEF Task, OpenOps
  <2> QED BY <2>1, <2>2 DEF TypeOK
<1>2. CallOK'
  BY DEF TypeOK, CallOK, Task, OpenOps, CloseOps
<1>3. RouteOK'
  BY DEF TypeOK, CallOK, RouteOK, Routed, KeepsName, Task, OpenOps, CloseOps
<1>4. StartOK'
  BY DEF TypeOK, CallOK, StartOK, ListOK, TakeDownOK, PortOK, Listed, StopOps, Task, OpenOps, CloseOps, BootFields
<1>5. TakeDownOK'
  BY DEF TypeOK, CallOK, TakeDownOK, ListOK, StartOK, PortOK, Listed, StopOps, Task, OpenOps, CloseOps
<1>6. PortOK'
  BY DEF TypeOK, CallOK, PortOK, ListOK, StartOK, TakeDownOK, Listed, StopOps, Task, OpenOps, CloseOps, BootFields
<1>7. ListenOK'
  BY DEF TypeOK, CallOK, ListOK, StartOK, TakeDownOK, PortOK, ListenOK, Served, KeepsBoot, Task, OpenOps, CloseOps, BootFields
<1>8. ListOK'
  BY DEF ListOK, Listed, StopOps
<1> QED BY <1>1, <1>2, <1>3, <1>4, <1>5, <1>6, <1>7, <1>8

LEMMA PublishStep == ASSUME IInv, NEW c \in Conns, Publish(c) PROVE IInv'
<1> DEFINE b == task[c].boot
           bootsOf == CHANNEL_DYNAMIC_BOOT[c]
<1> USE NoneAssumption, PortAssumption DEF IInv, Publish, Do, At, Idle, Reading, Tell, connVars, tables, lists, bootVars
<1>0. /\ b \in Boots /\ boot[b] # None /\ boot[b].channel = c
      /\ b \in listening /\ b \notin Listed
      /\ CHANNEL_DYNAMIC_BOOT'[c] = Append(bootsOf, b)
      /\ DOMAIN Append(bootsOf, b) = DOMAIN bootsOf \cup {Len(bootsOf) + 1}
      /\ Append(bootsOf, b)[Len(bootsOf) + 1] = b
      /\ \A i \in DOMAIN bootsOf : Append(bootsOf, b)[i] = bootsOf[i]
      /\ Listed' = Listed \cup {b}
  <2>1. /\ b \in Boots /\ boot[b] # None /\ boot[b].channel = c
        /\ b \in listening /\ b \notin Listed
    BY DEF StartOK
  <2>2. bootsOf \in Seq(Boots) /\ CHANNEL_DYNAMIC_BOOT'[c] = Append(bootsOf, b)
    BY DEF TypeOK
  <2>3. /\ DOMAIN Append(bootsOf, b) = DOMAIN bootsOf \cup {Len(bootsOf) + 1}
        /\ Append(bootsOf, b)[Len(bootsOf) + 1] = b
        /\ \A i \in DOMAIN bootsOf : Append(bootsOf, b)[i] = bootsOf[i]
    BY <2>1, <2>2, Lengthen
  <2>4. \A d \in Conns : d # c => CHANNEL_DYNAMIC_BOOT'[d] = CHANNEL_DYNAMIC_BOOT[d]
    BY DEF TypeOK
  <2>5. Listed' = Listed \cup {b}
    BY <2>2, <2>3, <2>4 DEF Listed
  <2> QED BY <2>1, <2>2, <2>3, <2>5
<1>1. TypeOK'
  <2>1. /\ b \in Boots /\ boot[b].port \in Ports /\ task[c].name \in Names
        /\ Idle \in Task
    BY DEF TypeOK, StartOK, CallOK, OpenOps, BootFields, Task
  <2>2. Append(CHANNEL_DYNAMIC_BOOT[c], b) \in Seq(Boots)
    BY <2>1 DEF TypeOK
  <2>3. [stateMap[c] EXCEPT ![task[c].name] = boot[b].port]
            \in [Names -> Ports \cup {HttpPort, None}]
    BY <2>1 DEF TypeOK
  <2> QED BY <2>1, <2>2, <2>3 DEF TypeOK
<1>2. CallOK'
  BY DEF TypeOK, CallOK, Task, OpenOps, CloseOps
<1>3. RouteOK'
  BY DEF TypeOK, CallOK, RouteOK, Routed, KeepsName, Task, OpenOps, CloseOps
<1>4. ListOK'
  BY DEF TypeOK, ListOK, StartOK, Listed, Task, OpenOps, CloseOps
<1>5. StartOK'
  BY DEF TypeOK, CallOK, StartOK, ListOK, TakeDownOK, PortOK, Listed, StopOps, Task, OpenOps, CloseOps, BootFields
<1>6. TakeDownOK'
  <2> SUFFICES ASSUME NEW d \in Conns, d # c
               PROVE  /\ task[d].op \in StopOps \cup {"evictRemove", "evictClose", "cancelRemove"}
                            => task[d].boot \in Listed'
                      /\ task[d].op \in StopOps => \A p \in Ports : DYNAMIC_BOOT'[p] # task[d].boot
                      /\ task[d].op = "stopBoot" =>
                           /\ task[d].pos \in DOMAIN CHANNEL_DYNAMIC_BOOT[d]
                           /\ task[d].boot = CHANNEL_DYNAMIC_BOOT[d][task[d].pos]
    BY DEF TakeDownOK, TypeOK, StopOps
  <2> QED BY <1>0 DEF TakeDownOK, TypeOK, StopOps
<1>7. PortOK'
  BY <1>0 DEF PortOK, TypeOK
<1>8. ListenOK'
  <2> SUFFICES ASSUME NEW l \in listening
               PROVE  Served(l)'
    BY DEF ListenOK
  <2> DEFINE d == boot[l].channel
  <2>1. /\ boot[l] # None /\ d \in Conns /\ chan[d] \in {"open", "closed"}
        /\ (task[d].op = "publish" /\ task[d].boot = l) \/ KeepsBoot(d, l)
    BY DEF TypeOK, ListenOK, Served, BootFields
  <2>2. CASE l = b
    BY <1>0, <2>2 DEF KeepsBoot, CallOK, OpenOps, TypeOK, Served
  <2>3. CASE l # b /\ d = c
    <3>1. KeepsBoot(c, l) /\ chan[c] = "open"
      BY <2>1, <2>3 DEF CallOK, OpenOps
    <3>2. KeepsBoot(c, l)'
      BY <1>0, <3>1 DEF KeepsBoot, TypeOK
    <3> QED BY <2>1, <2>3, <3>2 DEF Served
  <2>4. CASE d # c
    BY <2>1, <2>4 DEF KeepsBoot, TypeOK, Served
  <2> QED BY <2>2, <2>3, <2>4
<1> QED BY <1>1, <1>2, <1>3, <1>4, <1>5, <1>6, <1>7, <1>8

LEMMA EvictRemoveStep == ASSUME IInv, NEW c \in Conns, EvictRemove(c) PROVE IInv'
<1> USE NoneAssumption, PortAssumption DEF IInv, EvictRemove, Do, At, Idle, Reading, Tell, connVars, tables, lists, bootVars
<1>1. TypeOK'
  <2>1. task[c] \in Task
    BY DEF TypeOK
  <2>2. [task[c] EXCEPT !.op = "evictStop"] \in Task
    BY <2>1 DEF Task, OpenOps
  <2> QED BY <2>2 DEF TypeOK
<1>2. CallOK'
  BY DEF TypeOK, CallOK, Task, OpenOps, CloseOps
<1>3. RouteOK'
  BY DEF TypeOK, CallOK, RouteOK, Routed, KeepsName, Task, OpenOps, CloseOps
<1>4. StartOK'
  BY DEF TypeOK, CallOK, StartOK, ListOK, TakeDownOK, PortOK, Listed, StopOps, Task, OpenOps, CloseOps, BootFields
<1>5. TakeDownOK'
  BY SMTT(30) DEF TypeOK, CallOK, TakeDownOK, ListOK, StartOK, PortOK, Listed, StopOps, Task, OpenOps, CloseOps
<1>6. PortOK'
  BY DEF TypeOK, CallOK, PortOK, ListOK, StartOK, TakeDownOK, Listed, StopOps, Task, OpenOps, CloseOps, BootFields
<1>7. ListenOK'
  BY DEF TypeOK, CallOK, ListOK, StartOK, TakeDownOK, PortOK, ListenOK, Served, KeepsBoot, Task, OpenOps, CloseOps, BootFields
<1>8. ListOK'
  BY DEF ListOK, Listed, StopOps
<1> QED BY <1>1, <1>2, <1>3, <1>4, <1>5, <1>6, <1>7, <1>8

LEMMA EvictStopStep == ASSUME IInv, NEW c \in Conns, EvictStop(c) PROVE IInv'
<1> USE NoneAssumption, PortAssumption DEF IInv, EvictStop, Do, At, Idle, Reading, Tell, connVars, tables, lists, bootVars
<1>1. TypeOK'
  <2>1. task[c] \in Task
    BY DEF TypeOK
  <2>2. [task[c] EXCEPT !.op = "evictClose"] \in Task
    BY <2>1 DEF Task, OpenOps
  <2> QED BY <2>2 DEF TypeOK
<1>2. CallOK'
  BY DEF TypeOK, CallOK, Task, OpenOps, CloseOps
<1>3. RouteOK'
  BY DEF TypeOK, CallOK, RouteOK, Routed, KeepsName, Task, OpenOps, CloseOps
<1>4. StartOK'
  BY DEF TypeOK, CallOK, StartOK, ListOK, TakeDownOK, PortOK, Listed, StopOps, Task, OpenOps, CloseOps, BootFields
<1>5. TakeDownOK'
  BY DEF TypeOK, CallOK, TakeDownOK, ListOK, StartOK, PortOK, Listed, StopOps, Task, OpenOps, CloseOps
<1>6. PortOK'
  BY DEF TypeOK, CallOK, PortOK, ListOK, StartOK, TakeDownOK, Listed, StopOps, Task, OpenOps, CloseOps, BootFields
<1>7. ListenOK'
  BY DEF TypeOK, CallOK, ListOK, StartOK, TakeDownOK, PortOK, ListenOK, Served, KeepsBoot, Task, OpenOps, CloseOps, BootFields
<1>8. ListOK'
  BY DEF ListOK, Listed, StopOps
<1> QED BY <1>1, <1>2, <1>3, <1>4, <1>5, <1>6, <1>7, <1>8

LEMMA EvictCloseStep == ASSUME IInv, NEW c \in Conns, EvictClose(c) PROVE IInv'
<1> DEFINE d == boot[task[c].boot].channel
<1>1. chan[c] = "open" /\ task[c].op = "evictClose" /\ task[c].name \in Names
  BY DEF EvictClose, IInv, CallOK, OpenOps
<1>2. CASE d = c
  BY <1>1, <1>2, Inactive DEF EvictClose, CloseThenTell
<1>3. CASE d # c
  <2>1. /\ Do(c, Idle) /\ Tell(c, task[c].name, None)
        /\ closeReq' = [closeReq EXCEPT ![d] = chan[d] = "open"]
        /\ UNCHANGED <<chan, authed, tables, lists, bootVars>>
    BY <1>3 DEF EvictClose, CloseThenTell
  <2>2. closeReq' \in [Conns -> BOOLEAN]
    BY <2>1 DEF IInv, TypeOK
  <2> QED BY <1>1, <2>1, <2>2, Answer
<1> QED BY <1>2, <1>3

LEMMA RefuseNameStep ==
    ASSUME IInv, NEW c \in Conns, NEW n \in Names, RefuseName(c, n) PROVE IInv'
<1> DEFINE d == ROUTE_MAPPING[n]
<1>1. chan[c] = "open" /\ task[c].op = "idle" /\ UNCHANGED <<authed, tables, lists, bootVars>>
  BY DEF RefuseName, Reading
<1>2. CASE Tell(c, n, None) /\ UNCHANGED <<chan, closeReq, task>>
  BY <1>1, <1>2, Answer DEF IInv, TypeOK
<1>3. CASE CloseThenTell(c, d, n, None) /\ d = c
  BY <1>1, <1>3, Inactive DEF CloseThenTell
<1>4. CASE CloseThenTell(c, d, n, None) /\ d # c
  <2>1. /\ Do(c, Idle) /\ Tell(c, n, None) /\ UNCHANGED chan
        /\ closeReq' = [closeReq EXCEPT ![d] = chan[d] = "open"]
    BY <1>4 DEF CloseThenTell
  <2>2. closeReq' \in [Conns -> BOOLEAN]
    BY <2>1 DEF IInv, TypeOK
  <2> QED BY <1>1, <2>1, <2>2, Answer
<1> QED BY <1>2, <1>3, <1>4 DEF RefuseName

LEMMA RefusePortStep ==
    ASSUME IInv, NEW c \in Conns, NEW n \in Names, NEW p \in Ports, RefusePort(c, n, p)
    PROVE  IInv'
<1> DEFINE b == DYNAMIC_BOOT[p]
<1>1. /\ chan[c] = "open" /\ task[c].op = "idle" /\ b \in Boots /\ b \in Listed
      /\ UNCHANGED <<connVars, tables, lists, bootVars>>
  BY DEF RefusePort, Reading, IInv, TypeOK, PortOK
<1>2. CASE Tell(c, n, None) /\ UNCHANGED task
  BY <1>1, <1>2, Answer DEF IInv, TypeOK, connVars
<1>3. CASE Do(c, At("evictRemove", n, b, 0)) /\ UNCHANGED stateMap
  BY <1>1, <1>3, Begin
<1> QED BY <1>2, <1>3 DEF RefusePort

LEMMA CancelRouteStep == ASSUME IInv, NEW c \in Conns, CancelRoute(c) PROVE IInv'
<1> USE NoneAssumption, PortAssumption DEF IInv, CancelRoute, Do, At, Idle, Reading, Tell, connVars, tables, lists, bootVars
<1>1. TypeOK'
  BY DEF TypeOK, Task, OpenOps, CloseOps, BootFields
<1>2. CallOK'
  BY DEF TypeOK, CallOK, Task, OpenOps, CloseOps
<1>3. RouteOK'
  BY DEF TypeOK, CallOK, RouteOK, Routed, KeepsName, Task, OpenOps, CloseOps
<1>4. StartOK'
  BY DEF TypeOK, CallOK, StartOK, ListOK, TakeDownOK, PortOK, Listed, StopOps, Task, OpenOps, CloseOps, BootFields
<1>5. TakeDownOK'
  BY DEF TypeOK, CallOK, TakeDownOK, ListOK, StartOK, PortOK, Listed, StopOps, Task, OpenOps, CloseOps
<1>6. ListenOK'
  BY DEF TypeOK, CallOK, ListOK, StartOK, TakeDownOK, PortOK, ListenOK, Served, KeepsBoot, Task, OpenOps, CloseOps, BootFields
<1>7. ListOK' /\ PortOK'
  BY DEF ListOK, PortOK, Listed, StopOps
<1> QED BY <1>1, <1>2, <1>3, <1>4, <1>5, <1>6, <1>7

LEMMA CancelRemoveStep == ASSUME IInv, NEW c \in Conns, CancelRemove(c) PROVE IInv'
<1> USE NoneAssumption, PortAssumption DEF IInv, CancelRemove, Do, At, Idle, Reading, Tell, connVars, tables, lists, bootVars
<1>1. TypeOK'
  <2>1. task[c] \in Task
    BY DEF TypeOK
  <2>2. [task[c] EXCEPT !.op = "cancelStop"] \in Task
    BY <2>1 DEF Task, OpenOps
  <2> QED BY <2>2 DEF TypeOK
<1>2. CallOK'
  BY DEF TypeOK, CallOK, Task, OpenOps, CloseOps
<1>3. RouteOK'
  BY DEF TypeOK, CallOK, RouteOK, Routed, KeepsName, Task, OpenOps, CloseOps
<1>4. StartOK'
  BY DEF TypeOK, CallOK, StartOK, ListOK, TakeDownOK, PortOK, Listed, StopOps, Task, OpenOps, CloseOps, BootFields
<1>5. TakeDownOK'
  BY SMTT(30) DEF TypeOK, CallOK, TakeDownOK, ListOK, StartOK, PortOK, Listed, StopOps, Task, OpenOps, CloseOps
<1>6. PortOK'
  BY DEF TypeOK, CallOK, PortOK, ListOK, StartOK, TakeDownOK, Listed, StopOps, Task, OpenOps, CloseOps, BootFields
<1>7. ListenOK'
  BY DEF TypeOK, CallOK, ListOK, StartOK, TakeDownOK, PortOK, ListenOK, Served, KeepsBoot, Task, OpenOps, CloseOps, BootFields
<1>8. ListOK'
  BY DEF ListOK, Listed, StopOps
<1> QED BY <1>1, <1>2, <1>3, <1>4, <1>5, <1>6, <1>7, <1>8

LEMMA CancelStopStep == ASSUME IInv, NEW c \in Conns, CancelStop(c) PROVE IInv'
<1> USE NoneAssumption, PortAssumption DEF IInv, CancelStop, Do, At, Idle, Reading, Tell, connVars, tables, lists, bootVars
<1>1. TypeOK'
  BY DEF TypeOK, Task, OpenOps, CloseOps, BootFields
<1>2. CallOK'
  BY DEF TypeOK, CallOK, Task, OpenOps, CloseOps
<1>3. RouteOK'
  BY DEF TypeOK, CallOK, RouteOK, Routed, KeepsName, Task, OpenOps, CloseOps
<1>4. StartOK'
  BY DEF TypeOK, CallOK, StartOK, ListOK, TakeDownOK, PortOK, Listed, StopOps, Task, OpenOps, CloseOps, BootFields
<1>5. TakeDownOK'
  BY DEF TypeOK, CallOK, TakeDownOK, ListOK, StartOK, PortOK, Listed, StopOps, Task, OpenOps, CloseOps
<1>6. PortOK'
  BY DEF TypeOK, CallOK, PortOK, ListOK, StartOK, TakeDownOK, Listed, StopOps, Task, OpenOps, CloseOps, BootFields
<1>7. ListenOK'
  BY DEF TypeOK, CallOK, ListOK, StartOK, TakeDownOK, PortOK, ListenOK, Served, KeepsBoot, Task, OpenOps, CloseOps, BootFields
<1>8. ListOK'
  BY DEF ListOK, Listed, StopOps
<1> QED BY <1>1, <1>2, <1>3, <1>4, <1>5, <1>6, <1>7, <1>8

LEMMA DropRouteStep == ASSUME IInv, NEW c \in Conns, DropRoute(c) PROVE IInv'
<1> DEFINE i == task[c].pos
           names == REGISTER_CHANNEL[c]
<1>1. /\ chan[c] = "closed" /\ i \in Nat /\ i >= 1
      /\ task[c].op = "dropRoutes"
      /\ UNCHANGED <<connVars, DYNAMIC_BOOT, lists, bootVars, stateMap>>
  BY DEF DropRoute, IInv, TypeOK, CallOK, Task, CloseOps
<1>2. \/ /\ i \in DOMAIN names
         /\ ROUTE_MAPPING' = [ROUTE_MAPPING EXCEPT ![names[i]] = None]
         /\ task' = [task EXCEPT ![c] = At("dropRoutes", None, None, i + 1)]
      \/ /\ i > Len(names)
         /\ ROUTE_MAPPING' = ROUTE_MAPPING
         /\ task' = [task EXCEPT ![c] = At("dropBoots", None, None, 1)]
  BY <1>1, Places DEF DropRoute, Do, IInv
<1>3. PICK t \in Task :
          /\ task' = [task EXCEPT ![c] = t]
          /\ t.op \in {"dropRoutes", "dropBoots"} /\ t.pos >= 1
          /\ t.op = "dropRoutes" => /\ i \in DOMAIN names /\ t.pos = i + 1
                                    /\ ROUTE_MAPPING' = [ROUTE_MAPPING EXCEPT ![names[i]] = None]
          /\ t.op = "dropBoots" => i > Len(names) /\ t.pos = 1 /\ ROUTE_MAPPING' = ROUTE_MAPPING
  <2>1. /\ At("dropRoutes", None, None, i + 1) \in Task
        /\ At("dropBoots", None, None, 1) \in Task
    BY <1>1 DEF At, Task, CloseOps, OpenOps
  <2> QED BY <1>1, <1>2, <2>1 DEF At
<1> USE DEF connVars, lists, bootVars
<1>4. TypeOK'
  BY <1>1, <1>3 DEF IInv, TypeOK
<1>5. CallOK'
  BY <1>1, <1>3 DEF IInv, TypeOK, CallOK, OpenOps, CloseOps
<1>6. RouteOK'
  <2> SUFFICES ASSUME NEW n \in Names, ROUTE_MAPPING'[n] # None
               PROVE  Routed(n)'
    BY <1>1 DEF RouteOK
  <2> DEFINE d == ROUTE_MAPPING[n]
  <2>1. /\ d \in Conns /\ d = ROUTE_MAPPING'[n]
        /\ chan[d] \in {"open", "closed"} /\ KeepsName(d, n)
        /\ t.op = "dropRoutes" => n # names[i]
    BY <1>3 DEF IInv, TypeOK, RouteOK, Routed
  <2>2. CASE d = c
    <3>1. PICK j \in DOMAIN names : names[j] = n /\ i <= j
      BY <1>1, <2>1, <2>2 DEF KeepsName
    <3>2. t.op = "dropRoutes" /\ t.pos <= j
      BY <1>1, <1>3, <2>1, <3>1, Places DEF IInv
    <3>3. task'[c] = t
      BY <1>3 DEF IInv, TypeOK
    <3> QED BY <1>1, <2>1, <2>2, <3>1, <3>2, <3>3 DEF KeepsName, Routed
  <2>3. CASE d # c
    BY <1>1, <1>3, <2>1, <2>3 DEF IInv, TypeOK, KeepsName, Routed
  <2> QED BY <2>2, <2>3
<1>7. ListOK' /\ Listed' = Listed
  BY <1>1 DEF IInv, ListOK, Listed
<1>8. StartOK' /\ TakeDownOK' /\ PortOK'
  BY <1>1, <1>3, <1>7 DEF IInv, TypeOK, StartOK, TakeDownOK, StopOps, PortOK
<1>9. ListenOK'
  <2> SUFFICES ASSUME NEW b \in listening
               PROVE  Served(b)'
    BY <1>1 DEF ListenOK
  <2> DEFINE d == boot[b].channel
  <2>1. /\ boot[b] # None /\ d \in Conns /\ chan[d] \in {"open", "closed"}
        /\ (task[d].op = "publish" /\ task[d].boot = b) \/ KeepsBoot(d, b)
    BY DEF IInv, TypeOK, ListenOK, Served, BootFields
  <2>2. CASE d = c
    <3>1. task'[c] = t /\ KeepsBoot(c, b)
      BY <1>1, <1>3, <2>1, <2>2 DEF IInv, TypeOK
    <3> QED BY <1>1, <1>3, <2>1, <2>2, <3>1, Places DEF IInv, KeepsBoot, Served
  <2>3. CASE d # c
    BY <1>1, <1>3, <2>1, <2>3 DEF IInv, TypeOK, KeepsBoot, Served
  <2> QED BY <2>2, <2>3
<1> QED BY <1>4, <1>5, <1>6, <1>7, <1>8, <1>9 DEF IInv

LEMMA DropBootStep == ASSUME IInv, NEW c \in Conns, DropBoot(c) PROVE IInv'
<1> USE NoneAssumption, PortAssumption DEF IInv, DropBoot, Do, At, Idle, Reading, Tell, connVars, tables, lists, bootVars
<1>1. TypeOK'
  <2>1. At("stopBoot", None, CHANNEL_DYNAMIC_BOOT[c][task[c].pos], task[c].pos) \in Task
    BY Places DEF TypeOK, Task, CallOK, CloseOps
  <2> QED BY <2>1 DEF TypeOK
<1>2. CallOK'
  BY DEF TypeOK, CallOK, Task, OpenOps, CloseOps
<1>3. RouteOK'
  BY DEF TypeOK, CallOK, RouteOK, Routed, KeepsName, Task, OpenOps, CloseOps
<1>4. StartOK'
  BY DEF TypeOK, CallOK, StartOK, ListOK, TakeDownOK, PortOK, Listed, StopOps, Task, OpenOps, CloseOps, BootFields
<1>5. TakeDownOK'
  BY DEF TypeOK, CallOK, TakeDownOK, ListOK, StartOK, PortOK, Listed, StopOps, Task, OpenOps, CloseOps
<1>6. PortOK'
  BY SMTT(30) DEF TypeOK, CallOK, PortOK, ListOK, StartOK, TakeDownOK, Listed, StopOps, Task, OpenOps, CloseOps, BootFields
<1>7. ListenOK'
  BY DEF TypeOK, CallOK, ListOK, StartOK, TakeDownOK, PortOK, ListenOK, Served, KeepsBoot, Task, OpenOps, CloseOps, BootFields
<1>8. ListOK'
  BY DEF ListOK, Listed, StopOps
<1> QED BY <1>1, <1>2, <1>3, <1>4, <1>5, <1>6, <1>7, <1>8

LEMMA StopBootStep == ASSUME IInv, NEW c \in Conns, StopBoot(c) PROVE IInv'
<1> USE NoneAssumption, PortAssumption DEF IInv, StopBoot, Do, At, Idle, Reading, Tell, connVars, tables, lists, bootVars
<1>1. TypeOK'
  BY DEF TypeOK, Task, OpenOps, CloseOps, BootFields
<1>2. CallOK'
  BY DEF TypeOK, CallOK, Task, OpenOps, CloseOps
<1>3. RouteOK'
  BY DEF TypeOK, CallOK, RouteOK, Routed, KeepsName, Task, OpenOps, CloseOps
<1>4. StartOK'
  BY DEF TypeOK, CallOK, StartOK, ListOK, TakeDownOK, PortOK, Listed, StopOps, Task, OpenOps, CloseOps, BootFields
<1>5. TakeDownOK'
  BY DEF TypeOK, CallOK, TakeDownOK, ListOK, StartOK, PortOK, Listed, StopOps, Task, OpenOps, CloseOps
<1>6. PortOK'
  BY DEF TypeOK, CallOK, PortOK, ListOK, StartOK, TakeDownOK, Listed, StopOps, Task, OpenOps, CloseOps, BootFields
<1>7. ListenOK'
  BY DEF TypeOK, CallOK, ListOK, StartOK, TakeDownOK, PortOK, ListenOK, Served, KeepsBoot, Task, OpenOps, CloseOps, BootFields
<1>8. ListOK'
  BY DEF ListOK, Listed, StopOps
<1> QED BY <1>1, <1>2, <1>3, <1>4, <1>5, <1>6, <1>7, <1>8

LEMMA GoneStep == ASSUME IInv, NEW c \in Conns, Gone(c) PROVE IInv'
<1> USE NoneAssumption, PortAssumption DEF IInv, Gone, Do, At, Idle, Reading, Tell, connVars, tables, lists, bootVars
<1>1. TypeOK'
  BY DEF TypeOK, Task, OpenOps, CloseOps, BootFields
<1>2. CallOK'
  BY DEF TypeOK, CallOK, Task, OpenOps, CloseOps
<1>3. RouteOK'
  BY DEF TypeOK, CallOK, RouteOK, Routed, KeepsName, Task, OpenOps, CloseOps
<1>4. StartOK'
  BY DEF TypeOK, CallOK, StartOK, ListOK, TakeDownOK, PortOK, Listed, StopOps, Task, OpenOps, CloseOps, BootFields
<1>5. TakeDownOK'
  BY DEF TypeOK, CallOK, TakeDownOK, ListOK, StartOK, PortOK, Listed, StopOps, Task, OpenOps, CloseOps
<1>6. ListenOK'
  BY DEF TypeOK, CallOK, ListOK, StartOK, TakeDownOK, PortOK, ListenOK, Served, KeepsBoot, Task, OpenOps, CloseOps, BootFields
<1>7. ListOK' /\ PortOK'
  BY DEF ListOK, PortOK, Listed, StopOps
<1> QED BY <1>1, <1>2, <1>3, <1>4, <1>5, <1>6, <1>7

-----------------------------------------------------------------------------
LEMMA InitInv == Init => IInv
<1> SUFFICES ASSUME Init PROVE IInv
  OBVIOUS
<1> USE DEF Init
<1>1. TypeOK
  BY DEF TypeOK, Idle, At, Task, OpenOps, Unregistered
<1>2. CallOK
  BY DEF CallOK, Idle, At, OpenOps, CloseOps
<1>3. RouteOK /\ PortOK /\ ListenOK
  BY DEF RouteOK, PortOK, ListenOK
<1>4. ListOK
  BY DEF ListOK
<1>5. StartOK /\ TakeDownOK
  BY DEF StartOK, TakeDownOK, Idle, At, StopOps
<1> QED BY <1>1, <1>2, <1>3, <1>4, <1>5 DEF IInv

LEMMA NextInv == IInv /\ [Next]_vars => IInv'
<1> SUFFICES ASSUME IInv, [Next]_vars PROVE IInv'
  OBVIOUS
<1>1. CASE UNCHANGED vars
  BY <1>1, Stutter
<1>2. ASSUME NEW c \in Conns, Continue(c)
      PROVE  IInv'
  <2>1. CASE BindFails(c)
    <3>1. /\ chan[c] = "open" /\ task[c].op = "bind" /\ task[c].name \in Names
          /\ Do(c, Idle) /\ UNCHANGED <<connVars, tables, lists, bootVars, stateMap>>
      BY <2>1 DEF BindFails, IInv, CallOK, OpenOps
    <3> QED BY <3>1, Answer DEF IInv, TypeOK, connVars
  <2> QED BY <1>2, <2>1, PutRouteStep, BindStep, PublishStep, EvictRemoveStep, EvictStopStep,
             EvictCloseStep, CancelRouteStep, CancelRemoveStep, CancelStopStep,
             DropRouteStep, DropBootStep, StopBootStep, GoneStep DEF Continue
<1>3. ASSUME NEW c \in Conns, Receive(c)
      PROVE  IInv'
  <2>1. CASE PeerCloses(c)
    BY <2>1, Inactive DEF PeerCloses
  <2>2. ASSUME NEW n \in Names, RegisterDefaultPort(c, n) \/ CancelFindsRoute(c, n)
        PROVE  IInv'
    BY <2>2, Begin DEF RegisterDefaultPort, CancelFindsRoute, Reading
  <2>3. ASSUME NEW n \in Names, CancelFindsNothing(c, n)
        PROVE  IInv'
    BY <2>3, Answer DEF CancelFindsNothing, Reading, connVars, IInv, TypeOK
  <2>4. ASSUME NEW n \in Names, NEW i \in DOMAIN CHANNEL_DYNAMIC_BOOT[c],
               CancelFindsBoot(c, n, i)
        PROVE  IInv'
    <3>1. CHANNEL_DYNAMIC_BOOT[c][i] \in Boots \cap Listed
      BY Places DEF IInv, Listed
    <3> QED BY <2>4, <3>1, Begin DEF CancelFindsBoot, Reading
  <2> QED BY <1>3, <2>1, <2>2, <2>3, <2>4, ChannelActiveStep, AuthenticateStep,
             RefuseNameStep, RefusePortStep, RegisterNewPortStep DEF Receive
<1> QED BY <1>1, <1>2, <1>3 DEF Next

LEMMA Inductive == Spec => []IInv
BY InitInv, NextInv, PTL DEF Spec

\* Every reachable state has the types of TypeOK.
THEOREM TypeCorrect == Spec => []TypeOK
<1>1. IInv => TypeOK
  BY DEF IInv
<1> QED BY <1>1, Inductive, PTL

\* No route leads to a connection whose channelInactive is over, however many
\* clients register, cancel and leave, and in whatever order their steps come.
THEOREM RoutesNeverDangle == Spec => []NoDanglingRoute
<1>1. IInv => NoDanglingRoute
  BY DEF IInv, RouteOK, Routed, NoDanglingRoute
<1> QED BY <1>1, Inductive, PTL

\* Every entry of DYNAMIC_BOOT leads to a boot that is bound to that port and
\* whose client connection is not gone.
THEOREM PublishedBootsServe == Spec => []PublishedBootServes
<1>1. IInv => PublishedBootServes
  BY DEF IInv, PortOK, ListenOK, Served, PublishedBootServes
<1> QED BY <1>1, Inductive, PTL

\* No port stays bound for a client whose teardown is over.
THEOREM ListenersHaveOwners == Spec => []NoOwnerlessListener
<1>1. IInv => NoOwnerlessListener
  BY DEF IInv, ListenOK, Served, NoOwnerlessListener
<1> QED BY <1>1, Inductive, PTL
=============================================================================
