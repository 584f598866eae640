------------------------ MODULE RegistryPrivateProofs ------------------------
(***************************************************************************)
(* Proofs about Registry for clients whose mappings are kept apart: what   *)
(* a client was told about its registrations stays true.  Without such a   *)
(* hypothesis it does not (registry_told_route is the counterexample), so  *)
(* the two theorems name what they need: no name, or no port, is in the    *)
(* mappings of two connections that are present at once.  A client may     *)
(* reconnect with its names, as often as it likes, when the teardown of    *)
(* its old connection is over; before, that teardown takes the routes of   *)
(* the new connection (RegisterHandler 141).                               *)
(***************************************************************************)
EXTENDS RegistryProofs

NameOps == {"putRoute", "cancelRoute", "bind", "publish"}

\* A connection handles, keeps and was told about its own names only; a
\* client that is not connected was told nothing.
OwnNames(c) ==
    /\ task[c].op \in NameOps => task[c].name \in ConfigNames(c)
    /\ \A i \in DOMAIN REGISTER_CHANNEL[c] : REGISTER_CHANNEL[c][i] \in ConfigNames(c)
    /\ \A n \in Names :
         stateMap[c][n] # None => chan[c] = "open" /\ n \in ConfigNames(c)

NamesOK == \A c \in Conns : OwnNames(c)

\* A boot has the name and the port of a mapping of its connection.
BootsOK ==
    \A b \in Boots : boot[b] # None =>
        <<boot[b].registerName, boot[b].port>> \in Config[boot[b].channel]

EvictOps == {"evictRemove", "evictStop", "evictClose"}

\* The boot that a handler call t of c works on is c's own, and unless it is
\* evicted it has the name that the request is about.
OnOwnBoot(c, t) ==
    /\ t.op \in {"bind", "publish", "cancelRemove", "cancelStop"} =>
           boot[t.boot].channel = c /\ boot[t.boot].registerName = t.name
    /\ t.op \in EvictOps => boot[t.boot].channel = c

CallsOK == \A c \in Conns : OnOwnBoot(c, task[c])

\* A port that a client was told is open has a boot that was started for that
\* very name, or the connection has stopped it and is about to close.
ServedAt(c, n) ==
    \/ task[c].op = "evictClose"
    \/ \E b \in listening :
          /\ boot[b] # None
          /\ boot[b].channel = c
          /\ boot[b].port = stateMap[c][n]
          /\ boot[b].registerName = n

ServedOK == \A c \in Conns, n \in Names : stateMap[c][n] \in Ports => ServedAt(c, n)
-----------------------------------------------------------------------------
(* Names *)

\* A step of c changes nothing that another connection keeps or was told.
LeavesOthers(c) ==
    \A d \in Conns \ {c} :
        /\ task'[d] = task[d] /\ chan'[d] = chan[d]
        /\ REGISTER_CHANNEL'[d] = REGISTER_CHANNEL[d]
        /\ stateMap'[d] = stateMap[d]

\* A step of c moves routes while c is present, of c's own names only, and never
\* one of which c still believes that it leads home.
MovesOwnRoutes(c) ==
    \A n \in Names :
        \/ ROUTE_MAPPING'[n] = ROUTE_MAPPING[n]
        \/ /\ Present(c) /\ n \in ConfigNames(c)
           /\ ROUTE_MAPPING'[n] = c \/ stateMap'[c][n] # HttpPort

\* c is told that a name is on the default port only when the route is there.
TellsRoutes(c) ==
    \A n \in Names :
        stateMap'[c][n] = HttpPort => stateMap[c][n] = HttpPort \/ ROUTE_MAPPING'[n] = c

NamesEffect(c) ==
    LeavesOthers(c) /\ OwnNames(c)' /\ MovesOwnRoutes(c) /\ TellsRoutes(c)

\* The steps of c that touch neither its list nor a route, and tell c that
\* nothing is registered if they tell it anything.
LEMMA NamesQuiet ==
    ASSUME IInv, NamesOK, NEW c \in Conns, NEW t \in Task,
           task' = task \/ task' = [task EXCEPT ![c] = t],
           t.op \in NameOps => t.name \in ConfigNames(c),
           stateMap' = stateMap \/ \E n \in Names : Tell(c, n, None),
           \A d \in Conns : chan'[d] = chan[d] \/ (d = c /\ chan[c] # "open"),
           UNCHANGED <<ROUTE_MAPPING, REGISTER_CHANNEL>>
    PROVE  NamesEffect(c)
<1>1. /\ \A d \in Conns \ {c} : task'[d] = task[d] /\ stateMap'[d] = stateMap[d]
      /\ task'[c] = task[c] \/ task'[c] = t
  BY DEF IInv, TypeOK, Tell
<1>2. \A n \in Names : stateMap'[c][n] = stateMap[c][n] \/ stateMap'[c][n] = None
  BY DEF IInv, TypeOK, Tell
<1>3. LeavesOthers(c)
  BY <1>1 DEF LeavesOthers
<1>4. OwnNames(c)'
  <2>1. ConfigNames(c)' = ConfigNames(c)
    BY DEF ConfigNames
  <2> QED BY <1>1, <1>2, <2>1 DEF NamesOK, OwnNames
<1>5. MovesOwnRoutes(c) /\ TellsRoutes(c)
  BY <1>2, NoneAssumption DEF MovesOwnRoutes, TellsRoutes
<1> QED BY <1>3, <1>4, <1>5 DEF NamesEffect

LEMMA NamesInactive ==
    ASSUME IInv, NamesOK, NEW c \in Conns, GoInactive(c),
           UNCHANGED <<ROUTE_MAPPING, REGISTER_CHANNEL>>
    PROVE  NamesEffect(c)
<1>1. /\ \A d \in Conns \ {c} : task'[d] = task[d] /\ stateMap'[d] = stateMap[d] /\ chan'[d] = chan[d]
      /\ task'[c].op = "dropRoutes"
      /\ \A n \in Names : stateMap'[c][n] = None
  BY DEF IInv, TypeOK, GoInactive, Do, ChannelInactive, At, Unregistered
<1>2. LeavesOthers(c)
  BY <1>1 DEF LeavesOthers
<1>3. OwnNames(c)'
  BY <1>1 DEF NamesOK, OwnNames, NameOps, ConfigNames
<1>4. MovesOwnRoutes(c) /\ TellsRoutes(c)
  BY <1>1, NoneAssumption DEF MovesOwnRoutes, TellsRoutes
<1> QED BY <1>2, <1>3, <1>4 DEF NamesEffect

LEMMA NamesPutRoute ==
    ASSUME IInv, NamesOK, NEW c \in Conns, PutRoute(c)
    PROVE  NamesEffect(c)
<1> DEFINE name == task[c].name
           names == REGISTER_CHANNEL[c]
<1>1. /\ name \in Names /\ name \in ConfigNames(c) /\ chan[c] = "open"
      /\ names \in Seq(Names)
  BY DEF PutRoute, IInv, TypeOK, CallOK, OpenOps, NamesOK, OwnNames, NameOps
<1>2. /\ \A d \in Conns \ {c} : /\ task'[d] = task[d] /\ stateMap'[d] = stateMap[d]
                                /\ REGISTER_CHANNEL'[d] = REGISTER_CHANNEL[d]
      /\ chan' = chan
      /\ task'[c].op = "idle"
      /\ REGISTER_CHANNEL'[c] = Append(names, name)
      /\ ROUTE_MAPPING'[name] = c
      /\ \A n \in Names \ {name} : /\ ROUTE_MAPPING'[n] = ROUTE_MAPPING[n]
                                   /\ stateMap'[c][n] = stateMap[c][n]
  BY <1>1 DEF PutRoute, Do, Tell, Idle, At, connVars, IInv, TypeOK
<1>3. \A i \in DOMAIN Append(names, name) : Append(names, name)[i] \in ConfigNames(c)
  BY <1>1, Lengthen DEF NamesOK, OwnNames
<1>4. LeavesOthers(c)
  BY <1>2 DEF LeavesOthers
<1>5. OwnNames(c)'
  <2>1. ConfigNames(c)' = ConfigNames(c)
    BY DEF ConfigNames
  <2> QED BY <1>1, <1>2, <1>3, <2>1 DEF NamesOK, OwnNames, NameOps
<1>6. MovesOwnRoutes(c) /\ TellsRoutes(c)
  BY <1>1, <1>2 DEF MovesOwnRoutes, TellsRoutes, Present
<1> QED BY <1>4, <1>5, <1>6 DEF NamesEffect

LEMMA NamesCancelRoute ==
    ASSUME IInv, NamesOK, NEW c \in Conns, CancelRoute(c)
    PROVE  NamesEffect(c)
<1> DEFINE name == task[c].name
<1>1. name \in Names /\ name \in ConfigNames(c) /\ chan[c] = "open"
  BY DEF CancelRoute, IInv, CallOK, OpenOps, NamesOK, OwnNames, NameOps
<1>2. /\ \A d \in Conns \ {c} : task'[d] = task[d] /\ stateMap'[d] = stateMap[d]
      /\ UNCHANGED <<chan, REGISTER_CHANNEL>>
      /\ task'[c].op = "idle"
      /\ stateMap'[c][name] = None
      /\ \A n \in Names \ {name} : /\ ROUTE_MAPPING'[n] = ROUTE_MAPPING[n]
                                   /\ stateMap'[c][n] = stateMap[c][n]
  BY <1>1 DEF CancelRoute, Do, Tell, Idle, At, connVars, lists, IInv, TypeOK
<1>3. LeavesOthers(c)
  BY <1>2 DEF LeavesOthers
<1>4. OwnNames(c)'
  <2>1. ConfigNames(c)' = ConfigNames(c)
    BY DEF ConfigNames
  <2> QED BY <1>2, <2>1 DEF NamesOK, OwnNames, NameOps
<1>5. MovesOwnRoutes(c) /\ TellsRoutes(c)
  BY <1>1, <1>2, NoneAssumption DEF MovesOwnRoutes, TellsRoutes, Present
<1> QED BY <1>3, <1>4, <1>5 DEF NamesEffect

LEMMA NamesPublish ==
    ASSUME IInv, NamesOK, NEW c \in Conns, Publish(c)
    PROVE  NamesEffect(c)
<1> DEFINE name == task[c].name
           port == boot[task[c].boot].port
<1>1. /\ name \in Names /\ name \in ConfigNames(c) /\ chan[c] = "open"
      /\ port \in Ports
  BY DEF Publish, IInv, TypeOK, CallOK, StartOK, OpenOps, BootFields, NamesOK, OwnNames, NameOps
<1>2. /\ \A d \in Conns \ {c} : task'[d] = task[d] /\ stateMap'[d] = stateMap[d]
      /\ UNCHANGED <<chan, REGISTER_CHANNEL, ROUTE_MAPPING>>
      /\ task'[c].op = "idle"
      /\ stateMap'[c][name] = port
      /\ \A n \in Names \ {name} : stateMap'[c][n] = stateMap[c][n]
  BY <1>1 DEF Publish, Do, Tell, Idle, At, connVars, IInv, TypeOK
<1>3. LeavesOthers(c)
  BY <1>2 DEF LeavesOthers
<1>4. OwnNames(c)'
  <2>1. ConfigNames(c)' = ConfigNames(c)
    BY DEF ConfigNames
  <2> QED BY <1>1, <1>2, <2>1 DEF NamesOK, OwnNames, NameOps
<1>5. MovesOwnRoutes(c) /\ TellsRoutes(c)
  BY <1>1, <1>2, PortAssumption DEF MovesOwnRoutes, TellsRoutes
<1> QED BY <1>3, <1>4, <1>5 DEF NamesEffect

\* The routes that channelInactive drops are of the connection's own names,
\* and its client believes in none of them any more.
LEMMA NamesDropRoute ==
    ASSUME IInv, NamesOK, NEW c \in Conns, DropRoute(c)
    PROVE  NamesEffect(c)
<1> DEFINE i == task[c].pos
           names == REGISTER_CHANNEL[c]
<1>1. /\ chan[c] = "closed" /\ i \in Nat /\ i >= 1
      /\ \A n \in Names : stateMap[c][n] = None
  BY DEF DropRoute, IInv, TypeOK, CallOK, Task, CloseOps, NamesOK, OwnNames
<1>2. /\ \A d \in Conns \ {c} : task'[d] = task[d]
      /\ UNCHANGED <<chan, REGISTER_CHANNEL, stateMap>>
      /\ task'[c].op \in {"dropRoutes", "dropBoots"}
  BY DEF DropRoute, Do, At, connVars, lists, IInv, TypeOK
<1>3. \/ ROUTE_MAPPING' = ROUTE_MAPPING
      \/ /\ i \in DOMAIN names
         /\ ROUTE_MAPPING' = [ROUTE_MAPPING EXCEPT ![names[i]] = None]
  BY <1>1, Places DEF DropRoute, IInv
<1>4. LeavesOthers(c)
  BY <1>2 DEF LeavesOthers
<1>5. OwnNames(c)'
  <2>1. ConfigNames(c)' = ConfigNames(c)
    BY DEF ConfigNames
  <2> QED BY <1>1, <1>2, <2>1 DEF NamesOK, OwnNames, NameOps
<1>6. MovesOwnRoutes(c)
  <2> SUFFICES ASSUME NEW n \in Names, ROUTE_MAPPING'[n] # ROUTE_MAPPING[n]
               PROVE  n \in ConfigNames(c) /\ stateMap'[c][n] # HttpPort
    BY <1>1 DEF MovesOwnRoutes, Present
  <2>1. i \in DOMAIN names /\ n = names[i]
    BY <1>3 DEF IInv, TypeOK
  <2> QED BY <1>1, <1>2, <2>1, NoneAssumption DEF NamesOK, OwnNames
<1>7. TellsRoutes(c)
  BY <1>2 DEF TellsRoutes
<1> QED BY <1>4, <1>5, <1>6, <1>7 DEF NamesEffect
LEMMA NamesReceive ==
    ASSUME IInv, NamesOK, NEW c \in Conns, Receive(c)
    PROVE  NamesEffect(c)
<1> USE DEF NameOps, At, Idle, Do, connVars, tables, lists, bootVars
<1>0. Idle \in Task /\ Idle.op = "idle"
  BY DEF Task, OpenOps
<1>1. CASE ChannelActive(c)
  BY <1>0, <1>1, NamesQuiet DEF ChannelActive, IInv, TypeOK
<1>2. CASE Authenticate(c)
  BY <1>0, <1>2, NamesQuiet DEF Authenticate
<1>3. CASE PeerCloses(c)
  BY <1>3, NamesInactive DEF PeerCloses
<1>4. ASSUME NEW n \in Names, RegisterDefaultPort(c, n) \/ CancelFindsRoute(c, n)
      PROVE  NamesEffect(c)
  <2>1. PICK o \in {"putRoute", "cancelRoute"} : task' = [task EXCEPT ![c] = At(o, n, None, 0)]
    BY <1>4 DEF RegisterDefaultPort, CancelFindsRoute
  <2>2. n \in ConfigNames(c)
    BY <1>4 DEF RegisterDefaultPort, CancelFindsRoute, ConfigNames
  <2>3. At(o, n, None, 0) \in Task
    BY DEF Task, OpenOps
  <2>4. UNCHANGED <<chan, stateMap, ROUTE_MAPPING, REGISTER_CHANNEL>>
    BY <1>4 DEF RegisterDefaultPort, CancelFindsRoute
  <2> QED BY <2>1, <2>2, <2>3, <2>4, NamesQuiet
<1>5. ASSUME NEW n \in Names, RefuseName(c, n)
      PROVE  NamesEffect(c)
  <2>1. CASE Tell(c, n, None) /\ UNCHANGED <<chan, closeReq, task>>
    BY <1>0, <1>5, <2>1, NamesQuiet DEF RefuseName
  <2>2. CASE CloseThenTell(c, ROUTE_MAPPING[n], n, None) /\ ROUTE_MAPPING[n] = c
    BY <1>5, <2>2, NamesInactive DEF RefuseName, CloseThenTell
  <2>3. CASE CloseThenTell(c, ROUTE_MAPPING[n], n, None) /\ ROUTE_MAPPING[n] # c
    BY <1>0, <1>5, <2>3, NamesQuiet DEF RefuseName, CloseThenTell
  <2> QED BY <1>5, <2>1, <2>2, <2>3 DEF RefuseName
<1>6. ASSUME NEW n \in Names, NEW p \in Ports, RefusePort(c, n, p)
      PROVE  NamesEffect(c)
  <2> DEFINE b == DYNAMIC_BOOT[p]
  <2>1. CASE Tell(c, n, None) /\ UNCHANGED task
    BY <1>0, <1>6, <2>1, NamesQuiet DEF RefusePort
  <2>2. CASE Do(c, At("evictRemove", n, b, 0)) /\ UNCHANGED stateMap
    <3>1. At("evictRemove", n, b, 0) \in Task
      BY DEF IInv, TypeOK, Task, OpenOps
    <3> QED BY <1>6, <2>2, <3>1, NamesQuiet DEF RefusePort
  <2> QED BY <1>6, <2>1, <2>2 DEF RefusePort
<1>7. ASSUME NEW n \in Names, NEW p \in Ports, NEW b \in Boots, RegisterNewPort(c, n, p, b)
      PROVE  NamesEffect(c)
  <2>1. n \in ConfigNames(c)
    BY <1>7 DEF RegisterNewPort, ConfigNames
  <2>2. At("bind", n, b, 0) \in Task
    BY DEF Task, OpenOps
  <2> QED BY <1>7, <2>1, <2>2, NamesQuiet DEF RegisterNewPort
<1>8. ASSUME NEW n \in Names, CancelFindsNothing(c, n)
      PROVE  NamesEffect(c)
  BY <1>0, <1>8, NamesQuiet DEF CancelFindsNothing
<1>9. ASSUME NEW n \in Names, NEW i \in DOMAIN CHANNEL_DYNAMIC_BOOT[c],
             CancelFindsBoot(c, n, i)
      PROVE  NamesEffect(c)
  <2>1. At("cancelRemove", n, CHANNEL_DYNAMIC_BOOT[c][i], 0) \in Task
    BY Places DEF IInv, Task, OpenOps
  <2> QED BY <1>9, <2>1, NamesQuiet DEF CancelFindsBoot
<1> QED BY <1>1, <1>2, <1>3, <1>4, <1>5, <1>6, <1>7, <1>8, <1>9 DEF Receive

LEMMA NamesContinue ==
    ASSUME IInv, NamesOK, NEW c \in Conns, Continue(c)
    PROVE  NamesEffect(c)
<1> USE DEF NameOps, At, Do, connVars, tables, lists, bootVars
<1>0. Idle \in Task /\ Idle.op = "idle"
  BY DEF Idle, Task, OpenOps
<1>1. task[c] \in Task
  BY DEF IInv, TypeOK
<1>2. CASE Bind(c)
  <2>1. /\ task[c].name \in Names /\ task[c].name \in ConfigNames(c)
        /\ At("publish", task[c].name, task[c].boot, 0) \in Task
    BY <1>1, <1>2 DEF Bind, IInv, CallOK, OpenOps, Task, NamesOK, OwnNames
  <2> QED BY <1>2, <2>1, NamesQuiet DEF Bind
<1>3. CASE BindFails(c)
  BY <1>0, <1>3, NamesQuiet DEF BindFails
<1>4. CASE EvictRemove(c) \/ EvictStop(c) \/ CancelRemove(c)
  <2>1. PICK o \in {"evictStop", "evictClose", "cancelStop"} :
            task' = [task EXCEPT ![c] = [task[c] EXCEPT !.op = o]]
    BY <1>4 DEF EvictRemove, EvictStop, CancelRemove
  <2>2. [task[c] EXCEPT !.op = o] \in Task /\ [task[c] EXCEPT !.op = o].op = o
    BY <1>1 DEF Task, OpenOps
  <2>3. UNCHANGED <<chan, stateMap, ROUTE_MAPPING, REGISTER_CHANNEL>>
    BY <1>4 DEF EvictRemove, EvictStop, CancelRemove
  <2> QED BY <2>1, <2>2, <2>3, NamesQuiet
<1>5. CASE EvictClose(c)
  <2> DEFINE d == boot[task[c].boot].channel
  <2>1. task[c].name \in Names
    BY <1>5 DEF EvictClose, IInv, CallOK, OpenOps
  <2>2. CASE d = c
    BY <1>5, <2>2, NamesInactive DEF EvictClose, CloseThenTell
  <2>3. CASE d # c
    BY <1>0, <1>5, <2>1, <2>3, NamesQuiet DEF EvictClose, CloseThenTell
  <2> QED BY <2>2, <2>3
<1>6. CASE CancelStop(c)
  <2>1. task[c].name \in Names
    BY <1>6 DEF CancelStop, IInv, CallOK, OpenOps
  <2> QED BY <1>0, <1>6, <2>1, NamesQuiet DEF CancelStop
<1>7. CASE DropBoot(c)
  <2>1. At("stopBoot", None, CHANNEL_DYNAMIC_BOOT[c][task[c].pos], task[c].pos) \in Task
    BY <1>7, Places DEF DropBoot, IInv, TypeOK, Task, CallOK, CloseOps
  <2> QED BY <1>7, <2>1, NamesQuiet DEF DropBoot
<1>8. CASE StopBoot(c)
  <2>1. At("dropBoots", None, None, task[c].pos + 1) \in Task
    BY <1>1 DEF Task, CloseOps
  <2> QED BY <1>8, <2>1, NamesQuiet DEF StopBoot
<1>9. CASE Gone(c)
  <2>1. chan[c] # "open"
    BY <1>9 DEF Gone, IInv, CallOK, CloseOps
  <2>2. \A d \in Conns : chan'[d] = chan[d] \/ d = c
    BY <1>9 DEF Gone, IInv, TypeOK
  <2> QED BY <1>0, <1>9, <2>1, <2>2, NamesQuiet DEF Gone
<1> QED BY <1>2, <1>3, <1>4, <1>5, <1>6, <1>7, <1>8, <1>9,
           NamesPutRoute, NamesCancelRoute, NamesPublish, NamesDropRoute DEF Continue

LEMMA NamesInit == Init => NamesOK /\ ToldRouteLeadsHome
<1> SUFFICES ASSUME Init PROVE NamesOK /\ ToldRouteLeadsHome
  OBVIOUS
<1> USE DEF Init, Unregistered
<1>1. NamesOK
  <2> SUFFICES ASSUME NEW c \in Conns PROVE OwnNames(c)
    BY DEF NamesOK
  <2>1. task[c].op = "idle" /\ DOMAIN REGISTER_CHANNEL[c] = {}
    BY DEF Idle, At
  <2>2. \A n \in Names : stateMap[c][n] = None
    OBVIOUS
  <2> QED BY <2>1, <2>2 DEF OwnNames, NameOps
<1>2. ToldRouteLeadsHome
  BY NoneAssumption DEF ToldRouteLeadsHome
<1> QED BY <1>1, <1>2

LEMMA NamesNext == IInv /\ NamesOK /\ [Next]_vars => NamesOK'
<1> SUFFICES ASSUME IInv, NamesOK, [Next]_vars PROVE NamesOK'
  OBVIOUS
<1>1. CASE UNCHANGED vars
  BY <1>1 DEF NamesOK, OwnNames, ConfigNames, vars, connVars, lists
<1>2. ASSUME NEW c \in Conns, Receive(c) \/ Continue(c)
      PROVE  NamesOK'
  <2>1. NamesEffect(c)
    BY <1>2, NamesReceive, NamesContinue
  <2>2. OwnNames(c)'
    BY <2>1 DEF NamesEffect
  <2>3. ASSUME NEW d \in Conns, d # c
        PROVE  OwnNames(d)'
    BY <2>1, <2>3 DEF NamesEffect, LeavesOthers, NamesOK, OwnNames, ConfigNames
  <2> QED BY <2>2, <2>3 DEF NamesOK
<1> QED BY <1>1, <1>2 DEF Next

LEMMA NamesKept == Spec => []NamesOK
<1>1. Init => NamesOK
  BY NamesInit
<1> QED BY <1>1, Inductive, NamesNext, PTL DEF Spec

\* When no two connections that are present at once map the same name, a client
\* that was told its name is registered, and is still connected, is the one the
\* name leads to: what the teardowns and cancellations of other clients, and of
\* its own earlier connections, remove is never that route.
THEOREM ToldRoutesLeadHome == Spec /\ []NamesInTurn => []ToldRouteLeadsHome
<1>1. NamesInTurn /\ NamesOK /\ IInv /\ ToldRouteLeadsHome /\ [Next]_vars
          => ToldRouteLeadsHome'
  <2> SUFFICES ASSUME NamesInTurn, NamesOK, IInv, ToldRouteLeadsHome, [Next]_vars,
                      NEW d \in Conns, NEW n \in Names,
                      chan'[d] = "open", stateMap'[d][n] = HttpPort
               PROVE  ROUTE_MAPPING'[n] = d
    BY DEF ToldRouteLeadsHome
  <2>1. CASE UNCHANGED vars
    BY <2>1 DEF ToldRouteLeadsHome, vars, connVars, tables
  <2>2. ASSUME NEW c \in Conns, Receive(c) \/ Continue(c)
        PROVE  ROUTE_MAPPING'[n] = d
    <3>1. LeavesOthers(c) /\ MovesOwnRoutes(c) /\ TellsRoutes(c)
      BY <2>2, NamesReceive, NamesContinue DEF NamesEffect
    <3>2. CASE stateMap[d][n] = HttpPort
      <4>1. n \in ConfigNames(d) /\ ROUTE_MAPPING[n] = d /\ Present(d)
        BY <3>2, NoneAssumption DEF NamesOK, OwnNames, ToldRouteLeadsHome, Present
      <4>2. CASE d = c
        BY <3>1, <4>1, <4>2 DEF MovesOwnRoutes
      <4>3. CASE d # c
        <5>1. ~Present(c) \/ n \notin ConfigNames(c)
          BY <4>1, <4>3 DEF NamesInTurn
        <5> QED BY <3>1, <4>1, <5>1 DEF MovesOwnRoutes
      <4> QED BY <4>2, <4>3
    <3>3. CASE stateMap[d][n] # HttpPort
      <4>1. d = c
        BY <3>1, <3>3 DEF LeavesOthers
      <4> QED BY <3>1, <3>3, <4>1 DEF TellsRoutes
    <3> QED BY <3>2, <3>3
  <2> QED BY <2>1, <2>2 DEF Next
<1>2. Init => ToldRouteLeadsHome
  BY NamesInit
<1> QED BY <1>1, <1>2, Inductive, NamesKept, PTL DEF Spec
-----------------------------------------------------------------------------
(* Ports *)

BootsInv == NamesOK /\ BootsOK /\ CallsOK /\ ServedOK

\* What a boot serves is fixed when it is created.
KeepsBoots == \A b \in Boots : boot[b] # None => boot'[b] = boot[b]

\* A step of c stops the boot that its handler call works on, and no other.
StopsAtWork(c) ==
    \A b \in listening : b \notin listening' => task[c].op \in StopOps /\ b = task[c].boot

\* What c was told about ports is so after its step.
ServedAfter(c) == \A n \in Names : stateMap'[c][n] \in Ports => ServedAt(c, n)'

BootsEffect(c) ==
    /\ KeepsBoots /\ StopsAtWork(c) /\ BootsOK'
    /\ OnOwnBoot(c, task[c])' /\ ServedAfter(c)

\* A boot that some list names, or that is being started, has been created.
LEMMA CreatedBoot ==
    ASSUME IInv, NEW c \in Conns,
           task[c].op \in {"bind", "publish", "cancelRemove"} \cup EvictOps \cup StopOps
    PROVE  /\ task[c].boot \in Boots /\ boot[task[c].boot] # None
           /\ boot[task[c].boot] \in BootFields
<1>1. CASE task[c].op \in {"bind", "publish"}
  BY <1>1 DEF IInv, StartOK, TypeOK
<1>2. CASE task[c].op \in {"cancelRemove"} \cup EvictOps \cup StopOps
  <2>1. task[c].boot \in Listed
    BY <1>2 DEF IInv, TakeDownOK, EvictOps, StopOps
  <2>2. PICK d \in Conns : \E i \in DOMAIN CHANNEL_DYNAMIC_BOOT[d] :
            task[c].boot = CHANNEL_DYNAMIC_BOOT[d][i]
    BY <2>1 DEF Listed
  <2>3. task[c].boot \in Boots /\ boot[task[c].boot] # None
    BY <2>2, Places DEF IInv, ListOK
  <2> QED BY <2>3 DEF IInv, TypeOK
<1> QED BY <1>1, <1>2

\* The steps of c that create and stop no boot, and tell c of no port.
LEMMA BootsQuiet ==
    ASSUME IInv, BootsInv, NEW c \in Conns, NEW t \in Task,
           task' = task \/ task' = [task EXCEPT ![c] = t],
           OnOwnBoot(c, t),
           \A n \in Names : stateMap'[c][n] \in Ports =>
               stateMap'[c][n] = stateMap[c][n] /\ task[c].op # "evictClose",
           boot' = boot, listening \subseteq listening'
    PROVE  BootsEffect(c)
<1>1. task'[c] = task[c] \/ task'[c] = t
  BY DEF IInv, TypeOK
<1>2. OnOwnBoot(c, task[c])'
  BY <1>1 DEF BootsInv, CallsOK, OnOwnBoot
<1>3. ServedAfter(c)
  BY DEF BootsInv, ServedOK, ServedAt, ServedAfter
<1>4. BootsOK'
  BY DEF BootsInv, BootsOK
<1>5. KeepsBoots /\ StopsAtWork(c)
  BY DEF KeepsBoots, StopsAtWork
<1> QED BY <1>2, <1>3, <1>4, <1>5 DEF BootsEffect

LEMMA BootsRegisterNewPort ==
    ASSUME IInv, BootsInv, NEW c \in Conns, NEW n \in Names, NEW p \in Ports, NEW b \in Boots,
           RegisterNewPort(c, n, p, b)
    PROVE  BootsEffect(c)
<1> DEFINE new == [port |-> p, registerName |-> n, channel |-> c]
<1>1. /\ boot[b] = None /\ boot'[b] = new /\ <<n, p>> \in Config[c]
      /\ \A k \in Boots : k # b => boot'[k] = boot[k]
      /\ listening' = listening /\ stateMap' = stateMap
      /\ task'[c] = At("bind", n, b, 0)
      /\ task[c].op = "idle"
  BY DEF RegisterNewPort, Reading, Do, IInv, TypeOK
<1>2. new.port = p /\ new.registerName = n /\ new.channel = c
  OBVIOUS
<1>3. OnOwnBoot(c, task[c])'
  BY <1>1, <1>2 DEF OnOwnBoot, At, EvictOps
<1>4. KeepsBoots /\ StopsAtWork(c)
  BY <1>1 DEF KeepsBoots, StopsAtWork
<1>5. ServedAfter(c)
  <2> SUFFICES ASSUME NEW m \in Names, stateMap[c][m] \in Ports PROVE ServedAt(c, m)'
    BY <1>1 DEF ServedAfter
  <2>1. PICK k \in listening : /\ boot[k] # None /\ boot[k].channel = c
                               /\ boot[k].port = stateMap[c][m]
                               /\ boot[k].registerName = m
    BY <1>1 DEF BootsInv, ServedOK, ServedAt
  <2>2. boot'[k] = boot[k]
    BY <1>4, <2>1 DEF KeepsBoots, IInv, TypeOK
  <2> QED BY <1>1, <2>1, <2>2 DEF ServedAt
<1>6. BootsOK'
  BY <1>1, <1>2 DEF BootsInv, BootsOK
<1> QED BY <1>3, <1>4, <1>5, <1>6 DEF BootsEffect

\* The client is told of the port of the boot that the call has just bound.
LEMMA BootsPublish ==
    ASSUME IInv, BootsInv, NEW c \in Conns, Publish(c)
    PROVE  BootsEffect(c)
<1> DEFINE b == task[c].boot
           name == task[c].name
<1>1. /\ b \in listening /\ boot[b] # None /\ name \in Names
      /\ boot[b].channel = c /\ boot[b].registerName = name
      /\ task[c].op = "publish"
  BY DEF Publish, IInv, StartOK, CallOK, OpenOps, BootsInv, CallsOK, OnOwnBoot
<1>2. /\ UNCHANGED <<boot, listening>>
      /\ task'[c].op = "idle"
      /\ stateMap'[c][name] = boot[b].port
      /\ \A n \in Names \ {name} : stateMap'[c][n] = stateMap[c][n]
  BY <1>1 DEF Publish, Do, Tell, Idle, At, bootVars, IInv, TypeOK
<1>3. ServedAfter(c)
  <2> SUFFICES ASSUME NEW n \in Names, stateMap'[c][n] \in Ports PROVE ServedAt(c, n)'
    BY DEF ServedAfter
  <2>1. CASE n = name
    BY <1>1, <1>2, <2>1 DEF ServedAt
  <2>2. CASE n # name
    BY <1>1, <1>2, <2>2 DEF BootsInv, ServedOK, ServedAt
  <2> QED BY <2>1, <2>2
<1>4. OnOwnBoot(c, task[c])'
  BY <1>2 DEF OnOwnBoot, EvictOps
<1>5. BootsOK' /\ KeepsBoots /\ StopsAtWork(c)
  BY <1>2 DEF BootsInv, BootsOK, KeepsBoots, StopsAtWork
<1> QED BY <1>3, <1>4, <1>5 DEF BootsEffect

\* c stops a boot of its own that another request of it finds taken: it is
\* about to close.
LEMMA BootsEvictStop ==
    ASSUME IInv, BootsInv, NEW c \in Conns, EvictStop(c)
    PROVE  BootsEffect(c)
<1>1. /\ task[c].op = "evictStop" /\ boot' = boot
      /\ listening' = listening \ {task[c].boot}
      /\ task'[c].op = "evictClose" /\ task'[c].boot = task[c].boot
  BY DEF EvictStop, Do, IInv, TypeOK, Task
<1>2. OnOwnBoot(c, task[c])'
  BY <1>1 DEF OnOwnBoot, EvictOps, BootsInv, CallsOK
<1>3. ServedAfter(c)
  BY <1>1 DEF ServedAfter, ServedAt
<1>4. BootsOK' /\ KeepsBoots /\ StopsAtWork(c)
  BY <1>1 DEF BootsInv, BootsOK, KeepsBoots, StopsAtWork, StopOps
<1> QED BY <1>2, <1>3, <1>4 DEF BootsEffect

\* The boot that a cancellation stops has the cancelled name, and no other
\* name of the client was told of it.
LEMMA BootsCancelStop ==
    ASSUME IInv, BootsInv, NEW c \in Conns, CancelStop(c)
    PROVE  BootsEffect(c)
<1> DEFINE b == task[c].boot
           name == task[c].name
<1>1. /\ task[c].op = "cancelStop" /\ name \in Names /\ boot[b].registerName = name
  BY DEF CancelStop, IInv, CallOK, OpenOps, BootsInv, CallsOK, OnOwnBoot
<1>2. /\ boot' = boot /\ listening' = listening \ {b}
      /\ task'[c].op = "idle"
      /\ stateMap'[c][name] = None
      /\ \A n \in Names \ {name} : stateMap'[c][n] = stateMap[c][n]
  BY <1>1 DEF CancelStop, Do, Tell, Idle, At, IInv, TypeOK
<1>3. ServedAfter(c)
  <2> SUFFICES ASSUME NEW n \in Names, stateMap'[c][n] \in Ports PROVE ServedAt(c, n)'
    BY DEF ServedAfter
  <2>1. n # name /\ stateMap'[c][n] = stateMap[c][n]
    BY <1>2, NoneAssumption
  <2>2. PICK k \in listening : /\ boot[k] # None /\ boot[k].channel = c
                               /\ boot[k].port = stateMap[c][n]
                               /\ boot[k].registerName = n
    BY <1>1, <2>1 DEF BootsInv, ServedOK, ServedAt
  <2> QED BY <1>1, <1>2, <2>1, <2>2 DEF ServedAt
<1>4. OnOwnBoot(c, task[c])'
  BY <1>2 DEF OnOwnBoot, EvictOps
<1>5. BootsOK' /\ KeepsBoots /\ StopsAtWork(c)
  BY <1>1, <1>2 DEF BootsInv, BootsOK, KeepsBoots, StopsAtWork, StopOps
<1> QED BY <1>3, <1>4, <1>5 DEF BootsEffect

LEMMA BootsStopBoot ==
    ASSUME IInv, BootsInv, NEW c \in Conns, StopBoot(c)
    PROVE  BootsEffect(c)
<1>1. /\ task[c].op = "stopBoot" /\ boot' = boot /\ stateMap' = stateMap
      /\ listening' = listening \ {task[c].boot}
      /\ task'[c].op = "dropBoots"
  BY DEF StopBoot, Do, At, IInv, TypeOK
<1>2. \A n \in Names : stateMap[c][n] = None
  BY <1>1 DEF IInv, CallOK, CloseOps, BootsInv, NamesOK, OwnNames
<1>3. OnOwnBoot(c, task[c])' /\ ServedAfter(c)
  BY <1>1, <1>2, NoneAssumption DEF OnOwnBoot, EvictOps, ServedAfter
<1>4. BootsOK' /\ KeepsBoots /\ StopsAtWork(c)
  BY <1>1 DEF BootsInv, BootsOK, KeepsBoots, StopsAtWork, StopOps
<1> QED BY <1>3, <1>4 DEF BootsEffect
\* The channel of c closes on its own loop: its client knows of no port.
LEMMA BootsInactive ==
    ASSUME IInv, BootsInv, NEW c \in Conns, GoInactive(c), UNCHANGED bootVars
    PROVE  BootsEffect(c)
<1>1. /\ ChannelInactive \in Task /\ ChannelInactive.op = "dropRoutes"
      /\ task' = [task EXCEPT ![c] = ChannelInactive]
      /\ \A n \in Names : stateMap'[c][n] = None
  BY DEF IInv, TypeOK, GoInactive, Do, ChannelInactive, At, Task, CloseOps, Unregistered
<1>2. OnOwnBoot(c, ChannelInactive)
  BY <1>1 DEF OnOwnBoot, EvictOps
<1> QED BY <1>1, <1>2, NoneAssumption, BootsQuiet DEF bootVars

\* A handler call of c ends, or is over at once, with no port in the answer.
LEMMA BootsAnswer ==
    ASSUME IInv, BootsInv, NEW c \in Conns,
           task[c].op # "evictClose",
           task' = task \/ Do(c, Idle),
           stateMap' = stateMap \/ \E n \in Names, p \in {None, HttpPort} : Tell(c, n, p),
           UNCHANGED bootVars
    PROVE  BootsEffect(c)
<1>1. Idle \in Task /\ OnOwnBoot(c, Idle)
  BY DEF Idle, At, Task, OpenOps, OnOwnBoot, EvictOps
<1>2. \A n \in Names : stateMap'[c][n] \in Ports => stateMap'[c][n] = stateMap[c][n]
  BY NoneAssumption, PortAssumption DEF IInv, TypeOK, Tell
<1> QED BY <1>1, <1>2, BootsQuiet DEF Do, bootVars

\* A handler call of c goes on, and tells c nothing.
LEMMA BootsGoOn ==
    ASSUME IInv, BootsInv, NEW c \in Conns, NEW t \in Task,
           task[c].op # "evictClose",
           Do(c, t), OnOwnBoot(c, t),
           UNCHANGED <<boot, stateMap>>, listening \subseteq listening'
    PROVE  BootsEffect(c)
BY BootsQuiet DEF Do

\* Only a boot of c's own is in the way of c when no other connection that is
\* present has the port.
LEMMA OwnPort ==
    ASSUME PortsInTurn, IInv, BootsInv, NEW c \in Conns, NEW n \in Names, NEW p \in Ports,
           chan[c] = "open", <<n, p>> \in Config[c], DYNAMIC_BOOT[p] # None
    PROVE  boot[DYNAMIC_BOOT[p]].channel = c
<1> DEFINE b == DYNAMIC_BOOT[p]
<1>1. b \in listening /\ b \in Boots /\ boot[b].port = p
  BY DEF IInv, TypeOK, PortOK
<1>2. boot[b] # None /\ boot[b] \in BootFields /\ Present(boot[b].channel)
  BY <1>1 DEF IInv, TypeOK, ListenOK, Served, Present
<1>3. /\ <<boot[b].registerName, p>> \in Config[boot[b].channel]
      /\ boot[b].registerName \in Names /\ boot[b].channel \in Conns
  BY <1>1, <1>2 DEF BootsInv, BootsOK, BootFields
<1> QED BY <1>2, <1>3 DEF PortsInTurn, Present

LEMMA BootsReceive ==
    ASSUME PortsInTurn, IInv, BootsInv, NEW c \in Conns, Receive(c)
    PROVE  BootsEffect(c)
<1> USE DEF connVars, tables, lists, bootVars
<1>1. CASE ChannelActive(c) \/ Authenticate(c)
  <2>1. UNCHANGED <<task, stateMap, boot, listening>>
    BY <1>1 DEF ChannelActive, Authenticate
  <2>2. OnOwnBoot(c, task[c])' /\ ServedAfter(c) /\ BootsOK'
    BY <2>1 DEF BootsInv, CallsOK, OnOwnBoot, ServedOK, ServedAfter, ServedAt, BootsOK
  <2>3. KeepsBoots /\ StopsAtWork(c)
    BY <2>1 DEF KeepsBoots, StopsAtWork
  <2> QED BY <2>2, <2>3 DEF BootsEffect
<1>2. CASE PeerCloses(c)
  BY <1>2, BootsInactive DEF PeerCloses
<1>3. ASSUME NEW n \in Names, RegisterDefaultPort(c, n) \/ CancelFindsRoute(c, n)
      PROVE  BootsEffect(c)
  <2>1. PICK o \in {"putRoute", "cancelRoute"} : Do(c, At(o, n, None, 0))
    BY <1>3 DEF RegisterDefaultPort, CancelFindsRoute
  <2>2. At(o, n, None, 0) \in Task /\ OnOwnBoot(c, At(o, n, None, 0))
    BY DEF At, Task, OpenOps, OnOwnBoot, EvictOps
  <2>3. task[c].op = "idle" /\ UNCHANGED <<boot, stateMap, listening>>
    BY <1>3 DEF RegisterDefaultPort, CancelFindsRoute, Reading
  <2> QED BY <2>1, <2>2, <2>3, BootsGoOn
<1>4. ASSUME NEW n \in Names, RefuseName(c, n)
      PROVE  BootsEffect(c)
  <2>1. CASE Tell(c, n, None) /\ UNCHANGED <<chan, closeReq, task>>
    BY <1>4, <2>1, BootsAnswer DEF RefuseName, Reading
  <2>2. CASE CloseThenTell(c, ROUTE_MAPPING[n], n, None) /\ ROUTE_MAPPING[n] = c
    BY <1>4, <2>2, BootsInactive DEF RefuseName, CloseThenTell
  <2>3. CASE CloseThenTell(c, ROUTE_MAPPING[n], n, None) /\ ROUTE_MAPPING[n] # c
    BY <1>4, <2>3, BootsAnswer DEF RefuseName, CloseThenTell, Reading
  <2> QED BY <1>4, <2>1, <2>2, <2>3 DEF RefuseName
<1>5. ASSUME NEW n \in Names, NEW p \in Ports, RefusePort(c, n, p)
      PROVE  BootsEffect(c)
  <2> DEFINE b == DYNAMIC_BOOT[p]
  <2>1. /\ task[c].op = "idle" /\ chan[c] = "open" /\ b # None
        /\ UNCHANGED bootVars /\ <<n, p>> \in Config[c]
    BY <1>5 DEF RefusePort, Reading
  <2>2. CASE Tell(c, n, None) /\ UNCHANGED task
    BY <2>1, <2>2, BootsAnswer
  <2>3. CASE Do(c, At("evictRemove", n, b, 0)) /\ UNCHANGED stateMap
    <3>1. At("evictRemove", n, b, 0) \in Task
      BY DEF At, IInv, TypeOK, Task, OpenOps
    <3>2. OnOwnBoot(c, At("evictRemove", n, b, 0))
      BY <2>1, OwnPort DEF OnOwnBoot, At, EvictOps
    <3> QED BY <2>1, <2>3, <3>1, <3>2, BootsGoOn
  <2> QED BY <1>5, <2>2, <2>3 DEF RefusePort
<1>6. ASSUME NEW n \in Names, CancelFindsNothing(c, n)
      PROVE  BootsEffect(c)
  BY <1>6, BootsAnswer DEF CancelFindsNothing, Reading
<1>7. ASSUME NEW n \in Names, NEW i \in DOMAIN CHANNEL_DYNAMIC_BOOT[c],
             CancelFindsBoot(c, n, i)
      PROVE  BootsEffect(c)
  <2> DEFINE t == At("cancelRemove", n, CHANNEL_DYNAMIC_BOOT[c][i], 0)
  <2>1. t \in Task
    BY Places DEF At, IInv, Task, OpenOps
  <2>2. OnOwnBoot(c, t)
    BY <1>7 DEF CancelFindsBoot, BootsNamed, At, OnOwnBoot, EvictOps, IInv, ListOK
  <2>3. task[c].op = "idle" /\ Do(c, t) /\ UNCHANGED <<boot, stateMap, listening>>
    BY <1>7 DEF CancelFindsBoot, Reading
  <2> QED BY <2>1, <2>2, <2>3, BootsGoOn
<1> QED BY <1>1, <1>2, <1>3, <1>4, <1>5, <1>6, <1>7, BootsRegisterNewPort DEF Receive

LEMMA BootsContinue ==
    ASSUME IInv, BootsInv, NEW c \in Conns, Continue(c)
    PROVE  BootsEffect(c)
<1> USE DEF connVars, tables, lists, bootVars
<1>0. task[c] \in Task
  BY DEF IInv, TypeOK
<1>1. CASE PutRoute(c) \/ CancelRoute(c) \/ BindFails(c)
  <2>1. task[c].op \in {"putRoute", "cancelRoute", "bind"} /\ task[c].name \in Names
    BY <1>1 DEF PutRoute, CancelRoute, BindFails, IInv, CallOK, OpenOps
  <2>2. \/ stateMap' = stateMap
        \/ \E n \in Names, p \in {None, HttpPort} : Tell(c, n, p)
    BY <1>1, <2>1 DEF PutRoute, CancelRoute, BindFails
  <2>3. Do(c, Idle) /\ UNCHANGED bootVars
    BY <1>1 DEF PutRoute, CancelRoute, BindFails
  <2> QED BY <2>1, <2>2, <2>3, BootsAnswer
<1>2. CASE Bind(c)
  <2> DEFINE t == At("publish", task[c].name, task[c].boot, 0)
  <2>1. t \in Task
    BY <1>0 DEF At, Task, OpenOps
  <2>2. OnOwnBoot(c, t)
    BY <1>2 DEF Bind, OnOwnBoot, At, EvictOps, BootsInv, CallsOK
  <2> QED BY <1>2, <2>1, <2>2, BootsGoOn DEF Bind
<1>3. CASE EvictRemove(c) \/ CancelRemove(c)
  <2>1. PICK o \in {"evictStop", "cancelStop"} :
            /\ Do(c, [task[c] EXCEPT !.op = o])
            /\ task[c].op = IF o = "evictStop" THEN "evictRemove" ELSE "cancelRemove"
    BY <1>3 DEF EvictRemove, CancelRemove
  <2>2. [task[c] EXCEPT !.op = o] \in Task
    BY <1>0 DEF Task, OpenOps
  <2>3. OnOwnBoot(c, [task[c] EXCEPT !.op = o])
    <3>1. /\ [task[c] EXCEPT !.op = o].op = o
          /\ [task[c] EXCEPT !.op = o].boot = task[c].boot
          /\ [task[c] EXCEPT !.op = o].name = task[c].name
      BY <1>0 DEF Task
    <3> QED BY <2>1, <3>1 DEF OnOwnBoot, EvictOps, BootsInv, CallsOK
  <2>4. UNCHANGED <<boot, stateMap, listening>>
    BY <1>3 DEF EvictRemove, CancelRemove
  <2> QED BY <2>1, <2>2, <2>3, <2>4, BootsGoOn
<1>4. CASE EvictClose(c)
  <2>1. boot[task[c].boot].channel = c
    BY <1>4 DEF EvictClose, BootsInv, CallsOK, OnOwnBoot, EvictOps
  <2> QED BY <1>4, <2>1, BootsInactive DEF EvictClose, CloseThenTell
<1>5. CASE DropRoute(c) \/ Gone(c)
  <2>1. task[c].op \in {"dropRoutes", "dropBoots"} /\ task[c].pos \in Nat
    BY <1>0, <1>5 DEF DropRoute, Gone, Task
  <2>2. PICK t : /\ Do(c, t)
                 /\ t \in {At("dropRoutes", None, None, task[c].pos + 1),
                           At("dropBoots", None, None, 1), Idle}
    BY <1>5 DEF DropRoute, Gone
  <2>3. t \in Task /\ OnOwnBoot(c, t)
    BY <2>1, <2>2 DEF Idle, At, Task, OpenOps, CloseOps, OnOwnBoot, EvictOps
  <2>4. UNCHANGED <<boot, stateMap, listening>>
    BY <1>5 DEF DropRoute, Gone
  <2> QED BY <2>1, <2>2, <2>3, <2>4, BootsGoOn
<1>6. CASE DropBoot(c)
  <2> DEFINE t == At("stopBoot", None, CHANNEL_DYNAMIC_BOOT[c][task[c].pos], task[c].pos)
  <2>1. t \in Task
    BY <1>6, Places DEF DropBoot, At, IInv, TypeOK, Task, CallOK, CloseOps
  <2>2. OnOwnBoot(c, t)
    BY DEF OnOwnBoot, At, EvictOps
  <2> QED BY <1>6, <2>1, <2>2, BootsGoOn DEF DropBoot
<1> QED BY <1>1, <1>2, <1>3, <1>4, <1>5, <1>6,
           BootsPublish, BootsEvictStop, BootsCancelStop, BootsStopBoot DEF Continue

LEMMA BootsInit == Init => BootsInv
<1> SUFFICES ASSUME Init PROVE BootsInv
  OBVIOUS
<1>1. BootsOK
  BY DEF Init, BootsOK
<1>2. CallsOK
  BY DEF Init, CallsOK, OnOwnBoot, EvictOps, Idle, At
<1>3. ServedOK
  BY NoneAssumption DEF Init, Unregistered, ServedOK
<1> QED BY <1>1, <1>2, <1>3, NamesInit DEF BootsInv

\* The connections other than the one that steps: the boots that serve them
\* go on, as a handler call stops boots of its own connection only.
LEMMA BootsOfOthers ==
    ASSUME IInv, BootsInv, NEW c \in Conns, BootsEffect(c), LeavesOthers(c),
           NEW d \in Conns, d # c
    PROVE  OnOwnBoot(d, task[d])' /\ ServedAfter(d)
<1>1. task'[d] = task[d] /\ stateMap'[d] = stateMap[d]
  BY DEF LeavesOthers
<1>2. OnOwnBoot(d, task[d])'
  <2>1. OnOwnBoot(d, task[d])
    BY DEF BootsInv, CallsOK
  <2>2. CASE task[d].op \in {"bind", "publish", "cancelRemove", "cancelStop"} \cup EvictOps
    <3>1. boot'[task[d].boot] = boot[task[d].boot]
      BY <2>2, CreatedBoot DEF StopOps, BootsEffect, KeepsBoots
    <3> QED BY <1>1, <2>1, <3>1 DEF OnOwnBoot
  <2> QED BY <1>1, <2>2 DEF OnOwnBoot
<1>3. ServedAfter(d)
  <2> SUFFICES ASSUME NEW n \in Names, stateMap[d][n] \in Ports,
                      task[d].op # "evictClose"
               PROVE  ServedAt(d, n)'
    BY <1>1 DEF ServedAfter, ServedAt
  <2>1. PICK b \in listening : /\ boot[b] # None /\ boot[b].channel = d
                               /\ boot[b].port = stateMap[d][n]
                               /\ boot[b].registerName = n
    BY DEF BootsInv, ServedOK, ServedAt
  <2>2. b \in listening'
    <3> SUFFICES ASSUME task[c].op \in StopOps, b = task[c].boot PROVE FALSE
      BY DEF BootsEffect, StopsAtWork
    <3>1. CASE task[c].op = "stopBoot"
      BY <2>1, <3>1 DEF IInv, TakeDownOK, ListOK
    <3>2. CASE task[c].op \in {"evictStop", "cancelStop"}
      BY <2>1, <3>2 DEF BootsInv, CallsOK, OnOwnBoot, EvictOps
    <3> QED BY <3>1, <3>2 DEF StopOps
  <2>3. boot'[b] = boot[b]
    BY <2>1 DEF BootsEffect, KeepsBoots, IInv, TypeOK
  <2> QED BY <1>1, <2>1, <2>2, <2>3 DEF ServedAt
<1> QED BY <1>2, <1>3

LEMMA BootsNext ==
    ASSUME PortsInTurn, IInv, BootsInv, [Next]_vars
    PROVE  BootsInv'
<1>1. CASE UNCHANGED vars
  <2>1. NamesOK'
    BY NamesNext DEF BootsInv
  <2> QED BY <1>1, <2>1 DEF BootsInv, BootsOK, CallsOK, OnOwnBoot, ServedOK, ServedAt,
                            vars, bootVars
<1>2. ASSUME NEW c \in Conns, Receive(c) \/ Continue(c)
      PROVE  BootsInv'
  <2>1. LeavesOthers(c) /\ BootsEffect(c)
    BY <1>2, NamesReceive, NamesContinue, BootsReceive, BootsContinue
    DEF NamesEffect, BootsInv
  <2>2. \A d \in Conns : OnOwnBoot(d, task[d])' /\ ServedAfter(d)
    BY <2>1, BootsOfOthers DEF BootsEffect
  <2>3. CallsOK' /\ ServedOK'
    BY <2>2 DEF CallsOK, ServedOK, ServedAfter
  <2>4. NamesOK' /\ BootsOK'
    BY <2>1, NamesNext DEF BootsInv, BootsEffect
  <2> QED BY <2>3, <2>4 DEF BootsInv
<1> QED BY <1>1, <1>2 DEF Next

\* When no two connections that are present at once map the same port, a client
\* that was told its port is open, and is still connected and not in the middle
\* of a request, has a boot of its own bound to that port: no eviction and no
\* teardown of another connection takes it down.
THEOREM ToldPortsAreServed == Spec /\ []PortsInTurn => []ToldPortIsServed
<1>1. Init => BootsInv
  BY BootsInit
<1>2. PortsInTurn /\ IInv /\ BootsInv /\ [Next]_vars => BootsInv'
  BY BootsNext
<1>3. BootsInv => ToldPortIsServed
  BY DEF BootsInv, ServedOK, ServedAt, ToldPortIsServed
<1> QED BY <1>1, <1>2, <1>3, Inductive, PTL DEF Spec
=============================================================================
