------------------------- MODULE RegistryRefinement -------------------------
(***************************************************************************)
(* Each of the two tables of Registry implements the abstract LeaseTable,  *)
(* for all values of the constants: every step of a handler call changes   *)
(* at most one entry, or makes one holder live, or retires one to which no *)
(* entry leads.                                                            *)
(***************************************************************************)
EXTENDS RegistryProofs

LEMMA RouteInit == Init => RouteLease!Init
BY DEF Init, RouteLease!Init

\* A step of Registry is a step of the lease table of routes, or none.
LEMMA RouteNext == IInv /\ [Next]_vars => [RouteLease!Next]_(RouteLease!leaseVars)
<1> SUFFICES ASSUME IInv, [Next]_vars
             PROVE  RouteLease!Next \/ UNCHANGED RouteLease!leaseVars
  OBVIOUS
<1> USE DEF RouteLease!leaseVars
<1>1. ASSUME UNCHANGED <<chan, ROUTE_MAPPING>>
      PROVE  UNCHANGED RouteLease!leaseVars
  BY <1>1
<1>2. ASSUME NEW c \in Conns, GoInactive(c), chan[c] = "open", UNCHANGED ROUTE_MAPPING
      PROVE  UNCHANGED RouteLease!leaseVars
  BY <1>2 DEF GoInactive, IInv, TypeOK
<1>3. ASSUME NEW c \in Conns, ChannelActive(c)
      PROVE  RouteLease!Join(c)
  BY <1>3 DEF ChannelActive, RouteLease!Join, IInv, TypeOK, tables
<1>4. ASSUME NEW n \in Names, UNCHANGED chan,
             ROUTE_MAPPING' = [ROUTE_MAPPING EXCEPT ![n] = None]
      PROVE  RouteLease!Drop(n)
  BY <1>4 DEF RouteLease!Drop
<1>5. ASSUME NEW c \in Conns, PutRoute(c)
      PROVE  /\ task[c].name \in Names
             /\ RouteLease!Claim(task[c].name, c)
  <2>1. chan[c] = "open" /\ task[c].name \in Names
    BY <1>5 DEF PutRoute, IInv, CallOK, OpenOps
  <2> QED BY <1>5, <2>1 DEF PutRoute, RouteLease!Claim, connVars
<1>6. ASSUME NEW c \in Conns, CancelRoute(c)
      PROVE  RouteLease!Drop(task[c].name) /\ task[c].name \in Names
  <2>1. task[c].name \in Names
    BY <1>6 DEF CancelRoute, IInv, CallOK, OpenOps
  <2> QED BY <1>4, <1>6, <2>1 DEF CancelRoute, connVars
<1>7. ASSUME NEW c \in Conns, DropRoute(c)
      PROVE  RouteLease!Next \/ UNCHANGED RouteLease!leaseVars
  <2>1. CASE task[c].pos <= Len(REGISTER_CHANNEL[c])
    <3>1. REGISTER_CHANNEL[c][task[c].pos] \in Names
      <4>1. task[c].pos >= 1 /\ task[c].pos \in Nat
        BY <1>7 DEF DropRoute, IInv, CallOK, CloseOps, TypeOK, Task
      <4> QED BY <2>1, <4>1, Places DEF IInv
    <3> QED BY <1>4, <1>7, <2>1, <3>1 DEF DropRoute, connVars, RouteLease!Next, IInv, TypeOK, Task
  <2>2. CASE ~(task[c].pos <= Len(REGISTER_CHANNEL[c]))
    BY <1>1, <1>7, <2>2 DEF DropRoute, connVars
  <2> QED BY <2>1, <2>2
<1>8. ASSUME NEW c \in Conns, Gone(c)
      PROVE  RouteLease!Retire(c)
  <2>1. chan[c] = "closed"
    BY <1>8 DEF Gone, IInv, CallOK, CloseOps
  <2>2. \A n \in Names : ROUTE_MAPPING[n] # c
    <3> SUFFICES ASSUME NEW n \in Names, ROUTE_MAPPING[n] = c PROVE FALSE
      OBVIOUS
    <3>1. KeepsName(c, n)
      BY NoneAssumption DEF IInv, RouteOK, Routed
    <3> QED BY <1>8, <2>1, <3>1 DEF KeepsName, Gone
  <2> QED BY <1>8, <2>1, <2>2 DEF Gone, RouteLease!Retire, tables, IInv, TypeOK
<1>9. ASSUME NEW c \in Conns, NEW d \in Conns, NEW n, NEW p, CloseThenTell(c, d, n, p),
             chan[c] = "open", UNCHANGED ROUTE_MAPPING
      PROVE  UNCHANGED RouteLease!leaseVars
  BY <1>1, <1>2, <1>9 DEF CloseThenTell
<1>10. ASSUME NEW c \in Conns, EvictClose(c)
       PROVE  UNCHANGED RouteLease!leaseVars
  <2>1. chan[c] = "open"
    BY <1>10 DEF EvictClose, IInv, CallOK, OpenOps
  <2>2. boot[task[c].boot].channel \in Conns
    BY <1>10 DEF EvictClose, IInv, TakeDownOK, Listed, ListOK, TypeOK, BootFields
  <2> QED BY <1>9, <1>10, <2>1, <2>2 DEF EvictClose, tables
<1>11. ASSUME NEW c \in Conns, Continue(c)
       PROVE  RouteLease!Next \/ UNCHANGED RouteLease!leaseVars
  <2>1. CASE \/ Bind(c) \/ BindFails(c) \/ Publish(c) \/ EvictRemove(c) \/ EvictStop(c)
             \/ CancelRemove(c) \/ CancelStop(c) \/ DropBoot(c) \/ StopBoot(c)
    <3>1. UNCHANGED <<chan, ROUTE_MAPPING>>
      BY <2>1 DEF Bind, BindFails, Publish, EvictRemove, EvictStop, CancelRemove, CancelStop,
                  DropBoot, StopBoot, connVars, tables
    <3> QED BY <1>1, <3>1
  <2> QED BY <1>5, <1>6, <1>7, <1>8, <1>10, <1>11, <2>1 DEF Continue, RouteLease!Next
<1>12. ASSUME NEW c \in Conns, NEW n \in Names, RefuseName(c, n)
       PROVE  UNCHANGED RouteLease!leaseVars
  <2>1. ROUTE_MAPPING[n] \in Conns /\ chan[c] = "open" /\ UNCHANGED ROUTE_MAPPING
    BY <1>12 DEF RefuseName, Reading, IInv, TypeOK, tables
  <2>2. CASE UNCHANGED chan
    BY <1>1, <2>1, <2>2
  <2>3. CASE CloseThenTell(c, ROUTE_MAPPING[n], n, None)
    BY <1>9, <2>1, <2>3
  <2> QED BY <1>12, <2>2, <2>3 DEF RefuseName
<1>13. ASSUME NEW c \in Conns, Receive(c)
       PROVE  RouteLease!Next \/ UNCHANGED RouteLease!leaseVars
  <2>1. CASE PeerCloses(c)
    BY <1>2, <2>1 DEF PeerCloses, tables
  <2>2. CASE Authenticate(c)
    BY <1>1, <2>2 DEF Authenticate, tables
  <2>3. ASSUME NEW n \in Names, RegisterDefaultPort(c, n) \/ CancelFindsRoute(c, n)
                                  \/ CancelFindsNothing(c, n)
        PROVE  UNCHANGED RouteLease!leaseVars
    BY <1>1, <2>3 DEF RegisterDefaultPort, CancelFindsRoute, CancelFindsNothing, tables, connVars
  <2>4. ASSUME NEW n \in Names, NEW p \in Ports, RefusePort(c, n, p)
        PROVE  UNCHANGED RouteLease!leaseVars
    BY <1>1, <2>4 DEF RefusePort, tables, connVars
  <2>5. ASSUME NEW n \in Names, NEW p \in Ports, NEW b \in Boots, RegisterNewPort(c, n, p, b)
        PROVE  UNCHANGED RouteLease!leaseVars
    BY <1>1, <2>5 DEF RegisterNewPort, tables, connVars
  <2>6. ASSUME NEW n \in Names, NEW i \in DOMAIN CHANNEL_DYNAMIC_BOOT[c], CancelFindsBoot(c, n, i)
        PROVE  UNCHANGED RouteLease!leaseVars
    BY <1>1, <2>6 DEF CancelFindsBoot, tables, connVars
  <2> QED BY <1>3, <1>12, <1>13, <2>1, <2>2, <2>3, <2>4, <2>5, <2>6 DEF Receive, RouteLease!Next
<1>14. CASE UNCHANGED vars
  BY <1>1, <1>14 DEF vars, connVars, tables
<1> QED BY <1>11, <1>13, <1>14 DEF Next

\* ROUTE_MAPPING never leads to a connection that has retired, changes one entry
\* at a time, and every handler call keeps that contract.
THEOREM RoutesImplementLease == Spec => RoutesFollowLease
<1> QED BY RouteInit, RouteNext, Inductive, PTL DEF Spec, RoutesFollowLease, RouteLease!Spec

-----------------------------------------------------------------------------
LEMMA PortInit == Init => PortLease!Init
<1>1. ASSUME Init PROVE Listed = {}
  BY <1>1 DEF Init, Listed
<1> QED BY <1>1 DEF Init, PortLease!Init

\* A step of Registry is a step of the lease table of ports, or none.
LEMMA PortNext == IInv /\ [Next]_vars => [PortLease!Next]_(PortLease!leaseVars)
<1> SUFFICES ASSUME IInv, [Next]_vars
             PROVE  PortLease!Next \/ UNCHANGED PortLease!leaseVars
  OBVIOUS
<1> DEFINE Fine == PortLease!Next \/ UNCHANGED PortLease!leaseVars
<1>1. ASSUME UNCHANGED <<DYNAMIC_BOOT, CHANNEL_DYNAMIC_BOOT, listening>>
      PROVE  Fine
  <2>1. UNCHANGED Listed
    BY <1>1 DEF Listed
  <2> QED BY <1>1, <2>1 DEF PortLease!leaseVars
<1>2. ASSUME NEW p \in Ports, UNCHANGED <<CHANNEL_DYNAMIC_BOOT, listening>>,
             DYNAMIC_BOOT' = [DYNAMIC_BOOT EXCEPT ![p] = None]
      PROVE  Fine
  <2>1. UNCHANGED Listed
    BY <1>2 DEF Listed
  <2>2. PortLease!Drop(p)
    BY <1>2, <2>1 DEF PortLease!Drop
  <2> QED BY <2>2 DEF PortLease!Next
\* A boot that is stopped is in a list, and no port leads to it.
<1>3. ASSUME NEW b \in Listed, \A p \in Ports : DYNAMIC_BOOT[p] # b,
             UNCHANGED <<DYNAMIC_BOOT, CHANNEL_DYNAMIC_BOOT>>, listening' = listening \ {b}
      PROVE  Fine
  <2>1. UNCHANGED Listed
    BY <1>3 DEF Listed
  <2>2. b \in Boots
    BY Places DEF IInv, Listed
  <2>3. CASE b \in listening
    <3>1. PortLease!Retire(b)
      BY <1>3, <2>1, <2>3 DEF PortLease!Retire
    <3> QED BY <2>2, <3>1 DEF PortLease!Next
  <2>4. CASE b \notin listening
    BY <1>3, <2>1, <2>4 DEF PortLease!leaseVars
  <2> QED BY <2>3, <2>4
<1>4. ASSUME NEW c \in Conns, Bind(c)
      PROVE  Fine
  <2>1. /\ task[c].boot \in Boots /\ task[c].boot \notin Listed
        /\ task[c].boot \notin listening
    BY <1>4 DEF Bind, IInv, StartOK
  <2>2. UNCHANGED Listed
    BY <1>4 DEF Bind, lists, Listed
  <2>3. PortLease!Join(task[c].boot)
    BY <1>4, <2>1, <2>2 DEF Bind, tables, PortLease!Join
  <2> QED BY <2>1, <2>3 DEF PortLease!Next
<1>5. ASSUME NEW c \in Conns, Publish(c)
      PROVE  Fine
  <2> DEFINE b == task[c].boot
  <2>1. b \in Boots /\ b \in listening /\ boot[b] # None
    BY <1>5 DEF Publish, IInv, StartOK
  <2>2. boot[b].port \in Ports
    BY <2>1 DEF IInv, TypeOK, BootFields
  <2>3. Listed' = Listed \cup {b}
    <3>1. CHANNEL_DYNAMIC_BOOT \in [Conns -> Seq(Boots)]
      BY DEF IInv, TypeOK
    <3>2. CHANNEL_DYNAMIC_BOOT' = [CHANNEL_DYNAMIC_BOOT EXCEPT ![c] = Append(@, b)]
      BY <1>5 DEF Publish
    <3>3. /\ DOMAIN CHANNEL_DYNAMIC_BOOT'[c] =
               DOMAIN CHANNEL_DYNAMIC_BOOT[c] \cup {Len(CHANNEL_DYNAMIC_BOOT[c]) + 1}
          /\ CHANNEL_DYNAMIC_BOOT'[c][Len(CHANNEL_DYNAMIC_BOOT[c]) + 1] = b
          /\ \A i \in DOMAIN CHANNEL_DYNAMIC_BOOT[c] :
               CHANNEL_DYNAMIC_BOOT'[c][i] = CHANNEL_DYNAMIC_BOOT[c][i]
      BY <2>1, <3>1, <3>2, Lengthen
    <3>4. \A d \in Conns \ {c} : CHANNEL_DYNAMIC_BOOT'[d] = CHANNEL_DYNAMIC_BOOT[d]
      BY <3>1, <3>2
    <3> QED BY <3>3, <3>4 DEF Listed
  <2>4. PortLease!Claim(boot[b].port, b)
    BY <1>5, <2>1, <2>3 DEF Publish, bootVars, PortLease!Claim
  <2> QED BY <2>1, <2>2, <2>4 DEF PortLease!Next
\* The entry of a listed boot's port is removed.
<1>6. ASSUME NEW b \in Listed, UNCHANGED <<lists, bootVars>>,
             DYNAMIC_BOOT' = [DYNAMIC_BOOT EXCEPT ![boot[b].port] = None]
      PROVE  Fine
  <2>1. boot[b].port \in Ports
    BY Places DEF IInv, Listed, ListOK, TypeOK, BootFields
  <2> QED BY <1>2, <1>6, <2>1 DEF lists, bootVars
<1>7. ASSUME NEW c \in Conns, EvictRemove(c) \/ CancelRemove(c)
      PROVE  Fine
  <2>1. task[c].boot \in Listed
    BY <1>7 DEF EvictRemove, CancelRemove, IInv, TakeDownOK
  <2> QED BY <1>6, <1>7, <2>1 DEF EvictRemove, CancelRemove
<1>8. ASSUME NEW c \in Conns, DropBoot(c)
      PROVE  Fine
  <2>1. task[c].pos \in DOMAIN CHANNEL_DYNAMIC_BOOT[c]
    <3>1. task[c].pos >= 1 /\ task[c].pos \in Nat
      BY <1>8 DEF DropBoot, IInv, CallOK, CloseOps, TypeOK, Task
    <3> QED BY <1>8, <3>1, Places DEF DropBoot, IInv
  <2>2. CHANNEL_DYNAMIC_BOOT[c][task[c].pos] \in Listed
    BY <2>1 DEF Listed
  <2> QED BY <1>6, <1>8, <2>2 DEF DropBoot
<1>9. ASSUME NEW c \in Conns, EvictStop(c) \/ CancelStop(c) \/ StopBoot(c)
      PROVE  Fine
  <2>1. task[c].boot \in Listed /\ \A p \in Ports : DYNAMIC_BOOT[p] # task[c].boot
    BY <1>9 DEF EvictStop, CancelStop, StopBoot, IInv, TakeDownOK, StopOps
  <2> QED BY <1>3, <1>9, <2>1 DEF EvictStop, CancelStop, StopBoot, lists, tables
<1>10. ASSUME NEW c \in Conns, Continue(c)
       PROVE  Fine
  <2>1. CASE \/ PutRoute(c) \/ BindFails(c) \/ EvictClose(c) \/ CancelRoute(c)
             \/ DropRoute(c) \/ Gone(c)
    <3>1. UNCHANGED <<DYNAMIC_BOOT, CHANNEL_DYNAMIC_BOOT, listening>>
      BY <2>1 DEF PutRoute, BindFails, EvictClose, CancelRoute, DropRoute, Gone,
                  tables, lists, bootVars
    <3> QED BY <1>1, <3>1
  <2> QED BY <1>4, <1>5, <1>7, <1>8, <1>9, <1>10, <2>1 DEF Continue
<1>11. ASSUME NEW c \in Conns, Receive(c)
       PROVE  UNCHANGED <<DYNAMIC_BOOT, CHANNEL_DYNAMIC_BOOT, listening>>
  <2> USE DEF tables, lists, bootVars
  <2>1. CASE ChannelActive(c) \/ Authenticate(c) \/ PeerCloses(c)
    BY <2>1 DEF ChannelActive, Authenticate, PeerCloses
  <2>2. ASSUME NEW n \in Names, RegisterDefaultPort(c, n) \/ RefuseName(c, n)
                  \/ CancelFindsRoute(c, n) \/ CancelFindsNothing(c, n)
        PROVE  UNCHANGED <<DYNAMIC_BOOT, CHANNEL_DYNAMIC_BOOT, listening>>
    BY <2>2 DEF RegisterDefaultPort, RefuseName, CancelFindsRoute, CancelFindsNothing
  <2>3. ASSUME NEW n \in Names, NEW p \in Ports, RefusePort(c, n, p)
        PROVE  UNCHANGED <<DYNAMIC_BOOT, CHANNEL_DYNAMIC_BOOT, listening>>
    BY <2>3 DEF RefusePort
  <2>4. ASSUME NEW n \in Names, NEW p \in Ports, NEW b \in Boots, RegisterNewPort(c, n, p, b)
        PROVE  UNCHANGED <<DYNAMIC_BOOT, CHANNEL_DYNAMIC_BOOT, listening>>
    BY <2>4 DEF RegisterNewPort
  <2>5. ASSUME NEW n \in Names, NEW i \in DOMAIN CHANNEL_DYNAMIC_BOOT[c], CancelFindsBoot(c, n, i)
        PROVE  UNCHANGED <<DYNAMIC_BOOT, CHANNEL_DYNAMIC_BOOT, listening>>
    BY <2>5 DEF CancelFindsBoot
  <2> QED BY <1>11, <2>1, <2>2, <2>3, <2>4, <2>5 DEF Receive
<1>12. CASE UNCHANGED vars
  BY <1>1, <1>12 DEF vars, tables, lists, bootVars
<1> QED BY <1>1, <1>10, <1>11, <1>12 DEF Next

\* DYNAMIC_BOOT claims a port only for a bound boot, is cleared of a boot before
\* it is stopped, and no stopped boot comes back, on every path that starts or
\* stops one.
THEOREM PortsImplementLease == Spec => PortsFollowLease
<1> QED BY PortInit, PortNext, Inductive, PTL DEF Spec, PortsFollowLease, PortLease!Spec
=============================================================================
