--------------------------- MODULE NearRic_proofs ---------------------------
(***************************************************************************)
(* Theorems about NearRic, for any sets of nodes and xApps and any number  *)
(* of associations, requests and indications.                              *)
(***************************************************************************)
EXTENDS NearRic, SocketLemmas, FiniteSetTheorems, TLAPS

(* The calls an xApp makes: a request names a node.  A packet that is not  *)
(* a setup or a shutdown serves a request of its kind, or a subscription.  *)
RequestCalls == {c \in Calls : c.kind \in Requests /\ c.node \in Nodes}
AppCalls == {c \in Calls : c.kind \in Requests => c.node \in Nodes}
SubCalls == {c \in RequestCalls : c.kind = "SUB"}
Wire == {p \in Packets :
           /\ p.kind \in Requests => p.for \in RequestCalls /\ p.for.kind = p.kind
           /\ p.kind = "IND" => p.for \in SubCalls}
NodeStates == [up : BOOLEAN, ep : Nat, subs : SUBSET (Nat \X SubCalls),
               waits : BOOLEAN, setups : Nat]
Events == [kind : Requests, id : Nat]
Entries == [id : Nat, node : Nodes, xapp : Nat, xid : Nat]
Deliveries == [app : Apps, kind : Requests \cup {"IND"}, xid : Nat,
               for : Calls \cup {NoCall}]

RicType ==
  /\ ricPc \in {"idle", "regNode", "connect", "notify", "forgetConn", "forgetNode"}
  /\ ricMsg \in Wire \cup {NoMsg} /\ (ricPc = "idle" <=> ricMsg = NoMsg)
  /\ ricPc = "notify" => ricMsg.kind \in Requests \cup {"IND"}
  /\ sad \subseteq [node : Nodes, ep : Nat] /\ conn \subseteq Nodes

IappType ==
  /\ iPc \in {"idle", "lock", "insert", "send", "map"}
  /\ iMsg \in RequestCalls \cup {NoMsg} /\ (iPc = "idle" <=> iMsg = NoMsg)
  /\ iPc \in {"lock", "map"} => iMsg.kind # "DEL"
  /\ mapLock \in {"free", "iapp"}
  /\ mapLock = "iapp" <=> (iPc \in {"insert", "send", "map"} /\ iMsg.kind # "DEL")
  /\ iId \in Nat /\ reqId \in Nat /\ nextXapp \in Nat
  /\ xapps \subseteq [id : Nat, app : Apps]

SocketType ==
  /\ toRic \in [Nodes -> Seq(Wire)] /\ toNode \in [Nodes -> Seq(Wire)]
  /\ node \in [Nodes -> NodeStates]

AppType ==
  /\ toIapp \in Seq(AppCalls) /\ asked \subseteq AppCalls /\ IsFiniteSet(asked)
  /\ app \in [Apps -> [id : Nat, nodes : SUBSET Nodes]]

TableType ==
  /\ pending \subseteq Events /\ expired \subseteq pending
  /\ reg \subseteq Nodes
  /\ ricMap \subseteq Entries /\ delivered \subseteq Deliveries

TypeInv == /\ RicType /\ IappType /\ SocketType /\ AppType /\ TableType
           /\ edge \in BOOLEAN

(* Which threads change what.                                              *)
LEMMA Frames ==
  ASSUME [Next]_vars
  PROVE  /\ RicStep \/ UNCHANGED <<ricPc, ricMsg, sad, conn, reg, delivered>>
         /\ IappStep \/ UNCHANGED <<iPc, iMsg, iId, xapps, nextXapp, reqId, mapLock,
                                    ricMap, app>>
         /\ IappStep \/ (\E x \in Apps : AppStep(x)) \/ UNCHANGED <<toIapp, asked, edge>>
         /\ (\E x \in Apps : AppStep(x)) \/ UNCHANGED asked
         /\ RicStep \/ IappStep \/ UNCHANGED <<pending, crash>>
<1>1. CASE RicStep
  BY <1>1 DEF RicStep, RegisterAddress, RegisterNode, ConnectNode, StopPendingEvent,
              RecvIndication, NotifyIapp, ForgetAddress, ForgetConn, ForgetNode,
              TimerEvent, iappVars, envVars
<1>2. CASE IappStep
  BY <1>2 DEF IappStep, HandleSetup, ValidateRequest, LockMap, LookupDelete,
              InsertPending, SendToNode, AddMapping, ricVars, envVars
<1>3. CASE TimerExpires \/ (\E n \in Nodes : NodeStep(n)) \/ UNCHANGED vars
  BY <1>3 DEF TimerExpires, NodeStep, NodeConnects, NodeResends, NodeShutsDown, NodeIsLost, Leave,
              NodeHandles, NodeIndicates, FrameEnv, ricVars, iappVars, pendVars,
              envVars, vars
<1>4. CASE \E x \in Apps : AppStep(x)
  BY <1>4 DEF AppStep, AppStarts, AppRequests, AppDeletes, FrameEnv, ricVars, pendVars
<1> QED
  BY <1>1, <1>2, <1>3, <1>4 DEF Next

LEMMA RicTypeStep ==
  ASSUME RicType, toRic \in [Nodes -> Seq(Wire)], [Next]_vars
  PROVE  RicType'
<1>1. CASE UNCHANGED <<ricPc, ricMsg, sad, conn>>
  BY <1>1 DEF RicType
<1>2. \A m \in Wire : m # NoMsg /\ m.ep \in Nat /\ m.node \in Nodes
  BY DEF Wire, Packets, NoMsg, Requests
<1>3. CASE \E n \in Nodes : \/ RegisterAddress(n) \/ StopPendingEvent(n)
                            \/ RecvIndication(n) \/ ForgetAddress(n)
  <2>1. PICK n \in Nodes : \/ RegisterAddress(n) \/ StopPendingEvent(n)
                           \/ RecvIndication(n) \/ ForgetAddress(n)
    BY <1>3
  <2>2. toRic[n] # <<>> /\ toRic[n] \in Seq(Wire)
    BY <2>1 DEF RegisterAddress, StopPendingEvent, RecvIndication, ForgetAddress, Recv
  <2>3. Head(toRic[n]) \in Wire
    BY <2>2
  <2>4. /\ ricMsg' = Head(toRic[n]) /\ ricPc' \in {"regNode", "notify", "forgetConn"}
        /\ ricPc' = "notify" => Head(toRic[n]).kind \in Requests \cup {"IND"}
        /\ sad' \subseteq sad \cup {[node |-> n, ep |-> Head(toRic[n]).ep]}
        /\ conn' = conn
    BY <2>1 DEF RegisterAddress, StopPendingEvent, RecvIndication, ForgetAddress, Recv,
                RicGoto, ricVars
  <2> QED
    BY <1>2, <2>3, <2>4 DEF RicType
<1>4. CASE RegisterNode \/ ConnectNode \/ NotifyIapp \/ ForgetConn \/ ForgetNode
           \/ TimerEvent
  BY <1>2, <1>4 DEF RicType, RegisterNode, ConnectNode, NotifyIapp, ForgetConn, ForgetNode,
     TimerEvent, RicGoto, RicDone, RemoveNode, ricVars
<1> QED
  BY <1>1, <1>3, <1>4, Frames DEF RicStep

LEMMA IappTypeStep ==
  ASSUME IappType, toIapp \in Seq(AppCalls), ricMap \subseteq Entries, [Next]_vars
  PROVE  IappType'
<1>1. CASE UNCHANGED <<iPc, iMsg, iId, xapps, nextXapp, reqId, mapLock>>
  BY <1>1 DEF IappType
<1>2. NoMsg \notin RequestCalls
  BY DEF RequestCalls, Calls, NoMsg
<1>3. toIapp # <<>> => Head(toIapp) \in AppCalls
  OBVIOUS
<1>4. CASE HandleSetup
  <2>1. /\ toIapp # <<>> /\ UNCHANGED <<iPc, iMsg, iId, reqId, mapLock>>
        /\ xapps' = xapps \cup {[id |-> nextXapp, app |-> Head(toIapp).app]}
        /\ nextXapp' = nextXapp + 1
    BY <1>4 DEF HandleSetup, RecvIapp
  <2>2. Head(toIapp).app \in Apps
    BY <1>3, <2>1 DEF AppCalls, Calls
  <2> QED
    BY <2>1, <2>2 DEF IappType
<1>5. CASE ValidateRequest \/ LookupDelete
  <2>1. /\ toIapp # <<>> /\ iPc = "idle" /\ Head(toIapp).kind \in Requests
        /\ UNCHANGED <<xapps, nextXapp, reqId, mapLock>>
    BY <1>5 DEF ValidateRequest, LookupDelete, RecvIapp, Requests
  <2>2. Head(toIapp) \in RequestCalls
    BY <1>3, <2>1 DEF AppCalls, RequestCalls
  <2>3. CASE ValidateRequest
    <3>1. /\ iId' = iId /\ iPc' = "lock" /\ iMsg' = Head(toIapp)
          /\ Head(toIapp).kind # "DEL"
      BY <2>3 DEF ValidateRequest, RecvIapp, IappGoto
    <3> QED
      BY <1>2, <2>1, <2>2, <3>1 DEF IappType
  <2>4. CASE LookupDelete
    <3>1. \/ UNCHANGED <<iPc, iMsg, iId>>
          \/ /\ iPc' = "insert" /\ iMsg' = Head(toIapp) /\ Head(toIapp).kind = "DEL"
             /\ \E e \in ricMap : iId' = e.id
      BY <2>4 DEF LookupDelete, RecvIapp, IappGoto
    <3>2. \A e \in ricMap : e.id \in Nat
      BY DEF Entries
    <3> QED
      BY <1>2, <2>1, <2>2, <3>1, <3>2 DEF IappType
  <2> QED
    BY <1>5, <2>3, <2>4
<1>6. CASE LockMap
  <2>1. /\ iPc = "lock" /\ iPc' = "insert" /\ iMsg' = iMsg /\ mapLock' = "iapp"
        /\ iId' = reqId % IdMod /\ reqId' = reqId + 1
        /\ UNCHANGED <<xapps, nextXapp>>
    BY <1>6 DEF LockMap, IappGoto
  <2>2. reqId % IdMod \in Nat
    BY ConstantsAssumption DEF IappType
  <2> QED
    BY <2>1, <2>2 DEF IappType
<1>7. CASE InsertPending \/ SendToNode \/ AddMapping
  <2>1. /\ UNCHANGED <<iId, reqId, xapps, nextXapp>>
        /\ \/ iPc = "insert" /\ iPc' = "send" /\ UNCHANGED <<iMsg, mapLock>>
           \/ iPc = "send" /\ UNCHANGED <<iPc, iMsg, mapLock>>
           \/ /\ iPc = "send" /\ iMsg.kind = "DEL"
              /\ iPc' = "idle" /\ iMsg' = NoMsg /\ mapLock' = mapLock
           \/ /\ iPc = "send" /\ iMsg.kind # "DEL"
              /\ iPc' = "map" /\ UNCHANGED <<iMsg, mapLock>>
           \/ /\ iPc = "map" /\ iPc' = "idle" /\ iMsg' = NoMsg /\ mapLock' = "free"
    BY <1>7 DEF InsertPending, SendToNode, AddMapping, IappGoto, IappDone, Release
  <2> QED
    BY <1>2, <2>1 DEF IappType
<1> QED
  BY <1>1, <1>4, <1>5, <1>6, <1>7, Frames DEF IappStep

LEMMA EdgeStep ==
  ASSUME edge \in BOOLEAN, [Next]_vars
  PROVE  edge' \in BOOLEAN
<1>1. CASE IappStep
  BY <1>1, Zenon DEF IappStep, HandleSetup, ValidateRequest, LockMap, LookupDelete,
     RecvIapp, InsertPending, SendToNode, AddMapping
<1>2. CASE \E x \in Apps : AppStep(x)
  BY <1>2, Zenon DEF AppStep, AppStarts, AppRequests, AppDeletes, ToIapp
<1> QED
  BY <1>1, <1>2, Frames

(* What an xApp asks.                                                      *)
LEMMA AskCall ==
  ASSUME AppType, NEW x \in Apps, AppStep(x)
  PROVE  \E c \in AppCalls : c.app = x /\ ToIapp(c)
<1>1. asked \subseteq AppCalls /\ IsFiniteSet(asked) /\ app[x].id \in Nat
      /\ app[x].nodes \subseteq Nodes
  BY DEF AppType
<1>2. CASE AppStarts(x)
  <2> DEFINE n == Cardinality({r \in asked : r.app = x})
  <2>1. ToIapp([app |-> x, xapp |-> 0, kind |-> "SETUP", xid |-> n, node |-> NoNode])
    BY <1>2 DEF AppStarts
  <2>2. n \in Nat
    BY <1>1, FS_Subset, FS_CardinalityType
  <2> HIDE DEF n
  <2>3. [app |-> x, xapp |-> 0, kind |-> "SETUP", xid |-> n, node |-> NoNode] \in AppCalls
    BY <2>2 DEF AppCalls, Calls, Requests
  <2> QED
    BY <2>1, <2>3
<1>3. CASE AppRequests(x)
  <2> DEFINE n == 1 + Cardinality({r \in asked : r.app = x /\ r.kind \in {"SUB", "CTRL"}})
  <2>1. n \in Nat
    BY <1>1, FS_Subset, FS_CardinalityType
  <2>2. PICK m \in app[x].nodes, kind \in {"SUB", "CTRL"} :
          ToIapp([app |-> x, xapp |-> app[x].id, kind |-> kind, xid |-> n, node |-> m])
    BY <1>3 DEF AppRequests
  <2> HIDE DEF n
  <2>3. [app |-> x, xapp |-> app[x].id, kind |-> kind, xid |-> n, node |-> m] \in AppCalls
    BY <1>1, <2>1 DEF AppCalls, Calls, Requests
  <2> QED
    BY <2>2, <2>3
<1>4. CASE AppDeletes(x)
  <2>1. PICK r \in asked : /\ r.app = x /\ r.kind = "SUB"
                           /\ ToIapp([r EXCEPT !.kind = "DEL"])
    BY <1>4 DEF AppDeletes
  <2>2. [r EXCEPT !.kind = "DEL"] \in AppCalls /\ [r EXCEPT !.kind = "DEL"].app = x
    BY <1>1, <2>1 DEF AppCalls, Calls, Requests
  <2> QED
    BY <2>1, <2>2
<1> QED
  BY <1>2, <1>3, <1>4 DEF AppStep

LEMMA AppTypeStep ==
  ASSUME AppType, nextXapp \in Nat, reg \subseteq Nodes, [Next]_vars
  PROVE  AppType'
<1>1. CASE IappStep
  <2>1. asked' = asked /\ (toIapp' = toIapp \/ (toIapp # <<>> /\ toIapp' = Tail(toIapp)))
    BY <1>1 DEF IappStep, HandleSetup, ValidateRequest, LockMap, LookupDelete, RecvIapp,
       InsertPending, SendToNode, AddMapping, envVars
  <2>2. toIapp' \in Seq(AppCalls)
    BY <2>1 DEF AppType
  <2>3. app' \in [Apps -> [id : Nat, nodes : SUBSET Nodes]]
    <3>1. \/ app' = app
          \/ app' = [app EXCEPT ![Head(toIapp).app] =
                       IF @.id = 0 THEN [id |-> nextXapp, nodes |-> reg] ELSE @]
      BY <1>1 DEF IappStep, HandleSetup, ValidateRequest, LockMap, LookupDelete,
         InsertPending, SendToNode, AddMapping, envVars
    <3> QED
      BY <3>1 DEF AppType
  <2> QED
    BY <2>1, <2>2, <2>3 DEF AppType
<1>2. CASE \E x \in Apps : AppStep(x)
  <2>1. PICK c \in AppCalls : ToIapp(c)
    BY <1>2, AskCall
  <2>2. app' = app
    BY <1>2 DEF AppStep, AppStarts, AppRequests, AppDeletes
  <2>3. asked' = asked \cup {c} /\ toIapp' = Append(toIapp, c)
    BY <2>1 DEF ToIapp
  <2>4. IsFiniteSet(asked')
    BY <2>3, FS_AddElement DEF AppType
  <2> QED
    BY <2>2, <2>3, <2>4 DEF AppType
<1>3. CASE UNCHANGED <<app, toIapp, asked>>
  BY <1>3 DEF AppType
<1> QED
  BY <1>1, <1>2, <1>3, Frames

LEMMA TableTypeStep ==
  ASSUME RicType, IappType, TableType, [Next]_vars
  PROVE  TableType'
<1>1. pending' \subseteq Events /\ expired' \subseteq pending'
  <2>1. CASE \E n \in Nodes : StopPendingEvent(n)
    BY <2>1 DEF StopPendingEvent, CloseTimer, TableType
  <2>2. CASE TimerEvent \/ TimerExpires
    BY <2>2 DEF TimerEvent, TimerExpires, TableType
  <2>3. CASE InsertPending
    <3>1. [kind |-> iMsg.kind, id |-> iId] \in Events
      BY <2>3 DEF InsertPending, IappType, RequestCalls, Events
    <3> QED
      BY <2>3, <3>1 DEF InsertPending, NewEvent, TableType
  <2>4. CASE RicStep /\ ~TimerEvent /\ ~(\E n \in Nodes : StopPendingEvent(n))
    <3>1. UNCHANGED pendVars
      BY <2>4 DEF RicStep, RegisterAddress, RegisterNode, ConnectNode, RecvIndication,
         NotifyIapp, ForgetAddress, ForgetConn, ForgetNode
    <3> QED
      BY <3>1 DEF pendVars, TableType
  <2>5. CASE IappStep /\ ~InsertPending
    <3>1. UNCHANGED pendVars
      BY <2>5 DEF IappStep, HandleSetup, ValidateRequest, LockMap, LookupDelete, SendToNode,
         AddMapping
    <3> QED
      BY <3>1 DEF pendVars, TableType
  <2>6. CASE (\E n \in Nodes : NodeStep(n)) \/ (\E x \in Apps : AppStep(x)) \/ UNCHANGED vars
    <3>1. UNCHANGED pendVars
      BY <2>6 DEF NodeStep, NodeConnects, NodeResends, NodeShutsDown, NodeIsLost, Leave, NodeHandles,
         NodeIndicates, AppStep, AppStarts, AppRequests, AppDeletes, vars
    <3> QED
      BY <3>1 DEF pendVars, TableType
  <2> QED
    BY <2>1, <2>2, <2>3, <2>4, <2>5, <2>6 DEF Next
<1>2. reg' \subseteq Nodes
  <2>1. reg' = reg \/ (ricMsg \in Wire /\ reg' = reg \cup {ricMsg.node})
          \/ reg' \subseteq reg
    BY Frames DEF RicStep, RegisterAddress, RegisterNode, ConnectNode, StopPendingEvent,
       RecvIndication, NotifyIapp, ForgetAddress, ForgetConn, ForgetNode, TimerEvent, RicType
  <2> QED
    BY <2>1 DEF TableType, Wire, Packets
<1>3. ricMap' \subseteq Entries
  <2>1. CASE AddMapping
    <3>1. iMsg \in RequestCalls /\ iId \in Nat
      BY <2>1 DEF AddMapping, IappType
    <3>2. [id |-> iId, node |-> iMsg.node, xapp |-> iMsg.xapp, xid |-> iMsg.xid] \in Entries
      BY <3>1 DEF RequestCalls, Calls, Entries
    <3> QED
      BY <2>1, <3>2 DEF AddMapping, TableType
  <2>2. CASE ~AddMapping
    BY <2>2, Frames DEF IappStep, HandleSetup, ValidateRequest, LockMap, LookupDelete,
       InsertPending, SendToNode, TableType
  <2> QED
    BY <2>1, <2>2
<1>4. delivered' \subseteq Deliveries
  <2>1. CASE NotifyIapp
    <3>1. /\ ricMsg \in Wire /\ ricMsg.kind \in Requests \cup {"IND"}
      BY <2>1 DEF NotifyIapp, RicType
    <3>2. ricMsg.for \in Calls \cup {NoCall}
      BY <3>1 DEF Wire, Packets
    <3>3. \A e \in ricMap, a \in xapps :
            [app |-> a.app, kind |-> ricMsg.kind, xid |-> e.xid, for |-> ricMsg.for]
              \in Deliveries
      BY <3>1, <3>2 DEF TableType, IappType, Entries, Deliveries
    <3>4. \/ delivered' = delivered
          \/ \E e \in ricMap, a \in xapps : Deliver(e, a)
      BY <2>1 DEF NotifyIapp, MapEntries
    <3> QED
      BY <3>3, <3>4 DEF Deliver, TableType
  <2>2. CASE ~NotifyIapp
    BY <2>2, Frames DEF RicStep, RegisterAddress, RegisterNode, ConnectNode,
       StopPendingEvent, RecvIndication, ForgetAddress, ForgetConn, ForgetNode,
       TimerEvent, TableType
  <2> QED
    BY <2>1, <2>2
<1> QED
  BY <1>1, <1>2, <1>3, <1>4 DEF TableType

-----------------------------------------------------------------------------
(* The sockets: one of them grows at its end, shrinks or is cleared.       *)
Grown(q, n, p) == [q EXCEPT ![n] = Append(@, p)]
Read(q, n) == [q EXCEPT ![n] = Tail(@)]

LEMMA SocketChanges ==
  ASSUME NEW S, NEW q \in [Nodes -> Seq(S)], NEW n \in Nodes
  PROVE  /\ \A p \in S : Grown(q, n, p) \in [Nodes -> Seq(S)]
         /\ q[n] # <<>> => Read(q, n) \in [Nodes -> Seq(S)] /\ Head(q[n]) \in S
         /\ [q EXCEPT ![n] = <<>>] \in [Nodes -> Seq(S)]
<1>1. q[n] \in Seq(S)
  OBVIOUS
<1>2. /\ \A p \in S : Append(q[n], p) \in Seq(S)
      /\ q[n] # <<>> => Tail(q[n]) \in Seq(S) /\ Head(q[n]) \in S
      /\ <<>> \in Seq(S)
  BY <1>1
<1> QED
  BY <1>2 DEF Grown, Read

LEMMA WireChanges ==
  \A q \in [Nodes -> Seq(Wire)], n \in Nodes :
    /\ \A p \in Wire : Grown(q, n, p) \in [Nodes -> Seq(Wire)]
    /\ q[n] # <<>> => Read(q, n) \in [Nodes -> Seq(Wire)] /\ Head(q[n]) \in Wire
    /\ [q EXCEPT ![n] = <<>>] \in [Nodes -> Seq(Wire)]
BY SocketChanges

LEMMA PacketType ==
  ASSUME NEW n \in Nodes, NEW ep \in Nat
  PROVE  /\ Packet("SETUP", 0, ep, n, NoCall) \in Wire
         /\ Packet("SHUT", 0, ep, n, NoCall) \in Wire
         /\ \A i \in Nat, c \in RequestCalls :
              Packet(c.kind, i, ep, n, c) \in Wire
         /\ \A i \in Nat, c \in SubCalls : Packet("IND", i, ep, n, c) \in Wire
<1>1. 0 \in Nat
  OBVIOUS
<1>2. RequestCalls \subseteq Calls /\ SubCalls \subseteq RequestCalls
      /\ \A c \in RequestCalls : c.kind \in Requests
  BY DEF RequestCalls, SubCalls
<1>3. "SETUP" \notin Requests /\ "SHUT" \notin Requests /\ "IND" \notin Requests
  BY DEF Requests
<1> QED
  BY <1>1, <1>2, <1>3 DEF Packet, Wire, Packets

LEMMA SocketsOfRic ==
  ASSUME SocketType, RicType, IappType, RicStep \/ IappStep
  PROVE  /\ UNCHANGED node
         /\ \/ toRic' = toRic
            \/ \E n \in Nodes : toRic[n] # <<>> /\ toRic' = Read(toRic, n)
         /\ \/ toNode' = toNode
            \/ \E n \in Nodes, ep \in Nat :
                 toNode' = Grown(toNode, n, Packet("SETUP", 0, ep, n, NoCall))
            \/ SendToNode /\ \E a \in sad :
                 /\ a.node = iMsg.node /\ iMsg \in RequestCalls
                 /\ toNode' = Grown(toNode, a.node,
                                    Packet(iMsg.kind, iId, a.ep, a.node, iMsg))
<1>1. CASE ConnectNode
  <2>1. ricMsg \in Wire
    BY <1>1 DEF ConnectNode, RicType
  <2>2. ricMsg.node \in Nodes /\ ricMsg.ep \in Nat
    BY <2>1 DEF Wire, Packets
  <2> QED
    BY <1>1, <2>2 DEF ConnectNode, SendTo, Grown, envVars
<1>2. CASE SendToNode
  <2>1. iMsg \in RequestCalls
    BY <1>2 DEF SendToNode, IappType
  <2> QED
    BY <1>2, <2>1 DEF SendToNode, SendTo, Grown, envVars
<1>3. CASE \E n \in Nodes : \/ RegisterAddress(n) \/ StopPendingEvent(n)
                            \/ RecvIndication(n) \/ ForgetAddress(n)
  <2>1. UNCHANGED <<node, toNode>>
    BY <1>3 DEF RegisterAddress, StopPendingEvent, RecvIndication, ForgetAddress, envVars
  <2>2. \E n \in Nodes : toRic[n] # <<>> /\ toRic' = Read(toRic, n)
    BY <1>3 DEF RegisterAddress, StopPendingEvent, RecvIndication, ForgetAddress, Recv, Read
  <2> QED
    BY <2>1, <2>2
<1>4. CASE \/ RegisterNode \/ NotifyIapp \/ ForgetConn \/ ForgetNode \/ TimerEvent
           \/ HandleSetup \/ ValidateRequest \/ LockMap \/ LookupDelete \/ InsertPending
           \/ AddMapping
  BY <1>4 DEF RegisterNode, NotifyIapp, ForgetConn, ForgetNode, TimerEvent, HandleSetup,
     ValidateRequest, LockMap, LookupDelete, InsertPending, AddMapping, envVars
<1> QED
  BY <1>1, <1>2, <1>3, <1>4 DEF RicStep, IappStep

LEMMA SocketTypeStep ==
  ASSUME SocketType, RicType, IappType, [Next]_vars
  PROVE  SocketType'
<1>1. /\ toRic \in [Nodes -> Seq(Wire)] /\ toNode \in [Nodes -> Seq(Wire)]
      /\ node \in [Nodes -> NodeStates]
  BY DEF SocketType
<1>2. CASE RicStep \/ IappStep
  <2>1. toRic' \in [Nodes -> Seq(Wire)]
    BY <1>1, <1>2, SocketsOfRic, WireChanges
  <2>2. toNode' \in [Nodes -> Seq(Wire)]
    <3>1. CASE toNode' = toNode
      BY <1>1, <3>1
    <3>2. CASE \E n \in Nodes, ep \in Nat :
                 toNode' = Grown(toNode, n, Packet("SETUP", 0, ep, n, NoCall))
      <4>1. PICK n \in Nodes, ep \in Nat :
              toNode' = Grown(toNode, n, Packet("SETUP", 0, ep, n, NoCall))
        BY <3>2
      <4>2. Packet("SETUP", 0, ep, n, NoCall) \in Wire
        BY PacketType
      <4> QED
        BY <1>1, <4>1, <4>2, WireChanges
    <3>3. CASE \E a \in sad :
                 /\ a.node = iMsg.node /\ iMsg \in RequestCalls
                 /\ toNode' = Grown(toNode, a.node,
                                    Packet(iMsg.kind, iId, a.ep, a.node, iMsg))
      <4>1. PICK a \in sad :
                 /\ a.node = iMsg.node /\ iMsg \in RequestCalls
                 /\ toNode' = Grown(toNode, a.node,
                                    Packet(iMsg.kind, iId, a.ep, a.node, iMsg))
        BY <3>3
      <4>2. a.node \in Nodes /\ a.ep \in Nat /\ iId \in Nat
        BY DEF RicType, IappType
      <4>3. Packet(iMsg.kind, iId, a.ep, a.node, iMsg) \in Wire
        BY <4>1, <4>2, PacketType
      <4> QED
        BY <1>1, <4>1, <4>2, <4>3, SocketChanges
    <3> QED
      BY <1>2, <3>1, <3>2, <3>3, SocketsOfRic
  <2> QED
    BY <1>1, <1>2, <2>1, <2>2, SocketsOfRic DEF SocketType
<1>3. CASE \E n \in Nodes : NodeStep(n)
  <2>1. PICK n \in Nodes : NodeStep(n)
    BY <1>3
  <2>2. /\ node[n].up \in BOOLEAN /\ node[n].ep \in Nat
        /\ node[n].subs \subseteq Nat \X SubCalls /\ node[n] \in NodeStates
        /\ node[n].ep + 1 \in Nat
    BY <1>1 DEF NodeStates
  <2>3. CASE NodeConnects(n)
    <3> DEFINE new == [up |-> TRUE, ep |-> node[n].ep + 1, subs |-> {},
                       waits |-> TRUE, setups |-> 1]
    <3>1. new \in NodeStates
      BY <2>2 DEF NodeStates
    <3>2. node' = [node EXCEPT ![n] = new]
      BY <1>1, <2>3 DEF NodeConnects
    <3>3. toRic' = Grown(toRic, n, Packet("SETUP", 0, node[n].ep + 1, n, NoCall))
      BY <2>3 DEF NodeConnects, Grown
    <3>4. toRic' \in [Nodes -> Seq(Wire)]
      BY <1>1, <2>2, <3>3, PacketType, SocketChanges
    <3> QED
      BY <1>1, <2>3, <3>1, <3>2, <3>4 DEF NodeConnects, SocketType
  <2>7. CASE NodeResends(n)
    <3>1. node[n].setups + 1 \in Nat
      BY <2>2 DEF NodeStates
    <3>2. node' \in [Nodes -> NodeStates]
      BY <1>1, <2>7, <3>1, Zenon DEF NodeResends, NodeStates
    <3>3. toRic' = Grown(toRic, n, Packet("SETUP", 0, node[n].ep, n, NoCall))
      BY <2>7 DEF NodeResends, ToRic, Grown
    <3>4. toRic' \in [Nodes -> Seq(Wire)]
      BY <1>1, <2>2, <3>3, PacketType, SocketChanges
    <3> QED
      BY <1>1, <2>7, <3>2, <3>4 DEF NodeResends, SocketType
  <2>4. CASE NodeShutsDown(n) \/ NodeIsLost(n)
    <3>1. node' = [node EXCEPT ![n].up = FALSE, ![n].subs = {}]
          /\ toNode' = [toNode EXCEPT ![n] = <<>>]
      BY <2>4 DEF NodeShutsDown, NodeIsLost, Leave
    <3>2. node' \in [Nodes -> NodeStates]
      BY <1>1, <3>1, Zenon DEF NodeStates
    <3>3. toRic' = toRic \/ toRic' = Grown(toRic, n, Packet("SHUT", 0, node[n].ep, n, NoCall))
      BY <2>4 DEF NodeShutsDown, NodeIsLost, ToRic, Grown
    <3>4. toRic' \in [Nodes -> Seq(Wire)]
      <4>1. Packet("SHUT", 0, node[n].ep, n, NoCall) \in Wire
        BY <2>2, PacketType
      <4>2. Grown(toRic, n, Packet("SHUT", 0, node[n].ep, n, NoCall)) \in [Nodes -> Seq(Wire)]
        BY <1>1, <4>1, WireChanges
      <4> QED
        BY <1>1, <3>3, <4>2
    <3> QED
      BY <1>1, <3>1, <3>2, <3>4, SocketChanges DEF SocketType
  <2>5. CASE NodeHandles(n)
    <3> DEFINE m == Head(toNode[n])
    <3>1. toNode[n] # <<>> /\ toNode' = Read(toNode, n)
      BY <2>5 DEF NodeHandles, Read
    <3>2. m \in Wire /\ toNode' \in [Nodes -> Seq(Wire)]
      BY <1>1, <3>1, SocketChanges
    <3>3. m.id \in Nat /\ (m.kind \in Requests => m.for \in RequestCalls /\ m.for.kind = m.kind)
          /\ (m.kind = "SUB" => m.for \in SubCalls)
      BY <3>2 DEF Wire, Packets, SubCalls, Requests
    <3>4. /\ \/ toRic' = toRic
             \/ m.kind \in Requests /\ toRic' = Grown(toRic, n, Packet(m.kind, m.id, node[n].ep, n, m.for))
          /\ \/ node' = node
             \/ m.kind = "SUB" /\ node' = [node EXCEPT ![n].subs = @ \cup {<<m.id, m.for>>}]
             \/ node' = [node EXCEPT ![n].subs = {s \in @ : s[1] # m.id}]
             \/ node' = [node EXCEPT ![n].waits = FALSE]
      BY <2>5 DEF NodeHandles, ToRic, Grown, Requests
    <3> HIDE DEF m
    <3>5. toRic' \in [Nodes -> Seq(Wire)]
      <4>1. m.kind \in Requests => Packet(m.kind, m.id, node[n].ep, n, m.for) \in Wire
        BY <2>2, <3>3, PacketType
      <4>2. toRic' = toRic \/ \E p \in Wire : toRic' = Grown(toRic, n, p)
        BY <3>4, <4>1
      <4>3. \A p \in Wire : Grown(toRic, n, p) \in [Nodes -> Seq(Wire)]
        BY <1>1, WireChanges
      <4> QED
        BY <1>1, <4>2, <4>3
    <3>6. node' \in [Nodes -> NodeStates]
      <4>1. \A ss \in SUBSET (Nat \X SubCalls) :
              [node EXCEPT ![n].subs = ss] \in [Nodes -> NodeStates]
        BY <1>1, Zenon DEF NodeStates
      <4>2. m.kind = "SUB" => node[n].subs \cup {<<m.id, m.for>>} \in SUBSET (Nat \X SubCalls)
        BY <2>2, <3>3
      <4>3. {s \in node[n].subs : s[1] # m.id} \in SUBSET (Nat \X SubCalls)
        BY <2>2
      <4>4. \/ node' = node
            \/ m.kind = "SUB" /\ node' = [node EXCEPT ![n].subs = node[n].subs \cup {<<m.id, m.for>>}]
            \/ node' = [node EXCEPT ![n].subs = {s \in node[n].subs : s[1] # m.id}]
            \/ node' = [node EXCEPT ![n].waits = FALSE]
        BY <1>1, <3>4
      <4>5. [node EXCEPT ![n].waits = FALSE] \in [Nodes -> NodeStates]
        BY <1>1, Zenon DEF NodeStates
      <4> QED
        BY <1>1, <4>1, <4>2, <4>3, <4>4, <4>5
    <3> QED
      BY <3>2, <3>5, <3>6 DEF SocketType
  <2>6. CASE NodeIndicates(n)
    <3>1. PICK r \in node[n].subs : ToRic(n, "IND", r[1], r[2])
      BY <2>6 DEF NodeIndicates
    <3>2. r[1] \in Nat /\ r[2] \in SubCalls
      BY <2>2
    <3>3. toRic' = Grown(toRic, n, Packet("IND", r[1], node[n].ep, n, r[2]))
      BY <3>1 DEF ToRic, Grown
    <3>4. toRic' \in [Nodes -> Seq(Wire)]
      BY <1>1, <2>2, <3>2, <3>3, PacketType, SocketChanges
    <3> QED
      BY <1>1, <2>6, <3>4 DEF NodeIndicates, envVars, SocketType
  <2> QED
    BY <2>1, <2>3, <2>4, <2>5, <2>6, <2>7 DEF NodeStep
<1>4. CASE TimerExpires \/ (\E x \in Apps : AppStep(x)) \/ UNCHANGED vars
  BY <1>4 DEF TimerExpires, AppStep, AppStarts, AppRequests, AppDeletes, envVars, vars,
     SocketType
<1> QED
  BY <1>2, <1>3, <1>4 DEF Next

LEMMA TypeInvInit == Init => TypeInv
<1> SUFFICES ASSUME Init PROVE TypeInv
  OBVIOUS
<1>1. node \in [Nodes -> NodeStates]
  <2>1. 0 \in Nat
    OBVIOUS
  <2> QED
    BY <2>1, Zenon DEF Init, NodeStates
<1>2. /\ toRic \in [Nodes -> Seq(Wire)] /\ toNode \in [Nodes -> Seq(Wire)]
      /\ toIapp \in Seq(AppCalls)
  BY SocketEmpty DEF Init
<1>3. RicType /\ TableType
  BY DEF Init, RicType, TableType
<1>4. IappType
  <2>1. reqId \in Nat
    BY ConstantsAssumption DEF Init
  <2> QED
    BY <2>1 DEF Init, IappType
<1>5. AppType
  <2>1. IsFiniteSet(asked) /\ asked = {}
    BY FS_EmptySet DEF Init
  <2>2. app \in [Apps -> [id : Nat, nodes : SUBSET Nodes]]
    BY DEF Init
  <2> QED
    BY <1>2, <2>1, <2>2 DEF AppType
<1>6. edge \in BOOLEAN
  BY Zenon DEF Init
<1> QED
  BY <1>1, <1>2, <1>3, <1>4, <1>5, <1>6 DEF TypeInv, SocketType

LEMMA TypeInvStep == TypeInv /\ [Next]_vars => TypeInv'
<1> SUFFICES ASSUME TypeInv, [Next]_vars PROVE TypeInv'
  OBVIOUS
<1>1. /\ RicType /\ IappType /\ SocketType /\ AppType /\ TableType /\ edge \in BOOLEAN
  BY DEF TypeInv
<1>2. /\ toRic \in [Nodes -> Seq(Wire)] /\ toIapp \in Seq(AppCalls)
      /\ ricMap \subseteq Entries /\ nextXapp \in Nat /\ reg \subseteq Nodes
  BY <1>1 DEF SocketType, AppType, TableType, IappType
<1> QED
  BY <1>1, <1>2, RicTypeStep, IappTypeStep, SocketTypeStep, AppTypeStep, TableTypeStep,
     EdgeStep DEF TypeInv

(* Every variable has its type; the mutex of map_ric_id is held exactly    *)
(* while the iApp thread forwards a subscription or a control.             *)
THEOREM TypeCorrect == Spec => []TypeOK
<1>1. TypeInv => TypeOK
  <2> SUFFICES ASSUME TypeInv PROVE TypeOK
    OBVIOUS
  <2>1. /\ Wire \subseteq Packets /\ RequestCalls \subseteq Calls /\ AppCalls \subseteq Calls
        /\ SubCalls \subseteq Calls
    BY DEF Wire, RequestCalls, AppCalls, SubCalls
  <2>2. toRic \in [Nodes -> Seq(Packets)] /\ toNode \in [Nodes -> Seq(Packets)]
        /\ toIapp \in Seq(Calls)
    <3>1. \A S, T : S \subseteq T => \A q \in Seq(S) : q \in Seq(T)
      OBVIOUS
    <3> QED
      BY <2>1, <3>1 DEF TypeInv, SocketType, AppType
  <2>3. node \in [Nodes -> [up : BOOLEAN, ep : Nat, subs : SUBSET (Nat \X Calls),
                           waits : BOOLEAN, setups : Nat]]
    <3>1. SUBSET (Nat \X SubCalls) \subseteq SUBSET (Nat \X Calls)
      BY <2>1
    <3>2. \A r \in NodeStates : r \in [up : BOOLEAN, ep : Nat, subs : SUBSET (Nat \X Calls),
                           waits : BOOLEAN, setups : Nat]
      BY <3>1, Zenon DEF NodeStates
    <3> QED
      BY <3>2 DEF TypeInv, SocketType
  <2> QED
    BY <2>1, <2>2, <2>3 DEF TypeInv, RicType, IappType, AppType, TableType, TypeOK, Events,
       Entries, Deliveries
<1> QED
  BY <1>1, TypeInvInit, TypeInvStep, PTL DEF Spec

-----------------------------------------------------------------------------
(* What is in the sockets of a node, for any set of packets of each node.  *)
Each(q, F) == \A n \in Nodes : q[n] \in Seq(F[n])

LEMMA EachChanges ==
  ASSUME NEW q \in [Nodes -> Seq(Wire)], NEW F, Each(q, F), NEW n \in Nodes
  PROVE  /\ \A p \in F[n] : Each(Grown(q, n, p), F)
         /\ q[n] # <<>> => Each(Read(q, n), F) /\ Head(q[n]) \in F[n]
         /\ Each([q EXCEPT ![n] = <<>>], F)
<1>1. q[n] \in Seq(F[n])
  BY DEF Each
<1>2. /\ \A p \in F[n] : Append(q[n], p) \in Seq(F[n])
      /\ q[n] # <<>> => Tail(q[n]) \in Seq(F[n]) /\ Head(q[n]) \in F[n]
      /\ <<>> \in Seq(F[n])
  BY <1>1
<1>3. ASSUME NEW u \in Seq(F[n])
      PROVE  Each([q EXCEPT ![n] = u], F)
  BY DEF Each
<1> QED
  BY <1>2, <1>3 DEF Grown, Read

LEMMA SeqMonotone ==
  ASSUME NEW S, NEW T, S \subseteq T, NEW s \in Seq(S)
  PROVE  s \in Seq(T)
OBVIOUS

(* An entry of map_ric_id, the one that AddMapping is about to make        *)
(* included, leads from a request id back to the call.                     *)
Entry(c, i) == [id |-> i, node |-> c.node, xapp |-> c.xapp, xid |-> c.xid]
VMap == ricMap \cup (IF iPc = "map" THEN {Entry(iMsg, iId)} ELSE {})
Mapped(vm, i, c) == \E e \in vm : e.id = i /\ e.xapp = c.xapp /\ e.xid = c.xid

(* The packets of a node's sockets, when "vm" is the map and "as" are the  *)
(* calls that were made.                                                   *)
Served(vm, as) ==
  [n \in Nodes |->
     {p \in Wire :
        /\ p.node = n
        /\ p.kind \in Requests \cup {"IND"} => p.for \in as /\ Mapped(vm, p.id, p.for)
        /\ p.kind \in Requests => p.for.node = n}]

MapInv ==
  /\ Each(toRic, Served(VMap, asked)) /\ Each(toNode, Served(VMap, asked))
  /\ \A n \in Nodes : \A s \in node[n].subs : s[2] \in asked /\ Mapped(VMap, s[1], s[2])
  /\ ricPc = "notify" => ricMsg.for \in asked /\ Mapped(VMap, ricMsg.id, ricMsg.for)
  /\ toIapp \in Seq(asked) /\ iMsg \in asked \cup {NoMsg}
  /\ iPc \in {"insert", "send"} /\ iMsg.kind = "DEL" => Mapped(ricMap, iId, iMsg)

LEMMA ServedGrows ==
  ASSUME NEW q, NEW small, NEW large, NEW few, NEW many,
         small \subseteq large, few \subseteq many, Each(q, Served(small, few))
  PROVE  Each(q, Served(large, many))
<1>1. \A n \in Nodes : Served(small, few)[n] \subseteq Served(large, many)[n]
  BY DEF Served, Mapped
<1> QED
  BY <1>1, SeqMonotone DEF Each

LEMMA MapGrows ==
  ASSUME IappType, [Next]_vars
  PROVE  VMap \subseteq VMap' /\ asked \subseteq asked' /\ ricMap \subseteq ricMap'
<1>1. asked \subseteq asked'
  <2>1. CASE \E x \in Apps : AppStep(x)
    BY <2>1 DEF AppStep, AppStarts, AppRequests, AppDeletes, ToIapp
  <2> QED
    BY <2>1, Frames
<1>2. CASE IappStep
  BY <1>1, <1>2 DEF IappStep, HandleSetup, ValidateRequest, LockMap, LookupDelete, RecvIapp,
     InsertPending, SendToNode, AddMapping, IappGoto, IappDone, VMap, Entry
<1>3. CASE ~IappStep
  BY <1>1, <1>3, Frames DEF VMap
<1> QED
  BY <1>2, <1>3

LEMMA ServedPacket ==
  ASSUME NEW n \in Nodes, NEW ep \in Nat, NEW vm, NEW as
  PROVE  /\ Packet("SETUP", 0, ep, n, NoCall) \in Served(vm, as)[n]
         /\ Packet("SHUT", 0, ep, n, NoCall) \in Served(vm, as)[n]
         /\ \A i \in Nat, c \in RequestCalls :
              c \in as /\ Mapped(vm, i, c) /\ c.node = n =>
                Packet(c.kind, i, ep, n, c) \in Served(vm, as)[n]
         /\ \A i \in Nat, c \in SubCalls :
              c \in as /\ Mapped(vm, i, c) => Packet("IND", i, ep, n, c) \in Served(vm, as)[n]
<1>1. "SETUP" \notin Requests /\ "SHUT" \notin Requests /\ "IND" \notin Requests
  BY DEF Requests
<1>2. ASSUME NEW i \in Nat, NEW c \in RequestCalls, c \in as, Mapped(vm, i, c), c.node = n
      PROVE  Packet(c.kind, i, ep, n, c) \in Served(vm, as)[n]
  <2>1. Packet(c.kind, i, ep, n, c) \in Wire
    BY PacketType
  <2> QED
    BY <1>2, <2>1 DEF Served, Packet
<1>3. ASSUME NEW i \in Nat, NEW c \in SubCalls, c \in as, Mapped(vm, i, c)
      PROVE  Packet("IND", i, ep, n, c) \in Served(vm, as)[n]
  <2>1. Packet("IND", i, ep, n, c) \in Wire
    BY PacketType
  <2> QED
    BY <1>1, <1>3, <2>1 DEF Served, Packet
<1>4. /\ Packet("SETUP", 0, ep, n, NoCall) \in Served(vm, as)[n]
      /\ Packet("SHUT", 0, ep, n, NoCall) \in Served(vm, as)[n]
  <2>1. /\ Packet("SETUP", 0, ep, n, NoCall) \in Wire
        /\ Packet("SHUT", 0, ep, n, NoCall) \in Wire
    BY PacketType
  <2> QED
    BY <1>1, <2>1 DEF Served, Packet
<1> QED
  BY <1>2, <1>3, <1>4

LEMMA MapInvInit == Init => MapInv
<1> SUFFICES ASSUME Init PROVE MapInv
  OBVIOUS
<1>1. \A n \in Nodes : toRic[n] = <<>> /\ toNode[n] = <<>> /\ node[n].subs = {}
  BY DEF Init
<1>2. \A S : <<>> \in Seq(S)
  BY SocketEmpty
<1> QED
  BY <1>1, <1>2 DEF Init, MapInv, Each

(* The sockets keep what is served by the map there will be.               *)
LEMMA MapInvSockets ==
  ASSUME TypeInv, MapInv, [Next]_vars,
         NEW vm, VMap \subseteq vm, NEW as, asked \subseteq as,
         SendToNode /\ iPc' = "map" => Mapped(vm, iId, iMsg)
  PROVE  /\ Each(toRic', Served(vm, as)) /\ Each(toNode', Served(vm, as))
         /\ \A n \in Nodes : \A s \in node'[n].subs : s[2] \in as /\ Mapped(vm, s[1], s[2])
<1> DEFINE F == Served(vm, as)
<1>1. RicType /\ IappType /\ SocketType
  BY DEF TypeInv
<1>2. /\ toRic \in [Nodes -> Seq(Wire)] /\ toNode \in [Nodes -> Seq(Wire)]
      /\ node \in [Nodes -> NodeStates]
  BY <1>1 DEF SocketType
<1>3. /\ Each(toRic, F) /\ Each(toNode, F)
      /\ \A n \in Nodes : \A s \in node[n].subs : s[2] \in as /\ Mapped(vm, s[1], s[2])
  <2>1. Each(toRic, F) /\ Each(toNode, F)
    BY ServedGrows DEF MapInv
  <2> QED
    BY <2>1 DEF MapInv, Mapped
<1>4. \A n \in Nodes :
        /\ \A p \in F[n] : Each(Grown(toRic, n, p), F) /\ Each(Grown(toNode, n, p), F)
        /\ toRic[n] # <<>> => Each(Read(toRic, n), F)
        /\ toNode[n] # <<>> => Each(Read(toNode, n), F) /\ Head(toNode[n]) \in F[n]
        /\ Each([toNode EXCEPT ![n] = <<>>], F)
  BY <1>2, <1>3, EachChanges
<1> HIDE DEF F
<1>5. CASE RicStep \/ IappStep
  <2>1. Each(toRic', F) /\ node' = node
    BY <1>1, <1>3, <1>4, <1>5, SocketsOfRic
  <2>2. ASSUME NEW n \in Nodes, NEW ep \in Nat,
               toNode' = Grown(toNode, n, Packet("SETUP", 0, ep, n, NoCall))
        PROVE  Each(toNode', F)
    BY <1>4, <2>2, ServedPacket DEF F
  <2>3. ASSUME SendToNode,
               \E a \in sad :
                 /\ a.node = iMsg.node /\ iMsg \in RequestCalls
                 /\ toNode' = Grown(toNode, a.node,
                                    Packet(iMsg.kind, iId, a.ep, a.node, iMsg))
        PROVE  Each(toNode', F)
    <3>1. PICK a \in sad :
                 /\ a.node = iMsg.node /\ iMsg \in RequestCalls
                 /\ toNode' = Grown(toNode, a.node,
                                    Packet(iMsg.kind, iId, a.ep, a.node, iMsg))
      BY <2>3
    <3>2. a.node \in Nodes /\ a.ep \in Nat /\ iId \in Nat
      BY <1>1 DEF RicType, IappType
    <3>3. iPc = "send" /\ iMsg \in as
      <4>1. iMsg # NoMsg
        BY <3>1 DEF RequestCalls, Calls, NoMsg
      <4> QED
        BY <2>3, <4>1 DEF SendToNode, MapInv
    <3>4. Mapped(vm, iId, iMsg)
      <4>1. CASE iMsg.kind = "DEL"
        BY <3>3, <4>1 DEF MapInv, Mapped, VMap
      <4>2. CASE iMsg.kind # "DEL"
        <5>1. iPc' = "map"
          BY <2>3, <3>1, <4>2 DEF SendToNode, IappGoto
        <5> QED
          BY <2>3, <5>1
      <4> QED
        BY <4>1, <4>2
    <3>5. Packet(iMsg.kind, iId, a.ep, a.node, iMsg) \in F[a.node]
      BY <3>1, <3>2, <3>3, <3>4, ServedPacket DEF F
    <3> QED
      BY <1>4, <3>1, <3>2, <3>5
  <2>4. Each(toNode', F)
    BY <1>1, <1>3, <1>5, <2>2, <2>3, SocketsOfRic
  <2> QED
    BY <1>3, <2>1, <2>4 DEF F
<1>6. CASE \E n \in Nodes : NodeStep(n)
  <2>1. PICK n \in Nodes : NodeStep(n)
    BY <1>6
  <2>2. /\ node[n].ep \in Nat /\ node[n].ep + 1 \in Nat
        /\ node[n].subs \subseteq Nat \X SubCalls
    BY <1>2 DEF NodeStates
  <2>3. CASE NodeConnects(n) \/ NodeResends(n) \/ NodeShutsDown(n) \/ NodeIsLost(n)
    <3>1. \/ toRic' = toRic
          \/ toRic' = Grown(toRic, n, Packet("SETUP", 0, node[n].ep + 1, n, NoCall))
          \/ toRic' = Grown(toRic, n, Packet("SETUP", 0, node[n].ep, n, NoCall))
          \/ toRic' = Grown(toRic, n, Packet("SHUT", 0, node[n].ep, n, NoCall))
      BY <2>3 DEF NodeConnects, NodeResends, NodeShutsDown, NodeIsLost, ToRic, Grown
    <3>2. toNode' = toNode \/ toNode' = [toNode EXCEPT ![n] = <<>>]
      BY <2>3 DEF NodeConnects, NodeResends, NodeShutsDown, NodeIsLost, Leave
    <3>3. \A k \in Nodes : node'[k].subs \subseteq node[k].subs
      <4>1. CASE NodeConnects(n)
        BY <1>2, <4>1 DEF NodeConnects, NodeStates
      <4>3. CASE NodeResends(n)
        <5>1. node' = [node EXCEPT ![n].setups = node[n].setups + 1]
          BY <1>2, <4>3 DEF NodeResends
        <5>2. node'[n].subs = node[n].subs /\ \A k \in Nodes : k # n => node'[k] = node[k]
          BY <1>2, <5>1 DEF NodeStates
        <5> QED
          BY <5>2
      <4>2. CASE NodeShutsDown(n) \/ NodeIsLost(n)
        <5>1. node' = [node EXCEPT ![n].up = FALSE, ![n].subs = {}]
          BY <4>2 DEF NodeShutsDown, NodeIsLost, Leave
        <5>2. node'[n].subs = {} /\ \A k \in Nodes : k # n => node'[k] = node[k]
          BY <1>2, <5>1 DEF NodeStates
        <5> QED
          BY <5>2
      <4> QED
        BY <2>3, <4>1, <4>2, <4>3
    <3>4. /\ Packet("SETUP", 0, node[n].ep + 1, n, NoCall) \in F[n]
          /\ Packet("SETUP", 0, node[n].ep, n, NoCall) \in F[n]
          /\ Packet("SHUT", 0, node[n].ep, n, NoCall) \in F[n]
      BY <2>2, ServedPacket DEF F
    <3> QED
      BY <1>3, <1>4, <3>1, <3>2, <3>3, <3>4 DEF F
  <2>4. CASE NodeHandles(n)
    <3> DEFINE m == Head(toNode[n])
    <3>1. toNode[n] # <<>> /\ toNode' = Read(toNode, n)
      BY <2>4 DEF NodeHandles, Read
    <3>2. m \in F[n] /\ Each(toNode', F)
      BY <1>4, <3>1
    <3>3. /\ m \in Wire /\ m.id \in Nat
          /\ m.kind \in Requests => /\ m.for \in as /\ Mapped(vm, m.id, m.for)
                                    /\ m.for \in RequestCalls /\ m.for.kind = m.kind
                                    /\ m.for.node = n
      BY <3>2 DEF F, Served, Wire, Packets
    <3>4. \/ toRic' = toRic
          \/ m.kind \in Requests /\ toRic' = Grown(toRic, n, Packet(m.kind, m.id, node[n].ep, n, m.for))
      BY <2>4 DEF NodeHandles, ToRic, Grown, Requests
    <3>5. \A k \in Nodes : \A r \in node'[k].subs :
            r \in node[k].subs \/ (m.kind \in Requests /\ r = <<m.id, m.for>>)
      <4>1. \/ node' = node
            \/ m.kind = "SUB" /\ node' = [node EXCEPT ![n].subs = node[n].subs \cup {<<m.id, m.for>>}]
            \/ node' = [node EXCEPT ![n].subs = {s \in node[n].subs : s[1] # m.id}]
            \/ node' = [node EXCEPT ![n].waits = FALSE]
        BY <1>2, <2>4 DEF NodeHandles
      <4>2. \A k \in Nodes : /\ k # n => node'[k].subs = node[k].subs
                             /\ m.kind # "SUB" => node'[n].subs \subseteq node[n].subs
                             /\ node'[n].subs \subseteq node[n].subs \cup {<<m.id, m.for>>}
        <5> HIDE DEF m
        <5>4. node \in [Nodes -> NodeStates] /\ n \in Nodes
          BY <1>2
        <5>5. \/ node'[n].subs = node[n].subs
              \/ m.kind = "SUB" /\ node'[n].subs = node[n].subs \cup {<<m.id, m.for>>}
              \/ node'[n].subs = {s \in node[n].subs : s[1] # m.id}
          BY <4>1, <5>4 DEF NodeStates
        <5>1. m.kind # "SUB" => node'[n].subs \subseteq node[n].subs
          BY <5>5
        <5>2. node'[n].subs \subseteq node[n].subs \cup {<<m.id, m.for>>}
          BY <5>5
        <5>3. \A k \in Nodes : k # n => node'[k].subs = node[k].subs
          BY <1>2, <4>1 DEF NodeStates
        <5> QED
          BY <5>1, <5>2, <5>3
      <4> HIDE DEF m
      <4> QED
        BY <4>2 DEF Requests
    <3> HIDE DEF m
    <3>6. m.kind \in Requests => Packet(m.kind, m.id, node[n].ep, n, m.for) \in F[n]
      BY <2>2, <3>3, ServedPacket DEF F
    <3>7. Each(toRic', F)
      BY <1>3, <1>4, <3>4, <3>6
    <3>8. \A k \in Nodes : \A r \in node'[k].subs : r[2] \in as /\ Mapped(vm, r[1], r[2])
      <4>1. <<m.id, m.for>>[1] = m.id /\ <<m.id, m.for>>[2] = m.for
        OBVIOUS
      <4> QED
        BY <1>3, <3>3, <3>5, <4>1
    <3> QED
      BY <3>2, <3>7, <3>8 DEF F
  <2>5. CASE NodeIndicates(n)
    <3>1. PICK r \in node[n].subs : ToRic(n, "IND", r[1], r[2])
      BY <2>5 DEF NodeIndicates
    <3>2. r[1] \in Nat /\ r[2] \in SubCalls /\ r[2] \in as /\ Mapped(vm, r[1], r[2])
      BY <1>3, <2>2
    <3>3. Packet("IND", r[1], node[n].ep, n, r[2]) \in F[n]
      BY <2>2, <3>2, ServedPacket DEF F
    <3>4. toRic' = Grown(toRic, n, Packet("IND", r[1], node[n].ep, n, r[2]))
          /\ UNCHANGED <<node, toNode>>
      BY <2>5, <3>1 DEF NodeIndicates, ToRic, Grown, envVars
    <3> QED
      BY <1>3, <1>4, <3>3, <3>4 DEF F
  <2> QED
    BY <2>1, <2>3, <2>4, <2>5 DEF NodeStep
<1>7. CASE TimerExpires \/ (\E x \in Apps : AppStep(x)) \/ UNCHANGED vars
  <2>1. UNCHANGED <<toRic, toNode, node>>
    BY <1>7 DEF TimerExpires, AppStep, AppStarts, AppRequests, AppDeletes, envVars, vars
  <2> QED
    BY <1>3, <2>1 DEF F
<1> QED
  BY <1>5, <1>6, <1>7 DEF Next

LEMMA MapInvRic ==
  ASSUME TypeInv, MapInv, [Next]_vars,
         NEW vm, VMap \subseteq vm, NEW as, asked \subseteq as
  PROVE  /\ ricPc' = "notify" => ricMsg'.for \in as /\ Mapped(vm, ricMsg'.id, ricMsg'.for)
         /\ ricPc' # "idle" /\ ricPc = "idle" => \E n \in Nodes :
              /\ toRic[n] # <<>> /\ ricMsg' = Head(toRic[n])
              /\ ricMsg' \in Served(VMap, asked)[n]
<1>1. toRic \in [Nodes -> Seq(Wire)] /\ Each(toRic, Served(VMap, asked))
  BY DEF TypeInv, SocketType, MapInv
<1>2. CASE UNCHANGED <<ricPc, ricMsg>>
  BY <1>2 DEF MapInv, Mapped
<1>3. CASE \E n \in Nodes : \/ RegisterAddress(n) \/ StopPendingEvent(n)
                            \/ RecvIndication(n) \/ ForgetAddress(n)
  <2>1. PICK n \in Nodes : \/ RegisterAddress(n) \/ StopPendingEvent(n)
                           \/ RecvIndication(n) \/ ForgetAddress(n)
    BY <1>3
  <2>2. /\ toRic[n] # <<>> /\ ricMsg' = Head(toRic[n])
        /\ ricPc' = "notify" => Head(toRic[n]).kind \in Requests \cup {"IND"}
    BY <2>1 DEF RegisterAddress, StopPendingEvent, RecvIndication, ForgetAddress, Recv,
                RicGoto
  <2>3. Head(toRic[n]) \in Served(VMap, asked)[n]
    BY <1>1, <2>2, EachChanges
  <2>4. ricPc' = "notify" => ricMsg'.for \in as /\ Mapped(vm, ricMsg'.id, ricMsg'.for)
    BY <2>2, <2>3 DEF Served, Mapped
  <2> QED
    BY <2>2, <2>3, <2>4
<1>4. CASE \/ RegisterNode \/ ConnectNode \/ NotifyIapp \/ ForgetConn \/ ForgetNode
           \/ TimerEvent
  <2>1. \/ ricPc' = "idle" \/ UNCHANGED <<ricPc, ricMsg>>
        \/ ricPc # "idle" /\ ricPc' # "notify"
    BY <1>4 DEF RegisterNode, ConnectNode, NotifyIapp, ForgetConn, ForgetNode, TimerEvent,
       RicGoto, RicDone, ricVars
  <2> QED
    BY <1>2, <2>1
<1> QED
  BY <1>2, <1>3, <1>4, Frames DEF RicStep

LEMMA MapInvIapp ==
  ASSUME TypeInv, MapInv, [Next]_vars
  PROVE  /\ toIapp' \in Seq(asked') /\ iMsg' \in asked' \cup {NoMsg}
         /\ iPc' \in {"insert", "send"} /\ iMsg'.kind = "DEL" => Mapped(ricMap', iId', iMsg')
<1>1. /\ toIapp \in Seq(asked) /\ iMsg \in asked \cup {NoMsg}
      /\ iPc \in {"insert", "send"} /\ iMsg.kind = "DEL" => Mapped(ricMap, iId, iMsg)
      /\ asked \subseteq asked' /\ ricMap \subseteq ricMap' /\ IappType
  BY MapGrows DEF TypeInv, MapInv
<1>2. CASE IappStep
  <2>1. /\ asked' = asked
        /\ toIapp' = toIapp \/ (toIapp # <<>> /\ toIapp' = Tail(toIapp))
        /\ iMsg' \in {iMsg, NoMsg} \/ (toIapp # <<>> /\ iMsg' = Head(toIapp))
    BY <1>2 DEF IappStep, HandleSetup, ValidateRequest, LockMap, LookupDelete, RecvIapp,
       InsertPending, SendToNode, AddMapping, IappGoto, IappDone, envVars
  <2>2. toIapp' \in Seq(asked') /\ iMsg' \in asked' \cup {NoMsg}
    BY <1>1, <2>1
  <2>3. iPc' \in {"insert", "send"} /\ iMsg'.kind = "DEL" => Mapped(ricMap', iId', iMsg')
    <3>1. CASE LookupDelete
      BY <1>1, <3>1 DEF LookupDelete, RecvIapp, IappGoto, Mapped
    <3>2. CASE LockMap
      BY <1>1, <3>2 DEF LockMap, IappGoto, IappType
    <3>3. CASE HandleSetup \/ ValidateRequest \/ InsertPending \/ SendToNode \/ AddMapping
      <4>1. /\ iId' = iId
            /\ \/ iPc' \notin {"insert", "send"}
               \/ iPc \in {"insert", "send"} /\ iMsg' = iMsg
        BY <3>3 DEF HandleSetup, ValidateRequest, RecvIapp, InsertPending, SendToNode,
           AddMapping, IappGoto, IappDone
      <4> QED
        BY <1>1, <4>1 DEF Mapped
    <3> QED
      BY <1>2, <3>1, <3>2, <3>3 DEF IappStep
  <2> QED
    BY <2>2, <2>3
<1>3. CASE \E x \in Apps : AppStep(x)
  <2>1. PICK x \in Apps : AppStep(x)
    BY <1>3
  <2>2. PICK c \in AppCalls : ToIapp(c)
    BY <2>1, AskCall DEF TypeInv
  <2>3. asked' = asked \cup {c} /\ toIapp' = Append(toIapp, c)
    BY <2>2 DEF ToIapp
  <2>4. toIapp \in Seq(asked')
    BY <1>1, SeqMonotone
  <2>5. UNCHANGED <<iPc, iMsg, iId, ricMap>>
    BY <2>1 DEF AppStep, AppStarts, AppRequests, AppDeletes, FrameEnv
  <2>6. toIapp' \in Seq(asked')
    BY <2>3, <2>4
  <2> QED
    BY <1>1, <2>5, <2>6 DEF Mapped
<1>4. CASE UNCHANGED <<toIapp, asked, edge>> /\ ~IappStep
  BY <1>1, <1>4, Frames DEF Mapped
<1> QED
  BY <1>2, <1>3, <1>4, Frames

LEMMA MapInvStep ==
  ASSUME TypeInv, MapInv, [Next]_vars
  PROVE  MapInv'
<1>1. IappType /\ VMap \subseteq VMap' /\ asked \subseteq asked'
  BY MapGrows DEF TypeInv
<1>2. SendToNode /\ iPc' = "map" => Mapped(VMap', iId, iMsg)
  <2> SUFFICES ASSUME SendToNode, iPc' = "map" PROVE Mapped(VMap', iId, iMsg)
    OBVIOUS
  <2>1. iMsg' = iMsg /\ iId' = iId
    BY DEF SendToNode, IappGoto, IappDone
  <2>2. Entry(iMsg, iId) \in VMap'
    BY <2>1 DEF VMap, Entry
  <2> QED
    BY <2>2 DEF Mapped, Entry
<1>3. /\ Each(toRic', Served(VMap', asked')) /\ Each(toNode', Served(VMap', asked'))
      /\ \A n \in Nodes : \A s \in node'[n].subs : s[2] \in asked' /\ Mapped(VMap', s[1], s[2])
  BY <1>1, <1>2, MapInvSockets
<1>4. ricPc' = "notify" => ricMsg'.for \in asked' /\ Mapped(VMap', ricMsg'.id, ricMsg'.for)
  BY <1>1, MapInvRic
<1> QED
  BY <1>3, <1>4, MapInvIapp DEF MapInv

(* The answer to a request never finds map_ric_id without its entry,       *)
(* however quick the node is: the iApp thread holds the mutex from before  *)
(* it sends the request until the entry is there, an entry is never        *)
(* removed, and a delete goes out under its subscription's id.             *)
THEOREM AnswersAreMapped == Spec => []NoUnmappedAnswer
<1> DEFINE IInv == TypeInv /\ MapInv /\ NoUnmappedAnswer
<1>1. Init => IInv
  BY TypeInvInit, MapInvInit DEF Init, NoUnmappedAnswer
<1>2. ASSUME IInv, [Next]_vars PROVE NoUnmappedAnswer'
  <2>1. CASE NotifyIapp
    <3>1. mapLock = "free" /\ ricPc = "notify"
      BY <2>1 DEF NotifyIapp, MapFree
    <3>2. VMap = ricMap
      BY <1>2, <3>1 DEF TypeInv, IappType, VMap
    <3>3. Mapped(ricMap, ricMsg.id, ricMsg.for)
      BY <1>2, <3>1, <3>2 DEF MapInv
    <3>4. MapEntries(ricMsg) # {}
      BY <3>3 DEF Mapped, MapEntries
    <3> QED
      BY <1>2, <2>1, <3>4 DEF NotifyIapp, NoUnmappedAnswer
  <2>2. CASE ~NotifyIapp
    BY <1>2, <2>2, Frames DEF RicStep, RegisterAddress, RegisterNode, ConnectNode,
       StopPendingEvent, RecvIndication, ForgetAddress, ForgetConn, ForgetNode, TimerEvent,
       IappStep, HandleSetup, ValidateRequest, LockMap, LookupDelete, InsertPending,
       SendToNode, AddMapping, Check, NoUnmappedAnswer
  <2> QED
    BY <2>1, <2>2
<1>3. IInv /\ [Next]_vars => IInv'
  BY <1>2, TypeInvStep, MapInvStep
<1>4. IInv => NoUnmappedAnswer
  OBVIOUS
<1> HIDE DEF IInv
<1> QED
  BY <1>1, <1>3, <1>4, PTL DEF Spec

-----------------------------------------------------------------------------
(* The RIC thread's tables of nodes, between its critical sections.  That  *)
(* one address of a node goes needs to know that there is one.             *)
Owners(s) == {a.node : a \in s}
OneAddress(s) == \A a, b \in s : a.node = b.node => a = b

TablesInv ==
  Alive =>
    /\ ricPc \in {"idle", "notify"} =>
         conn = reg /\ Owners(sad) = conn /\ OneAddress(sad)
    /\ ricPc = "regNode" =>
         /\ conn = reg /\ Owners(sad) = conn \cup {ricMsg.node}
         /\ ricMsg.node \notin reg => OneAddress(sad)
    /\ ricPc = "connect" =>
         reg = conn \cup {ricMsg.node} /\ Owners(sad) = reg /\ OneAddress(sad)
    /\ ricPc = "forgetConn" =>
         conn = reg /\ Owners(sad) = conn \ {ricMsg.node} /\ OneAddress(sad)
    /\ ricPc = "forgetNode" =>
         conn = reg \ {ricMsg.node} /\ Owners(sad) = conn /\ OneAddress(sad)

LEMMA TablesStep ==
  ASSUME TypeInv, MapInv, TablesInv, [Next]_vars
  PROVE  TablesInv'
<1>1. Alive' => Alive
  BY Frames DEF RicStep, RegisterAddress, RegisterNode, ConnectNode, StopPendingEvent, Recv,
     RecvIndication, NotifyIapp, ForgetAddress, ForgetConn, ForgetNode, TimerEvent,
     IappStep, HandleSetup, ValidateRequest, LockMap, LookupDelete, RecvIapp, InsertPending,
     SendToNode, AddMapping, Alive
<1>2. CASE UNCHANGED <<ricPc, ricMsg, sad, conn, reg>>
  BY <1>1, <1>2 DEF TablesInv
<1>3. SUFFICES ASSUME Alive, Alive', RicStep PROVE TablesInv'
  BY <1>1, <1>2, Frames DEF TablesInv
<1>4. \A n \in Nodes : toRic[n] # <<>> => Head(toRic[n]).node = n
  <2>1. toRic \in [Nodes -> Seq(Wire)] /\ Each(toRic, Served(VMap, asked))
    BY DEF TypeInv, SocketType, MapInv
  <2>2. \A n \in Nodes : toRic[n] # <<>> => Head(toRic[n]) \in Served(VMap, asked)[n]
    BY <2>1, EachChanges
  <2> QED
    BY <2>2 DEF Served
<1>5. ASSUME NEW n \in Nodes, RegisterAddress(n) PROVE TablesInv'
  <2> DEFINE a == [node |-> n, ep |-> Head(toRic[n]).ep]
  <2>1. /\ ricPc = "idle" /\ ricPc' = "regNode" /\ ricMsg'.node = n
        /\ sad' = sad \cup {a} /\ UNCHANGED <<conn, reg>>
    BY <1>4, <1>5 DEF RegisterAddress, Recv, RicGoto
  <2>2. a.node = n
    OBVIOUS
  <2> HIDE DEF a
  <2>3. Owners(sad') = Owners(sad) \cup {n}
    BY <2>1, <2>2 DEF Owners
  <2>4. n \notin Owners(sad) /\ OneAddress(sad) => OneAddress(sad')
    BY <2>1, <2>2 DEF Owners, OneAddress
  <2> QED
    BY <1>3, <2>1, <2>3, <2>4 DEF TablesInv
<1>6. CASE RegisterNode
  <2>1. /\ ricPc = "regNode" /\ ricPc' = "connect" /\ ricMsg' = ricMsg
        /\ ricMsg.node \notin reg /\ reg' = reg \cup {ricMsg.node} /\ UNCHANGED <<sad, conn>>
    BY <1>3, <1>6 DEF RegisterNode, RicGoto, Check, Alive
  <2> QED
    BY <1>3, <2>1 DEF TablesInv
<1>7. CASE ConnectNode
  <2>1. /\ ricPc = "connect" /\ ricPc' = "idle" /\ conn' = conn \cup {ricMsg.node}
        /\ UNCHANGED <<sad, reg>>
    BY <1>7 DEF ConnectNode, RicDone, RicGoto
  <2> QED
    BY <1>3, <2>1 DEF TablesInv
<1>8. ASSUME NEW n \in Nodes, ForgetAddress(n) PROVE TablesInv'
  <2> DEFINE a == [node |-> n, ep |-> Head(toRic[n]).ep]
  <2>1. /\ ricPc = "idle" /\ ricPc' = "forgetConn" /\ ricMsg'.node = n
        /\ a \in sad /\ sad' = sad \ {a} /\ UNCHANGED <<conn, reg>>
    BY <1>3, <1>4, <1>8 DEF ForgetAddress, Recv, RicGoto, Check, Alive
  <2>2. a.node = n
    OBVIOUS
  <2> HIDE DEF a
  <2>3. OneAddress(sad) => Owners(sad') = Owners(sad) \ {n} /\ OneAddress(sad')
    BY <2>1, <2>2 DEF Owners, OneAddress
  <2> QED
    BY <1>3, <2>1, <2>3 DEF TablesInv
<1>9. CASE ForgetConn
  <2>1. /\ ricPc = "forgetConn" /\ ricPc' = "forgetNode" /\ ricMsg' = ricMsg
        /\ conn' = conn \ {ricMsg.node} /\ UNCHANGED <<sad, reg>>
    BY <1>9 DEF ForgetConn, RicGoto, RemoveNode
  <2> QED
    BY <1>3, <2>1 DEF TablesInv
<1>10. CASE ForgetNode
  <2>1. /\ ricPc = "forgetNode" /\ ricPc' = "idle" /\ reg' = reg \ {ricMsg.node}
        /\ UNCHANGED <<sad, conn>>
    BY <1>10 DEF ForgetNode, RicDone, RicGoto
  <2> QED
    BY <1>3, <2>1 DEF TablesInv
<1>11. CASE \/ (\E n \in Nodes : StopPendingEvent(n) \/ RecvIndication(n))
            \/ NotifyIapp \/ TimerEvent
  <2>1. /\ ricPc \in {"idle", "notify"} /\ ricPc' \in {"idle", "notify"}
        /\ UNCHANGED <<sad, conn, reg>>
    BY <1>11 DEF StopPendingEvent, RecvIndication, Recv, NotifyIapp, TimerEvent, RicDone,
       RicGoto, ricVars
  <2> QED
    BY <1>3, <2>1 DEF TablesInv
<1> QED
  BY <1>3, <1>5, <1>6, <1>7, <1>8, <1>9, <1>10, <1>11 DEF RicStep

(* Whatever way the nodes come and go, the addresses, the connected nodes  *)
(* and the nodes the iApp knows are the same between two messages.         *)
THEOREM TablesAlwaysAgree == Spec => []TablesAgree
<1> DEFINE IInv == TypeInv /\ MapInv /\ TablesInv
<1>1. Init => IInv
  BY TypeInvInit, MapInvInit DEF Init, TablesInv, Owners, OneAddress
<1>2. IInv /\ [Next]_vars => IInv'
  BY TypeInvStep, MapInvStep, TablesStep
<1>3. IInv => TablesAgree
  BY DEF TablesInv, TablesAgree, Owners
<1> HIDE DEF IInv
<1> QED
  BY <1>1, <1>2, <1>3, PTL DEF Spec

-----------------------------------------------------------------------------
(* An xApp id belongs to one xApp, a RIC request id to one request.        *)
Registered(c) == [id |-> c.xapp, app |-> c.app] \in xapps
XappInv ==
  /\ \A a, b \in xapps : a.id = b.id => a = b
  /\ \A a \in xapps : a.id < nextXapp
  /\ \A x \in Apps : app[x].id # 0 => [id |-> app[x].id, app |-> x] \in xapps
  /\ \A c \in asked : c.kind \in Requests => Registered(c)

UniqueIds(map) == \A e, f \in map : e.id = f.id => e = f
AnswerInv == XappInv /\ (Alive => UniqueIds(ricMap)) /\ AnswersReachAsker

LEMMA XappStep ==
  ASSUME TypeInv, XappInv, [Next]_vars
  PROVE  XappInv'
<1>1. /\ nextXapp \in Nat /\ xapps \subseteq [id : Nat, app : Apps]
      /\ app \in [Apps -> [id : Nat, nodes : SUBSET Nodes]]
      /\ toIapp \in Seq(AppCalls) /\ asked \subseteq AppCalls
  BY DEF TypeInv, IappType, AppType
<1>2. CASE HandleSetup
  <2> DEFINE m == Head(toIapp)
             a == [id |-> nextXapp, app |-> m.app]
  <2>1. /\ toIapp # <<>> /\ xapps' = xapps \cup {a} /\ nextXapp' = nextXapp + 1
        /\ app' = [app EXCEPT ![m.app] =
                     IF @.id = 0 THEN [id |-> nextXapp, nodes |-> reg] ELSE @]
        /\ asked' = asked
    BY <1>2 DEF HandleSetup, RecvIapp
  <2>2. m.app \in Apps
    BY <1>1, <2>1 DEF AppCalls, Calls
  <2>3. a.id = nextXapp /\ a.app = m.app
    OBVIOUS
  <2>4. \A x \in Apps : \/ x = m.app /\ app'[x].id = nextXapp
                        \/ app'[x] = app[x]
    BY <1>1, <2>1, <2>2
  <2>5. \A b \in xapps : b.id \in Nat /\ b.id < nextXapp
    BY <1>1 DEF XappInv
  <2>6. \A x \in Apps : app'[x].id # 0 => [id |-> app'[x].id, app |-> x] \in xapps'
    BY <2>1, <2>4 DEF XappInv
  <2> HIDE DEF a, m
  <2>7. (\A b, c \in xapps' : b.id = c.id => b = c) /\ (\A b \in xapps' : b.id < nextXapp')
    BY <1>1, <2>1, <2>3, <2>5 DEF XappInv
  <2>8. \A c \in asked' : c.kind \in Requests => [id |-> c.xapp, app |-> c.app] \in xapps'
    BY <2>1 DEF XappInv, Registered
  <2> QED
    BY <2>6, <2>7, <2>8 DEF XappInv, Registered
<1>3. CASE \E x \in Apps : AppStep(x)
  <2>1. PICK x \in Apps : AppStep(x)
    BY <1>3
  <2>2. UNCHANGED <<xapps, nextXapp, app>>
    BY <2>1 DEF AppStep, AppStarts, AppRequests, AppDeletes, FrameEnv
  <2>3. \A c \in asked' : c.kind \in Requests => [id |-> c.xapp, app |-> c.app] \in xapps
    <3>1. CASE AppStarts(x)
      BY <3>1 DEF AppStarts, ToIapp, XappInv, Registered, Requests
    <3>2. CASE AppRequests(x)
      <4>1. app[x].id # 0 /\ \E c : c.xapp = app[x].id /\ c.app = x /\ asked' = asked \cup {c}
        BY <3>2 DEF AppRequests, CanAsk, ToIapp
      <4> QED
        BY <4>1 DEF XappInv, Registered
    <3>3. CASE AppDeletes(x)
      <4>1. PICK r \in asked : r.kind = "SUB" /\ asked' = asked \cup {[r EXCEPT !.kind = "DEL"]}
        BY <3>3 DEF AppDeletes, ToIapp
      <4>2. [r EXCEPT !.kind = "DEL"].xapp = r.xapp /\ [r EXCEPT !.kind = "DEL"].app = r.app
        BY <1>1 DEF AppCalls, Calls
      <4>3. Registered(r)
        BY <4>1 DEF XappInv, Requests
      <4> QED
        BY <4>1, <4>2, <4>3 DEF XappInv, Registered
    <3> QED
      BY <2>1, <3>1, <3>2, <3>3 DEF AppStep
  <2> QED
    BY <2>2, <2>3 DEF XappInv, Registered
<1>4. CASE UNCHANGED <<xapps, nextXapp, app, asked>>
  BY <1>4 DEF XappInv, Registered
<1>5. CASE ValidateRequest \/ LockMap \/ LookupDelete \/ InsertPending \/ SendToNode
           \/ AddMapping
  BY <1>4, <1>5 DEF ValidateRequest, LockMap, LookupDelete, InsertPending, SendToNode,
     AddMapping, envVars
<1> QED
  BY <1>2, <1>3, <1>4, <1>5, Frames DEF IappStep

LEMMA AnswerStep ==
  ASSUME TypeInv, MapInv, AnswerInv, [Next]_vars
  PROVE  AnswersReachAsker'
<1>1. asked \subseteq asked'
  BY MapGrows DEF TypeInv
<1>2. CASE delivered' = delivered
  BY <1>1, <1>2 DEF AnswerInv, AnswersReachAsker
<1>3. CASE NotifyIapp
  <2>1. Alive /\ mapLock = "free" /\ ricPc = "notify"
    BY <1>3 DEF NotifyIapp, MapFree
  <2>2. CASE delivered' # delivered
    <3>1. PICK e \in ricMap, a \in xapps :
                 e.id = ricMsg.id /\ a.id = e.xapp /\ Deliver(e, a)
      BY <1>3, <2>2 DEF NotifyIapp, MapEntries
    <3>2. VMap = ricMap
      BY <2>1 DEF TypeInv, IappType, VMap
    <3> DEFINE c == ricMsg.for
    <3>3. c \in asked /\ Mapped(ricMap, ricMsg.id, c)
      BY <2>1, <3>2 DEF MapInv
    <3>4. e.xapp = c.xapp /\ e.xid = c.xid
      BY <2>1, <3>1, <3>3 DEF Mapped, AnswerInv, UniqueIds
    <3>5. /\ ricMsg.kind \in Requests => c \in RequestCalls /\ c.kind = ricMsg.kind
          /\ ricMsg.kind \notin Requests => ricMsg.kind = "IND" /\ c \in SubCalls
      BY <2>1 DEF TypeInv, RicType, Wire, NoMsg
    <3>6. c.kind \in Requests /\ c.kind = IF ricMsg.kind = "IND" THEN "SUB" ELSE ricMsg.kind
      BY <3>5 DEF SubCalls, RequestCalls, Requests
    <3>7. [id |-> c.xapp, app |-> c.app] \in xapps
      BY <3>3, <3>6 DEF AnswerInv, XappInv, Registered
    <3>8. a.app = c.app
      BY <3>1, <3>4, <3>7 DEF AnswerInv, XappInv
    <3>9. delivered' = delivered \cup
            {[app |-> a.app, kind |-> ricMsg.kind, xid |-> e.xid, for |-> c]}
      BY <3>1 DEF Deliver
    <3> HIDE DEF c
    <3> QED
      BY <1>1, <3>3, <3>4, <3>6, <3>8, <3>9 DEF AnswerInv, AnswersReachAsker
  <2> QED
    BY <1>2, <2>2
<1>4. CASE ~NotifyIapp
  BY <1>2, <1>4, Frames DEF RicStep, RegisterAddress, RegisterNode, ConnectNode,
     StopPendingEvent, RecvIndication, ForgetAddress, ForgetConn, ForgetNode, TimerEvent
<1> QED
  BY <1>3, <1>4

LEMMA UniqueIdsStep ==
  ASSUME Alive => UniqueIds(ricMap), [Next]_vars
  PROVE  (Alive => UniqueIds(ricMap))'
<1>1. CASE AddMapping
  BY <1>1 DEF AddMapping, Check, Alive, UniqueIds
<1>2. CASE ~AddMapping
  <2>1. ricMap' = ricMap
    BY <1>2, Frames DEF IappStep, HandleSetup, ValidateRequest, LockMap, LookupDelete,
       InsertPending, SendToNode
  <2>2. Alive' => Alive
    BY Frames DEF RicStep, RegisterAddress, RegisterNode, ConnectNode, StopPendingEvent, Recv,
       RecvIndication, NotifyIapp, ForgetAddress, ForgetConn, ForgetNode, TimerEvent,
       IappStep, HandleSetup, ValidateRequest, LockMap, LookupDelete, RecvIapp,
       InsertPending, SendToNode, AddMapping, Alive
  <2> QED
    BY <2>1, <2>2
<1> QED
  BY <1>1, <1>2

(* What an xApp is sent answers a call it made, under the id it chose,     *)
(* even when RIC request ids wrap: the process ends at the repeated id     *)
(* (map_ric_id.c:142) before the mutex is released.                        *)
THEOREM AnswersAreTranslated == Spec => []AnswersReachAsker
<1> DEFINE IInv == TypeInv /\ MapInv /\ AnswerInv
<1>1. Init => IInv
  BY TypeInvInit, MapInvInit DEF Init, AnswerInv, XappInv, UniqueIds, AnswersReachAsker
<1>2. IInv /\ [Next]_vars => IInv'
  BY TypeInvStep, MapInvStep, XappStep, UniqueIdsStep, AnswerStep DEF AnswerInv
<1>3. IInv => AnswersReachAsker
  BY DEF AnswerInv
<1> HIDE DEF IInv
<1> QED
  BY <1>1, <1>2, <1>3, PTL DEF Spec

=============================================================================
