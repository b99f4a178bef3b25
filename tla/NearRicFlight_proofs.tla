------------------------ MODULE NearRicFlight_proofs ------------------------
(***************************************************************************)
(* Requests on their way through NearRic, for any sets of nodes and xApps  *)
(* and any number of associations and requests: every one has its pending  *)
(* event, as long as the RIC request ids have not wrapped; and with one    *)
(* xApp and nodes that stay, one modelled assertion can fail, at a node    *)
(* that has repeated its E2 set-up.                                        *)
(***************************************************************************)
EXTENDS NearRic_proofs

(* Requests are numbered FirstId, FirstId + 1, ... up to IdMod - 1.        *)
IdsDoNotWrap == reqId <= IdMod

-----------------------------------------------------------------------------
(* A call is made once.  Its xid tells it from the others of its xApp, but *)
(* a delete has the xid of its subscription, and set-ups are numbered      *)
(* apart.                                                                  *)
Numbered == {"SUB", "CTRL"}
CallsOf(as, x) == {r \in as : r.app = x}
AskedBy(x) == {r \in asked : r.app = x /\ r.kind \in Numbered}
SameCall(as) == \A c, d \in as :
  c.kind \in Requests /\ c.kind = d.kind /\ c.app = d.app /\ c.xid = d.xid => c = d
AskInv ==
  /\ \A r \in asked : r.kind \in Numbered => r.xid <= Cardinality(AskedBy(r.app))
  /\ \A c, d \in asked :
       c.kind \in Numbered /\ d.kind \in Numbered /\ c.app = d.app /\ c.xid = d.xid => c = d
  /\ SameCall(asked)
  /\ \A r \in asked : r.kind = "SETUP" => r.xid < Cardinality(CallsOf(asked, r.app))

(* The calls that have not been sent to a node, and those that have.       *)
Handling == iPc \in {"lock", "insert", "send"}
Waiting == Contents(toIapp) \cup (IF Handling THEN {iMsg} ELSE {})
Sent == asked \ Waiting
WaitInv == Distinct(toIapp) /\ (Handling => iMsg \notin Contents(toIapp))

(* A call that was sent is at one place of its node's sockets at most.     *)
OpenIn(s, open) == \A k \in DOMAIN s : s[k].kind \in Requests => s[k].for \in open
Once(s) == \A j, k \in DOMAIN s :
  s[j].kind \in Requests /\ s[k].kind \in Requests /\ s[j].for = s[k].for => j = k
Apart(s, t) == \A j \in DOMAIN s, k \in DOMAIN t :
  s[j].kind \in Requests /\ t[k].kind \in Requests => s[j].for # t[k].for
Lodged(s, t, open) ==
  OpenIn(s, open) /\ OpenIn(t, open) /\ Once(s) /\ Once(t) /\ Apart(s, t)
LodgedInv == \A n \in Nodes : Lodged(toNode[n], toRic[n], Sent)

(* While they have not wrapped, a RIC request id belongs to one request.   *)
IdsInv ==
  /\ UniqueIds(ricMap)
  /\ \A e \in ricMap : e.id < reqId
  /\ iPc \in {"insert", "send", "map"} /\ iMsg.kind # "DEL" =>
       iId < reqId /\ \A e \in ricMap : e.id # iId

(* What is sent, and what was, has its pending event.                      *)
Key(p) == [kind |-> p.kind, id |-> p.id]
HasEvent(s, events) == \A k \in DOMAIN s : s[k].kind \in Requests => Key(s[k]) \in events
EventInv ==
  /\ iPc = "send" => NewEvent(iMsg, iId) \in pending
  /\ \A n \in Nodes : HasEvent(toNode[n], pending) /\ HasEvent(toRic[n], pending)

(* An association's shutdown reaches the RIC after its setup, once.        *)
Addresses(n) == {a.ep : a \in {b \in sad : b.node = n}}
Announced(s, known, e, k) ==
  e \in known \/ \E j \in DOMAIN s : j < k /\ s[j].kind = "SETUP" /\ s[j].ep = e
Departing(s, known, up, ep) ==
  /\ \A k \in DOMAIN s : s[k].kind = "SHUT" =>
       /\ Announced(s, known, s[k].ep, k)
       /\ s[k].ep <= ep /\ (up => s[k].ep < ep)
       /\ \A j \in DOMAIN s : s[j].kind = "SHUT" /\ s[j].ep = s[k].ep => j = k
  /\ up => Announced(s, known, ep, Len(s) + 1)
LeaveInv == \A n \in Nodes : Departing(toRic[n], Addresses(n), node[n].up, node[n].ep)

FlightInv ==
  /\ XappInv /\ AskInv /\ WaitInv /\ LodgedInv /\ LeaveInv
  /\ IdsDoNotWrap => IdsInv /\ EventInv /\ AnswerFindsPendingEvent

-----------------------------------------------------------------------------
(* The xApps number their calls.                                           *)
LEMMA AskStep ==
  ASSUME AppType, AskInv, NEW x \in Apps, AppStep(x)
  PROVE  /\ AskInv'
         /\ \E c \in AppCalls : c \notin asked /\ ToIapp(c)
<1>1. asked \subseteq AppCalls /\ IsFiniteSet(asked)
  BY DEF AppType
<1>2. \A y \in Apps : IsFiniteSet(AskedBy(y)) /\ Cardinality(AskedBy(y)) \in Nat
  BY <1>1, FS_Subset, FS_CardinalityType DEF AskedBy
<1>3. \A r \in asked : r.app \in Apps /\ r.xid \in Nat
  BY <1>1 DEF AppCalls, Calls
<1>7. \A y : /\ IsFiniteSet(CallsOf(asked, y)) /\ Cardinality(CallsOf(asked, y)) \in Nat
             /\ CallsOf(asked, y) = {r \in asked : r.app = y}
  BY <1>1, FS_Subset, FS_CardinalityType DEF CallsOf
<1>8. ASSUME NEW c, c \notin asked, c.app = x, asked' = asked \cup {c},
             c.kind = "SETUP" => c.xid = Cardinality(CallsOf(asked, x))
      PROVE  \A r \in asked' :
               r.kind = "SETUP" => r.xid < Cardinality(CallsOf(asked', r.app))
  <2>1. /\ CallsOf(asked', x) = CallsOf(asked, x) \cup {c} /\ c \notin CallsOf(asked, x)
        /\ \A y : y # x => CallsOf(asked', y) = CallsOf(asked, y)
    BY <1>8 DEF CallsOf
  <2>2. Cardinality(CallsOf(asked', x)) = Cardinality(CallsOf(asked, x)) + 1
    BY <1>7, <2>1, FS_AddElement
  <2> TAKE r \in asked'
  <2>3. CASE r = c
    BY <1>7, <1>8, <2>2, <2>3
  <2>4. CASE r \in asked /\ r.app = x
    BY <1>3, <1>7, <2>2, <2>4 DEF AskInv
  <2>5. CASE r \in asked /\ r.app # x
    BY <2>1, <2>5 DEF AskInv
  <2> QED
    BY <1>8, <2>3, <2>4, <2>5
<1>4. CASE AppStarts(x)
  <2> DEFINE k == Cardinality(CallsOf(asked, x))
             c == [app |-> x, xapp |-> 0, kind |-> "SETUP", xid |-> k, node |-> NoNode]
  <2>1. ToIapp(c) /\ asked' = asked \cup {c}
    BY <1>4 DEF AppStarts, ToIapp, CallsOf
  <2>2. c \in AppCalls /\ c.kind \notin Requests /\ c.kind \notin Numbered
    BY <1>7 DEF AppCalls, Calls, Requests, Numbered
  <2>5. c.app = x /\ c.kind = "SETUP" /\ c.xid = k /\ k = Cardinality(CallsOf(asked, x))
    OBVIOUS
  <2> HIDE DEF c, k
  <2>6. c \notin asked
    BY <1>7, <2>5 DEF AskInv
  <2>3. \A y \in Apps : AskedBy(y)' = AskedBy(y)
    BY <2>1, <2>2 DEF AskedBy
  <2>7. \A r \in asked' : r.kind = "SETUP" => r.xid < Cardinality(CallsOf(asked', r.app))
    BY <1>8, <2>1, <2>5, <2>6
  <2>4. AskInv'
    BY <1>3, <2>1, <2>2, <2>3, <2>7 DEF AskInv, SameCall
  <2> QED
    BY <2>1, <2>2, <2>4, <2>6
<1>5. CASE AppRequests(x)
  <2> DEFINE xid == 1 + Cardinality(AskedBy(x))
  <2>1. PICK n \in app[x].nodes, kind \in Numbered :
          ToIapp([app |-> x, xapp |-> app[x].id, kind |-> kind, xid |-> xid, node |-> n])
    BY <1>5 DEF AppRequests, AskedBy, Numbered
  <2> DEFINE c == [app |-> x, xapp |-> app[x].id, kind |-> kind, xid |-> xid, node |-> n]
  <2>2. ToIapp(c) /\ asked' = asked \cup {c} /\ c.app = x /\ c.xid = xid
        /\ c.kind = kind /\ c.kind \in Numbered /\ xid = 1 + Cardinality(AskedBy(x))
    BY <2>1 DEF ToIapp
  <2>3. c \in AppCalls
    BY <1>1, <1>2 DEF AppType, AppCalls, Calls, Requests, Numbered
  <2> HIDE DEF c, xid
  <2>4. \A r \in asked : r.kind \in Numbered /\ r.app = x => r.xid < xid
    BY <1>2, <1>3, <2>2 DEF AskInv
  <2>5. c \notin asked
    BY <1>2, <2>2, <2>4
  <2>6. AskedBy(x)' = AskedBy(x) \cup {c} /\ \A y \in Apps : y # x => AskedBy(y)' = AskedBy(y)
    BY <2>2 DEF AskedBy
  <2>7. c \notin AskedBy(x)
    BY <2>5 DEF AskedBy
  <2>8. Cardinality(AskedBy(x)') = xid
    <3>1. IsFiniteSet(AskedBy(x)) /\ Cardinality(AskedBy(x)) \in Nat
      BY <1>2
    <3>2. Cardinality(AskedBy(x) \cup {c}) = Cardinality(AskedBy(x)) + 1
      BY <2>7, <3>1, FS_AddElement
    <3> QED
      BY <2>2, <2>6, <3>1, <3>2
  <2>9. \A r \in asked' : r.kind \in Numbered => r.xid <= Cardinality(AskedBy(r.app)')
    <3> TAKE r \in asked'
    <3>1. CASE r = c
      BY <1>2, <2>2, <2>8, <3>1
    <3>2. CASE r # c /\ r.app = x
      BY <1>2, <1>3, <2>2, <2>4, <2>8, <3>2
    <3>3. CASE r # c /\ r.app # x
      BY <1>3, <2>2, <2>6, <3>3 DEF AskInv
    <3> QED
      BY <3>1, <3>2, <3>3
  <2>10. \A d, e \in asked' :
           d.kind \in Numbered /\ e.kind \in Numbered /\ d.app = e.app /\ d.xid = e.xid => d = e
    <3>1. \A d \in asked : d.kind \in Numbered /\ d.app = x => d.xid # xid
      BY <1>2, <1>3, <2>2, <2>4
    <3> QED
      BY <2>2, <3>1 DEF AskInv
  <2>11. SameCall(asked')
    BY <2>2, <2>10 DEF AskInv, SameCall, Numbered
  <2>13. \A r \in asked' : r.kind = "SETUP" => r.xid < Cardinality(CallsOf(asked', r.app))
    BY <1>8, <2>2, <2>5 DEF Numbered
  <2>12. AskInv'
    BY <2>9, <2>10, <2>11, <2>13 DEF AskInv
  <2> QED
    BY <2>2, <2>3, <2>5, <2>12
<1>6. CASE AppDeletes(x)
  <2>1. PICK r \in asked :
          /\ r.app = x /\ r.kind = "SUB"
          /\ \A d \in asked : ~(d.app = x /\ d.kind = "DEL" /\ d.xid = r.xid)
          /\ ToIapp([r EXCEPT !.kind = "DEL"])
    BY <1>6 DEF AppDeletes
  <2> DEFINE c == [r EXCEPT !.kind = "DEL"]
  <2>2. /\ c.app = x /\ c.kind = "DEL" /\ c.xid = r.xid /\ c \in AppCalls
        /\ ToIapp(c) /\ asked' = asked \cup {c}
    BY <1>1, <2>1 DEF AppCalls, Calls, Requests, ToIapp
  <2> HIDE DEF c
  <2>3. c \notin asked
    BY <2>1, <2>2
  <2>4. c.kind \notin Numbered
    BY <2>2 DEF Numbered
  <2>5. \A y \in Apps : AskedBy(y)' = AskedBy(y)
    BY <2>2, <2>4 DEF AskedBy
  <2>6. SameCall(asked')
    BY <2>1, <2>2 DEF AskInv, SameCall
  <2>7. \A d \in asked' : d.kind \in Numbered => d \in asked
    BY <2>2, <2>4
  <2>9. \A q \in asked' : q.kind = "SETUP" => q.xid < Cardinality(CallsOf(asked', q.app))
    BY <1>8, <2>2, <2>3
  <2>8. AskInv'
    BY <1>3, <2>5, <2>6, <2>7, <2>9 DEF AskInv
  <2> QED
    BY <2>2, <2>3, <2>8
<1> QED
  BY <1>4, <1>5, <1>6 DEF AppStep

LEMMA AskInvStep ==
  ASSUME TypeInv, AskInv, [Next]_vars
  PROVE  AskInv'
<1>1. CASE \E x \in Apps : AppStep(x)
  BY <1>1, AskStep DEF TypeInv
<1>2. CASE asked' = asked
  BY <1>2 DEF AskInv, AskedBy
<1> QED
  BY <1>1, <1>2, Frames

-----------------------------------------------------------------------------
(* Calls wait for the iApp thread, and then they are sent.                 *)
LEMMA WaitStep ==
  ASSUME TypeInv, MapInv, AskInv, WaitInv, [Next]_vars
  PROVE  /\ WaitInv' /\ Sent \subseteq Sent'
         /\ SendToNode /\ iPc' # "send" => iMsg \in Sent'
<1>1. /\ toIapp \in Seq(AppCalls) /\ asked \subseteq AppCalls /\ AppType
      /\ Contents(toIapp) \subseteq asked
  <2>1. toIapp \in Seq(asked)
    BY DEF MapInv
  <2>2. Contents(toIapp) \subseteq asked
    BY <2>1, SocketDomain DEF Contents
  <2> QED
    BY <2>2 DEF TypeInv, AppType
<1>2. CASE HandleSetup \/ ValidateRequest \/ LookupDelete
  <2> DEFINE h == Head(toIapp)
  <2>1. /\ toIapp # <<>> /\ toIapp' = Tail(toIapp) /\ asked' = asked /\ iPc = "idle"
        /\ \/ iPc' \notin {"lock", "insert", "send"}
           \/ iMsg' = h
    BY <1>2 DEF HandleSetup, ValidateRequest, LookupDelete, RecvIapp, IappGoto, envVars
  <2>2. /\ Contents(toIapp) = Contents(Tail(toIapp)) \cup {h}
        /\ Distinct(Tail(toIapp)) /\ h \notin Contents(Tail(toIapp))
    BY <1>1, <2>1, ContentsRecv DEF WaitInv
  <2> HIDE DEF h
  <2>3. ~SendToNode
    BY <2>1 DEF SendToNode
  <2> QED
    BY <2>1, <2>2, <2>3 DEF WaitInv, Sent, Waiting, Handling
<1>3. CASE LockMap \/ InsertPending \/ SendToNode \/ AddMapping
  <2>1. /\ UNCHANGED <<toIapp, asked>>
        /\ Handling' => Handling /\ iMsg' = iMsg
        /\ SendToNode => Handling /\ iPc' \in {"idle", "map", "send"}
    BY <1>3 DEF LockMap, InsertPending, SendToNode, AddMapping, IappGoto, IappDone, envVars,
       Handling
  <2>2. SendToNode => iMsg \in asked
    <3>1. SendToNode => iMsg # NoMsg
      BY DEF SendToNode, TypeInv, IappType
    <3> QED
      BY <3>1 DEF MapInv
  <2> QED
    BY <2>1, <2>2 DEF WaitInv, Sent, Waiting, Handling
<1>4. CASE \E x \in Apps : AppStep(x)
  <2>1. PICK c \in AppCalls : c \notin asked /\ ToIapp(c)
    BY <1>1, <1>4, AskStep
  <2>2. UNCHANGED <<iPc, iMsg>> /\ ~SendToNode
    BY <1>4, <2>1 DEF AppStep, AppStarts, AppRequests, AppDeletes, FrameEnv, ToIapp,
       SendToNode, envVars
  <2>3. asked' = asked \cup {c} /\ toIapp' = Append(toIapp, c)
    BY <2>1 DEF ToIapp
  <2>4. Contents(toIapp') = Contents(toIapp) \cup {c} /\ Distinct(toIapp')
    BY <1>1, <2>1, <2>3, ContentsSend DEF WaitInv
  <2>5. iMsg # c
    <3>1. iMsg \in asked \cup {NoMsg} /\ c # NoMsg
      BY DEF MapInv, AppCalls, Calls, NoMsg
    <3> QED
      BY <2>1, <3>1
  <2> QED
    BY <2>1, <2>2, <2>3, <2>4, <2>5 DEF WaitInv, Sent, Waiting, Handling
<1>5. CASE ~IappStep /\ UNCHANGED <<toIapp, asked>>
  <2>1. UNCHANGED <<iPc, iMsg>>
    BY <1>5, Frames
  <2> QED
    BY <1>5, <2>1 DEF WaitInv, Sent, Waiting, Handling, IappStep
<1> QED
  BY <1>2, <1>3, <1>4, <1>5, Frames DEF IappStep

-----------------------------------------------------------------------------
(* What a step does to the sockets of a node.                              *)
Quiet == {p \in Wire : p.kind \notin Requests}
Exchange(n) ==
  \/ toNode'[n] = toNode[n] /\ toRic'[n] = toRic[n]
  \/ toNode'[n] = toNode[n] /\ toRic[n] # <<>> /\ toRic'[n] = Tail(toRic[n])
  \/ \E p \in Quiet :
       /\ toRic'[n] \in {toRic[n], Append(toRic[n], p)}
       /\ toNode'[n] \in {toNode[n], <<>>, Append(toNode[n], p)}
  \/ /\ SendToNode /\ iPc' # "send" /\ iMsg \in RequestCalls /\ iMsg.node = n
     /\ toRic'[n] = toRic[n]
     /\ \E ep \in Nat : toNode'[n] = Append(toNode[n], Packet(iMsg.kind, iId, ep, n, iMsg))
  \/ /\ toNode[n] # <<>> /\ toNode'[n] = Tail(toNode[n])
     /\ \/ toRic'[n] = toRic[n]
        \/ \E m \in Wire, ep \in Nat :
             /\ m = Head(toNode[n]) /\ m.kind \in Requests
             /\ toRic'[n] = Append(toRic[n], Packet(m.kind, m.id, ep, n, m.for))

LEMMA Exchanges ==
  ASSUME TypeInv, [Next]_vars, NEW n \in Nodes
  PROVE  Exchange(n)
<1>1. /\ RicType /\ IappType /\ SocketType
      /\ toRic \in [Nodes -> Seq(Wire)] /\ toNode \in [Nodes -> Seq(Wire)]
      /\ node \in [Nodes -> NodeStates]
  BY DEF TypeInv, SocketType
<1>2. ASSUME NEW ep \in Nat
      PROVE  /\ Packet("SETUP", 0, ep, n, NoCall) \in Quiet
             /\ Packet("SHUT", 0, ep, n, NoCall) \in Quiet
             /\ \A i \in Nat, c \in SubCalls : Packet("IND", i, ep, n, c) \in Quiet
  <2>1. "SETUP" \notin Requests /\ "SHUT" \notin Requests /\ "IND" \notin Requests
    BY DEF Requests
  <2> QED
    BY <2>1, PacketType DEF Quiet, Packet
<1>3. \A k \in Nodes :
        /\ \A p : Grown(toRic, k, p)[n] = IF k = n THEN Append(toRic[n], p) ELSE toRic[n]
        /\ \A p : Grown(toNode, k, p)[n] = IF k = n THEN Append(toNode[n], p) ELSE toNode[n]
        /\ Read(toRic, k)[n] = IF k = n THEN Tail(toRic[n]) ELSE toRic[n]
        /\ Read(toNode, k)[n] = IF k = n THEN Tail(toNode[n]) ELSE toNode[n]
        /\ [toNode EXCEPT ![k] = <<>>][n] = IF k = n THEN <<>> ELSE toNode[n]
  BY <1>1 DEF Grown, Read
<1>4. CASE RicStep \/ IappStep
  <2>1. toRic' = toRic \/ toNode' = toNode
    BY <1>4 DEF RicStep, RegisterAddress, RegisterNode, ConnectNode, StopPendingEvent,
       RecvIndication, NotifyIapp, ForgetAddress, ForgetConn, ForgetNode, TimerEvent,
       IappStep, HandleSetup, ValidateRequest, LockMap, LookupDelete, InsertPending,
       SendToNode, AddMapping
  <2>2. CASE toNode' = toNode
    BY <1>1, <1>3, <1>4, <2>2, SocketsOfRic DEF Exchange
  <2>3. CASE toRic' = toRic /\ toNode' # toNode
    <3>1. \/ \E k \in Nodes, ep \in Nat :
                 toNode' = Grown(toNode, k, Packet("SETUP", 0, ep, k, NoCall))
          \/ SendToNode /\ \E a \in sad :
                 /\ a.node = iMsg.node /\ iMsg \in RequestCalls
                 /\ toNode' = Grown(toNode, a.node,
                                    Packet(iMsg.kind, iId, a.ep, a.node, iMsg))
      BY <1>1, <1>4, <2>3, SocketsOfRic
    <3>2. ASSUME NEW k \in Nodes, NEW ep \in Nat,
                 toNode' = Grown(toNode, k, Packet("SETUP", 0, ep, k, NoCall))
          PROVE  Exchange(n)
      BY <1>2, <1>3, <2>3, <3>2 DEF Exchange
    <3>3. ASSUME SendToNode, NEW a \in sad, a.node = iMsg.node, iMsg \in RequestCalls,
                 toNode' = Grown(toNode, a.node, Packet(iMsg.kind, iId, a.ep, a.node, iMsg))
          PROVE  Exchange(n)
      <4>1. a.node \in Nodes /\ a.ep \in Nat
        BY <1>1 DEF RicType
      <4>2. iPc' # "send"
        BY <2>3, <3>3 DEF SendToNode, IappGoto, IappDone
      <4> QED
        BY <1>3, <2>3, <3>3, <4>1, <4>2 DEF Exchange
    <3> QED
      BY <3>1, <3>2, <3>3
  <2> QED
    BY <2>1, <2>2, <2>3
<1>5. CASE \E k \in Nodes : NodeStep(k)
  <2>1. PICK k \in Nodes : NodeStep(k)
    BY <1>5
  <2>2. node[k].ep \in Nat /\ node[k].ep + 1 \in Nat /\ node[k].subs \subseteq Nat \X SubCalls
    BY <1>1 DEF NodeStates
  <2>3. CASE NodeConnects(k) \/ NodeResends(k) \/ NodeShutsDown(k) \/ NodeIsLost(k)
    <3>1. \/ toRic' = toRic
          \/ toRic' = Grown(toRic, k, Packet("SETUP", 0, node[k].ep + 1, k, NoCall))
          \/ toRic' = Grown(toRic, k, Packet("SETUP", 0, node[k].ep, k, NoCall))
          \/ toRic' = Grown(toRic, k, Packet("SHUT", 0, node[k].ep, k, NoCall))
      BY <2>3 DEF NodeConnects, NodeResends, NodeShutsDown, NodeIsLost, ToRic, Grown
    <3>2. toNode' = toNode \/ toNode' = [toNode EXCEPT ![k] = <<>>]
      BY <2>3 DEF NodeConnects, NodeResends, NodeShutsDown, NodeIsLost, Leave
    <3>3. toNode'[n] \in {toNode[n], <<>>}
      <4>1. [toNode EXCEPT ![k] = <<>>][n] = IF k = n THEN <<>> ELSE toNode[n]
        BY <1>3
      <4> QED
        BY <3>2, <4>1
    <3>4. \E p \in Quiet : toRic' \in {toRic, Grown(toRic, k, p)}
      <4>1. \A q \in {Packet("SETUP", 0, node[k].ep + 1, k, NoCall),
                     Packet("SETUP", 0, node[k].ep, k, NoCall),
                     Packet("SHUT", 0, node[k].ep, k, NoCall)} : q \in Quiet
        <5>1. "SETUP" \notin Requests /\ "SHUT" \notin Requests
          BY DEF Requests
        <5>2. /\ Packet("SETUP", 0, node[k].ep + 1, k, NoCall) \in Wire
              /\ Packet("SETUP", 0, node[k].ep, k, NoCall) \in Wire
              /\ Packet("SHUT", 0, node[k].ep, k, NoCall) \in Wire
          BY <2>2, PacketType
        <5> QED
          BY <5>1, <5>2 DEF Quiet, Packet
      <4> QED
        BY <3>1, <4>1
    <3>5. \E p \in Quiet : toRic'[n] \in {toRic[n], Append(toRic[n], p)}
      <4>1. PICK p \in Quiet : toRic' \in {toRic, Grown(toRic, k, p)}
        BY <3>4
      <4>2. Grown(toRic, k, p)[n] = IF k = n THEN Append(toRic[n], p) ELSE toRic[n]
        BY <1>3
      <4> QED
        BY <4>1, <4>2
    <3>6. \E p \in Quiet :
            /\ toRic'[n] \in {toRic[n], Append(toRic[n], p)}
            /\ toNode'[n] \in {toNode[n], <<>>, Append(toNode[n], p)}
      BY <3>3, <3>5
    <3> QED
      BY <3>6 DEF Exchange
  <2>4. CASE NodeHandles(k)
    <3> DEFINE m == Head(toNode[k])
    <3>1. toNode[k] # <<>> /\ toNode' = Read(toNode, k)
      BY <2>4 DEF NodeHandles, Read
    <3>2. \/ toRic' = toRic
          \/ m.kind \in Requests /\ toRic' = Grown(toRic, k, Packet(m.kind, m.id, node[k].ep, k, m.for))
      BY <2>4 DEF NodeHandles, ToRic, Grown, Requests
    <3>3. m \in Wire
      BY <1>1, <3>1, WireChanges
    <3>4. CASE k = n
      <4>1. toNode'[n] = Tail(toNode[n]) /\ m = Head(toNode[n])
        BY <1>3, <3>1, <3>4
      <4>2. \/ toRic'[n] = toRic[n]
            \/ m.kind \in Requests
               /\ toRic'[n] = Append(toRic[n], Packet(m.kind, m.id, node[n].ep, n, m.for))
        BY <1>3, <3>2, <3>4
      <4> HIDE DEF m
      <4>3. node[n].ep \in Nat
        BY <2>2, <3>4
      <4> QED
        BY <3>1, <3>3, <3>4, <4>1, <4>2, <4>3 DEF Exchange
    <3>5. CASE k # n
      BY <1>3, <3>1, <3>2, <3>5 DEF Exchange
    <3> QED
      BY <3>4, <3>5
  <2>5. CASE NodeIndicates(k)
    <3>1. PICK r \in node[k].subs : ToRic(k, "IND", r[1], r[2])
      BY <2>5 DEF NodeIndicates
    <3>2. r[1] \in Nat /\ r[2] \in SubCalls
      BY <2>2
    <3>3. toRic' = Grown(toRic, k, Packet("IND", r[1], node[k].ep, k, r[2]))
          /\ UNCHANGED toNode
      BY <2>5, <3>1 DEF NodeIndicates, ToRic, Grown
    <3> QED
      BY <1>2, <1>3, <2>2, <3>2, <3>3 DEF Exchange
  <2> QED
    BY <2>1, <2>3, <2>4, <2>5 DEF NodeStep
<1>6. CASE TimerExpires \/ (\E x \in Apps : AppStep(x)) \/ UNCHANGED vars
  BY <1>6 DEF TimerExpires, AppStep, AppStarts, AppRequests, AppDeletes, vars, Exchange
<1> QED
  BY <1>4, <1>5, <1>6 DEF Next

-----------------------------------------------------------------------------
(* Calls that are sent, moved on, read and lost are still at one place.    *)
LEMMA LodgedMore ==
  ASSUME NEW s, NEW t, NEW small, NEW large, Lodged(s, t, small), small \subseteq large
  PROVE  /\ Lodged(s, t, large) /\ Lodged(t, s, large)
         /\ Lodged(<<>>, t, large) /\ Lodged(s, <<>>, large)
BY DEF Lodged, OpenIn, Once, Apart

LEMMA LodgedQuiet ==
  ASSUME NEW s \in Seq(Wire), NEW t \in Seq(Wire), NEW open, NEW p \in Quiet, Lodged(s, t, open)
  PROVE  /\ Lodged(Append(s, p), t, open) /\ Lodged(s, Append(t, p), open)
         /\ Lodged(Append(s, p), Append(t, p), open)
<1>1. \A u \in Seq(Wire) : LET a == Append(u, p) IN
        /\ DOMAIN a = DOMAIN u \cup {Len(u) + 1}
        /\ \A k \in DOMAIN u : a[k] = u[k]
        /\ a[Len(u) + 1] = p
  BY SocketSend DEF Quiet
<1>2. p.kind \notin Requests
  BY DEF Quiet
<1> DEFINE a == Append(s, p)
           b == Append(t, p)
<1>3. \A k \in DOMAIN a : a[k].kind \in Requests => k \in DOMAIN s /\ a[k] = s[k]
  BY <1>1, <1>2
<1>4. \A k \in DOMAIN b : b[k].kind \in Requests => k \in DOMAIN t /\ b[k] = t[k]
  BY <1>1, <1>2
<1> HIDE DEF a, b
<1>5. Lodged(a, t, open)
  BY <1>3 DEF Lodged, OpenIn, Once, Apart
<1>6. Lodged(s, b, open)
  BY <1>4 DEF Lodged, OpenIn, Once, Apart
<1>7. Lodged(a, b, open)
  BY <1>3, <1>4 DEF Lodged, OpenIn, Once, Apart
<1> QED
  BY <1>5, <1>6, <1>7 DEF a, b

LEMMA LodgedSend ==
  ASSUME NEW s \in Seq(Wire), NEW t \in Seq(Wire), NEW open, NEW p \in Wire,
         Lodged(s, t, open), p.for \notin open
  PROVE  Lodged(Append(s, p), t, open \cup {p.for})
<1> DEFINE a == Append(s, p)
<1>1. /\ DOMAIN a = DOMAIN s \cup {Len(s) + 1}
      /\ \A k \in DOMAIN s : a[k] = s[k]
      /\ a[Len(s) + 1] = p
  BY SocketSend
<1> HIDE DEF a
<1> QED
  BY <1>1 DEF Lodged, OpenIn, Once, Apart, a

LEMMA LodgedTail ==
  ASSUME NEW s \in Seq(Wire), NEW t \in Seq(Wire), NEW open, Lodged(s, t, open), s # <<>>
  PROVE  /\ Lodged(Tail(s), t, open)
         /\ Head(s).kind \in Requests => Lodged(Tail(s), t, open \ {Head(s).for})
         /\ \A m \in Wire : m.kind = Head(s).kind /\ m.for = Head(s).for =>
              Lodged(Tail(s), Append(t, m), open)
<1> DEFINE h == Head(s)
           r == Tail(s)
<1>1. /\ h \in Wire /\ 1 \in DOMAIN s /\ h = s[1]
      /\ \A k \in DOMAIN r : k + 1 \in DOMAIN s /\ r[k] = s[k + 1] /\ k + 1 # 1
      /\ \A j, k \in DOMAIN r : j + 1 = k + 1 => j = k
      /\ r \in Seq(Wire)
  OBVIOUS
<1> HIDE DEF h, r
<1>2. Once(r) /\ OpenIn(r, open) /\ Apart(r, t)
  BY <1>1 DEF Lodged, OpenIn, Once, Apart
<1>3. Lodged(r, t, open)
  BY <1>2 DEF Lodged
<1>4. CASE h.kind \notin Requests
  <2>1. ASSUME NEW m \in Wire, m.kind = h.kind
        PROVE  Lodged(r, Append(t, m), open)
    <3>1. m \in Quiet
      BY <1>4, <2>1 DEF Quiet
    <3> QED
      BY <1>1, <1>3, <3>1, LodgedQuiet
  <2> QED
    BY <1>3, <1>4, <2>1 DEF h, r
<1>5. CASE h.kind \in Requests
  <2>1. \A k \in DOMAIN r : r[k].kind \in Requests => r[k].for # h.for
    BY <1>1, <1>5 DEF Lodged, Once
  <2>2. \A k \in DOMAIN t : t[k].kind \in Requests => t[k].for # h.for
    BY <1>1, <1>5 DEF Lodged, Apart
  <2>3. Lodged(r, t, open \ {h.for})
    BY <1>3, <2>1, <2>2 DEF Lodged, OpenIn
  <2>4. h.for \in open
    BY <1>1, <1>5 DEF Lodged, OpenIn
  <2>5. ASSUME NEW m \in Wire, m.kind = h.kind, m.for = h.for
        PROVE  Lodged(r, Append(t, m), open)
    <3>1. Lodged(t, r, open \ {h.for})
      BY <2>3, LodgedMore
    <3>2. Lodged(Append(t, m), r, (open \ {h.for}) \cup {m.for})
      BY <1>1, <2>5, <3>1, LodgedSend
    <3> QED
      BY <2>4, <2>5, <3>2, LodgedMore
  <2> QED
    BY <1>3, <2>3, <2>5 DEF h, r
<1> QED
  BY <1>4, <1>5

LEMMA LodgedStep ==
  ASSUME TypeInv, MapInv, AskInv, WaitInv, LodgedInv, [Next]_vars
  PROVE  LodgedInv'
<1> SUFFICES ASSUME NEW n \in Nodes PROVE Lodged(toNode'[n], toRic'[n], Sent')
  BY DEF LodgedInv
<1> DEFINE s == toNode[n]
           t == toRic[n]
<1>1. s \in Seq(Wire) /\ t \in Seq(Wire) /\ Lodged(s, t, Sent)
  BY DEF TypeInv, SocketType, LodgedInv
<1>2. Sent \subseteq Sent' /\ (SendToNode /\ iPc' # "send" => iMsg \in Sent')
  BY WaitStep
<1>3. Exchange(n)
  BY Exchanges
<1> HIDE DEF s, t
<1>4. Lodged(s, t, Sent') /\ Lodged(t, s, Sent')
  BY <1>1, <1>2, LodgedMore
<1>5. CASE toNode'[n] = s /\ toRic'[n] = t
  BY <1>4, <1>5
<1>6. CASE toNode'[n] = s /\ t # <<>> /\ toRic'[n] = Tail(t)
  <2>1. Lodged(Tail(t), s, Sent')
    BY <1>1, <1>4, <1>6, LodgedTail
  <2> QED
    BY <1>6, <2>1, LodgedMore
<1>7. ASSUME NEW p \in Quiet, toRic'[n] \in {t, Append(t, p)},
             toNode'[n] \in {s, <<>>, Append(s, p)}
      PROVE  Lodged(toNode'[n], toRic'[n], Sent')
  <2>1. /\ Lodged(Append(s, p), t, Sent') /\ Lodged(s, Append(t, p), Sent')
        /\ Lodged(Append(s, p), Append(t, p), Sent')
    BY <1>1, <1>4, LodgedQuiet
  <2>2. Lodged(<<>>, t, Sent') /\ Lodged(<<>>, Append(t, p), Sent')
    BY <1>4, <2>1, LodgedMore
  <2> QED
    BY <1>4, <1>7, <2>1, <2>2
<1>8. ASSUME NEW ep \in Nat, SendToNode, iPc' # "send", iMsg \in RequestCalls, iMsg.node = n,
             toRic'[n] = t, toNode'[n] = Append(s, Packet(iMsg.kind, iId, ep, n, iMsg))
      PROVE  Lodged(toNode'[n], toRic'[n], Sent')
  <2> DEFINE p == Packet(iMsg.kind, iId, ep, n, iMsg)
  <2>1. p \in Wire /\ p.for = iMsg
    BY <1>8, PacketType DEF TypeInv, IappType, Packet
  <2>2. iMsg \notin Sent
    BY <1>8 DEF Sent, Waiting, Handling, SendToNode
  <2> HIDE DEF p
  <2>3. Lodged(Append(s, p), t, Sent \cup {iMsg})
    BY <1>1, <2>1, <2>2, LodgedSend
  <2>4. Sent \cup {iMsg} \subseteq Sent'
    BY <1>2, <1>8
  <2>5. Lodged(Append(s, p), t, Sent')
    BY <2>3, <2>4, LodgedMore
  <2> QED
    BY <1>8, <2>5 DEF p
<1>9. CASE s # <<>> /\ toNode'[n] = Tail(s) /\ toRic'[n] = t
  <2>1. Lodged(Tail(s), t, Sent')
    BY <1>1, <1>4, <1>9, LodgedTail
  <2> QED
    BY <1>9, <2>1
<1>10. ASSUME NEW m \in Wire, NEW ep \in Nat, s # <<>>, toNode'[n] = Tail(s), m = Head(s),
              m.kind \in Requests,
              toRic'[n] = Append(t, Packet(m.kind, m.id, ep, n, m.for))
       PROVE  Lodged(toNode'[n], toRic'[n], Sent')
  <2> DEFINE p == Packet(m.kind, m.id, ep, n, m.for)
  <2>1. m.id \in Nat /\ m.for \in RequestCalls /\ m.for.kind = m.kind
    BY <1>10 DEF Wire, Packets
  <2>2. p \in Wire /\ p.kind = m.kind /\ p.for = m.for
    <3>1. Packet(m.for.kind, m.id, ep, n, m.for) \in Wire
      BY <2>1, PacketType
    <3> QED
      BY <2>1, <3>1 DEF Packet
  <2> HIDE DEF p
  <2>3. Lodged(Tail(s), Append(t, p), Sent')
    BY <1>1, <1>4, <1>10, <2>2, LodgedTail
  <2> QED
    BY <1>10, <2>3 DEF p
<1> QED
  BY <1>3, <1>5, <1>6, <1>7, <1>8, <1>9, <1>10 DEF Exchange, s, t

-----------------------------------------------------------------------------
(* As long as the ids have not wrapped, each is new.                       *)
LEMMA IdsStep ==
  ASSUME TypeInv, IdsDoNotWrap => IdsInv, [Next]_vars, IdsDoNotWrap'
  PROVE  IdsDoNotWrap /\ IdsInv'
<1>1. reqId \in Nat /\ IdMod \in Nat \ {0} /\ iId \in Nat /\ ricMap \subseteq Entries
  BY ConstantsAssumption DEF TypeInv, IappType, TableType
<1>2. \A e \in ricMap : e.id \in Nat
  BY <1>1 DEF Entries
<1>3. CASE LockMap
  <2>1. reqId' = reqId + 1 /\ iId' = reqId % IdMod /\ ricMap' = ricMap
    BY <1>3 DEF LockMap
  <2>2. reqId < IdMod
    BY <1>1, <2>1 DEF IdsDoNotWrap
  <2>3. IdsDoNotWrap /\ iId' = reqId
    BY <1>1, <2>1, <2>2 DEF IdsDoNotWrap
  <2>4. \A e \in ricMap' : e.id < reqId' /\ e.id # iId'
    BY <1>1, <1>2, <2>1, <2>3 DEF IdsInv
  <2> QED
    BY <1>1, <2>1, <2>3, <2>4 DEF IdsInv
<1>4. CASE AddMapping
  <2> DEFINE f == [id |-> iId, node |-> iMsg.node, xapp |-> iMsg.xapp, xid |-> iMsg.xid]
  <2>1. /\ iPc = "map" /\ iPc' = "idle" /\ reqId' = reqId /\ ricMap' = ricMap \cup {f}
        /\ f.id = iId
    BY <1>4 DEF AddMapping, IappDone, IappGoto
  <2> HIDE DEF f
  <2>2. IdsDoNotWrap /\ IdsInv /\ iMsg.kind # "DEL"
    BY <2>1 DEF IdsDoNotWrap, TypeInv, IappType
  <2>3. iId < reqId /\ \A e \in ricMap : e.id # iId
    BY <2>1, <2>2 DEF IdsInv
  <2>4. UniqueIds(ricMap')
    BY <2>1, <2>2, <2>3 DEF IdsInv, UniqueIds
  <2> QED
    BY <2>1, <2>2, <2>3, <2>4 DEF IdsInv
<1>5. CASE LookupDelete
  <2>1. UNCHANGED <<reqId, ricMap>> /\ IdsDoNotWrap
    BY <1>5 DEF LookupDelete, IdsDoNotWrap
  <2>2. iPc' = "idle" \/ iMsg'.kind = "DEL"
    BY <1>5 DEF LookupDelete, RecvIapp, IappGoto
  <2> QED
    BY <2>1, <2>2 DEF IdsInv
<1>6. CASE ~LockMap /\ ~AddMapping /\ ~LookupDelete
  <2>1. UNCHANGED <<reqId, ricMap>> /\ IdsDoNotWrap
    <3>1. UNCHANGED <<reqId, ricMap>>
      BY <1>6, Frames DEF IappStep, HandleSetup, ValidateRequest, InsertPending, SendToNode
    <3> QED
      BY <3>1 DEF IdsDoNotWrap
  <2>2. \/ iPc' \notin {"insert", "send", "map"}
        \/ iPc \in {"insert", "send", "map"} /\ iMsg' = iMsg /\ iId' = iId
    BY <1>6, Frames DEF IappStep, HandleSetup, ValidateRequest, RecvIapp, InsertPending,
       SendToNode, IappGoto, IappDone
  <2> QED
    BY <2>1, <2>2 DEF IdsInv
<1> QED
  BY <1>3, <1>4, <1>5, <1>6

(* The map leads from an id to one call only.                              *)
LEMMA OneCallPerId ==
  ASSUME TypeInv, XappInv, AskInv, IdsInv, NEW i,
         NEW c \in asked, Mapped(VMap, i, c), NEW d \in asked, Mapped(VMap, i, d),
         c.kind = d.kind, c.kind \in Requests
  PROVE  c = d
<1>1. UniqueIds(VMap)
  <2>1. CASE iPc = "map"
    <3>1. iMsg.kind # "DEL"
      BY <2>1 DEF TypeInv, IappType
    <3>2. Entry(iMsg, iId).id = iId /\ VMap = ricMap \cup {Entry(iMsg, iId)}
      BY <2>1 DEF Entry, VMap
    <3> QED
      BY <2>1, <3>1, <3>2 DEF IdsInv, UniqueIds
  <2>2. CASE iPc # "map"
    BY <2>2 DEF VMap, IdsInv
  <2> QED
    BY <2>1, <2>2
<1>2. c.xapp = d.xapp /\ c.xid = d.xid
  BY <1>1 DEF Mapped, UniqueIds
<1>3. Registered(c) /\ Registered(d)
  BY DEF XappInv
<1>4. c.app = d.app
  BY <1>2, <1>3 DEF XappInv, Registered
<1> QED
  BY <1>2, <1>4 DEF AskInv, SameCall

(* A request in a node's sockets.                                          *)
LEMMA InSocket ==
  ASSUME TypeInv, MapInv, LodgedInv, NEW n \in Nodes, NEW s \in {toNode[n], toRic[n]},
         NEW k \in DOMAIN s, s[k].kind \in Requests
  PROVE  /\ s[k].for \in asked /\ s[k].for.kind = s[k].kind /\ s[k].for.node = n
         /\ Mapped(VMap, s[k].id, s[k].for) /\ s[k].for \in Sent
<1>1. s \in Seq(Served(VMap, asked)[n])
  BY DEF MapInv, Each
<1>2. s[k] \in Served(VMap, asked)[n]
  BY <1>1, SocketDomain
<1>3. s[k] \in Wire
  BY <1>2 DEF Served
<1>4. s[k].for \in Sent
  BY DEF LodgedInv, Lodged, OpenIn
<1> QED
  BY <1>2, <1>3, <1>4 DEF Served, Wire

(* The request that is about to be sent has a key of its own.              *)
LEMMA NewKey ==
  ASSUME TypeInv, MapInv, XappInv, AskInv, LodgedInv, IdsInv, iPc \in {"insert", "send"},
         NEW n \in Nodes, NEW s \in {toNode[n], toRic[n]},
         NEW k \in DOMAIN s, s[k].kind \in Requests
  PROVE  Key(s[k]) # NewEvent(iMsg, iId)
<1> SUFFICES ASSUME s[k].kind = iMsg.kind, s[k].id = iId PROVE FALSE
  BY DEF Key, NewEvent
<1> DEFINE c == s[k].for
<1>1. /\ c \in asked /\ c.kind = s[k].kind /\ Mapped(ricMap, s[k].id, c) /\ c \in Sent
      /\ VMap = ricMap
  BY InSocket DEF VMap
<1>2. iMsg \in asked
  BY DEF MapInv, TypeInv, IappType
<1>3. CASE iMsg.kind = "DEL"
  <2>1. Mapped(VMap, iId, iMsg)
    BY <1>1, <1>3 DEF MapInv
  <2>2. c = iMsg
    BY <1>1, <1>2, <2>1, OneCallPerId
  <2> QED
    BY <1>1, <2>2 DEF Sent, Waiting, Handling
<1>4. CASE iMsg.kind # "DEL"
  BY <1>1, <1>4 DEF IdsInv, Mapped
<1> QED
  BY <1>3, <1>4

-----------------------------------------------------------------------------
(* Each request keeps its event until its answer is read.                  *)
LEMMA HasEventTail ==
  ASSUME NEW s \in Seq(Wire), NEW events, HasEvent(s, events), s # <<>>
  PROVE  HasEvent(Tail(s), events) /\ (Head(s).kind \in Requests => Key(Head(s)) \in events)
<1> DEFINE r == Tail(s)
           h == Head(s)
<1>1. /\ 1 \in DOMAIN s /\ h = s[1]
      /\ \A k \in DOMAIN r : k + 1 \in DOMAIN s /\ r[k] = s[k + 1]
  BY SocketRecv
<1> HIDE DEF r, h
<1> QED
  BY <1>1 DEF HasEvent, r, h

LEMMA HasEventSend ==
  ASSUME NEW s \in Seq(Wire), NEW events, HasEvent(s, events), NEW p \in Wire,
         p.kind \in Requests => Key(p) \in events
  PROVE  HasEvent(Append(s, p), events)
<1> DEFINE a == Append(s, p)
<1>1. /\ DOMAIN a = DOMAIN s \cup {Len(s) + 1}
      /\ \A k \in DOMAIN s : a[k] = s[k]
      /\ a[Len(s) + 1] = p
  BY SocketSend
<1> HIDE DEF a
<1> QED
  BY <1>1 DEF HasEvent, a

LEMMA EventKept ==
  ASSUME TypeInv, EventInv, [Next]_vars, pending \subseteq pending', NEW n \in Nodes
  PROVE  HasEvent(toNode'[n], pending') /\ HasEvent(toRic'[n], pending')
<1> DEFINE s == toNode[n]
           t == toRic[n]
           ev == pending'
<1>1. /\ s \in Seq(Wire) /\ t \in Seq(Wire) /\ pending \subseteq ev
      /\ HasEvent(s, pending) /\ HasEvent(t, pending)
  BY DEF TypeInv, SocketType, EventInv
<1>2. Exchange(n)
  BY Exchanges
<1> HIDE DEF s, t, ev
<1>3. ASSUME NEW u \in Seq(Wire), HasEvent(u, pending)
      PROVE  /\ HasEvent(u, ev) /\ HasEvent(<<>>, ev)
             /\ u # <<>> => HasEvent(Tail(u), ev)
             /\ \A p \in Quiet : HasEvent(Append(u, p), ev)
  <2>1. HasEvent(u, ev) /\ HasEvent(<<>>, ev)
    BY <1>1, <1>3 DEF HasEvent
  <2>2. u # <<>> => HasEvent(Tail(u), ev)
    BY <1>3, <2>1, HasEventTail
  <2>3. \A p \in Quiet : HasEvent(Append(u, p), ev)
    BY <1>3, <2>1, HasEventSend DEF Quiet
  <2> QED
    BY <2>1, <2>2, <2>3
<1>4. ASSUME NEW ep \in Nat, SendToNode, iMsg \in RequestCalls
      PROVE  HasEvent(Append(s, Packet(iMsg.kind, iId, ep, n, iMsg)), ev)
  <2> DEFINE p == Packet(iMsg.kind, iId, ep, n, iMsg)
  <2>1. p \in Wire /\ Key(p) = NewEvent(iMsg, iId)
    BY <1>4, PacketType DEF TypeInv, IappType, Packet, Key, NewEvent
  <2>2. Key(p) \in ev
    BY <1>1, <1>4, <2>1 DEF SendToNode, EventInv
  <2> HIDE DEF p
  <2>3. HasEvent(Append(s, p), ev)
    BY <1>1, <1>3, <2>1, <2>2, HasEventSend
  <2> QED
    BY <2>3 DEF p
<1>5. ASSUME NEW m \in Wire, NEW ep \in Nat, s # <<>>, m = Head(s), m.kind \in Requests
      PROVE  HasEvent(Append(t, Packet(m.kind, m.id, ep, n, m.for)), ev)
  <2> DEFINE p == Packet(m.kind, m.id, ep, n, m.for)
  <2>1. m.id \in Nat /\ m.for \in RequestCalls /\ m.for.kind = m.kind
    BY <1>5 DEF Wire, Packets
  <2>2. p \in Wire /\ Key(p) = Key(m)
    <3>1. Packet(m.for.kind, m.id, ep, n, m.for) \in Wire
      BY <2>1, PacketType
    <3> QED
      BY <2>1, <3>1 DEF Packet, Key
  <2>3. Key(m) \in ev
    <3>1. Key(Head(s)) \in pending
      BY <1>1, <1>5, HasEventTail
    <3> QED
      BY <1>1, <1>5, <3>1
  <2> HIDE DEF p
  <2>4. HasEvent(Append(t, p), ev)
    BY <1>1, <1>3, <2>2, <2>3, HasEventSend
  <2> QED
    BY <2>4 DEF p
<1> QED
  BY <1>1, <1>2, <1>3, <1>4, <1>5 DEF Exchange, s, t, ev

LEMMA EventStep ==
  ASSUME TypeInv, MapInv, XappInv, AskInv, WaitInv, LodgedInv, IdsInv, EventInv, [Next]_vars
  PROVE  EventInv'
<1>1. CASE \E n \in Nodes : StopPendingEvent(n)
  <2>1. PICK n \in Nodes : StopPendingEvent(n)
    BY <1>1
  <2> DEFINE s == toNode[n]
             t == toRic[n]
             m == Head(t)
  <2>2. /\ t # <<>> /\ m.kind \in Requests /\ toRic' = [toRic EXCEPT ![n] = Tail(t)]
        /\ pending' = pending \ {Key(m)}
        /\ UNCHANGED <<toNode, iPc, iMsg, iId>>
    BY <2>1 DEF StopPendingEvent, Recv, CloseTimer, Key, iappVars
  <2>3. /\ s \in Seq(Wire) /\ t \in Seq(Wire) /\ Lodged(t, s, Sent)
        /\ toRic'[n] = Tail(t) /\ \A k \in Nodes : k # n => toRic'[k] = toRic[k]
    BY <2>2, LodgedMore DEF TypeInv, SocketType, LodgedInv
  <2>4. 1 \in DOMAIN t /\ m = t[1]
    BY <2>2, <2>3, SocketRecv
  <2>5. /\ m.for \in asked /\ m.for.kind = m.kind /\ m.for.node = n
        /\ Mapped(VMap, m.id, m.for) /\ m.for.kind \in Requests
    BY <2>2, <2>4, InSocket
  <2>6. iPc' = "send" => NewEvent(iMsg', iId') \in pending'
    <3>1. iPc = "send" => Key(m) # NewEvent(iMsg, iId)
      BY <2>2, <2>4, NewKey
    <3> QED
      BY <2>2, <3>1 DEF EventInv
  <2>7. ASSUME NEW k \in Nodes, NEW u \in {toNode[k], toRic[k]}, k # n
        PROVE  HasEvent(u, pending')
    <3> SUFFICES ASSUME NEW j \in DOMAIN u, u[j].kind \in Requests, Key(u[j]) = Key(m)
                 PROVE  FALSE
      BY <2>2, <2>7 DEF HasEvent, EventInv
    <3>1. /\ u[j].for \in asked /\ u[j].for.kind = u[j].kind /\ u[j].for.node = k
          /\ Mapped(VMap, u[j].id, u[j].for) /\ u[j].id = m.id /\ u[j].kind = m.kind
      BY InSocket DEF Key
    <3>2. u[j].for = m.for
      BY <2>5, <3>1, OneCallPerId
    <3> QED
      BY <2>5, <2>7, <3>1, <3>2
  <2>8. Lodged(Tail(t), s, Sent \ {m.for})
    BY <2>2, <2>3, LodgedTail
  <2>9. HasEvent(s, pending')
    <3> SUFFICES ASSUME NEW j \in DOMAIN s, s[j].kind \in Requests, Key(s[j]) = Key(m)
                 PROVE  FALSE
      BY <2>2 DEF HasEvent, EventInv
    <3>1. /\ s[j].for \in asked /\ s[j].for.kind = s[j].kind
          /\ Mapped(VMap, s[j].id, s[j].for) /\ s[j].id = m.id /\ s[j].kind = m.kind
      BY InSocket DEF Key
    <3>2. s[j].for = m.for
      BY <2>5, <3>1, OneCallPerId
    <3> QED
      BY <2>8, <3>2 DEF Lodged, OpenIn
  <2>10. HasEvent(Tail(t), pending')
    <3> DEFINE r == Tail(t)
    <3>1. \A k \in DOMAIN r : k + 1 \in DOMAIN t /\ r[k] = t[k + 1]
      BY <2>2, <2>3, SocketRecv
    <3>2. HasEvent(t, pending)
      BY DEF EventInv
    <3> HIDE DEF r
    <3>3. \A k \in DOMAIN r : r[k].kind \in Requests => Key(r[k]) \in pending
      BY <3>1, <3>2 DEF HasEvent
    <3>4. ASSUME NEW k \in DOMAIN r, r[k].kind \in Requests, Key(r[k]) = Key(m)
          PROVE  FALSE
      <4>1. k + 1 \in DOMAIN t /\ t[k + 1] = r[k]
        BY <3>1
      <4>2. /\ t[k + 1].for \in asked /\ t[k + 1].for.kind = t[k + 1].kind
            /\ Mapped(VMap, t[k + 1].id, t[k + 1].for)
        BY <3>4, <4>1, InSocket
      <4>3. r[k].id = m.id /\ r[k].kind = m.kind
        BY <3>4 DEF Key
      <4>4. r[k].for = m.for
        BY <2>5, <4>1, <4>2, <4>3, OneCallPerId
      <4>5. OpenIn(r, Sent \ {m.for})
        BY <2>8 DEF Lodged, r
      <4> QED
        BY <3>4, <4>4, <4>5 DEF OpenIn
    <3>5. HasEvent(r, pending')
      BY <2>2, <3>3, <3>4 DEF HasEvent
    <3> QED
      BY <3>5 DEF r
  <2> HIDE DEF s, t, m
  <2>11. ASSUME NEW k \in Nodes
         PROVE  HasEvent(toNode'[k], pending') /\ HasEvent(toRic'[k], pending')
    <3>1. CASE k = n
      BY <2>2, <2>3, <2>9, <2>10, <3>1 DEF s
    <3>2. CASE k # n
      BY <2>2, <2>3, <2>7, <3>2
    <3> QED
      BY <3>1, <3>2
  <2> QED
    BY <2>6, <2>11 DEF EventInv
<1>2. CASE ~(\E n \in Nodes : StopPendingEvent(n))
  <2>1. pending \subseteq pending'
    BY <1>2, Frames DEF RicStep, RegisterAddress, RegisterNode, ConnectNode, RecvIndication,
       NotifyIapp, ForgetAddress, ForgetConn, ForgetNode, TimerEvent, IappStep, HandleSetup,
       ValidateRequest, LockMap, LookupDelete, InsertPending, SendToNode, AddMapping, pendVars
  <2>2. iPc' = "send" => NewEvent(iMsg', iId') \in pending'
    <3>1. CASE InsertPending
      BY <3>1 DEF InsertPending, IappGoto
    <3>2. CASE ~InsertPending
      <4>1. iPc' = "send" => iPc = "send" /\ iMsg' = iMsg /\ iId' = iId
        BY <3>2, Frames DEF IappStep, HandleSetup, ValidateRequest, LockMap, LookupDelete,
           RecvIapp, SendToNode, AddMapping, IappGoto, IappDone
      <4> QED
        BY <2>1, <4>1 DEF EventInv
    <3> QED
      BY <3>1, <3>2
  <2> QED
    BY <2>1, <2>2, EventKept DEF EventInv
<1> QED
  BY <1>1, <1>2

-----------------------------------------------------------------------------
(* Shutdowns follow their setups.                                          *)
LEMMA DepartRecv ==
  ASSUME NEW s \in Seq(Wire), NEW known, NEW next, NEW up \in BOOLEAN, NEW ep \in Nat,
         s # <<>>, Departing(s, known, up, ep),
         Head(s).kind = "SETUP" => Head(s).ep \in next,
         \A e \in known : e \in next \/ (Head(s).kind = "SHUT" /\ e = Head(s).ep)
  PROVE  Departing(Tail(s), next, up, ep)
<1> DEFINE h == Head(s)
           r == Tail(s)
<1>1. /\ DOMAIN r \subseteq Nat /\ DOMAIN s \subseteq Nat /\ Len(r) \in Nat /\ Len(s) = Len(r) + 1
      /\ 1 \in DOMAIN s /\ h = s[1]
      /\ \A k \in DOMAIN r : k + 1 \in DOMAIN s /\ r[k] = s[k + 1] /\ k + 1 # 1
      /\ \A k \in DOMAIN s : k # 1 => k - 1 \in DOMAIN r /\ r[k - 1] = s[k]
      /\ \A k \in DOMAIN s : s[k].ep \in Nat
  <2>1. \A k \in DOMAIN s : s[k] \in Wire
    BY SocketDomain
  <2>2. \A k \in DOMAIN s : s[k].ep \in Nat
    BY <2>1 DEF Wire, Packets
  <2> QED
    BY <2>2
<1> HIDE DEF h, r
<1>2. ASSUME NEW e, NEW k \in Nat, Announced(s, known, e, k + 1),
             ~(h.kind = "SHUT" /\ h.ep = e)
      PROVE  Announced(r, next, e, k)
  <2>1. CASE e \in known
    BY <1>2, <2>1 DEF Announced, h
  <2>2. ASSUME NEW j \in DOMAIN s, j < k + 1, s[j].kind = "SETUP", s[j].ep = e
        PROVE  Announced(r, next, e, k)
    <3>1. CASE j = 1
      BY <1>1, <2>2, <3>1 DEF Announced, h
    <3>2. CASE j # 1
      <4>1. j - 1 \in DOMAIN r /\ r[j - 1] = s[j] /\ j - 1 < k
        BY <1>1, <1>2, <2>2, <3>2
      <4> QED
        BY <2>2, <4>1 DEF Announced
    <3> QED
      BY <3>1, <3>2
  <2> QED
    BY <1>2, <2>1, <2>2 DEF Announced
<1>3. ASSUME NEW k \in DOMAIN r, r[k].kind = "SHUT"
      PROVE  /\ Announced(r, next, r[k].ep, k)
             /\ r[k].ep <= ep /\ (up => r[k].ep < ep)
             /\ \A j \in DOMAIN r : r[j].kind = "SHUT" /\ r[j].ep = r[k].ep => j = k
  <2>1. /\ k + 1 \in DOMAIN s /\ s[k + 1] = r[k] /\ k \in Nat /\ k + 1 # 1
        /\ Announced(s, known, r[k].ep, k + 1)
        /\ r[k].ep <= ep /\ (up => r[k].ep < ep)
        /\ \A j \in DOMAIN s : s[j].kind = "SHUT" /\ s[j].ep = r[k].ep => j = k + 1
    BY <1>1, <1>3 DEF Departing
  <2>2. ~(h.kind = "SHUT" /\ h.ep = r[k].ep)
    BY <1>1, <2>1
  <2>3. ASSUME NEW j \in DOMAIN r, r[j].kind = "SHUT", r[j].ep = r[k].ep
        PROVE  j = k
    <3>1. j + 1 \in DOMAIN s /\ s[j + 1] = r[j] /\ j \in Nat
      BY <1>1
    <3>2. j + 1 = k + 1
      BY <2>1, <2>3, <3>1
    <3> QED
      BY <2>1, <3>1, <3>2
  <2> QED
    BY <1>2, <2>1, <2>2, <2>3
<1>4. ASSUME up PROVE Announced(r, next, ep, Len(r) + 1)
  <2>1. Announced(s, known, ep, (Len(r) + 1) + 1)
    BY <1>1, <1>4 DEF Departing
  <2>2. ~(h.kind = "SHUT" /\ h.ep = ep)
    BY <1>1, <1>4 DEF Departing
  <2> QED
    BY <1>1, <1>2, <2>1, <2>2
<1> QED
  BY <1>3, <1>4 DEF Departing, r

LEMMA DepartSend ==
  ASSUME NEW s \in Seq(Wire), NEW known, NEW up \in BOOLEAN, NEW ep \in Nat,
         NEW more \in BOOLEAN, NEW top \in Nat, NEW p \in Wire,
         Departing(s, known, up, ep),
         \/ p.kind # "SHUT" /\ more = up /\ top = ep
         \/ p.kind = "SHUT" /\ p.ep = ep /\ up /\ ~more /\ top = ep
         \/ p.kind = "SETUP" /\ p.ep = top /\ ~up /\ more /\ top = ep + 1
  PROVE  Departing(Append(s, p), known, more, top)
<1> DEFINE a == Append(s, p)
           l == Len(s) + 1
<1>1. /\ Len(s) \in Nat /\ DOMAIN s \subseteq Nat /\ l \in Nat
      /\ \A k \in DOMAIN s : k < l /\ s[k].ep \in Nat
      /\ DOMAIN a = DOMAIN s \cup {l} /\ Len(a) = l
      /\ \A k \in DOMAIN s : a[k] = s[k]
      /\ a[l] = p
  <2>1. \A k \in DOMAIN s : s[k] \in Wire
    BY SocketDomain
  <2>2. \A k \in DOMAIN s : s[k].ep \in Nat
    BY <2>1 DEF Wire, Packets
  <2> QED
    BY <2>2, SocketDomain, SocketSend
<1> HIDE DEF a, l
<1>2. \A e, k : Announced(s, known, e, k) => Announced(a, known, e, k)
  BY <1>1 DEF Announced
<1>3. ASSUME NEW k \in DOMAIN a, a[k].kind = "SHUT"
      PROVE  /\ Announced(a, known, a[k].ep, k)
             /\ a[k].ep <= top /\ (more => a[k].ep < top)
             /\ \A j \in DOMAIN a : a[j].kind = "SHUT" /\ a[j].ep = a[k].ep => j = k
  <2>1. CASE k \in DOMAIN s
    <3>1. /\ a[k] = s[k] /\ Announced(s, known, a[k].ep, k) /\ a[k].ep \in Nat
          /\ a[k].ep <= ep /\ (up => a[k].ep < ep)
          /\ \A j \in DOMAIN s : s[j].kind = "SHUT" /\ s[j].ep = a[k].ep => j = k
      BY <1>1, <1>3, <2>1 DEF Departing
    <3>2. a[k].ep <= top /\ (more => a[k].ep < top)
      BY <3>1
    <3>3. ~(p.kind = "SHUT" /\ p.ep = a[k].ep)
      BY <3>1
    <3> QED
      BY <1>1, <1>2, <3>1, <3>2, <3>3
  <2>2. CASE k = l
    <3>1. p.kind = "SHUT" /\ p.ep = ep /\ up /\ ~more /\ top = ep /\ a[k] = p
      BY <1>1, <1>3, <2>2
    <3>2. Announced(s, known, ep, l)
      BY <3>1 DEF Departing, l
    <3>3. \A j \in DOMAIN s : s[j].kind = "SHUT" => s[j].ep # ep
      BY <1>1, <3>1 DEF Departing
    <3> QED
      BY <1>1, <1>2, <2>2, <3>1, <3>2, <3>3
  <2> QED
    BY <1>1, <2>1, <2>2
<1>4. ASSUME more PROVE Announced(a, known, top, Len(a) + 1)
  <2>1. CASE up /\ top = ep
    <3>1. Announced(s, known, ep, l)
      BY <2>1 DEF Departing, l
    <3> QED
      BY <1>1, <2>1, <3>1 DEF Announced
  <2>2. CASE p.kind = "SETUP" /\ p.ep = top
    <3>1. l \in DOMAIN a /\ l < Len(a) + 1 /\ a[l] = p
      BY <1>1
    <3> QED
      BY <2>2, <3>1 DEF Announced
  <2> QED
    BY <1>4, <2>1, <2>2
<1> QED
  BY <1>3, <1>4 DEF Departing, a

LEMMA LeaveStep ==
  ASSUME TypeInv, LeaveInv, [Next]_vars
  PROVE  LeaveInv'
<1> SUFFICES ASSUME NEW n \in Nodes
             PROVE  Departing(toRic'[n], Addresses(n)', node'[n].up, node'[n].ep)
  BY DEF LeaveInv
<1> DEFINE s == toRic[n]
           known == Addresses(n)
           up == node[n].up
           ep == node[n].ep
<1>1. /\ RicType /\ IappType /\ SocketType
      /\ toRic \in [Nodes -> Seq(Wire)] /\ node \in [Nodes -> NodeStates]
  BY DEF TypeInv, SocketType
<1>2. s \in Seq(Wire) /\ up \in BOOLEAN /\ ep \in Nat /\ ep + 1 \in Nat
      /\ Departing(s, known, up, ep)
  BY <1>1 DEF NodeStates, LeaveInv
<1>3. CASE toRic'[n] = s /\ Addresses(n)' = known /\ node'[n].up = up /\ node'[n].ep = ep
  BY <1>2, <1>3
<1>4. ASSUME s # <<>>, toRic'[n] = Tail(s), node' = node,
             Head(s).kind = "SETUP" => Head(s).ep \in Addresses(n)',
             \A e \in known : e \in Addresses(n)' \/ (Head(s).kind = "SHUT" /\ e = Head(s).ep)
      PROVE  Departing(toRic'[n], Addresses(n)', node'[n].up, node'[n].ep)
  BY <1>2, <1>4, DepartRecv
<1>5. ASSUME NEW p \in Wire, toRic'[n] = Append(s, p), Addresses(n)' = known,
             NEW more \in BOOLEAN, NEW top \in Nat, node'[n].up = more, node'[n].ep = top,
             \/ p.kind # "SHUT" /\ more = up /\ top = ep
             \/ p.kind = "SHUT" /\ p.ep = ep /\ up /\ ~more /\ top = ep
             \/ p.kind = "SETUP" /\ p.ep = top /\ ~up /\ more /\ top = ep + 1
      PROVE  Departing(toRic'[n], Addresses(n)', node'[n].up, node'[n].ep)
  <2>1. Departing(Append(s, p), known, more, top)
    BY <1>2, <1>5, DepartSend
  <2> QED
    BY <1>5, <2>1
<1> HIDE DEF s, known, up, ep
<1>6. CASE \E k \in Nodes : \/ RegisterAddress(k) \/ StopPendingEvent(k)
                            \/ RecvIndication(k) \/ ForgetAddress(k)
  <2>1. PICK k \in Nodes : \/ RegisterAddress(k) \/ StopPendingEvent(k)
                           \/ RecvIndication(k) \/ ForgetAddress(k)
    BY <1>6
  <2> DEFINE h == Head(toRic[k])
  <2>2. /\ toRic[k] # <<>> /\ toRic' = Read(toRic, k) /\ node' = node
        /\ \/ h.kind = "SETUP" /\ sad' = sad \cup {[node |-> k, ep |-> h.ep]}
           \/ h.kind \notin {"SETUP", "SHUT"} /\ sad' = sad
           \/ h.kind = "SHUT" /\ sad' = sad \ {[node |-> k, ep |-> h.ep]}
    BY <2>1 DEF RegisterAddress, StopPendingEvent, RecvIndication, ForgetAddress, Recv, Read,
       Requests, envVars
  <2> HIDE DEF h
  <2>3. \A e : [node |-> k, ep |-> e].node = k /\ [node |-> k, ep |-> e].ep = e
    OBVIOUS
  <2>4. \A a \in sad : a = [node |-> a.node, ep |-> a.ep]
    BY <1>1 DEF RicType
  <2>5. CASE k = n
    <3>1. toRic'[n] = Tail(s) /\ s # <<>> /\ h = Head(s)
      BY <1>1, <2>2, <2>5 DEF Read, s, h
    <3>2. h.kind = "SETUP" => h.ep \in Addresses(n)'
      BY <2>2, <2>3, <2>5 DEF Addresses
    <3>3. \A e \in known : e \in Addresses(n)' \/ (h.kind = "SHUT" /\ e = h.ep)
      BY <2>2, <2>3, <2>4, <2>5 DEF Addresses, known
    <3> QED
      BY <1>4, <2>2, <3>1, <3>2, <3>3
  <2>6. CASE k # n
    <3>1. toRic'[n] = s
      BY <1>1, <2>2, <2>6 DEF Read, s
    <3>2. Addresses(n)' = known
      BY <2>2, <2>3, <2>6 DEF Addresses, known
    <3> QED
      BY <1>3, <2>2, <3>1, <3>2 DEF up, ep
  <2> QED
    BY <2>5, <2>6
<1>7. CASE \E k \in Nodes : NodeStep(k)
  <2>1. PICK k \in Nodes : NodeStep(k)
    BY <1>7
  <2>2. Addresses(n)' = known
    <3>1. sad' = sad
      BY <2>1 DEF NodeStep, NodeConnects, NodeResends, NodeShutsDown, NodeIsLost, Leave, NodeHandles,
         NodeIndicates, FrameEnv, ricVars
    <3> QED
      BY <3>1 DEF Addresses, known
  <2>3. CASE k # n
    <3>1. toRic'[n] = toRic[n] /\ node'[n] = node[n]
      BY <1>1, <2>1, <2>3 DEF NodeStep, NodeConnects, NodeResends, NodeShutsDown, NodeIsLost, Leave,
         NodeHandles, NodeIndicates, ToRic, envVars
    <3> QED
      BY <1>3, <2>2, <3>1 DEF s, up, ep
  <2>4. CASE NodeConnects(n)
    <3> DEFINE p == Packet("SETUP", 0, ep + 1, n, NoCall)
    <3>1. /\ ~up /\ toRic'[n] = Append(s, p) /\ node'[n].up = TRUE /\ node'[n].ep = ep + 1
      BY <1>1, <2>4 DEF NodeConnects, NodeStates, s, up, ep
    <3>2. p \in Wire /\ p.kind = "SETUP" /\ p.ep = ep + 1
      BY <1>2, PacketType DEF Packet
    <3> QED
      BY <1>2, <1>5, <2>2, <3>1, <3>2
  <2>9. CASE NodeResends(n)
    <3> DEFINE p == Packet("SETUP", 0, ep, n, NoCall)
    <3>1. toRic'[n] = Append(s, p)
      BY <1>1, <2>9 DEF NodeResends, ToRic, s, ep
    <3>2. node'[n].up = up /\ node'[n].ep = ep
      BY <1>1, <2>9 DEF NodeResends, NodeStates, up, ep
    <3>3. p \in Wire /\ p.kind # "SHUT"
      BY <1>2, PacketType DEF Packet
    <3> HIDE DEF p
    <3> QED
      BY <1>2, <1>5, <2>2, <3>1, <3>2, <3>3
  <2>5. CASE NodeShutsDown(n)
    <3> DEFINE p == Packet("SHUT", 0, ep, n, NoCall)
    <3>1. up /\ toRic'[n] = Append(s, p)
      BY <1>1, <2>5 DEF NodeShutsDown, Leave, ToRic, s, up, ep
    <3>2. node'[n].up = FALSE /\ node'[n].ep = ep
      BY <1>1, <2>5 DEF NodeShutsDown, Leave, NodeStates, ep
    <3>3. p \in Wire /\ p.kind = "SHUT" /\ p.ep = ep
      BY <1>2, PacketType DEF Packet
    <3> QED
      BY <1>2, <1>5, <2>2, <3>1, <3>2, <3>3
  <2>6. CASE NodeIsLost(n)
    <3>1. toRic'[n] = s /\ node'[n].up = FALSE /\ node'[n].ep = ep
      BY <1>1, <2>6 DEF NodeIsLost, Leave, NodeStates, s, ep
    <3>2. Departing(s, known, FALSE, ep)
      BY <1>2 DEF Departing
    <3> QED
      BY <2>2, <3>1, <3>2
  <2>7. CASE NodeHandles(n)
    <3> DEFINE m == Head(toNode[n])
    <3>1. toNode[n] # <<>> /\ toNode \in [Nodes -> Seq(Wire)]
      BY <1>1, <2>7 DEF NodeHandles, SocketType
    <3>2. m \in Wire
      BY <3>1, WireChanges
    <3>3. \/ toRic'[n] = s
          \/ m.kind \in Requests /\ toRic'[n] = Append(s, Packet(m.kind, m.id, ep, n, m.for))
      BY <1>1, <2>7 DEF NodeHandles, ToRic, Requests, s, ep
    <3>4. node'[n].up = up /\ node'[n].ep = ep
      BY <1>1, <2>7 DEF NodeHandles, NodeStates, up, ep
    <3> HIDE DEF m
    <3>5. ASSUME m.kind \in Requests
          PROVE  /\ Packet(m.kind, m.id, ep, n, m.for) \in Wire
                 /\ Packet(m.kind, m.id, ep, n, m.for).kind \notin {"SETUP", "SHUT"}
      <4>1. m.for \in RequestCalls /\ m.for.kind = m.kind /\ m.id \in Nat
        BY <3>2, <3>5 DEF Wire, Packets
      <4> QED
        BY <1>2, <3>5, <4>1, PacketType DEF Packet, Requests
    <3> QED
      BY <1>2, <1>3, <1>5, <2>2, <3>3, <3>4, <3>5
  <2>8. CASE NodeIndicates(n)
    <3>1. PICK r \in node[n].subs : ToRic(n, "IND", r[1], r[2])
      BY <2>8 DEF NodeIndicates
    <3>2. r[1] \in Nat /\ r[2] \in SubCalls
      BY <1>1 DEF NodeStates
    <3> DEFINE p == Packet("IND", r[1], ep, n, r[2])
    <3>3. toRic'[n] = Append(s, p) /\ node' = node
      BY <1>1, <2>8, <3>1 DEF NodeIndicates, ToRic, envVars, s, ep
    <3>4. p \in Wire /\ p.kind \notin {"SETUP", "SHUT"}
      BY <1>2, <3>2, PacketType DEF Packet
    <3>5. node'[n].up = up /\ node'[n].ep = ep
      BY <3>3 DEF up, ep
    <3> HIDE DEF p
    <3> QED
      BY <1>2, <1>5, <2>2, <3>3, <3>4, <3>5
  <2> QED
    BY <2>1, <2>3, <2>4, <2>5, <2>6, <2>7, <2>8, <2>9 DEF NodeStep
<1>8. CASE \/ RegisterNode \/ ConnectNode \/ NotifyIapp \/ ForgetConn \/ ForgetNode
           \/ TimerEvent \/ IappStep \/ TimerExpires \/ (\E x \in Apps : AppStep(x))
           \/ UNCHANGED vars
  <2>1. UNCHANGED <<toRic, node, sad>>
    BY <1>8 DEF RegisterNode, ConnectNode, NotifyIapp, ForgetConn, ForgetNode, TimerEvent,
       IappStep, HandleSetup, ValidateRequest, LockMap, LookupDelete, InsertPending,
       SendToNode, AddMapping, TimerExpires, AppStep, AppStarts, AppRequests, AppDeletes,
       FrameEnv, ricVars, envVars, vars
  <2> QED
    BY <1>3, <2>1 DEF s, known, up, ep, Addresses
<1> QED
  BY <1>6, <1>7, <1>8 DEF Next, RicStep

-----------------------------------------------------------------------------
LEMMA FlightInvInit == Init => FlightInv
<1> SUFFICES ASSUME Init PROVE FlightInv
  OBVIOUS
<1>1. XappInv /\ AskInv /\ IdsInv
  BY DEF Init, XappInv, AskInv, SameCall, IdsInv, UniqueIds
<1>2. /\ \A n \in Nodes : toNode[n] = <<>> /\ toRic[n] = <<>> /\ ~node[n].up
      /\ toIapp = <<>> /\ DOMAIN <<>> = {} /\ iPc = "idle" /\ crash = "none"
  BY DEF Init
<1>3. WaitInv /\ LodgedInv /\ LeaveInv
  BY <1>2 DEF WaitInv, Distinct, Handling, LodgedInv, Lodged, OpenIn, Once, Apart, LeaveInv,
     Departing
<1>4. EventInv /\ AnswerFindsPendingEvent
  BY <1>2 DEF EventInv, HasEvent, AnswerFindsPendingEvent
<1> QED
  BY <1>1, <1>3, <1>4 DEF FlightInv

LEMMA ExtractStep ==
  ASSUME TypeInv, EventInv, LeaveInv, AnswerFindsPendingEvent, [Next]_vars
  PROVE  AnswerFindsPendingEvent'
<1>1. toRic \in [Nodes -> Seq(Wire)]
  BY DEF TypeInv, SocketType
<1>2. CASE \E n \in Nodes : StopPendingEvent(n)
  <2>1. PICK n \in Nodes : StopPendingEvent(n)
    BY <1>2
  <2> DEFINE h == Head(toRic[n])
  <2>2. /\ toRic[n] # <<>> /\ h.kind \in Requests
        /\ crash' = IF Key(h) \in pending THEN crash ELSE "extract a key not found"
    BY <2>1 DEF StopPendingEvent, Recv, Check, Key
  <2>3. toRic[n] \in Seq(Wire) /\ HasEvent(toRic[n], pending)
    BY <1>1 DEF EventInv
  <2>4. Key(h) \in pending
    BY <2>2, <2>3, HasEventTail
  <2> QED
    BY <2>2, <2>4 DEF AnswerFindsPendingEvent
<1>3. CASE \E n \in Nodes : ForgetAddress(n)
  <2>1. PICK n \in Nodes : ForgetAddress(n)
    BY <1>3
  <2> DEFINE h == Head(toRic[n])
  <2>2. /\ toRic[n] # <<>> /\ h.kind = "SHUT"
        /\ crash' = IF [node |-> n, ep |-> h.ep] \in sad THEN crash
                    ELSE "extract a key not found"
    BY <2>1 DEF ForgetAddress, Recv, Check
  <2>3. 1 \in DOMAIN toRic[n] /\ h = toRic[n][1] /\ \A j \in DOMAIN toRic[n] : ~(j < 1)
    <3>1. toRic[n] \in Seq(Wire)
      BY <1>1
    <3>2. 1 \in DOMAIN toRic[n] /\ h = toRic[n][1]
      BY <2>2, <3>1, SocketRecv
    <3>3. \A j \in DOMAIN toRic[n] : ~(j < 1)
      BY <3>1
    <3> QED
      BY <3>2, <3>3
  <2> HIDE DEF h
  <2>4. h.ep \in Addresses(n)
    BY <2>2, <2>3 DEF LeaveInv, Departing, Announced
  <2>5. [node |-> n, ep |-> h.ep] \in sad
    BY <2>4 DEF Addresses, TypeInv, RicType
  <2> QED
    BY <2>2, <2>5 DEF AnswerFindsPendingEvent
<1>4. CASE ~(\E n \in Nodes : StopPendingEvent(n) \/ ForgetAddress(n))
  BY <1>4, Frames DEF RicStep, RegisterAddress, RegisterNode, ConnectNode, RecvIndication,
     NotifyIapp, ForgetConn, ForgetNode, TimerEvent, IappStep, HandleSetup, ValidateRequest,
     LockMap, LookupDelete, InsertPending, SendToNode, AddMapping, Check,
     AnswerFindsPendingEvent
<1> QED
  BY <1>2, <1>3, <1>4

LEMMA FlightInvStep ==
  ASSUME TypeInv, MapInv, FlightInv, [Next]_vars
  PROVE  FlightInv'
<1>1. XappInv' /\ AskInv' /\ WaitInv' /\ LodgedInv' /\ LeaveInv'
  BY XappStep, AskInvStep, WaitStep, LodgedStep, LeaveStep DEF FlightInv
<1>2. ASSUME IdsDoNotWrap'
      PROVE  IdsInv' /\ EventInv' /\ AnswerFindsPendingEvent'
  <2>1. IdsDoNotWrap /\ IdsInv'
    BY <1>2, IdsStep DEF FlightInv
  <2>2. /\ XappInv /\ AskInv /\ WaitInv /\ LodgedInv /\ LeaveInv
        /\ IdsInv /\ EventInv /\ AnswerFindsPendingEvent
    BY <2>1 DEF FlightInv
  <2> QED
    BY <2>1, <2>2, EventStep, ExtractStep
<1> QED
  BY <1>1, <1>2 DEF FlightInv

(* As long as the request ids have not wrapped, a request on its way to a  *)
(* node, or its answer on the way back, has a pending event, in any order  *)
(* in which the two threads run and the nodes and their associations come  *)
(* and go: fwd_ric_* insert the event before they send (near_ric.c), an    *)
(* id is not given twice, and a delete takes the id of a subscription, of  *)
(* which an xApp asks one delete only.                                     *)
THEOREM RequestsAreSupervised == Spec => [](IdsDoNotWrap => InFlightIsSupervised)
<1> DEFINE IInv == TypeInv /\ MapInv /\ FlightInv
<1>1. Init => IInv
  BY TypeInvInit, MapInvInit, FlightInvInit
<1>2. IInv /\ [Next]_vars => IInv'
  BY TypeInvStep, MapInvStep, FlightInvStep
<1>3. IInv => (IdsDoNotWrap => InFlightIsSupervised)
  <2> SUFFICES ASSUME EventInv, NEW m \in InFlight, m.kind \in Requests
               PROVE  Key(m) \in pending
    BY DEF FlightInv, InFlightIsSupervised, Key
  <2>1. \E n \in Nodes : \/ \E k \in DOMAIN toNode[n] : m = toNode[n][k]
                         \/ \E k \in DOMAIN toRic[n] : m = toRic[n][k]
    BY DEF InFlight
  <2> QED
    BY <2>1 DEF EventInv, HasEvent
<1> HIDE DEF IInv
<1> QED
  BY <1>1, <1>2, <1>3, PTL DEF Spec

(* So no answer makes stop_pending_event extract a missing event, and no   *)
(* shutdown a missing address: a node's shutdown follows its setup in the  *)
(* socket, and each association has one.                                   *)
THEOREM ExtractsWhatIsThere == Spec => [](IdsDoNotWrap => AnswerFindsPendingEvent)
<1> DEFINE IInv == TypeInv /\ MapInv /\ FlightInv
<1>1. Init => IInv
  BY TypeInvInit, MapInvInit, FlightInvInit
<1>2. IInv /\ [Next]_vars => IInv'
  BY TypeInvStep, MapInvStep, FlightInvStep
<1>3. IInv => (IdsDoNotWrap => AnswerFindsPendingEvent)
  BY DEF FlightInv
<1> HIDE DEF IInv
<1> QED
  BY <1>1, <1>2, <1>3, PTL DEF Spec

-----------------------------------------------------------------------------
(* One xApp, which makes one synchronous call at a time, and nodes that    *)
(* stay.                                                                   *)

(* Nodes that stay set up once, unless they repeat their set-up.           *)
Has(s, kind) == \E k \in DOMAIN s : s[k].kind = kind
OneSetup(s) == \A j, k \in DOMAIN s : s[j].kind = "SETUP" /\ s[k].kind = "SETUP" => j = k
SettingUp(n) == ricPc = "regNode" /\ ricMsg.node = n
New(n) == n \notin reg /\ ~SettingUp(n)
Steady(s, up, new, setups) ==
  /\ ~Has(s, "SHUT")
  /\ Has(s, "SETUP") => up
  /\ up => setups > 0
  /\ ~up => new
  /\ setups = 1 => OneSetup(s) /\ (Has(s, "SETUP") => new)
StayInv ==
  /\ ricPc \notin {"forgetConn", "forgetNode"}
  /\ ricPc = "regNode" => ricMsg.node \notin reg \/ node[ricMsg.node].setups > 1
  /\ \A n \in Nodes : Steady(toRic[n], node[n].up, New(n), node[n].setups)

(* What is asked for is known to the iApp: the nodes, the xApps, and what  *)
(* an answer or a delete is about.                                         *)
Listed(c) == \E e \in ricMap : e.xapp = c.xapp /\ e.xid = c.xid
KnownInv ==
  /\ \A x \in Apps : app[x].nodes \subseteq reg
  /\ \A c \in asked : c.kind \in Requests => c.node \in reg
  /\ \A e \in ricMap : \E a \in xapps : a.id = e.xapp
  /\ \A d \in delivered : d.kind \in Requests => Listed(d.for)
  /\ \A c \in asked : c.kind = "DEL" => Listed(c)

(* No request id is 0.                                                     *)
PositiveIds ==
  /\ reqId > 0
  /\ iPc \in {"insert", "send", "map"} => iId > 0
  /\ \A e \in ricMap : e.id > 0

(* One call is open at most, and only it has a pending event: from when    *)
(* that is inserted until the RIC thread has its answer.                   *)
OpenCalls == {c \in asked : c.kind \in Requests /\ ~Answered(c)}
Supervised(c) == c \in Sent \/ (iPc = "send" /\ c = iMsg)
CallInv ==
  /\ \A c, d \in OpenCalls : c = d
  /\ \A e, f \in pending : e = f
  /\ pending # {} => \E c \in OpenCalls : Supervised(c)
  /\ \A n \in Nodes : OpenIn(toNode[n], OpenCalls) /\ OpenIn(toRic[n], OpenCalls)
  /\ ricPc = "notify" /\ ricMsg.kind \in Requests =>
       pending = {} /\ ricMsg.for \in Sent \cap OpenCalls
  /\ \A d \in delivered : d.kind \in Requests => d.for \in Sent

AliveInv ==
  /\ StayInv /\ KnownInv /\ TablesInv /\ AnswerInv
  /\ IdsDoNotWrap => PositiveIds /\ CallInv /\ OnlyRepeatedSetupsAbort

-----------------------------------------------------------------------------
(* A set-up that is not repeated is the only one in its node's socket, and *)
(* comes before the tables know the node.                                  *)
LEMMA SteadyRecv ==
  ASSUME NEW s \in Seq(Wire), s # <<>>, NEW up, NEW new, NEW setups,
         Steady(s, up, new, setups)
  PROVE  /\ Head(s).kind # "SHUT" /\ Steady(Tail(s), up, new, setups)
         /\ Head(s).kind = "SETUP" =>
              up /\ (setups = 1 => new /\ ~Has(Tail(s), "SETUP"))
<1> DEFINE t == Tail(s)
<1>1. /\ 1 \in DOMAIN s /\ Head(s) = s[1]
      /\ \A k \in DOMAIN t : k \in Nat \ {0} /\ k + 1 \in DOMAIN s /\ t[k] = s[k + 1]
  <2>1. t \in Seq(Wire)
    BY SocketRecv
  <2>2. \A k \in DOMAIN t : k \in Nat \ {0}
    BY <2>1, SocketDomain
  <2> QED
    BY <2>2, SocketRecv
<1> HIDE DEF t
<1>2. \A kind : Has(t, kind) => Has(s, kind)
  BY <1>1 DEF Has
<1>3. setups = 1 => OneSetup(t)
  <2> SUFFICES ASSUME setups = 1, NEW j \in DOMAIN t, NEW k \in DOMAIN t,
                      t[j].kind = "SETUP", t[k].kind = "SETUP"
               PROVE  j = k
    BY DEF OneSetup
  <2>1. j + 1 = k + 1
    BY <1>1 DEF Steady, OneSetup
  <2> QED
    BY <1>1, <2>1
<1>4. setups = 1 /\ Head(s).kind = "SETUP" => ~Has(t, "SETUP")
  <2> SUFFICES ASSUME setups = 1, Head(s).kind = "SETUP", NEW k \in DOMAIN t,
                      t[k].kind = "SETUP"
               PROVE  FALSE
    BY DEF Has
  <2>1. 1 = k + 1
    BY <1>1 DEF Steady, OneSetup
  <2> QED
    BY <1>1, <2>1
<1>5. Has(s, Head(s).kind)
  BY <1>1 DEF Has
<1> QED
  BY <1>2, <1>3, <1>4, <1>5 DEF Steady, t

LEMMA SteadySend ==
  ASSUME NEW s \in Seq(Wire), NEW p \in Wire, NEW up, NEW new, NEW setups,
         NEW more, NEW again \in Nat, Steady(s, up, new, setups),
         \/ p.kind \notin {"SETUP", "SHUT"} /\ more = up /\ again = setups
         \/ p.kind = "SETUP" /\ ~up /\ more = TRUE /\ again = 1
         \/ p.kind = "SETUP" /\ up /\ more = TRUE /\ again > 1
  PROVE  Steady(Append(s, p), more, new, again)
<1> DEFINE a == Append(s, p)
           l == Len(s) + 1
<1>1. /\ DOMAIN a = DOMAIN s \cup {l} /\ a[l] = p
      /\ \A k \in DOMAIN s : a[k] = s[k]
  BY SocketSend
<1> HIDE DEF a, l
<1>2. \A kind : Has(a, kind) => Has(s, kind) \/ p.kind = kind
  BY <1>1 DEF Has
<1>3. again = 1 => OneSetup(a)
  <2>1. again = 1 /\ p.kind = "SETUP" => ~Has(s, "SETUP")
    BY DEF Steady
  <2> QED
    BY <1>1, <2>1 DEF Steady, OneSetup, Has
<1> QED
  BY <1>2, <1>3 DEF Steady, a

(* What the iApp knows of nodes that stay, stays.                          *)
LEMMA StayStep ==
  ASSUME Departures = {}, TypeInv, MapInv, StayInv, [Next]_vars
  PROVE  StayInv' /\ reg \subseteq reg'
<1> DEFINE Now(n) == Steady(toRic[n], node[n].up, New(n), node[n].setups)
           Then(n) == Steady(toRic'[n], node'[n].up, New(n)', node'[n].setups)
<1>1. \A n \in Nodes : Now(n)
  BY DEF StayInv
<1>2. /\ toRic \in [Nodes -> Seq(Wire)] /\ node \in [Nodes -> NodeStates]
      /\ \A n \in Nodes : toRic[n] \in Seq(Wire) /\ node[n].setups \in Nat
      /\ ricPc = "regNode" => ricMsg.node \in Nodes
  BY DEF TypeInv, SocketType, RicType, NodeStates, Wire, Packets, NoMsg
<1>3. SUFFICES /\ ricPc' \notin {"forgetConn", "forgetNode"} /\ reg \subseteq reg'
               /\ ricPc' = "regNode" => ricMsg'.node \notin reg' \/ node'[ricMsg'.node].setups > 1
               /\ \A n \in Nodes : Then(n)
  BY DEF StayInv
<1>4. \A n \in Nodes : toRic[n] # <<>> => Head(toRic[n]).node = n /\ Head(toRic[n]).kind # "SHUT"
  <2>1. Each(toRic, Served(VMap, asked))
    BY DEF MapInv
  <2>2. \A n \in Nodes : toRic[n] # <<>> => Head(toRic[n]) \in Served(VMap, asked)[n]
    BY <1>2, <2>1, EachChanges
  <2>3. \A n \in Nodes : toRic[n] # <<>> => Head(toRic[n]).kind # "SHUT"
    BY <1>1, <1>2, SteadyRecv
  <2> QED
    BY <2>2, <2>3 DEF Served
<1>5. ASSUME NEW n \in Nodes, RegisterAddress(n)
      PROVE  /\ ricPc' \notin {"forgetConn", "forgetNode"} /\ reg \subseteq reg'
             /\ ricPc' = "regNode" => ricMsg'.node \notin reg' \/ node'[ricMsg'.node].setups > 1
             /\ \A k \in Nodes : Then(k)
  <2>1. /\ toRic[n] # <<>> /\ Head(toRic[n]).kind = "SETUP" /\ UNCHANGED <<reg, node>>
        /\ toRic' = Read(toRic, n) /\ ricPc = "idle" /\ ricPc' = "regNode" /\ ricMsg'.node = n
    BY <1>4, <1>5 DEF RegisterAddress, Recv, RicGoto, Read, envVars
  <2>2. /\ node[n].up /\ Steady(Tail(toRic[n]), node[n].up, New(n), node[n].setups)
        /\ node[n].setups = 1 => New(n) /\ ~Has(Tail(toRic[n]), "SETUP")
    <3>1. Steady(toRic[n], node[n].up, New(n), node[n].setups) /\ toRic[n] \in Seq(Wire)
      BY <1>1, <1>2
    <3> QED
      BY <2>1, <3>1, SteadyRecv
  <2>3. toRic'[n] = Tail(toRic[n]) /\ \A k \in Nodes : k # n => toRic'[k] = toRic[k]
    BY <1>2, <2>1 DEF Read
  <2>4. Then(n)
    BY <2>1, <2>2, <2>3 DEF Steady
  <2>5. \A k \in Nodes : k # n => Then(k)
    BY <1>1, <2>1, <2>3 DEF New, SettingUp
  <2>6. New(n) \/ node[n].setups > 1
    BY <1>2, <2>2 DEF Steady
  <2> QED
    BY <2>1, <2>2, <2>4, <2>5, <2>6 DEF New
<1>6. CASE RegisterNode
  <2>1. /\ ricPc = "regNode" /\ ricPc' = "connect" /\ reg' = reg \cup {ricMsg.node}
        /\ UNCHANGED <<toRic, node>>
    BY <1>6 DEF RegisterNode, RicGoto, envVars
  <2>2. \A n \in Nodes : n # ricMsg.node => Then(n)
    BY <1>1, <2>1 DEF New, SettingUp
  <2>3. \A n \in Nodes : n = ricMsg.node => Then(n)
    BY <1>1, <2>1 DEF New, SettingUp, Steady
  <2> QED
    BY <2>1, <2>2, <2>3
<1>7. ASSUME NEW n \in Nodes, StopPendingEvent(n) \/ RecvIndication(n)
      PROVE  /\ ricPc' = "notify" /\ reg \subseteq reg' /\ \A k \in Nodes : Then(k)
  <2>1. /\ toRic[n] # <<>> /\ UNCHANGED <<reg, node>>
        /\ toRic' = Read(toRic, n) /\ ricPc = "idle" /\ ricPc' = "notify"
    BY <1>7 DEF StopPendingEvent, RecvIndication, Recv, RicGoto, Read, envVars
  <2>2. toRic'[n] = Tail(toRic[n]) /\ \A k \in Nodes : k # n => toRic'[k] = toRic[k]
    BY <1>2, <2>1 DEF Read
  <2>5. \A k \in Nodes : New(k)' = New(k)
    BY <2>1 DEF New, SettingUp
  <2>3. Then(n)
    BY <1>1, <1>2, <2>1, <2>2, <2>5, SteadyRecv
  <2>4. \A k \in Nodes : k # n => Then(k)
    BY <1>1, <2>1, <2>2, <2>5
  <2> QED
    BY <2>1, <2>3, <2>4
<1>8. CASE \/ ConnectNode \/ NotifyIapp \/ TimerEvent \/ IappStep \/ TimerExpires
           \/ (\E x \in Apps : AppStep(x)) \/ UNCHANGED vars
  <2>1. /\ UNCHANGED <<toRic, node, reg>>
        /\ UNCHANGED <<ricPc, ricMsg>> \/ ricPc' = "idle"
    BY <1>8 DEF ConnectNode, NotifyIapp, TimerEvent, RicDone, RicGoto, IappStep, HandleSetup,
       ValidateRequest, LockMap, LookupDelete, InsertPending, SendToNode, AddMapping,
       TimerExpires, AppStep, AppStarts, AppRequests, AppDeletes, FrameEnv, ricVars, envVars,
       vars
  <2> QED
    BY <1>1, <2>1 DEF New, SettingUp, Steady, StayInv
<1>9. CASE ForgetConn \/ ForgetNode \/ \E n \in Nodes : ForgetAddress(n)
  BY <1>4, <1>9 DEF ForgetConn, ForgetNode, ForgetAddress, Recv, StayInv
<1>10. CASE \E n \in Nodes : NodeStep(n)
  <2>1. PICK n \in Nodes : NodeStep(n)
    BY <1>10
  <2>2. ~NodeShutsDown(n) /\ ~NodeIsLost(n) /\ UNCHANGED <<reg, ricPc, ricMsg>>
    BY <2>1 DEF NodeShutsDown, NodeIsLost, NodeStep, NodeConnects, NodeResends, NodeHandles,
       NodeIndicates, FrameEnv, ricVars
  <2>3. SUFFICES Then(n) /\ \A k \in Nodes : k # n => toRic'[k] = toRic[k] /\ node'[k] = node[k]
    <3>1. \A k \in Nodes : k # n /\ toRic'[k] = toRic[k] /\ node'[k] = node[k] => Then(k)
      BY <1>1, <2>2 DEF New, SettingUp
    <3>2. ricPc = "regNode" => ricMsg.node \notin reg \/ node'[ricMsg.node].setups > 1
      <4>1. \/ node'[n].setups >= node[n].setups
            \/ ~node[n].up
        <5>1. CASE NodeConnects(n)
          BY <5>1 DEF NodeConnects
        <5>2. CASE NodeResends(n)
          <6>1. node'[n].setups = node[n].setups + 1
            BY <1>2, <5>2 DEF NodeResends, NodeStates
          <6> QED
            BY <1>2, <6>1
        <5>3. CASE NodeHandles(n)
          <6>1. node'[n].setups = node[n].setups
            BY <1>2, <5>3 DEF NodeHandles, NodeStates
          <6> QED
            BY <1>2, <6>1
        <5>4. CASE NodeIndicates(n)
          BY <1>2, <5>4 DEF NodeIndicates, envVars
        <5> QED
          BY <2>1, <2>2, <5>1, <5>2, <5>3, <5>4 DEF NodeStep
      <4>2. node'[n].setups \in Nat
        BY TypeInvStep DEF TypeInv, SocketType, NodeStates
      <4>3. ~node[n].up => n \notin reg
        BY <1>1 DEF Steady, New
      <4> QED
        BY <1>2, <2>3, <4>1, <4>2, <4>3 DEF StayInv
    <3> QED
      BY <2>2, <2>3, <3>1, <3>2 DEF StayInv
  <2>4. New(n)' = New(n)
    BY <2>2 DEF New, SettingUp
  <2>5. node[n].ep \in Nat /\ node[n].ep + 1 \in Nat
    BY <1>2 DEF NodeStates
  <2>6. CASE NodeConnects(n)
    <3> DEFINE p == Packet("SETUP", 0, node[n].ep + 1, n, NoCall)
    <3>1. /\ ~node[n].up /\ toRic' = Grown(toRic, n, p)
          /\ node' = [node EXCEPT ![n] = [up |-> TRUE, ep |-> @.ep + 1, subs |-> {},
                                          waits |-> TRUE, setups |-> 1]]
      BY <2>6 DEF NodeConnects, Grown
    <3>2. p \in Wire /\ p.kind = "SETUP"
      BY <2>5, PacketType DEF Packet
    <3> HIDE DEF p
    <3>3. /\ toRic'[n] = Append(toRic[n], p) /\ node'[n].up = TRUE /\ node'[n].setups = 1
          /\ \A k \in Nodes : k # n => toRic'[k] = toRic[k] /\ node'[k] = node[k]
      BY <1>2, <3>1 DEF Grown
    <3>4. Steady(Append(toRic[n], p), TRUE, New(n), 1)
      BY <1>1, <1>2, <3>1, <3>2, SteadySend
    <3> QED
      BY <2>4, <3>3, <3>4
  <2>8. CASE NodeResends(n)
    <3> DEFINE p == Packet("SETUP", 0, node[n].ep, n, NoCall)
               more == node[n].setups + 1
    <3>1. /\ node[n].up /\ toRic' = Grown(toRic, n, p)
          /\ node' = [node EXCEPT ![n].setups = more]
      BY <1>2, <2>8 DEF NodeResends, ToRic, Grown
    <3>2. p \in Wire /\ p.kind = "SETUP"
      BY <2>5, PacketType DEF Packet
    <3>3. node[n].setups > 0 /\ more \in Nat /\ more > 1
      <4>1. node[n].setups > 0
        BY <1>1, <3>1 DEF Steady
      <4> QED
        BY <1>2, <4>1
    <3> HIDE DEF p, more
    <3>4. /\ toRic'[n] = Append(toRic[n], p) /\ node'[n].up = node[n].up /\ node'[n].setups = more
          /\ \A k \in Nodes : k # n => toRic'[k] = toRic[k] /\ node'[k] = node[k]
      BY <1>2, <3>1 DEF Grown, NodeStates
    <3>5. node[n].up = TRUE
      BY <1>2, <3>1 DEF NodeStates
    <3>6. Steady(Append(toRic[n], p), TRUE, New(n), more)
      BY <1>1, <1>2, <3>1, <3>2, <3>3, SteadySend
    <3> QED
      BY <2>4, <3>4, <3>5, <3>6
  <2>7. CASE NodeHandles(n) \/ NodeIndicates(n)
    <3>1. /\ node'[n].up = node[n].up /\ node'[n].setups = node[n].setups
          /\ \A k \in Nodes : k # n => toRic'[k] = toRic[k] /\ node'[k] = node[k]
      BY <1>2, <2>7 DEF NodeHandles, NodeIndicates, ToRic, envVars, NodeStates
    <3>2. \/ toRic'[n] = toRic[n]
          \/ \E p \in Wire : /\ p.kind \notin {"SETUP", "SHUT"}
                             /\ toRic'[n] = Append(toRic[n], p)
      <4>1. CASE NodeHandles(n)
        <5> DEFINE m == Head(toNode[n])
        <5>1. \/ toRic' = toRic
              \/ /\ m.kind \in Requests
                 /\ toRic' = Grown(toRic, n, Packet(m.kind, m.id, node[n].ep, n, m.for))
          BY <4>1 DEF NodeHandles, ToRic, Grown, Requests
        <5>2. m \in Wire
          BY <4>1, WireChanges DEF TypeInv, SocketType, NodeHandles
        <5> HIDE DEF m
        <5>3. m.kind \in Requests => /\ m.for \in RequestCalls /\ m.for.kind = m.kind
                                      /\ m.id \in Nat
          BY <5>2 DEF Wire, Packets
        <5>4. m.kind \in Requests => Packet(m.kind, m.id, node[n].ep, n, m.for) \in Wire
          BY <2>5, <5>3, PacketType
        <5> QED
          BY <1>2, <5>1, <5>4 DEF Grown, Packet, Requests
      <4>2. CASE NodeIndicates(n)
        <5>1. PICK r \in node[n].subs : ToRic(n, "IND", r[1], r[2])
          BY <4>2 DEF NodeIndicates
        <5>2. r[1] \in Nat /\ r[2] \in SubCalls
          BY <1>2 DEF NodeStates
        <5>3. Packet("IND", r[1], node[n].ep, n, r[2]) \in Wire
          BY <2>5, <5>2, PacketType
        <5> QED
          BY <1>2, <5>1, <5>3 DEF ToRic, Packet
      <4> QED
        BY <2>7, <4>1, <4>2
    <3>3. Steady(toRic'[n], node[n].up, New(n), node[n].setups)
      <4>1. Steady(toRic[n], node[n].up, New(n), node[n].setups) /\ toRic[n] \in Seq(Wire)
        BY <1>1, <1>2
      <4>2. ASSUME NEW p \in Wire, p.kind \notin {"SETUP", "SHUT"}
            PROVE  Steady(Append(toRic[n], p), node[n].up, New(n), node[n].setups)
        BY <1>2, <4>1, <4>2, SteadySend
      <4> QED
        BY <3>2, <4>1, <4>2
    <3> QED
      BY <2>4, <3>1, <3>3
  <2> QED
    BY <2>1, <2>2, <2>6, <2>7, <2>8 DEF NodeStep
<1> QED
  BY <1>5, <1>6, <1>7, <1>8, <1>9, <1>10 DEF Next, RicStep

-----------------------------------------------------------------------------
(* While the map's mutex is free, a call is mapped by an entry of the map. *)
LEMMA MappedIsListed ==
  ASSUME TypeInv, MapFree, NEW i, NEW c, Mapped(VMap, i, c)
  PROVE  /\ \E e \in ricMap : e.id = i /\ e.xapp = c.xapp /\ e.xid = c.xid
         /\ Listed(c)
<1>1. iPc # "map"
  BY DEF TypeInv, IappType, MapFree
<1> QED
  BY <1>1 DEF VMap, Mapped, Listed

(* Only NotifyIapp delivers, and what it delivers is for its call.         *)
LEMMA Delivers ==
  ASSUME [Next]_vars
  PROVE  \/ delivered' = delivered
         \/ /\ NotifyIapp
            /\ \A d \in delivered' : d \in delivered \/ (d.kind = ricMsg.kind /\ d.for = ricMsg.for)
<1>1. RicStep \/ delivered' = delivered
  BY Frames
<1>2. NotifyIapp => \A d \in delivered' :
        d \in delivered \/ (d.kind = ricMsg.kind /\ d.for = ricMsg.for)
  <2> DEFINE To(e, a) == [app |-> a.app, kind |-> ricMsg.kind, xid |-> e.xid, for |-> ricMsg.for]
  <2>1. NotifyIapp => delivered' = delivered \/ \E e, a : delivered' = delivered \cup {To(e, a)}
    BY Zenon DEF NotifyIapp, Deliver
  <2>2. \A e, a : To(e, a).kind = ricMsg.kind /\ To(e, a).for = ricMsg.for
    OBVIOUS
  <2> HIDE DEF To
  <2> QED
    BY <2>1, <2>2
<1>3. RicStep => NotifyIapp \/ delivered' = delivered
  BY DEF RicStep, RegisterAddress, RegisterNode, ConnectNode, StopPendingEvent,
     RecvIndication, ForgetAddress, ForgetConn, ForgetNode, TimerEvent
<1> QED
  BY <1>1, <1>2, <1>3

LEMMA Added ==
  ASSUME AddMapping
  PROVE  \A e \in ricMap' : e \in ricMap \/ (e.id = iId /\ e.xapp = iMsg.xapp)
<1> DEFINE e0 == [id |-> iId, node |-> iMsg.node, xapp |-> iMsg.xapp, xid |-> iMsg.xid]
<1>1. ricMap' = ricMap \cup {e0} /\ e0.id = iId /\ e0.xapp = iMsg.xapp
  BY DEF AddMapping
<1> HIDE DEF e0
<1> QED
  BY <1>1

(* A call asked is to a node the iApp knows, a delete is of a call that is *)
(* in the map.                                                             *)
LEMMA AskKnown ==
  ASSUME TypeInv, AskInv, AnswersReachAsker, KnownInv, NEW x \in Apps, AppStep(x)
  PROVE  \A c \in asked' : /\ c.kind \in Requests => c.node \in reg
                           /\ c.kind = "DEL" => Listed(c)
<1>1. \A c \in asked : /\ c.kind \in Requests => c.node \in reg
                       /\ c.kind = "DEL" => Listed(c)
  BY DEF KnownInv
<1>2. CASE AppStarts(x)
  BY <1>1, <1>2 DEF AppStarts, ToIapp, Requests
<1>3. CASE AppRequests(x)
  <2> DEFINE xid == 1 + Cardinality({r \in asked : r.app = x /\ r.kind \in {"SUB", "CTRL"}})
  <2>1. PICK n \in app[x].nodes, kind \in {"SUB", "CTRL"} :
          ToIapp([app |-> x, xapp |-> app[x].id, kind |-> kind, xid |-> xid, node |-> n])
    BY <1>3 DEF AppRequests
  <2>2. n \in reg
    BY <2>1 DEF KnownInv
  <2> HIDE DEF xid
  <2> QED
    BY <1>1, <2>1, <2>2 DEF ToIapp
<1>4. CASE AppDeletes(x)
  <2>1. PICK r \in asked :
          r.app = x /\ r.kind = "SUB" /\ CanAsk(x) /\ ToIapp([r EXCEPT !.kind = "DEL"])
    BY <1>4 DEF AppDeletes
  <2>2. Answered(r) /\ r.node \in reg
    BY <1>1, <2>1 DEF CanAsk, Requests
  <2>3. PICK d \in delivered : d.app = r.app /\ d.kind = r.kind /\ d.xid = r.xid
    BY <2>2 DEF Answered
  <2>4. d.for \in asked /\ d.for.app = r.app /\ d.for.xid = r.xid /\ d.for.kind = r.kind
    BY <2>1, <2>3 DEF AnswersReachAsker
  <2>5. d.for = r
    BY <2>1, <2>4 DEF AskInv, SameCall, Requests
  <2>6. Listed(r)
    BY <2>1, <2>3, <2>5 DEF KnownInv, Requests
  <2> DEFINE c == [r EXCEPT !.kind = "DEL"]
  <2>7. c.xapp = r.xapp /\ c.xid = r.xid /\ c.node = r.node /\ asked' = asked \cup {c}
    BY <2>1 DEF TypeInv, AppType, AppCalls, Calls, ToIapp
  <2> HIDE DEF c
  <2>8. Listed(c)
    BY <2>6, <2>7 DEF Listed
  <2> QED
    BY <1>1, <2>2, <2>7, <2>8
<1> QED
  BY <1>2, <1>3, <1>4 DEF AppStep

LEMMA KnownStep ==
  ASSUME TypeInv, MapInv, XappInv, AskInv, AnswersReachAsker, KnownInv, reg \subseteq reg',
         [Next]_vars
  PROVE  KnownInv'
<1>1. ricMap \subseteq ricMap' /\ asked \subseteq asked'
  BY MapGrows DEF TypeInv
<1>2. \A c : Listed(c) => Listed(c)'
  BY <1>1 DEF Listed
<1>3. \A x \in Apps : app'[x].nodes \subseteq reg'
  <2>1. CASE HandleSetup
    BY <2>1 DEF HandleSetup, KnownInv, TypeInv, AppType
  <2>2. CASE app' = app
    BY <2>2 DEF KnownInv
  <2> QED
    BY <2>1, <2>2, Frames DEF IappStep, ValidateRequest, LockMap, LookupDelete,
       InsertPending, SendToNode, AddMapping, envVars
<1>4. \A c \in asked' : /\ c.kind \in Requests => c.node \in reg'
                        /\ c.kind = "DEL" => Listed(c)'
  <2>1. \A c \in asked' : /\ c.kind \in Requests => c.node \in reg
                          /\ c.kind = "DEL" => Listed(c)
    <3>1. CASE \E x \in Apps : AppStep(x)
      BY <3>1, AskKnown
    <3>2. CASE asked' = asked
      BY <3>2 DEF KnownInv
    <3> QED
      BY <3>1, <3>2, Frames
  <2> QED
    BY <1>2, <2>1
<1>5. \A e \in ricMap' : \E a \in xapps' : a.id = e.xapp
  <2>1. xapps \subseteq xapps'
    BY Frames DEF IappStep, HandleSetup, ValidateRequest, LockMap, LookupDelete,
       InsertPending, SendToNode, AddMapping
  <2>2. CASE AddMapping
    <3>1. iMsg \in asked /\ iMsg.kind \in Requests
      <4>1. iMsg # NoMsg
        BY <2>2 DEF AddMapping, TypeInv, IappType
      <4> QED
        BY <4>1 DEF MapInv, TypeInv, IappType, RequestCalls
    <3>2. [id |-> iMsg.xapp, app |-> iMsg.app] \in xapps
      BY <3>1 DEF XappInv, Registered
    <3>3. \A e \in ricMap' : e \in ricMap \/ e.xapp = iMsg.xapp
      BY <2>2, Added
    <3> QED
      BY <2>1, <3>2, <3>3 DEF KnownInv
  <2>3. CASE ricMap' = ricMap
    BY <2>1, <2>3 DEF KnownInv
  <2> QED
    BY <2>2, <2>3, Frames DEF IappStep, HandleSetup, ValidateRequest, LockMap, LookupDelete,
       InsertPending, SendToNode
<1>6. \A d \in delivered' : d.kind \in Requests => Listed(d.for)'
  <2>1. CASE delivered' = delivered
    BY <1>2, <2>1 DEF KnownInv
  <2>2. CASE /\ NotifyIapp
             /\ \A d \in delivered' :
                  d \in delivered \/ (d.kind = ricMsg.kind /\ d.for = ricMsg.for)
    <3>1. MapFree /\ Mapped(VMap, ricMsg.id, ricMsg.for)
      BY <2>2 DEF NotifyIapp, MapInv
    <3>2. Listed(ricMsg.for)
      BY <3>1, MappedIsListed
    <3> QED
      BY <1>2, <2>2, <3>2 DEF KnownInv
  <2> QED
    BY <2>1, <2>2, Delivers
<1> QED
  BY <1>3, <1>4, <1>5, <1>6 DEF KnownInv

(* Request ids stay positive.                                              *)
LEMMA PositiveStep ==
  ASSUME TypeInv, PositiveIds, IdsDoNotWrap', [Next]_vars
  PROVE  PositiveIds'
<1>1. /\ reqId \in Nat /\ iId \in Nat /\ IdMod \in Nat /\ ricMap \subseteq Entries
  BY ConstantsAssumption DEF TypeInv, IappType, TableType
<1>2. CASE LockMap
  <2>1. reqId' = reqId + 1 /\ iId' = reqId % IdMod /\ ricMap' = ricMap
    BY <1>2 DEF LockMap
  <2>2. reqId < IdMod /\ reqId > 0
    BY <1>1, <2>1 DEF IdsDoNotWrap, PositiveIds
  <2>3. iId' = reqId
    BY <1>1, <2>1, <2>2
  <2> QED
    BY <1>1, <2>1, <2>2, <2>3 DEF PositiveIds
<1>3. CASE LookupDelete
  <2>1. UNCHANGED <<reqId, ricMap>> /\ (iPc' = iPc \/ \E e \in ricMap : iId' = e.id)
        /\ (iPc' = iPc => iId' = iId)
    BY <1>3 DEF LookupDelete, RecvIapp, IappGoto
  <2> QED
    BY <1>1, <2>1 DEF PositiveIds
<1>4. CASE AddMapping
  <2>1. /\ iPc = "map" /\ iPc' = "idle" /\ UNCHANGED reqId
        /\ \A e \in ricMap' : e \in ricMap \/ e.id = iId
    BY <1>4, Added DEF AddMapping, IappDone, IappGoto
  <2> QED
    BY <2>1 DEF PositiveIds
<1>5. CASE UNCHANGED <<reqId, ricMap, iId>> /\ (iPc' \in {"insert", "send", "map"} =>
             iPc \in {"insert", "send", "map"})
  BY <1>5 DEF PositiveIds
<1>6. CASE HandleSetup \/ ValidateRequest \/ InsertPending \/ SendToNode
  <2>1. UNCHANGED <<reqId, ricMap, iId>> /\ (iPc' \in {"insert", "send", "map"} =>
             iPc \in {"insert", "send", "map"})
    BY <1>6 DEF HandleSetup, ValidateRequest, InsertPending, SendToNode, RecvIapp, IappGoto,
       IappDone
  <2> QED
    BY <1>5, <2>1
<1> QED
  BY <1>2, <1>3, <1>4, <1>5, <1>6, Frames DEF IappStep

-----------------------------------------------------------------------------
(* Only an answer that the iApp is notified of answers a call.             *)
LEMMA AnsweredStep ==
  ASSUME [Next]_vars
  PROVE  /\ \A c : Answered(c) => Answered(c)'
         /\ \A c : c.kind \in Requests /\ Answered(c)' =>
              Answered(c) \/ (NotifyIapp /\ ricMsg.kind \in Requests)
<1>1. delivered \subseteq delivered'
  <2>1. NotifyIapp => delivered \subseteq delivered'
    BY DEF NotifyIapp, Deliver
  <2> QED
    BY <2>1, Delivers
<1> QED
  BY <1>1, Delivers DEF Answered

(* A call that waits for the iApp thread has no answer.                    *)
LEMMA WaitingIsOpen ==
  ASSUME AskInv, AnswersReachAsker, CallInv, NEW c \in asked, c.kind \in Requests,
         c \notin Sent
  PROVE  c \in OpenCalls
<1> SUFFICES ASSUME NEW d \in delivered, d.app = c.app, d.kind = c.kind, d.xid = c.xid
             PROVE  FALSE
  BY DEF OpenCalls, Answered
<1>1. d.for \in asked /\ d.for.app = c.app /\ d.for.xid = c.xid /\ d.for.kind = c.kind
  BY DEF AnswersReachAsker, Requests
<1>2. d.for = c
  BY <1>1 DEF AskInv, SameCall
<1> QED
  BY <1>2 DEF CallInv

(* The iApp thread's call is one that was made.                            *)
LEMMA HandledCall ==
  ASSUME TypeInv, MapInv, iPc # "idle"
  PROVE  iMsg \in asked /\ iMsg \in RequestCalls /\ iMsg.kind \in Requests
BY DEF TypeInv, IappType, MapInv, RequestCalls

(* A pending event is inserted for the call that is open; before, none is. *)
LEMMA PendingStep ==
  ASSUME [Next]_vars
  PROVE  \/ pending' \subseteq pending
         \/ /\ InsertPending /\ iPc = "insert" /\ iPc' = "send" /\ iMsg' = iMsg
            /\ pending' = pending \cup {NewEvent(iMsg, iId)}
            /\ UNCHANGED <<ricPc, ricMsg>>
<1>1. InsertPending => /\ iPc = "insert" /\ iPc' = "send" /\ iMsg' = iMsg
                       /\ pending' = pending \cup {NewEvent(iMsg, iId)}
                       /\ UNCHANGED <<ricPc, ricMsg>>
  BY DEF InsertPending, IappGoto, ricVars
<1>2. RicStep \/ IappStep => InsertPending \/ pending' \subseteq pending
  BY DEF RicStep, RegisterAddress, RegisterNode, ConnectNode, StopPendingEvent, CloseTimer,
     RecvIndication, NotifyIapp, ForgetAddress, ForgetConn, ForgetNode, TimerEvent,
     IappStep, HandleSetup, ValidateRequest, LockMap, LookupDelete, SendToNode, AddMapping,
     pendVars
<1> QED
  BY <1>1, <1>2, Frames

LEMMA InsertFindsNone ==
  ASSUME TypeInv, MapInv, AskInv, AnswersReachAsker, CallInv, iPc = "insert"
  PROVE  /\ pending = {} /\ iMsg \in OpenCalls /\ iMsg \in asked
         /\ ~(ricPc = "notify" /\ ricMsg.kind \in Requests)
<1>1. iMsg \in asked /\ iMsg.kind \in Requests
  BY HandledCall
<1>2. iMsg \notin Sent
  BY DEF Sent, Waiting, Handling
<1>3. iMsg \in OpenCalls
  BY <1>1, <1>2, WaitingIsOpen
<1>4. pending = {}
  <2> SUFFICES ASSUME pending # {} PROVE FALSE
    OBVIOUS
  <2>1. PICK c \in OpenCalls : Supervised(c)
    BY DEF CallInv
  <2>2. c = iMsg
    BY <1>1, <1>3, <2>1 DEF CallInv
  <2> QED
    BY <1>2, <2>1, <2>2 DEF Supervised
<1>5. ~(ricPc = "notify" /\ ricMsg.kind \in Requests)
  <2> SUFFICES ASSUME ricPc = "notify", ricMsg.kind \in Requests PROVE FALSE
    OBVIOUS
  <2>2. ricMsg.for \in Sent /\ ricMsg.for \in OpenCalls
    BY DEF CallInv
  <2>3. ricMsg.for = iMsg
    BY <1>3, <2>2 DEF CallInv
  <2> QED
    BY <1>2, <2>2, <2>3
<1> QED
  BY <1>1, <1>3, <1>4, <1>5

(* A synchronous xApp asks when nothing is open.                           *)
LEMMA OneOpenStep ==
  ASSUME \A x, y \in Apps : x = y, TypeInv, CallInv, [Next]_vars
  PROVE  \A c, d \in OpenCalls' : c = d
<1>1. \A c \in OpenCalls' : c \in asked => c \in OpenCalls
  BY AnsweredStep DEF OpenCalls
<1>2. CASE asked' = asked
  BY <1>1, <1>2 DEF CallInv, OpenCalls
<1>3. ASSUME NEW x \in Apps, AppStep(x)
      PROVE  \A c, d \in OpenCalls' : c = d
  <2>1. PICK c \in AppCalls : ToIapp(c)
    BY <1>3, AskCall DEF TypeInv
  <2>2. asked' = asked \cup {c}
    BY <2>1 DEF ToIapp
  <2>3. CASE AppStarts(x)
    <3>2. \A d \in asked' : d.kind \in Requests => d \in asked
      BY <2>3 DEF AppStarts, ToIapp, Requests
    <3> QED
      BY <1>1, <3>2 DEF CallInv, OpenCalls
  <2>4. CASE AppRequests(x) \/ AppDeletes(x)
    <3>1. \A r \in asked : r.app = x /\ r.kind # "SETUP" => Answered(r)
      BY <2>4 DEF AppRequests, AppDeletes, CanAsk
    <3>2. \A r \in asked : r.app = x
      BY DEF TypeInv, AppType, AppCalls, Calls
    <3>3. OpenCalls = {}
      BY <3>1, <3>2 DEF OpenCalls, Requests
    <3> QED
      BY <1>1, <2>2, <3>3 DEF OpenCalls
  <2> QED
    BY <1>3, <2>3, <2>4 DEF AppStep
<1> QED
  BY <1>2, <1>3, Frames

-----------------------------------------------------------------------------
(* Calls in the sockets are passed on, or come from the iApp thread.       *)
LEMMA OpenInStep ==
  ASSUME TypeInv, [Next]_vars, NEW n \in Nodes, NEW calls,
         OpenIn(toNode[n], calls), OpenIn(toRic[n], calls), SendToNode => iMsg \in calls
  PROVE  OpenIn(toNode'[n], calls) /\ OpenIn(toRic'[n], calls)
<1>1. toNode[n] \in Seq(Wire) /\ toRic[n] \in Seq(Wire)
  BY DEF TypeInv, SocketType
<1>2. ASSUME NEW s \in Seq(Wire), OpenIn(s, calls)
      PROVE  /\ OpenIn(<<>>, calls)
             /\ \A p \in Wire : (p.kind \in Requests => p.for \in calls) =>
                  OpenIn(Append(s, p), calls)
             /\ s # <<>> => OpenIn(Tail(s), calls)
             /\ s # <<>> /\ Head(s).kind \in Requests => Head(s).for \in calls
  <2>1. OpenIn(<<>>, calls)
    BY DEF OpenIn
  <2>2. ASSUME NEW p \in Wire, p.kind \in Requests => p.for \in calls
        PROVE  OpenIn(Append(s, p), calls)
    <3> DEFINE a == Append(s, p)
               l == Len(s) + 1
    <3>1. /\ DOMAIN a = DOMAIN s \cup {l} /\ a[l] = p /\ \A k \in DOMAIN s : a[k] = s[k]
      BY SocketSend
    <3> HIDE DEF a, l
    <3>2. OpenIn(a, calls)
      BY <1>2, <2>2, <3>1 DEF OpenIn
    <3> QED
      BY <3>2 DEF a
  <2>3. ASSUME s # <<>>
        PROVE  OpenIn(Tail(s), calls) /\ (Head(s).kind \in Requests => Head(s).for \in calls)
    <3> DEFINE t == Tail(s)
    <3>1. /\ \A k \in DOMAIN t : k + 1 \in DOMAIN s /\ t[k] = s[k + 1]
          /\ 1 \in DOMAIN s /\ Head(s) = s[1]
      BY <2>3, SocketRecv
    <3> HIDE DEF t
    <3>2. OpenIn(t, calls) /\ (Head(s).kind \in Requests => Head(s).for \in calls)
      BY <1>2, <3>1 DEF OpenIn
    <3> QED
      BY <3>2 DEF t
  <2> QED
    BY <2>1, <2>2, <2>3
<1>3. \A p \in Quiet : p \in Wire /\ p.kind \notin Requests
  BY DEF Quiet
<1>4. CASE toNode'[n] = toNode[n] /\ toRic'[n] = toRic[n]
  BY <1>4
<1>5. CASE toNode'[n] = toNode[n] /\ toRic[n] # <<>> /\ toRic'[n] = Tail(toRic[n])
  BY <1>1, <1>2, <1>5
<1>6. CASE \E p \in Quiet : /\ toRic'[n] \in {toRic[n], Append(toRic[n], p)}
                           /\ toNode'[n] \in {toNode[n], <<>>, Append(toNode[n], p)}
  <2>1. PICK p \in Quiet : /\ toRic'[n] \in {toRic[n], Append(toRic[n], p)}
                          /\ toNode'[n] \in {toNode[n], <<>>, Append(toNode[n], p)}
    BY <1>6
  <2>2. /\ OpenIn(Append(toRic[n], p), calls) /\ OpenIn(Append(toNode[n], p), calls)
        /\ OpenIn(<<>>, calls)
    BY <1>1, <1>2, <1>3
  <2> QED
    BY <2>1, <2>2
<1>7. CASE /\ SendToNode /\ iMsg \in RequestCalls /\ toRic'[n] = toRic[n]
           /\ \E ep \in Nat :
                toNode'[n] = Append(toNode[n], Packet(iMsg.kind, iId, ep, n, iMsg))
  <2>1. PICK ep \in Nat : toNode'[n] = Append(toNode[n], Packet(iMsg.kind, iId, ep, n, iMsg))
    BY <1>7
  <2> DEFINE p == Packet(iMsg.kind, iId, ep, n, iMsg)
  <2>2. p \in Wire /\ p.for \in calls
    BY <1>7, PacketType DEF TypeInv, IappType, Packet
  <2> HIDE DEF p
  <2>3. OpenIn(Append(toNode[n], p), calls)
    BY <1>1, <1>2, <2>2
  <2> QED
    BY <1>7, <2>1, <2>3 DEF p
<1>8. CASE /\ toNode[n] # <<>> /\ toNode'[n] = Tail(toNode[n])
           /\ \/ toRic'[n] = toRic[n]
              \/ \E m \in Wire, ep \in Nat :
                   /\ m = Head(toNode[n]) /\ m.kind \in Requests
                   /\ toRic'[n] = Append(toRic[n], Packet(m.kind, m.id, ep, n, m.for))
  <2>1. OpenIn(toNode'[n], calls)
    BY <1>1, <1>2, <1>8
  <2>2. ASSUME NEW m \in Wire, NEW ep \in Nat, m = Head(toNode[n]), m.kind \in Requests,
               toRic'[n] = Append(toRic[n], Packet(m.kind, m.id, ep, n, m.for))
        PROVE  OpenIn(toRic'[n], calls)
    <3> DEFINE p == Packet(m.kind, m.id, ep, n, m.for)
    <3>1. m.id \in Nat /\ m.for \in RequestCalls /\ m.for.kind = m.kind
      BY <2>2 DEF Wire, Packets
    <3>2. Packet(m.for.kind, m.id, ep, n, m.for) \in Wire
      BY <3>1, PacketType
    <3>3. m.for \in calls
      BY <1>1, <1>2, <1>8, <2>2
    <3>4. p \in Wire /\ p.for \in calls
      BY <3>1, <3>2, <3>3 DEF Packet
    <3> HIDE DEF p
    <3>5. OpenIn(Append(toRic[n], p), calls)
      BY <1>1, <1>2, <3>4
    <3> QED
      BY <2>2, <3>5 DEF p
  <2> QED
    BY <1>8, <2>1, <2>2
<1> QED
  BY <1>4, <1>5, <1>6, <1>7, <1>8, Exchanges DEF Exchange

LEMMA CallStep ==
  ASSUME \A x, y \in Apps : x = y, TypeInv, MapInv, AskInv, WaitInv, LodgedInv, EventInv,
         AnswersReachAsker, CallInv, [Next]_vars
  PROVE  CallInv'
<1> DEFINE AnswerAt == ricPc = "notify" /\ ricMsg.kind \in Requests
<1>1. /\ Sent \subseteq Sent' /\ asked \subseteq asked'
      /\ \A c : Supervised(c) => Supervised(c)'
  <2>1. asked \subseteq asked'
    BY MapGrows DEF TypeInv
  <2>2. iPc = "send" => SendToNode \/ UNCHANGED <<iPc, iMsg>>
    BY Frames DEF IappStep, HandleSetup, ValidateRequest, LockMap, LookupDelete, RecvIapp,
       InsertPending, AddMapping
  <2>3. SendToNode => (iPc' = "send" => iMsg' = iMsg)
    BY DEF SendToNode, IappGoto, IappDone
  <2> QED
    BY <2>1, <2>2, <2>3, WaitStep DEF Supervised
<1>2. \/ OpenCalls \subseteq OpenCalls'
      \/ NotifyIapp /\ AnswerAt
  BY <1>1, AnsweredStep DEF OpenCalls, NotifyIapp
<1>3. \A c, d \in OpenCalls' : c = d
  BY OneOpenStep
<1>4. (\A e, f \in pending : e = f)'
  BY PendingStep, InsertFindsNone DEF CallInv
<1>5. (pending # {} => \E c \in OpenCalls : Supervised(c))'
  <2>1. CASE pending' \subseteq pending
    <3>1. NotifyIapp /\ AnswerAt => pending' = {}
      BY <2>1 DEF CallInv
    <3> QED
      BY <1>1, <1>2, <2>1, <3>1 DEF CallInv
  <2>2. CASE InsertPending /\ iPc = "insert" /\ iPc' = "send" /\ iMsg' = iMsg
    <3>1. iMsg \in OpenCalls /\ ~AnswerAt
      BY <2>2, InsertFindsNone
    <3>2. iMsg \in OpenCalls'
      BY <1>2, <3>1
    <3> QED
      BY <2>2, <3>2 DEF Supervised
  <2> QED
    BY <2>1, <2>2, PendingStep
<1>6. (\A n \in Nodes : OpenIn(toNode[n], OpenCalls) /\ OpenIn(toRic[n], OpenCalls))'
  <2>1. CASE NotifyIapp /\ AnswerAt
    <3>1. UNCHANGED <<toNode, toRic>> /\ pending = {}
      BY <2>1 DEF NotifyIapp, CallInv
    <3>2. \A n \in Nodes : HasEvent(toNode[n], {}) /\ HasEvent(toRic[n], {})
      BY <3>1 DEF EventInv
    <3> QED
      BY <3>1, <3>2 DEF HasEvent, OpenIn
  <2>2. CASE OpenCalls \subseteq OpenCalls'
    <3>1. SendToNode => iMsg \in OpenCalls
      <4> SUFFICES ASSUME SendToNode PROVE iMsg \in OpenCalls
        OBVIOUS
      <4>1. iPc = "send" /\ iMsg \notin Sent
        BY DEF SendToNode, Sent, Waiting, Handling
      <4>2. iMsg \in asked /\ iMsg.kind \in Requests
        BY <4>1, HandledCall
      <4> QED
        BY <4>1, <4>2, WaitingIsOpen
    <3>2. \A n \in Nodes : OpenIn(toNode'[n], OpenCalls) /\ OpenIn(toRic'[n], OpenCalls)
      BY <3>1, OpenInStep DEF CallInv
    <3> QED
      BY <2>2, <3>2 DEF OpenIn
  <2> QED
    BY <1>2, <2>1, <2>2
<1>7. (AnswerAt => pending = {} /\ ricMsg.for \in Sent \cap OpenCalls)'
  <2>1. CASE UNCHANGED <<ricPc, ricMsg>>
    <3>1. ~NotifyIapp \/ ricPc' # "notify"
      BY DEF NotifyIapp, RicDone, RicGoto
    <3>2. AnswerAt' => AnswerAt /\ pending' \subseteq pending
      BY <2>1, PendingStep, InsertFindsNone
    <3> QED
      BY <1>1, <1>2, <2>1, <3>1, <3>2 DEF CallInv
  <2>2. ASSUME NEW n \in Nodes, StopPendingEvent(n)
        PROVE  (AnswerAt => pending = {} /\ ricMsg.for \in Sent \cap OpenCalls)'
    <3> DEFINE t == toRic[n]
               h == Head(toRic[n])
    <3>1. /\ t # <<>> /\ h.kind \in Requests /\ pending' = pending \ {Key(h)}
          /\ ricMsg' = h /\ ricPc = "idle"
      BY <2>2 DEF StopPendingEvent, Recv, CloseTimer, RicGoto, Key
    <3>2. t \in Seq(Wire) /\ HasEvent(t, pending) /\ OpenIn(t, Sent) /\ OpenIn(t, OpenCalls)
      BY DEF TypeInv, SocketType, EventInv, LodgedInv, Lodged, CallInv
    <3>3. 1 \in DOMAIN t /\ h = t[1]
      BY <3>1, <3>2, SocketRecv
    <3>4. Key(h) \in pending /\ h.for \in Sent /\ h.for \in OpenCalls
      BY <3>1, <3>2, <3>3 DEF HasEvent, OpenIn
    <3>5. pending' = {}
      BY <3>1, <3>4 DEF CallInv
    <3> HIDE DEF h, t
    <3> QED
      BY <1>1, <1>2, <3>1, <3>4, <3>5 DEF NotifyIapp
  <2>3. CASE \E n \in Nodes : RecvIndication(n)
    <3>1. ricMsg'.kind = "IND"
      BY <2>3 DEF RecvIndication, Recv, RicGoto
    <3> QED
      BY <3>1 DEF Requests
  <2>4. CASE \/ RegisterNode \/ ConnectNode \/ NotifyIapp \/ ForgetConn \/ ForgetNode
             \/ \E n \in Nodes : RegisterAddress(n) \/ ForgetAddress(n)
    <3>1. ricPc' # "notify"
      BY <2>4 DEF RegisterNode, ConnectNode, NotifyIapp, ForgetConn, ForgetNode,
         RegisterAddress, ForgetAddress, RicGoto, RicDone
    <3> QED
      BY <3>1
  <2>5. TimerEvent => UNCHANGED <<ricPc, ricMsg>>
    BY DEF TimerEvent, ricVars
  <2> QED
    BY <2>1, <2>2, <2>3, <2>4, <2>5, Frames DEF RicStep
<1>8. (\A d \in delivered : d.kind \in Requests => d.for \in Sent)'
  <2>1. CASE delivered' = delivered
    BY <1>1, <2>1 DEF CallInv
  <2>2. CASE /\ NotifyIapp
             /\ \A d \in delivered' :
                  d \in delivered \/ (d.kind = ricMsg.kind /\ d.for = ricMsg.for)
    <3>1. ricPc = "notify"
      BY <2>2 DEF NotifyIapp
    <3> QED
      BY <1>1, <2>2, <3>1 DEF CallInv
  <2> QED
    BY <2>1, <2>2, Delivers
<1> QED
  BY <1>3, <1>4, <1>5, <1>6, <1>7, <1>8 DEF CallInv

-----------------------------------------------------------------------------
(* No step of the iApp thread fails an assertion: the node it looks up has *)
(* an address, the delete has its subscription's entry, the id is new.     *)
LEMMA IappStaysAlive ==
  ASSUME TypeInv, MapInv, TablesInv, XappInv, IdsInv, StayInv, KnownInv, Alive, IappStep
  PROVE  Alive'
<1>1. toIapp # <<>> => Head(toIapp) \in asked
  <2>1. toIapp \in Seq(asked)
    BY DEF MapInv
  <2> QED
    BY <2>1, SocketRecv
<1>2. CASE ValidateRequest
  <2> DEFINE m == Head(toIapp)
  <2>1. /\ m \in asked /\ m.kind \in Requests
        /\ crash' = IF Valid(m) THEN crash ELSE "valid_global_e2_node"
    BY <1>1, <1>2 DEF ValidateRequest, RecvIapp, Check, Requests
  <2> HIDE DEF m
  <2>2. m.node \in reg
    BY <2>1 DEF KnownInv
  <2>3. m.xapp <= nextXapp
    <3>1. [id |-> m.xapp, app |-> m.app] \in xapps
      BY <2>1 DEF XappInv, Registered
    <3>2. m.xapp < nextXapp
      BY <3>1 DEF XappInv
    <3>3. m.xapp \in Nat /\ nextXapp \in Nat
      BY <2>1 DEF TypeInv, AppType, AppCalls, Calls, IappType
    <3> QED
      BY <3>2, <3>3
  <2> QED
    BY <2>1, <2>2, <2>3 DEF Valid, Alive
<1>3. CASE LookupDelete
  <2> DEFINE m == Head(toIapp)
  <2>1. m \in asked /\ m.kind = "DEL"
    BY <1>1, <1>3 DEF LookupDelete, RecvIapp
  <2>2. Listed(m)
    BY <2>1 DEF KnownInv
  <2>3. {e \in ricMap : e.xapp = m.xapp /\ e.xid = m.xid} # {}
    BY <2>2 DEF Listed
  <2> QED
    BY <1>3, <2>3 DEF LookupDelete, Alive
<1>4. CASE SendToNode
  <2>1. iPc = "send"
    BY <1>4 DEF SendToNode
  <2>2. iMsg.node \in reg
    BY <2>1, HandledCall DEF KnownInv
  <2>3. reg \subseteq Owners(sad)
    BY DEF TablesInv, StayInv, TypeInv, RicType
  <2>4. {a \in sad : a.node = iMsg.node} # {}
    BY <2>2, <2>3 DEF Owners
  <2> QED
    BY <1>4, <2>4 DEF SendToNode, Alive
<1>5. CASE AddMapping
  <2>1. iPc = "map" /\ iMsg.kind # "DEL"
    BY <1>5 DEF AddMapping, TypeInv, IappType
  <2> QED
    BY <1>5, <2>1 DEF AddMapping, IdsInv, Check, Alive
<1> QED
  BY <1>2, <1>3, <1>4, <1>5 DEF IappStep, HandleSetup, LockMap, InsertPending, Alive

(* Nor does a step of the RIC thread but the registration of a node that   *)
(* repeated its set-up: an answer has its event and its entry, and when a  *)
(* timer fires its event is the only one.                                  *)
LEMMA RicStaysAlive ==
  ASSUME TypeInv, MapInv, EventInv, LeaveInv, StayInv, KnownInv, PositiveIds, CallInv, Alive,
         RicStep, [Next]_vars
  PROVE  OnlyRepeatedSetupsAbort'
<1>0. SUFFICES ~RegisterNode => Alive'
  <2>1. ASSUME RegisterNode PROVE OnlyRepeatedSetupsAbort'
    <3>1. /\ ricMsg.node \in Nodes /\ node' = node
          /\ crash' = IF ricMsg.node \notin reg THEN crash ELSE "already existing E2 Node"
      BY <2>1 DEF RegisterNode, Check, TypeInv, RicType, Wire, Packets, NoMsg, envVars
    <3>2. ricMsg.node \notin reg \/ node[ricMsg.node].setups > 1
      BY <2>1 DEF RegisterNode, StayInv
    <3> QED
      BY <3>1, <3>2 DEF OnlyRepeatedSetupsAbort, Alive
  <2> QED
    BY <1>0, <2>1 DEF OnlyRepeatedSetupsAbort
<1>1. CASE \E n \in Nodes : StopPendingEvent(n) \/ ForgetAddress(n)
  <2>1. crash' # "extract a key not found"
    BY ExtractStep DEF AnswerFindsPendingEvent, Alive
  <2>2. crash' = crash \/ crash' = "extract a key not found"
    BY <1>1 DEF StopPendingEvent, ForgetAddress, Check
  <2> QED
    BY <2>1, <2>2 DEF Alive
<1>2. CASE ForgetConn \/ ForgetNode
  BY <1>2 DEF ForgetConn, ForgetNode, StayInv, Check, Alive
<1>3. CASE NotifyIapp
  <2>1. ricPc = "notify" /\ MapFree /\ Mapped(VMap, ricMsg.id, ricMsg.for)
    BY <1>3 DEF NotifyIapp, MapInv
  <2>2. PICK f \in ricMap : f.id = ricMsg.id
    BY <2>1, MappedIsListed
  <2>3. f \in MapEntries(ricMsg) /\ ricMsg.id # 0
    <3>1. f.id > 0 /\ f.id \in Nat
      BY DEF PositiveIds, TypeInv, TableType, Entries
    <3> QED
      BY <2>2, <3>1 DEF MapEntries
  <2>4. PICK e \in MapEntries(ricMsg) :
          \/ {a \in xapps : a.id = e.xapp} = {}
          \/ UNCHANGED crash
    BY <1>3, <2>3, Zenon DEF NotifyIapp
  <2>5. {a \in xapps : a.id = e.xapp} # {}
    BY DEF KnownInv, MapEntries
  <2> QED
    BY <2>4, <2>5 DEF Alive
<1>4. CASE TimerEvent
  <2>1. PICK ev \in expired : Check(Cardinality(pending) = 1, "bi_map_size(&ric->pending) == 1")
    BY <1>4 DEF TimerEvent
  <2>2. pending = {ev}
    BY DEF TypeInv, TableType, CallInv
  <2>3. Cardinality(pending) = 1
    BY <2>2, FS_Singleton
  <2> QED
    BY <2>1, <2>3 DEF Check, Alive
<1> QED
  BY <1>1, <1>2, <1>3, <1>4 DEF RicStep, RegisterAddress, ConnectNode, RecvIndication, Alive

LEMMA AliveInvInit ==
  ASSUME FirstId > 0, Init
  PROVE  AliveInv
<1>1. /\ \A n \in Nodes : toNode[n] = <<>> /\ toRic[n] = <<>> /\ ~node[n].up
      /\ DOMAIN <<>> = {} /\ iPc = "idle" /\ ricPc = "idle" /\ crash = "none" /\ reqId = FirstId
      /\ sad = {} /\ conn = {} /\ reg = {} /\ pending = {} /\ ricMap = {} /\ delivered = {}
      /\ asked = {} /\ xapps = {} /\ \A x \in Apps : app[x].nodes = {} /\ app[x].id = 0
  BY DEF Init
<1>2. StayInv
  BY <1>1 DEF StayInv, Steady, New, Has, OneSetup, SettingUp
<1>3. KnownInv /\ PositiveIds
  BY <1>1 DEF KnownInv, PositiveIds
<1>4. TablesInv /\ AnswerInv
  BY <1>1 DEF TablesInv, Owners, OneAddress, AnswerInv, XappInv, UniqueIds, AnswersReachAsker
<1>5. CallInv
  BY <1>1 DEF CallInv, OpenCalls, OpenIn
<1> QED
  BY <1>1, <1>2, <1>3, <1>4, <1>5 DEF AliveInv, OnlyRepeatedSetupsAbort, Alive

(* After a failed assertion there is no step.                              *)
LEMMA DeadStays ==
  ASSUME ~Alive, [Next]_vars
  PROVE  UNCHANGED <<crash, node>>
<1>1. ~RicStep
  BY DEF RicStep, RegisterAddress, RegisterNode, ConnectNode, StopPendingEvent, Recv,
     RecvIndication, NotifyIapp, ForgetAddress, ForgetConn, ForgetNode, TimerEvent
<1>2. ~IappStep
  BY DEF IappStep, HandleSetup, ValidateRequest, LockMap, LookupDelete, RecvIapp,
     InsertPending, SendToNode, AddMapping
<1>3. ~TimerExpires /\ \A n \in Nodes : ~NodeStep(n)
  BY DEF TimerExpires, NodeStep, NodeConnects, NodeResends, NodeShutsDown, NodeIsLost, Leave,
     NodeHandles, NodeIndicates
<1>4. \A x \in Apps : ~AppStep(x)
  BY DEF AppStep, AppStarts, AppRequests, AppDeletes, CanAsk
<1> QED
  BY <1>1, <1>2, <1>3, <1>4 DEF Next, vars, envVars

LEMMA AliveInvStep ==
  ASSUME \A x, y \in Apps : x = y, Departures = {},
         TypeInv, MapInv, FlightInv, AliveInv, [Next]_vars
  PROVE  AliveInv'
<1>1. /\ StayInv /\ KnownInv /\ TablesInv /\ AnswerInv
      /\ XappInv /\ AskInv /\ WaitInv /\ LodgedInv /\ LeaveInv /\ AnswersReachAsker
  BY DEF FlightInv, AliveInv, AnswerInv
<1>2. StayInv' /\ KnownInv'
  BY <1>1, StayStep, KnownStep
<1>3. TablesInv' /\ AnswerInv'
  <2>1. TablesInv' /\ XappInv' /\ AnswersReachAsker'
    BY <1>1, TablesStep, XappStep, AnswerStep
  <2>2. (Alive => UniqueIds(ricMap))'
    BY <1>1, UniqueIdsStep DEF AnswerInv
  <2> QED
    BY <2>1, <2>2 DEF AnswerInv
<1>4. ASSUME IdsDoNotWrap'
      PROVE  PositiveIds' /\ CallInv' /\ OnlyRepeatedSetupsAbort'
  <2>1. IdsDoNotWrap
    BY <1>4, IdsStep DEF FlightInv
  <2>2. IdsInv /\ EventInv /\ PositiveIds /\ CallInv /\ OnlyRepeatedSetupsAbort
    BY <2>1 DEF FlightInv, AliveInv
  <2>3. PositiveIds' /\ CallInv'
    BY <1>1, <1>4, <2>2, PositiveStep, CallStep
  <2>4. CASE Alive
    <3>1. RicStep => OnlyRepeatedSetupsAbort'
      BY <1>1, <2>2, <2>4, RicStaysAlive
    <3>2. IappStep => Alive'
      BY <1>1, <2>2, <2>4, IappStaysAlive
    <3> QED
      BY <2>3, <2>4, <3>1, <3>2, Frames DEF OnlyRepeatedSetupsAbort, Alive
  <2>5. CASE ~Alive
    BY <2>2, <2>3, <2>5, DeadStays DEF OnlyRepeatedSetupsAbort, Alive
  <2> QED
    BY <2>4, <2>5
<1> QED
  BY <1>2, <1>3, <1>4 DEF AliveInv

(* With one xApp and nodes that stay, of the assertions modelled in        *)
(* NearRic only that of reg_e2_nodes.c:110 can fail, and only at a node    *)
(* that has sent its E2 set-up more than once, for any set of nodes and    *)
(* any number of requests up to the last id: the tables of near_ric.c and  *)
(* iapp_if_generic.c agree whatever the order in which the two threads     *)
(* read and write them, and the assertion of near_ric.c:342, that a timer  *)
(* fires only while one request is pending, holds because the xApp waits   *)
(* for each answer.  The hypotheses are needed: with two xApps             *)
(* OnePendingAtTimeout fails, when a node leaves DeletedNodeHasAddress,    *)
(* with an id of 0 IdIsNotZero.                                            *)
THEOREM OneAssertion ==
  ASSUME \A x, y \in Apps : x = y, Departures = {}, FirstId > 0
  PROVE  Spec => [](IdsDoNotWrap => OnlyRepeatedSetupsAbort)
<1> DEFINE IInv == TypeInv /\ MapInv /\ FlightInv /\ AliveInv
<1>1. Init => IInv
  BY TypeInvInit, MapInvInit, FlightInvInit, AliveInvInit
<1>2. IInv /\ [Next]_vars => IInv'
  BY TypeInvStep, MapInvStep, FlightInvStep, AliveInvStep
<1>3. IInv => (IdsDoNotWrap => OnlyRepeatedSetupsAbort)
  BY DEF AliveInv
<1> HIDE DEF IInv
<1> QED
  BY <1>1, <1>2, <1>3, PTL DEF Spec

=============================================================================
