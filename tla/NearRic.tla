------------------------------ MODULE NearRic ------------------------------
(***************************************************************************)
(* The nearRT-RIC process of FlexRIC (src/flexric/flexric-jyd/src/ric).    *)
(*                                                                         *)
(* Two threads run its two event loops.  The RIC thread serves the socket  *)
(* of the E2 nodes and the timers of the requests forwarded to them; the   *)
(* iApp thread serves the socket of the xApps.  They call into each other: *)
(* the iApp thread creates a request's pending event and sends it to the   *)
(* node, the RIC thread translates the node's answer back to the xApp's    *)
(* request id and sends it to the xApp.  Between them stand four tables,   *)
(* each with a mutex of its own: the nodes' addresses, the nodes the iApp  *)
(* knows, the pending events, and the map from a RIC request id to the     *)
(* xApp and its own request id.  An action is one critical section.        *)
(*                                                                         *)
(* A failed assert() aborts the process: "crash" says which one failed.    *)
(*                                                                         *)
(* The environment: E2 nodes join, repeat their set-up until it is         *)
(* answered, answer, indicate and leave, by an SCTP shutdown, of which the *)
(* RIC is notified, or by a lost association, of which it is not; xApps    *)
(* repeat their set-up too, then make one synchronous call at a time.      *)
(***************************************************************************)
EXTENDS Integers, Sequences, FiniteSets

CONSTANTS
  Nodes,       \* E2 nodes
  Apps,        \* xApps
  FirstId,     \* first RIC request id (1021 in the code)
  IdMod,       \* number of RIC request ids (2^16 in the code)
  Departures,  \* the ways a node leaves: subset of {"shutdown", "loss"}
  MaxEpoch,    \* bound: associations a node makes
  MaxSetup,    \* bound: set-up requests of an association, of an xApp
  MaxReq,      \* bound: requests the xApps make
  MaxInd       \* bound: indications on the way from one node

ASSUME ConstantsAssumption ==
  /\ IdMod \in Nat \ {0} /\ FirstId \in 0 .. IdMod - 1
  /\ Departures \subseteq {"shutdown", "loss"}
  /\ MaxEpoch \in Nat /\ MaxReq \in Nat /\ MaxInd \in Nat
  /\ MaxSetup \in Nat \ {0}

VARIABLES
  sad,        \* addresses of the nodes: [node, ep], ep its association
  conn,       \* conn_e2_nodes of the RIC
  reg,        \* reg_e2_nodes of the iApp
  pending,    \* pending events: [kind, id], each with its periodic timer
  expired,    \* pending events whose timer is readable
  reqId,      \* req_id, the next RIC request id before truncation
  ricMap,     \* map_ric_id: [id, node, xapp, xid]
  mapLock,    \* the holder of its mutex across several steps
  ricPc,      \* where the RIC thread is
  ricMsg,     \* the message it handles
  iPc,        \* where the iApp thread is
  iMsg,       \* the xApp's message it handles
  iId,        \* the RIC request id of that request
  edge,       \* the edge-triggered epoll has an event to report
  xapps,      \* map_xapps_sockaddr: [id, app]
  nextXapp,   \* xapp_id, the next xApp id
  crash,      \* "none", or the assertion that failed
  toRic,      \* sockets: messages of each node to the RIC
  toNode,     \* sockets: messages of the RIC to each node
  toIapp,     \* socket: messages of the xApps to the iApp
  delivered,  \* messages sent to the xApps
  node,       \* environment: [up, ep, subs, waits, setups] of each node:
              \* its set-up is unanswered, the requests it sent for it
  app,        \* environment: [id, nodes] of each xApp, id 0 before its setup
  asked       \* environment: the requests the xApps made

ricVars   == <<ricPc, ricMsg, sad, conn>>
iappVars  == <<iPc, iMsg, iId, edge, xapps, nextXapp, reqId, mapLock>>
pendVars  == <<pending, expired>>
envVars   == <<node, app, asked>>
vars == <<ricVars, iappVars, pendVars, reg, ricMap, crash, toRic, toNode,
          toIapp, delivered, envVars>>

Requests == {"SUB", "DEL", "CTRL"}
NoNode == "none"
Calls == [app : Apps, xapp : Nat, kind : Requests \cup {"SETUP"}, xid : Nat,
          node : Nodes \cup {NoNode}]
(* A message between the RIC and a node.  "for" is the call it serves: the *)
(* code does not send it, the properties use it.                           *)
NoCall == [kind |-> "NONE"]
Packets == [kind : Requests \cup {"SETUP", "SHUT", "IND"}, id : Nat, ep : Nat,
            node : Nodes, for : Calls \cup {NoCall}]
NoMsg == [kind |-> "NONE"]

Packet(kind, id, ep, n, call) ==
  [kind |-> kind, id |-> id, ep |-> ep, node |-> n, for |-> call]

TypeOK ==
  /\ sad \subseteq [node : Nodes, ep : Nat]
  /\ conn \subseteq Nodes /\ reg \subseteq Nodes
  /\ pending \subseteq [kind : Requests, id : Nat] /\ expired \subseteq pending
  /\ reqId \in Nat
  /\ ricMap \subseteq [id : Nat, node : Nodes, xapp : Nat, xid : Nat]
  /\ mapLock \in {"free", "iapp"}
  /\ mapLock = "iapp" <=> (iPc \in {"insert", "send", "map"} /\ iMsg.kind # "DEL")
  /\ ricPc \in {"idle", "regNode", "connect", "notify", "forgetConn", "forgetNode"}
  /\ ricMsg \in Packets \cup {NoMsg} /\ (ricPc = "idle" <=> ricMsg = NoMsg)
  /\ iPc \in {"idle", "lock", "insert", "send", "map"}
  /\ iMsg \in Calls \cup {NoMsg} /\ (iPc = "idle" <=> iMsg = NoMsg)
  /\ iId \in Nat /\ edge \in BOOLEAN
  /\ xapps \subseteq [id : Nat, app : Apps] /\ nextXapp \in Nat
  /\ toRic \in [Nodes -> Seq(Packets)] /\ toNode \in [Nodes -> Seq(Packets)]
  /\ toIapp \in Seq(Calls)
  /\ delivered \subseteq [app : Apps, kind : Requests \cup {"IND"}, xid : Nat,
                          for : Calls \cup {NoCall}]
  /\ node \in [Nodes -> [up : BOOLEAN, ep : Nat, subs : SUBSET (Nat \X Calls),
                         waits : BOOLEAN, setups : Nat]]
  /\ app \in [Apps -> [id : Nat, nodes : SUBSET Nodes]]
  /\ asked \subseteq Calls

Init ==
  /\ sad = {} /\ conn = {} /\ reg = {} /\ pending = {} /\ expired = {}
  /\ reqId = FirstId /\ ricMap = {} /\ mapLock = "free"
  /\ ricPc = "idle" /\ ricMsg = NoMsg
  /\ iPc = "idle" /\ iMsg = NoMsg /\ iId = 0 /\ edge = FALSE
  /\ xapps = {} /\ nextXapp = 7
  /\ crash = "none"
  /\ toRic = [n \in Nodes |-> <<>>] /\ toNode = [n \in Nodes |-> <<>>]
  /\ toIapp = <<>> /\ delivered = {} /\ asked = {}
  /\ node = [n \in Nodes |-> [up |-> FALSE, ep |-> 0, subs |-> {},
                              waits |-> FALSE, setups |-> 0]]
  /\ app = [x \in Apps |-> [id |-> 0, nodes |-> {}]]

Alive == crash = "none"
Check(condition, label) == crash' = IF condition THEN crash ELSE label

(* sctp_sendmsg to the association a: what is sent on one that has ended   *)
(* is lost, and the code does not notice (it asserts rc # 0, rc is -1).    *)
SendTo(a, kind, id, call) ==
  toNode' = IF node[a.node].up /\ node[a.node].ep = a.ep
            THEN [toNode EXCEPT ![a.node] =
                    Append(@, Packet(kind, id, a.ep, a.node, call))]
            ELSE toNode

-----------------------------------------------------------------------------
(* The RIC thread: e2_event_loop_ric.                                      *)

Recv(n, kinds) ==
  /\ Alive /\ ricPc = "idle"
  /\ toRic[n] # <<>> /\ Head(toRic[n]).kind \in kinds
  /\ toRic' = [toRic EXCEPT ![n] = Tail(@)]

RicGoto(label, m) == ricPc' = label /\ ricMsg' = m
RicDone == RicGoto("idle", NoMsg)

(* E2 SETUP-REQUEST: the address first, ... *)
RegisterAddress(n) ==
  LET m == Head(toRic[n]) IN
  /\ Recv(n, {"SETUP"})
  /\ sad' = sad \cup {[node |-> n, ep |-> m.ep]}
  /\ RicGoto("regNode", m)
  /\ UNCHANGED <<iappVars, pendVars, conn, reg, ricMap, crash, toNode, toIapp,
                 delivered, envVars>>

(* ... then the iApp's table, which takes no node twice, ... *)
RegisterNode ==
  /\ Alive /\ ricPc = "regNode"
  /\ Check(ricMsg.node \notin reg, "already existing E2 Node")
  /\ reg' = reg \cup {ricMsg.node}
  /\ RicGoto("connect", ricMsg)
  /\ UNCHANGED <<iappVars, pendVars, sad, conn, ricMap, toRic, toNode, toIapp,
                 delivered, envVars>>

(* ... then the list of connected nodes, and the answer. *)
ConnectNode ==
  /\ Alive /\ ricPc = "connect"
  /\ conn' = conn \cup {ricMsg.node}
  /\ SendTo([node |-> ricMsg.node, ep |-> ricMsg.ep], "SETUP", 0, NoCall)
  /\ RicDone
  /\ UNCHANGED <<iappVars, pendVars, sad, reg, ricMap, crash, toRic, toIapp,
                 delivered, envVars>>

(* Mutant: every pending event goes with the first answer. *)
CloseAllTimers(ev) == pending' = {} /\ expired' = {}

CloseTimer(ev) == pending' = pending \ {ev} /\ expired' = expired \ {ev}

(* An answer of a node: its pending event is extracted and its timer goes. *)
StopPendingEvent(n) ==
  LET m  == Head(toRic[n])
      ev == [kind |-> m.kind, id |-> m.id]
  IN
  /\ Recv(n, Requests)
  /\ Check(ev \in pending, "extract a key not found")
  /\ CloseTimer(ev)
  /\ RicGoto("notify", m)
  /\ UNCHANGED <<iappVars, sad, conn, reg, ricMap, toNode, toIapp, delivered,
                 envVars>>

RecvIndication(n) ==
  /\ Recv(n, {"IND"})
  /\ RicGoto("notify", Head(toRic[n]))
  /\ UNCHANGED <<iappVars, pendVars, sad, conn, reg, ricMap, crash, toNode,
                 toIapp, delivered, envVars>>

(* Mutant: the entries are compared by node, not by request id. *)
EntriesOfNode(m) == {e \in ricMap : e.node = m.node}

MapEntries(m) == {e \in ricMap : e.id = m.id}
(* Mutant: the map is read without its mutex. *)
NoMapLock == TRUE

MapFree == mapLock = "free"

Deliver(e, a) ==
  delivered' = delivered \cup
    {[app |-> a.app, kind |-> ricMsg.kind, xid |-> e.xid, for |-> ricMsg.for]}

(* notify_msg_iapp: the iApp's handlers, run by the RIC thread, look the   *)
(* request id up and send the message on under the xApp's own id.          *)
NotifyIapp ==
  /\ Alive /\ ricPc = "notify" /\ MapFree
  /\ \/ /\ ricMsg.id = 0
        /\ crash' = "ric_req_id > 0" /\ UNCHANGED delivered
     \/ /\ ricMsg.id # 0 /\ MapEntries(ricMsg) = {}
        /\ crash' = "Not found RIC Request ID" /\ UNCHANGED delivered
     \/ /\ ricMsg.id # 0
        /\ \E e \in MapEntries(ricMsg) :
             LET as == {a \in xapps : a.id = e.xapp} IN
             \/ as = {} /\ crash' = "xApp ID not found" /\ UNCHANGED delivered
             \/ \E a \in as : Deliver(e, a) /\ UNCHANGED crash
  /\ RicDone
  /\ UNCHANGED <<iappVars, pendVars, sad, conn, reg, ricMap, toRic, toNode,
                 toIapp, envVars>>

(* SCTP shutdown: the address goes first, ... *)
ForgetAddress(n) ==
  LET m == Head(toRic[n])
      a == [node |-> n, ep |-> m.ep]
  IN
  /\ Recv(n, {"SHUT"})
  /\ Check(a \in sad, "extract a key not found")
  /\ sad' = sad \ {a}
  /\ RicGoto("forgetConn", m)
  /\ UNCHANGED <<iappVars, pendVars, conn, reg, ricMap, toNode, toIapp,
                 delivered, envVars>>

(* Mutant: the departed node stays in the list. *)
KeepNode(table, n) == table

RemoveNode(table, n) == table \ {n}

ForgetConn ==
  /\ Alive /\ ricPc = "forgetConn"
  /\ Check(ricMsg.node \in conn, "E2 Node not found!")
  /\ conn' = RemoveNode(conn, ricMsg.node)
  /\ RicGoto("forgetNode", ricMsg)
  /\ UNCHANGED <<iappVars, pendVars, sad, reg, ricMap, toRic, toNode, toIapp,
                 delivered, envVars>>

(* ... the iApp's entry last.  Pending events and map entries stay. *)
ForgetNode ==
  /\ Alive /\ ricPc = "forgetNode"
  /\ Check(ricMsg.node \in reg, "Not registed e2 Node passed")
  /\ reg' = reg \ {ricMsg.node}
  /\ RicDone
  /\ UNCHANGED <<iappVars, pendVars, sad, conn, ricMap, toRic, toNode, toIapp,
                 delivered, envVars>>

(* A timer is readable: pend_event looks for its event, the loop reads the *)
(* timer, and the event and its periodic timer stay.                       *)
TimerEvent ==
  /\ Alive /\ ricPc = "idle"
  /\ \E ev \in expired :
       /\ Check(Cardinality(pending) = 1, "bi_map_size(&ric->pending) == 1")
       /\ expired' = expired \ {ev}
  /\ UNCHANGED <<ricVars, iappVars, pending, reg, ricMap, toRic, toNode, toIapp,
                 delivered, envVars>>

RicStep ==
  \/ \E n \in Nodes : \/ RegisterAddress(n) \/ StopPendingEvent(n)
                      \/ RecvIndication(n) \/ ForgetAddress(n)
  \/ RegisterNode \/ ConnectNode \/ NotifyIapp \/ ForgetConn \/ ForgetNode
  \/ TimerEvent

-----------------------------------------------------------------------------
(* The iApp thread: e2_event_loop_iapp.  One epoll event, one message.     *)

RecvIapp(kinds) ==
  /\ Alive /\ iPc = "idle" /\ edge /\ toIapp # <<>>
  /\ Head(toIapp).kind \in kinds
  /\ toIapp' = Tail(toIapp) /\ edge' = FALSE

IappGoto(label, m) == iPc' = label /\ iMsg' = m
IappDone == IappGoto("idle", NoMsg)

(* E42 SETUP-REQUEST: a fresh xApp id, and the nodes of the iApp's table.  *)
(* A repeated one registers the xApp again, which asserts that it was not  *)
(* connected yet; if it goes on at all, it goes on under its first id.     *)
HandleSetup ==
  LET m == Head(toIapp) IN
  /\ RecvIapp({"SETUP"})
  /\ xapps' = xapps \cup {[id |-> nextXapp, app |-> m.app]}
  /\ nextXapp' = nextXapp + 1
  /\ app' = [app EXCEPT ![m.app] =
               IF @.id = 0 THEN [id |-> nextXapp, nodes |-> reg] ELSE @]
  /\ UNCHANGED <<ricVars, pendVars, iPc, iMsg, iId, reqId, mapLock, reg, ricMap,
                 crash, toRic, toNode, delivered, node, asked>>

Valid(m) == m.xapp <= nextXapp /\ m.node \in reg

(* SUBSCRIPTION or CONTROL request: checked against the iApp's table, ...  *)
ValidateRequest ==
  LET m == Head(toIapp) IN
  /\ RecvIapp({"SUB", "CTRL"})
  /\ Check(Valid(m), "valid_global_e2_node")
  /\ IappGoto("lock", m)
  /\ UNCHANGED <<ricVars, pendVars, iId, xapps, nextXapp, reqId, mapLock, reg,
                 ricMap, toRic, toNode, delivered, envVars>>

(* ... then, under the map's mutex, given a RIC request id.                *)
LockMap ==
  /\ Alive /\ iPc = "lock" /\ MapFree
  /\ mapLock' = "iapp"
  /\ iId' = reqId % IdMod /\ reqId' = reqId + 1
  /\ IappGoto("insert", iMsg)
  /\ UNCHANGED <<ricVars, pendVars, edge, xapps, nextXapp, reg, ricMap, crash,
                 toRic, toNode, toIapp, delivered, envVars>>

(* DELETE request: under the id its subscription was given; no other check. *)
LookupDelete ==
  LET m  == Head(toIapp)
      es == {e \in ricMap : e.xapp = m.xapp /\ e.xid = m.xid}
  IN
  /\ RecvIapp({"DEL"})
  /\ \/ es = {} /\ crash' = "Not found xApp RIC ID" /\ UNCHANGED <<iId, iPc, iMsg>>
     \/ \E e \in es : iId' = e.id /\ IappGoto("insert", m) /\ UNCHANGED crash
  /\ UNCHANGED <<ricVars, pendVars, xapps, nextXapp, reqId, mapLock, reg, ricMap,
                 toRic, toNode, delivered, envVars>>

(* Mutant: a delete is supervised as the subscription it was copied from. *)
SubscriptionEvent(m, id) ==
  [kind |-> IF m.kind = "DEL" THEN "SUB" ELSE m.kind, id |-> id]

NewEvent(m, id) == [kind |-> m.kind, id |-> id]

InsertPending ==
  /\ Alive /\ iPc = "insert"
  /\ pending' = pending \cup {NewEvent(iMsg, iId)}
  /\ IappGoto("send", iMsg)
  /\ UNCHANGED <<ricVars, iId, edge, xapps, nextXapp, reqId, mapLock, expired,
                 reg, ricMap, crash, toRic, toNode, toIapp, delivered, envVars>>

(* e2ap_send_bytes_ric: the node's address is looked up only now. *)
SendToNode ==
  LET as == {a \in sad : a.node = iMsg.node} IN
  /\ Alive /\ iPc = "send"
  /\ \/ /\ as = {}
        /\ crash' = "E2 Node not found in the tree"
        /\ UNCHANGED <<toNode, iPc, iMsg>>
     \/ /\ \E a \in as : SendTo(a, iMsg.kind, iId, iMsg)
        /\ IF iMsg.kind = "DEL" THEN IappDone ELSE IappGoto("map", iMsg)
        /\ UNCHANGED crash
  /\ UNCHANGED <<ricVars, iId, edge, xapps, nextXapp, reqId, mapLock, pendVars,
                 reg, ricMap, toRic, toIapp, delivered, envVars>>

(* Mutant: the mutex is not released. *)
KeepMapLock == "iapp"

Release == "free"

AddMapping ==
  /\ Alive /\ iPc = "map"
  /\ Check(\A e \in ricMap : e.id # iId, "ric_req_id already in the map")
  /\ ricMap' = ricMap \cup
       {[id |-> iId, node |-> iMsg.node, xapp |-> iMsg.xapp, xid |-> iMsg.xid]}
  /\ mapLock' = Release
  /\ IappDone
  /\ UNCHANGED <<ricVars, iId, edge, xapps, nextXapp, reqId, pendVars, reg,
                 toRic, toNode, toIapp, delivered, envVars>>

IappStep == \/ HandleSetup \/ ValidateRequest \/ LockMap \/ LookupDelete
            \/ InsertPending \/ SendToNode \/ AddMapping

-----------------------------------------------------------------------------
(* The environment.                                                        *)

FrameEnv == UNCHANGED <<ricVars, iPc, iMsg, iId, xapps, nextXapp, reqId, mapLock,
                        reg, ricMap, crash, delivered>>

(* A pending event's timer fires, 3 s after the request and every 3 s on.  *)
TimerExpires ==
  /\ Alive
  /\ \E ev \in pending \ expired : expired' = expired \cup {ev}
  /\ FrameEnv /\ UNCHANGED <<pending, edge, toRic, toNode, toIapp, envVars>>

ToRic(n, kind, id, call) ==
  toRic' = [toRic EXCEPT ![n] = Append(@, Packet(kind, id, node[n].ep, n, call))]

(* A node associates with the RIC and sends its E2 SETUP-REQUEST. *)
NodeConnects(n) ==
  /\ Alive /\ ~node[n].up /\ node[n].ep < MaxEpoch
  /\ node' = [node EXCEPT ![n] = [up |-> TRUE, ep |-> @.ep + 1, subs |-> {},
                                  waits |-> TRUE, setups |-> 1]]
  /\ toRic' = [toRic EXCEPT ![n] =
                 Append(@, Packet("SETUP", 0, node[n].ep + 1, n, NoCall))]
  /\ FrameEnv /\ UNCHANGED <<pendVars, edge, toNode, toIapp, app, asked>>

(* Its timer expires before the set-up is answered: it sends it again.     *)
NodeResends(n) ==
  /\ Alive /\ node[n].up /\ node[n].waits /\ node[n].setups < MaxSetup
  /\ node' = [node EXCEPT ![n].setups = @ + 1]
  /\ ToRic(n, "SETUP", 0, NoCall)
  /\ FrameEnv /\ UNCHANGED <<pendVars, edge, toNode, toIapp, app, asked>>

Leave(n) ==
  /\ Alive /\ node[n].up
  /\ node' = [node EXCEPT ![n].up = FALSE, ![n].subs = {}]
  /\ toNode' = [toNode EXCEPT ![n] = <<>>]
  /\ FrameEnv /\ UNCHANGED <<pendVars, edge, toIapp, app, asked>>

NodeShutsDown(n) == /\ "shutdown" \in Departures /\ Leave(n)
                    /\ ToRic(n, "SHUT", 0, NoCall)
NodeIsLost(n) == "loss" \in Departures /\ Leave(n) /\ UNCHANGED toRic

(* A node handles the RIC's next message and answers it.  It does not      *)
(* answer a delete of a subscription it does not have.                     *)
NodeHandles(n) ==
  LET m   == Head(toNode[n])
      sub == <<m.id, m.for>>
  IN
  /\ Alive /\ node[n].up /\ toNode[n] # <<>>
  /\ toNode' = [toNode EXCEPT ![n] = Tail(@)]
  /\ \/ /\ m.kind = "SETUP"
        /\ node' = [node EXCEPT ![n].waits = FALSE]
        /\ UNCHANGED toRic
     \/ /\ m.kind = "SUB"
        /\ node' = [node EXCEPT ![n].subs = @ \cup {sub}]
        /\ ToRic(n, m.kind, m.id, m.for)
     \/ /\ m.kind = "DEL" /\ \E s \in node[n].subs : s[1] = m.id
        /\ node' = [node EXCEPT ![n].subs = {s \in @ : s[1] # m.id}]
        /\ ToRic(n, m.kind, m.id, m.for)
     \/ /\ m.kind = "DEL" /\ \A s \in node[n].subs : s[1] # m.id
        /\ UNCHANGED <<toRic, node>>
     \/ /\ m.kind = "CTRL"
        /\ UNCHANGED node
        /\ ToRic(n, m.kind, m.id, m.for)
  /\ FrameEnv /\ UNCHANGED <<pendVars, edge, toIapp, app, asked>>

NodeIndicates(n) ==
  /\ Alive /\ node[n].up
  /\ Len(SelectSeq(toRic[n], LAMBDA m : m.kind = "IND")) < MaxInd
  /\ \E s \in node[n].subs : ToRic(n, "IND", s[1], s[2])
  /\ FrameEnv /\ UNCHANGED <<pendVars, edge, toNode, toIapp, envVars>>

Answered(r) == \E d \in delivered : d.app = r.app /\ d.kind = r.kind /\ d.xid = r.xid

ToIapp(m) == toIapp' = Append(toIapp, m) /\ edge' = TRUE
             /\ asked' = asked \cup {m}

(* An xApp sends its E42 SETUP-REQUEST, and again until it is answered.    *)
(* "xid" numbers these messages: the code does not send it.                *)
AppStarts(x) ==
  LET sent == Cardinality({r \in asked : r.app = x})
  IN
  /\ Alive /\ app[x].id = 0 /\ sent < MaxSetup
  /\ ToIapp([app |-> x, xapp |-> 0, kind |-> "SETUP", xid |-> sent, node |-> NoNode])
  /\ FrameEnv /\ UNCHANGED <<pendVars, toRic, toNode, node, app>>

CanAsk(x) == /\ Alive /\ app[x].id # 0
             /\ \A r \in asked : r.app = x /\ r.kind # "SETUP" => Answered(r)
             /\ Cardinality({r \in asked : r.kind # "SETUP"}) < MaxReq

(* report_sm_xapp_api or control_sm_xapp_api, under a fresh request id.    *)
AppRequests(x) ==
  LET xid == 1 + Cardinality({r \in asked : r.app = x /\ r.kind \in {"SUB", "CTRL"}})
  IN
  /\ CanAsk(x)
  /\ \E n \in app[x].nodes, kind \in {"SUB", "CTRL"} :
       ToIapp([app |-> x, xapp |-> app[x].id, kind |-> kind, xid |-> xid, node |-> n])
  /\ FrameEnv /\ UNCHANGED <<pendVars, toRic, toNode, node, app>>

(* rm_report_sm_xapp_api, of a subscription that was answered.             *)
AppDeletes(x) ==
  /\ CanAsk(x)
  /\ \E r \in asked :
       /\ r.app = x /\ r.kind = "SUB"
       /\ \A d \in asked : ~(d.app = x /\ d.kind = "DEL" /\ d.xid = r.xid)
       /\ ToIapp([r EXCEPT !.kind = "DEL"])
  /\ FrameEnv /\ UNCHANGED <<pendVars, toRic, toNode, node, app>>

NodeStep(n) == \/ NodeConnects(n) \/ NodeResends(n) \/ NodeShutsDown(n)
               \/ NodeIsLost(n) \/ NodeHandles(n) \/ NodeIndicates(n)
AppStep(x) == AppStarts(x) \/ AppRequests(x) \/ AppDeletes(x)

Next == \/ RicStep \/ IappStep \/ TimerExpires
        \/ \E n \in Nodes : NodeStep(n)
        \/ \E x \in Apps : AppStep(x)

Spec == Init /\ [][Next]_vars

(* Both threads run, and a node that is up handles what it is sent (an     *)
(* assumption on the E2 node; E2Agent says when FlexRIC's own agent meets  *)
(* it).  The timers do not starve the sockets: epoll reports the ready     *)
(* descriptors in turn.                                                    *)
FairSpec ==
  /\ Spec
  /\ WF_vars(IappStep)
  /\ WF_vars(RegisterNode \/ ConnectNode \/ NotifyIapp \/ ForgetConn \/ ForgetNode)
  /\ \A n \in Nodes :
       /\ SF_vars(RegisterAddress(n) \/ StopPendingEvent(n) \/ RecvIndication(n)
                  \/ ForgetAddress(n))
       /\ WF_vars(NodeHandles(n))

-----------------------------------------------------------------------------
(* Properties.                                                             *)

(* What an xApp is sent carries the request id it chose itself, belongs to *)
(* a call it made, and an answer has the kind of that call; an indication  *)
(* belongs to a subscription.  The RIC renumbers every request and         *)
(* translates back through map_ric_id.                                     *)
AnswersReachAsker ==
  \A d \in delivered :
    /\ d.for \in asked /\ d.for.app = d.app /\ d.for.xid = d.xid
    /\ d.for.kind = IF d.kind = "IND" THEN "SUB" ELSE d.kind

(* A request on its way to a node, or its answer on the way back, has a    *)
(* pending event: fwd_ric_* create the event before they send.             *)
InFlight ==
  UNION {{toNode[n][i] : i \in DOMAIN toNode[n]}
           \cup {toRic[n][i] : i \in DOMAIN toRic[n]} : n \in Nodes}
InFlightIsSupervised ==
  \A m \in InFlight :
    m.kind \in Requests => [kind |-> m.kind, id |-> m.id] \in pending

(* So no answer makes stop_pending_event extract a missing event.          *)
AnswerFindsPendingEvent == crash # "extract a key not found"

(* The iApp thread holds the mutex of map_ric_id from before it sends a    *)
(* request until its mapping is there ("I do not like the mtx here but     *)
(* there is a data race if not"), so the answer finds the mapping, however *)
(* quick the node is.                                                      *)
NoUnmappedAnswer == crash # "Not found RIC Request ID"

(* Between two events of the RIC thread its three tables of nodes agree:   *)
(* the addresses, the connected nodes, the nodes the iApp knows.           *)
TablesAgree ==
  Alive /\ ricPc = "idle" => /\ conn = reg
                            /\ conn = {a.node : a \in sad}

(* One synchronous xApp and nodes that stay: of the assertions modelled    *)
(* here only one can fail, whatever the timers do, the one a node meets    *)
(* that has sent its E2 set-up more than once (reg_e2_nodes.c:110).        *)
OnlyRepeatedSetupsAbort ==
  Alive \/ /\ crash = "already existing E2 Node"
           /\ \E n \in Nodes : node[n].setups > 1

(* A request that is alone on its way to the iApp, whose socket has an     *)
(* edge to report, is answered.  (Behind a repeated set-up it may stay     *)
(* unread: an edge reads one message.)                                     *)
RequestsAnswered ==
  \A x \in Apps, kind \in Requests, xid \in 1 .. MaxReq :
    (/\ edge /\ Len(toIapp) = 1
     /\ toIapp[1].app = x /\ toIapp[1].kind = kind /\ toIapp[1].xid = xid)
      ~> (\E d \in delivered : d.app = x /\ d.kind = kind /\ d.xid = xid)
           \/ ~Alive

(* near_ric.c:342 asserts that a timer fires only when one request is      *)
(* outstanding.                                                            *)
OnePendingAtTimeout == crash # "bi_map_size(&ric->pending) == 1"

(* map_e2_node_sockaddr.c:152 asserts that a node a request is sent to has *)
(* an address.  For a delete no check precedes it; for the others, whose   *)
(* node the iApp has just validated, a shutdown may come in between.       *)
DeletedNodeHasAddress ==
  iMsg.kind = "DEL" => crash # "E2 Node not found in the tree"
ValidatedNodeHasAddress ==
  iMsg.kind # "DEL" => crash # "E2 Node not found in the tree"

(* reg_e2_nodes.c:110 asserts that no E2 node sets up twice; the agent     *)
(* repeats its set-up every 3 s, and a lost one associates again.          *)
NodeSetsUpOnce == crash # "already existing E2 Node"

(* map_ric_id.c:163 asserts that no RIC request id is 0.                   *)
IdIsNotZero == crash # "ric_req_id > 0"

=============================================================================
