---------------------------- MODULE PdcpHandover ----------------------------
(***************************************************************************)
(* The downlink of a radio bearer through an S1 handover of srsRAN: PDCP   *)
(* (lib/src/pdcp/pdcp_entity_lte.cc) in two eNBs and in the UE, the GTP-U  *)
(* tunnels that feed it (srsenb/src/stack/upper/gtpu.cc) and the procedure *)
(* that moves the bearer (srsenb/src/stack/rrc/rrc_mobility.cc).           *)
(*                                                                         *)
(* Each SDU has a COUNT: a sequence number, which is sent, and a hyper-    *)
(* frame number, which sender and receiver must infer alike, for it is     *)
(* what an SDU is ciphered with.  The source eNB forwards what the UE has  *)
(* not acknowledged, then what still comes from the gateway, through a     *)
(* tunnel to the target; the target holds back what comes to it directly   *)
(* until an end marker has followed the last forwarded SDU, or a timer has *)
(* given up on it.                                                         *)
(*                                                                         *)
(* Each eNB's stack is one thread: a handler is an action.  RLC is a queue *)
(* that loses nothing until the UE leaves the cell, and acknowledges later.*)
(***************************************************************************)
EXTENDS Integers, Sequences, FiniteSets, SequencesExt

CONSTANTS
  MOD,           \* 1 << cfg.sn_len
  NofSdus,       \* bound: SDUs that the gateway sends
  Starts,        \* bound: sequence numbers of the first SDU
  QueueLen,      \* SDUs that RLC's queue holds
  Buffer,        \* BUFFER_SIZE of a tunnel
  Timeouts,      \* may gtpu_tunnel_timeout be set, may it not be?
  MaxFaults      \* bound: losses, discards and radio failures in all

ASSUME ConstantsAssumption ==
  /\ MOD \in Nat /\ MOD > 2 /\ MOD % 2 = 0
  /\ NofSdus \in Nat /\ Starts \subseteq 0 .. MOD - 1
  /\ QueueLen \in Nat /\ Buffer \in Nat /\ MaxFaults \in Nat
  /\ Timeouts \subseteq BOOLEAN

VARIABLES
  pdcp,       \* the senders: eNB -> state of its PDCP entity
  src,        \* the source eNB: its tunnel from the gateway
  tgt,        \* the target eNB: the procedure's state and its two tunnels
  ue,         \* the UE: its cell and its PDCP entity
  radio,      \* eNB -> PDUs that its RLC has for the UE
  acks,       \* numbers RLC has delivered and not yet reported to PDCP
  s1, x2,     \* datagrams: gateway -> eNB, and source -> target
  core,       \* the gateway and the MME
  timeouts,   \* is gtpu_tunnel_timeout set in the target?  (It is not by default.)
  delivered,  \* history: SDUs that the UE's PDCP passed up, and their HFNs
  givenUp,    \* history: SDUs that were dropped
  faults,     \* history: losses, timeouts, failures
  met         \* history: limits of the code that were met

air     == <<radio, acks>>
history == <<givenUp, faults, met>>
state   == <<pdcp, src, tgt, ue, air, s1, x2, core, delivered, history>>
vars    == <<state, timeouts>>

Half == MOD \div 2   \* reordering_window, maximum_allocated_sns_window
SNs  == 0 .. MOD - 1
None == -1           \* undefined_pdcp_sn
ENBs == {"source", "target"}

Datagram(sdu, sn) == [sdu |-> sdu, sn |-> sn]
EndMarker == Datagram(0, None)

(* An entity that was just configured has all of st at 0.                  *)
Entity(active, hfn, sn) ==
  [active |-> active, hfn |-> hfn, sn |-> sn, undelivered |-> <<>>, fms |-> 0]
NoTunnel == [state |-> "none", buffer |-> <<>>]
Buffering == [state |-> "buffering", buffer |-> <<>>]

Init ==
  \E first \in Starts :
    /\ pdcp = [source |-> Entity(TRUE, 0, first), target |-> Entity(FALSE, 0, 0)]
    /\ src = "pdcp_active"
    /\ tgt = [state |-> "idle", recfg |-> FALSE, fwd |-> NoTunnel, main |-> NoTunnel]
    /\ ue = [cell |-> "source", ho_cmd |-> FALSE, hfn |-> 0, next |-> first,
             last |-> (first - 1) % MOD]
    /\ radio = [e \in ENBs |-> <<>>] /\ acks = {}
    /\ s1 = [e \in ENBs |-> <<>>] /\ x2 = <<>>
    /\ core = [sent |-> 0, path |-> "source", status |-> <<>>, ho |-> "none"]
    /\ timeouts \in Timeouts
    /\ delivered = <<>> /\ givenUp = {} /\ faults = 0 /\ met = {}

-----------------------------------------------------------------------------
(* PDCP, the sender: the map of undelivered SDUs.  Its numbers are         *)
(* compared as plain integers.                                             *)

CanStore(p, sn) ==
  /\ sn \notin DOMAIN p.undelivered
  /\ p.undelivered # <<>> =>
       LET diff == sn - p.fms IN diff <= Half /\ (diff > 0 \/ diff <= -Half)

Stored(p, sn, sdu) ==
  [p EXCEPT !.fms = IF p.undelivered = <<>> THEN sn ELSE @,
            !.undelivered = [n \in DOMAIN @ \cup {sn} |-> IF n = sn THEN sdu ELSE @[n]]]

(* The oldest number moves on to the next one that is held.                *)
Cleared(p, sn) ==
  LET rest == DOMAIN p.undelivered \ {sn}
      held == {i \in 1 .. Half : (p.fms + i) % MOD \in rest}
      next == IF held = {} THEN 1 ELSE Min(held)
  IN [p EXCEPT !.undelivered = [n \in rest |-> @[n]],
               !.fms = IF sn = p.fms /\ sn \in DOMAIN p.undelivered
                       THEN (@ + next) % MOD ELSE @]

(* write_sdu, on x: an entity, its RLC queue and the SDUs dropped.  With a *)
(* number from the source the counters stay, and so does the HFN used.     *)
AdvancesNever(p) == [p EXCEPT !.sn = @ + 1]
Advanced(p) ==
  [p EXCEPT !.sn = (@ + 1) % MOD, !.hfn = IF p.sn = MOD - 1 THEN @ + 1 ELSE @]

Write(x, d) ==
  LET sn == IF d.sn = None THEN x.p.sn ELSE d.sn IN
  IF x.p.active /\ Len(x.queue) < QueueLen /\ CanStore(x.p, sn)
  THEN LET p == Stored(x.p, sn, d.sdu) IN
       [x EXCEPT !.p = IF d.sn = None THEN Advanced(p) ELSE p,
                 !.queue = Append(@, [sdu |-> d.sdu, sn |-> sn, hfn |-> x.p.hfn])]
  ELSE [x EXCEPT !.dropped = @ \cup {d.sdu}]

(* More than half of the numbers are given and not acknowledged, or have   *)
(* been given since the one that the UE expects, or one is given again     *)
(* before RLC has reported it.                                             *)
COUNT(hfn, sn) == hfn * MOD + sn
PastWindow(x) ==
  \/ x.p.undelivered # <<>> /\ (x.p.sn - x.p.fms) % MOD > Half
  \/ COUNT(x.p.hfn, x.p.sn) - COUNT(ue.hfn, ue.next) > Half
  \/ \E i \in DOMAIN x.queue : x.queue[i].sn \in acks
Meets(mark, condition) == met' = met \cup IF condition THEN {mark} ELSE {}

(* The SDUs ds are written in turn, and the SDUs in lost are dropped.      *)
WriteAll(enb, ds, lost) ==
  \E x \in {FoldLeft(Write, [p |-> pdcp[enb], queue |-> radio[enb], dropped |-> lost], ds)} :
    /\ pdcp' = [pdcp EXCEPT ![enb] = x.p]
    /\ radio' = [radio EXCEPT ![enb] = x.queue]
    /\ givenUp' = givenUp \cup x.dropped
    /\ Meets("window", PastWindow(x))

notify_delivery(sn) ==
  /\ sn \in acks
  /\ acks' = acks \ {sn}
  /\ pdcp' = [pdcp EXCEPT ![ue.cell] = Cleared(@, sn)]
  /\ UNCHANGED <<src, tgt, ue, radio, s1, x2, core, delivered, history>>

(* discard_callback: RLC discards the SDU if none of it was transmitted.   *)
Discard(enb, sn) ==
  /\ faults < MaxFaults
  /\ sn \in DOMAIN pdcp[enb].undelivered
  /\ faults' = faults + 1
  /\ givenUp' = givenUp \cup {pdcp[enb].undelivered[sn]}
  /\ pdcp' = [pdcp EXCEPT ![enb] = Cleared(@, sn)]
  /\ \/ UNCHANGED radio
     \/ \E i \in DOMAIN radio[enb] :
          /\ radio[enb][i].sn = sn
          /\ radio' = [radio EXCEPT ![enb] = RemoveAt(@, i)]
  /\ UNCHANGED <<src, tgt, ue, acks, s1, x2, core, delivered, met>>

-----------------------------------------------------------------------------
(* PDCP, the receiver.  Numbers are compared as plain integers here, too.  *)

(* Is the number taken for a duplicate?                                    *)
Old(sn) == \/ sn - ue.last > Half
           \/ ue.last - sn \in 0 .. Half - 1

(* The HFN that number sn is deciphered with, and the counters after it.   *)
Received(sn) ==
  LET st == [ue EXCEPT !.last = sn]
      wraps == sn = MOD - 1
  IN IF ue.next - sn > Half
     THEN [hfn |-> ue.hfn + 1, st |-> [st EXCEPT !.hfn = @ + 1, !.next = sn + 1]]
     ELSE IF sn - ue.next >= Half THEN [hfn |-> ue.hfn - 1, st |-> st]
     ELSE IF sn >= ue.next
     THEN [hfn |-> ue.hfn, st |-> [st EXCEPT !.next = (sn + 1) % MOD,
                                             !.hfn = IF wraps THEN @ + 1 ELSE @]]
     ELSE [hfn |-> ue.hfn, st |-> st]

handle_am_drb_pdu ==
  /\ ue.cell \in ENBs
  /\ radio[ue.cell] # <<>>
  /\ LET pdu == Head(radio[ue.cell]) IN
     /\ radio' = [radio EXCEPT ![ue.cell] = Tail(@)]
     /\ acks' = acks \cup {pdu.sn}
     /\ IF Old(pdu.sn) THEN UNCHANGED <<ue, delivered>>
        ELSE \E r \in {Received(pdu.sn)} :
               /\ ue' = r.st
               /\ delivered' = Append(delivered,
                    [sdu |-> pdu.sdu, ciphered |-> pdu.hfn, deciphered |-> r.hfn])
  /\ UNCHANGED <<pdcp, src, tgt, s1, x2, core, history>>

-----------------------------------------------------------------------------
(* The gateway and the MME.                                                *)

SendSdu ==
  /\ core.sent < NofSdus
  /\ core' = [core EXCEPT !.sent = @ + 1]
  /\ s1' = [s1 EXCEPT ![core.path] = Append(@, Datagram(core.sent + 1, None))]
  /\ UNCHANGED <<pdcp, src, tgt, ue, air, x2, delivered, history>>

SwitchPath ==
  /\ core.ho = "notified" /\ core.path = "source"
  /\ core' = [core EXCEPT !.path = "target"]
  /\ s1' = [s1 EXCEPT !.source = Append(@, EndMarker)]
  /\ UNCHANGED <<pdcp, src, tgt, ue, air, x2, delivered, history>>

-----------------------------------------------------------------------------
(* The source eNB.                                                         *)

Data(ds) == {d.sdu : d \in Range(ds)} \ {EndMarker.sdu}

(* handle_gtpu_s1u_rx_packet; handle_end_marker forwards the marker and    *)
(* takes the tunnel down.                                                  *)
RxSource ==
  /\ s1.source # <<>>
  /\ s1' = [s1 EXCEPT !.source = Tail(@)]
  /\ LET d == Head(s1.source) IN
     /\ src' = IF d = EndMarker THEN "none" ELSE src
     /\ x2' = IF src = "forward_to" THEN Append(x2, d) ELSE x2
     /\ IF src = "pdcp_active" /\ d # EndMarker THEN WriteAll("source", <<d>>, {})
        ELSE /\ givenUp' = givenUp \cup IF src = "none" THEN Data(<<d>>) ELSE {}
             /\ UNCHANGED <<pdcp, radio, met>>
  /\ UNCHANGED <<tgt, ue, acks, core, delivered, faults>>

(* create_dl_fwd_tunnel: what was not acknowledged is forwarded with its   *)
(* number, in the order of a map's keys.                                   *)
Forwarded(p) ==
  LET held == CHOOSE f \in [1 .. Cardinality(DOMAIN p.undelivered) -> DOMAIN p.undelivered] :
                \A i, j \in DOMAIN f : i < j => f[i] < f[j]
  IN [i \in DOMAIN held |-> Datagram(p.undelivered[held[i]], held[i])]

(* The handover command: the bearer is suspended, its counters go to the   *)
(* target through the MME, and the source tunnel turns to the target.      *)
handle_ho_cmd ==
  /\ tgt.state = "s1_target_ho" /\ core.ho = "none"
  /\ ue.cell = "source"
  /\ pdcp.source.active /\ src = "pdcp_active"
  /\ LET p == pdcp.source IN
     /\ core' = [core EXCEPT !.ho = "started",
                             !.status = <<[hfn |-> p.hfn, sn |-> p.sn]>>]
     /\ x2' = x2 \o Forwarded(p)
     /\ Meets("wrap", \E sn \in DOMAIN p.undelivered : sn >= p.sn)
  /\ pdcp' = [pdcp EXCEPT !.source.active = FALSE]
  /\ ue' = [ue EXCEPT !.ho_cmd = TRUE]
  /\ src' = "forward_to"
  /\ UNCHANGED <<tgt, air, s1, delivered, givenUp, faults>>

(* rem_user, when the MME releases the context.  It is a fault of the MME  *)
(* to do so while the gateway's last SDUs are on their way.                *)
ReleaseSource ==
  /\ core.ho = "notified" /\ core.path = "target"
  /\ core' = [core EXCEPT !.ho = "done"]
  /\ faults' = IF Data(s1.source) = {} THEN faults ELSE faults + 1
  /\ faults' <= MaxFaults
  /\ x2' = IF src = "forward_to" THEN Append(x2, EndMarker) ELSE x2
  /\ src' = "none"
  /\ pdcp' = [pdcp EXCEPT !.source = Entity(FALSE, 0, 0)]
  /\ UNCHANGED <<tgt, ue, air, s1, delivered, givenUp, met>>

(* handle_rrc_con_reest_req: the UE comes back, the handover is cancelled, *)
(* and the SDUs that the old entity held are not sent again.               *)
Reestablish ==
  /\ ue.cell = "moving"
  /\ faults < MaxFaults
  /\ faults' = faults + 1
  /\ ue' = [ue EXCEPT !.cell = "source"]
  /\ core' = [core EXCEPT !.ho = "cancelled"]
  /\ src' = "pdcp_active"
  /\ LET p == pdcp.source IN
     /\ givenUp' = givenUp \cup Range(p.undelivered)
     /\ pdcp' = [pdcp EXCEPT !.source = Entity(FALSE, p.hfn, p.sn)]
  /\ UNCHANGED <<tgt, air, s1, x2, delivered, met>>

(* Until the bearer is set up anew, its SDUs are dropped.                  *)
Reconfigure ==
  /\ core.ho = "cancelled" /\ ~pdcp.source.active
  /\ pdcp' = [pdcp EXCEPT !.source.active = TRUE]
  /\ UNCHANGED <<src, tgt, ue, air, s1, x2, core, delivered, history>>

-----------------------------------------------------------------------------
(* The target eNB.                                                         *)

(* The forwarding tunnel waits for the UE, the main one for the forwarding *)
(* tunnel's removal.                                                       *)
handle_ho_requested ==
  /\ tgt.state = "idle"
  /\ tgt' = [tgt EXCEPT !.state = "s1_target_ho",
                        !.fwd = Buffering, !.main = Buffering]
  /\ UNCHANGED <<pdcp, src, ue, air, s1, x2, core, delivered, history>>

(* activate_tunnel, of a tunnel that buffers: a stable sort by number,     *)
(* those without a number last.                                            *)
Sorted(ds) ==
  LET Key(i) == IF ds[i].sn = None THEN MOD ELSE ds[i].sn
      order == CHOOSE f \in [DOMAIN ds -> DOMAIN ds] :
                 \A i, j \in DOMAIN f : i < j =>
                   Key(f[i]) < Key(f[j]) \/ (Key(f[i]) = Key(f[j]) /\ f[i] < f[j])
  IN [i \in DOMAIN ds |-> ds[order[i]]]

Active == [state |-> "pdcp_active", buffer |-> <<>>]

(* handle_recfg_complete, at an entity p.                                  *)
Complete(p) ==
  /\ core' = [core EXCEPT !.status = <<>>, !.ho = "notified"]
  /\ tgt' = [tgt EXCEPT !.state = "done", !.recfg = FALSE,
                        !.fwd = IF @.state = "buffering" THEN Active ELSE @]
  /\ \E x \in {FoldLeft(Write, [p |-> p, queue |-> radio.target, dropped |-> {}],
                        Sorted(tgt.fwd.buffer))} :
       /\ pdcp' = [pdcp EXCEPT !.target = x.p]
       /\ radio' = [radio EXCEPT !.target = x.queue]
       /\ givenUp' = givenUp \cup x.dropped
       /\ Meets("window", PastWindow(x))

(* The entity starts with the counters that it is given; a completion that *)
(* came before them is handled now.                                        *)
StartsAnew(status) == Entity(TRUE, 0, 0)
StartsAt(status) == Entity(TRUE, status.hfn, status.sn)

handle_status_transfer ==
  /\ tgt.state = "s1_target_ho" /\ core.status # <<>>
  /\ LET p == StartsAt(core.status[1]) IN
     IF tgt.recfg THEN Complete(p)
     ELSE /\ pdcp' = [pdcp EXCEPT !.target = p]
          /\ core' = [core EXCEPT !.status = <<>>]
          /\ tgt' = [tgt EXCEPT !.state = "wait_recfg_comp"]
          /\ UNCHANGED <<radio, givenUp, met>>
  /\ UNCHANGED <<src, ue, acks, s1, x2, delivered, faults>>

(* The UE has reached the target and says so.  Without the counters there  *)
(* is no entity yet, and the message is deferred.                          *)
RecfgAtOnce == Complete(pdcp.target)
RecfgComplete ==
  IF tgt.state = "wait_recfg_comp" THEN Complete(pdcp.target)
  ELSE /\ tgt' = [tgt EXCEPT !.recfg = TRUE]
       /\ UNCHANGED <<pdcp, radio, core, givenUp, met>>

AccessTarget ==
  /\ ue.cell = "moving"
  /\ ue' = [ue EXCEPT !.cell = "target"]
  /\ RecfgComplete
  /\ UNCHANGED <<src, acks, s1, x2, delivered, faults>>

(* remove_tunnel of the forwarding tunnel, whose on_removal activates the  *)
(* main one.                                                               *)
OnlyRemoved ==
  /\ tgt' = [tgt EXCEPT !.fwd = NoTunnel]
  /\ givenUp' = givenUp \cup Data(tgt.fwd.buffer)
  /\ UNCHANGED <<pdcp, radio, met>>
RemoveForwarding ==
  /\ tgt' = [tgt EXCEPT !.fwd = NoTunnel, !.main = Active]
  /\ WriteAll("target", Sorted(tgt.main.buffer), Data(tgt.fwd.buffer))

(* handle_msg_data_pdu of a tunnel, "fwd" or "main".                       *)
DataPdu(tunnel, d) ==
  LET t == tgt[tunnel] IN
  \/ /\ t.state = "pdcp_active"
     /\ WriteAll("target", <<d>>, {})
     /\ UNCHANGED tgt
  \/ /\ t.state = "buffering" /\ Len(t.buffer) < Buffer
     /\ tgt' = [tgt EXCEPT ![tunnel].buffer = Append(@, d)]
     /\ UNCHANGED <<pdcp, radio, givenUp, met>>
  \/ /\ t.state # "pdcp_active"
     /\ t.state = "buffering" => Len(t.buffer) >= Buffer
     /\ givenUp' = givenUp \cup Data(<<d>>)
     /\ UNCHANGED <<pdcp, radio, tgt, met>>

RxForwarded ==
  /\ x2 # <<>>
  /\ x2' = Tail(x2)
  /\ IF Head(x2) = EndMarker /\ tgt.fwd # NoTunnel THEN RemoveForwarding
     ELSE DataPdu("fwd", Head(x2))
  /\ UNCHANGED <<src, ue, acks, s1, core, delivered, faults>>

RxMain ==
  /\ s1.target # <<>>
  /\ s1' = [s1 EXCEPT !.target = Tail(@)]
  /\ DataPdu("main", Head(s1.target))
  /\ UNCHANGED <<src, ue, acks, x2, core, delivered, faults>>

(* rx_timer.  It is a fault to expire while forwarded SDUs can still come. *)
Premature == src # "none" \/ x2 # <<>> \/ tgt.fwd.buffer # <<>>
TimerExpires ==
  /\ timeouts /\ tgt.fwd # NoTunnel
  /\ faults' = IF Premature THEN faults + 1 ELSE faults
  /\ faults' <= MaxFaults
  /\ RemoveForwarding
  /\ UNCHANGED <<src, ue, acks, s1, x2, core, delivered>>

ReleaseTarget ==
  /\ core.ho = "cancelled" /\ tgt.state # "released"
  /\ tgt' = [state |-> "released", recfg |-> FALSE, fwd |-> NoTunnel, main |-> NoTunnel]
  /\ pdcp' = [pdcp EXCEPT !.target = Entity(FALSE, 0, 0)]
  /\ givenUp' = givenUp \cup Data(tgt.fwd.buffer)
  /\ UNCHANGED <<src, ue, air, s1, x2, core, delivered, faults, met>>

-----------------------------------------------------------------------------
(* The UE leaves the source: RLC is re-established, PDCP keeps its state.  *)
UeHandover ==
  /\ ue.ho_cmd
  /\ ue' = [ue EXCEPT !.cell = "moving", !.ho_cmd = FALSE]
  /\ radio' = [radio EXCEPT !.source = <<>>]
  /\ acks' = {}
  /\ UNCHANGED <<pdcp, src, tgt, s1, x2, core, delivered, history>>

LoseX2 ==
  /\ x2 # <<>>
  /\ faults < MaxFaults
  /\ faults' = faults + 1
  /\ \E i \in DOMAIN x2 :
       /\ x2' = RemoveAt(x2, i)
       /\ givenUp' = givenUp \cup Data(<<x2[i]>>)
       /\ Meets("marker", x2[i] = EndMarker)
  /\ UNCHANGED <<pdcp, src, tgt, ue, air, s1, core, delivered>>

Arrived(sdu) == sdu \in givenUp \/ \E i \in DOMAIN delivered : delivered[i].sdu = sdu

InTheWindow == "wrap" \notin met /\ "window" \notin met
HeldBack == ~timeouts /\ "marker" \in met

Done ==
  /\ core.sent = NofSdus
  /\ InTheWindow /\ ~HeldBack => \A s \in 1 .. NofSdus : Arrived(s)
  /\ UNCHANGED state

Step ==
  \/ SendSdu \/ SwitchPath
  \/ RxSource \/ handle_ho_cmd \/ ReleaseSource \/ Reestablish \/ Reconfigure
  \/ handle_ho_requested \/ handle_status_transfer \/ AccessTarget
  \/ RxForwarded \/ RxMain \/ TimerExpires \/ ReleaseTarget
  \/ handle_am_drb_pdu \/ UeHandover \/ LoseX2 \/ Done
  \/ \E sn \in SNs : notify_delivery(sn) \/ \E enb \in ENBs : Discard(enb, sn)

Next == Step /\ UNCHANGED timeouts

Spec == Init /\ [][Next]_vars

(* The threads run, the radio works, and the MME finishes what it started. *)
FairSpec ==
  /\ Spec
  /\ WF_state(SwitchPath) /\ WF_state(RxSource) /\ WF_state(RxForwarded) /\ WF_state(RxMain)
  /\ WF_state(UeHandover) /\ WF_state(AccessTarget \/ Reestablish)
  /\ WF_state(handle_status_transfer) /\ WF_state(Reconfigure) /\ WF_state(ReleaseTarget)
  /\ WF_state(handle_am_drb_pdu) /\ WF_state(ReleaseSource) /\ WF_state(TimerExpires)

-----------------------------------------------------------------------------
(* The values of the variables: the states of the tunnels, of the target's *)
(* procedure and of the entities that write_sdu and write_pdu advance.     *)
TypeOK ==
  LET Sdu == 1 .. NofSdus
      Datagrams == [sdu : 0 .. NofSdus, sn : SNs \cup {None}]
  IN /\ \A e \in ENBs :
          /\ pdcp[e].active \in BOOLEAN /\ pdcp[e].hfn \in Nat /\ pdcp[e].sn \in SNs
          /\ DOMAIN pdcp[e].undelivered \subseteq SNs
          /\ Range(pdcp[e].undelivered) \subseteq Sdu
          /\ \A i \in DOMAIN radio[e] : radio[e][i].sdu \in Sdu /\ radio[e][i].sn \in SNs
          /\ s1[e] \in Seq(Datagrams)
     /\ src \in {"pdcp_active", "forward_to", "none"}
     /\ tgt.state \in {"idle", "s1_target_ho", "wait_recfg_comp", "done", "released"}
     /\ \A t \in {tgt.fwd, tgt.main} :
          t.state \in {"none", "buffering", "pdcp_active"} /\ t.buffer \in Seq(Datagrams)
     /\ x2 \in Seq(Datagrams)
     /\ ue.cell \in ENBs \cup {"moving"} /\ ue.hfn \in Nat
     /\ ue.next \in SNs /\ ue.last \in SNs
     /\ core.path \in ENBs
     /\ core.ho \in {"none", "started", "notified", "done", "cancelled"}
     /\ acks \subseteq SNs /\ givenUp \subseteq Sdu /\ faults \in 0 .. MaxFaults
     /\ timeouts \in BOOLEAN /\ met \subseteq {"wrap", "window", "marker"}

(* The UE passes SDUs up in the order of the gateway, none twice, each     *)
(* deciphered with the HFN it was ciphered with: write_sdu and             *)
(* handle_am_drb_pdu agree on the COUNT, and the target's tunnels keep the *)
(* order.  The code fails to in two cases, which met remembers: a handover *)
(* while a number from before a wrap is not acknowledged (the tunnels sort *)
(* by number, and write_sdu puts the new HFN to it), and one number more   *)
(* than half of them in use (store_sdu compares with > for >=).            *)
DecipheredInOrder ==
  InTheWindow =>
    \A i \in DOMAIN delivered :
      /\ delivered[i].deciphered = delivered[i].ciphered
      /\ i > 1 => delivered[i - 1].sdu < delivered[i].sdu

(* While nothing fails an SDU is dropped only at a full RLC queue or a full *)
(* buffer of a tunnel: the handover of rrc_mobility.cc and the forwarding  *)
(* of gtpu.cc themselves lose none.  The same two cases are excepted.      *)
Full ==
  \/ \E e \in ENBs : Len(radio[e]) = QueueLen
  \/ Len(tgt.fwd.buffer) = Buffer \/ Len(tgt.main.buffer) = Buffer
HandoverIsLossless ==
  [][faults' = 0 /\ InTheWindow' /\ ~Full' => givenUp' = givenUp]_vars

(* Every SDU that the gateway sends reaches the UE or was dropped: no      *)
(* tunnel of gtpu.cc holds it back forever.  As gtpu_tunnel_timeout is 0   *)
(* by default (main.cc:269), one does when the end marker is lost.         *)
EverythingArrives ==
  \A s \in 1 .. NofSdus : core.sent >= s ~> Arrived(s) \/ HeldBack \/ ~InTheWindow

(* pdcp_entity_lte.cc:173 says of the SDUs that are held back until they   *)
(* are acknowledged: "This will be used for reestablishment, where unack'ed *)
(* PDUs will be re-transmitted."                                           *)
UnackedAreRetransmitted ==
  \A s \in 1 .. NofSdus :
    ue.cell = "moving" /\ s \in Range(pdcp.source.undelivered)
      ~> \/ \E i \in DOMAIN delivered : delivered[i].sdu = s
         \/ core.ho \in {"notified", "done"}
=============================================================================
