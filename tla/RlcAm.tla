-------------------------------- MODULE RlcAm --------------------------------
(***************************************************************************)
(* The acknowledged mode of srsRAN's LTE RLC (lib/src/rlc/rlc_am_lte.cc):  *)
(* one direction of a radio bearer, a sender, a receiver and the radio     *)
(* between them, which loses and reorders PDUs.                            *)
(*                                                                         *)
(* The sender cuts SDUs into PDUs as grants come (read_pdu, on a thread of *)
(* the PHY), numbers them, keeps them in a window until they are acknow-   *)
(* ledged, and polls for status.  The stack's thread hands it SDUs, status *)
(* PDUs and expired timers; a status is worked off in several critical     *)
(* sections, between which the PHY may read PDUs.  The receiver puts PDUs  *)
(* back in order, reassembles SDUs and reports what it misses.             *)
(*                                                                         *)
(* An SDU is a sequence of units; a grant holds so many of them.  Numbers  *)
(* are taken modulo MOD, as the code's are modulo 1024.                    *)
(***************************************************************************)
EXTENDS Integers, Sequences, FiniteSets, SequencesExt

CONSTANTS
  MOD,        \* of sequence numbers
  Window,     \* RLC_AM_WINDOW_SIZE
  PollPdu,    \* cfg.poll_pdu
  SduLen,     \* the SDUs that PDCP writes: their lengths in units
  QueueLen,   \* cfg.tx_queue_length
  Discards,   \* SDUs that PDCP may discard
  MinPdu,     \* units of the smallest grant; 0: too small for a PDU or a segment
  MaxPdu,     \* bound: units of the largest grant
  InFlight,   \* bound: data PDUs on the air (HARQ processes)
  MaxLoss,    \* bound: PDUs the radio loses
  MaxRetx     \* bound: retransmissions queued when a poll expires

ASSUME ConstantsAssumption ==
  /\ Window \in Nat \ {0} /\ MOD \in Nat /\ MOD >= 2 * Window /\ MOD % Window = 0
  /\ PollPdu \in Nat \ {0} /\ QueueLen \in Nat \ {0}
  /\ SduLen \in Seq(Nat \ {0}) /\ Discards \subseteq DOMAIN SduLen
  /\ MinPdu \in 0 .. 1 /\ MaxPdu \in Nat \ {0}
  /\ InFlight \in Nat \ {0} /\ MaxLoss \in Nat /\ MaxRetx \in Nat \ {0}

VARIABLES
  tx,         \* the sender, see TypeOK
  ctrl,       \* the stack's thread at the sender: what it is working off
  rx,         \* the receiver
  air,        \* data PDUs on the air
  report,     \* the status PDU on the air, at most one
  losses,
  written,    \* SDUs that PDCP has written
  discarded,  \* history: SDUs that were not accepted or were discarded
  delivered,  \* history: SDUs that the receiver passed to PDCP
  acked,      \* history: SDUs that notify_delivery reported to PDCP
  ahead       \* history: was a PDU sent with a number of VT(MS) or beyond?

radio == <<air, report, losses>>
pdcp  == <<written, discarded, delivered, acked, ahead>>
vars  == <<tx, ctrl, rx, radio, pdcp>>

SNs == 0 .. MOD - 1
NeverWraps(sn) == sn + 1
Next1(sn) == (sn + 1) % MOD
Dist(from, to) == (to - from) % MOD   \* TX_MOD_BASE, RX_MOD_BASE

(* The first sequence number from sn on that is not in the window.         *)
FirstFree(window, sn) ==
  LET k == CHOOSE k \in 0 .. Window :
             /\ (sn + k) % MOD \notin DOMAIN window
             /\ \A j \in 0 .. k - 1 : (sn + j) % MOD \in DOMAIN window
  IN (sn + k) % MOD

Without(f, S) == [x \in DOMAIN f \ S |-> f[x]]
With(f, x, y) == [z \in DOMAIN f \cup {x} |-> IF z = x THEN y ELSE f[z]]

(* An SDU in units.  A PDU without data stands as one pseudo-unit.         *)
Units(s) == [k \in 1 .. SduLen[s] |-> <<s, k>>]
Empty == <<0, 0>>
EndsSdu(u) == u = Empty \/ u[2] = SduLen[u[1]]
SdusOf(data) == {data[i][1] : i \in DOMAIN data} \ {0}

Pdu(sn, poll, data) ==
  [sn |-> sn, poll |-> poll, rf |-> FALSE, so |-> 0, lsf |-> FALSE,
   data |-> data, passed |-> FALSE]
Segment(sn, poll, so, lsf, data) ==
  [sn |-> sn, poll |-> poll, rf |-> TRUE, so |-> so, lsf |-> lsf,
   data |-> data, passed |-> FALSE]

Idle == [pc |-> "idle"]

Init ==
  /\ tx = [vt_a |-> 0, vt_s |-> 0, poll_sn |-> 0, without_poll |-> 0,
           queue |-> <<>>, sdu |-> <<>>, window |-> <<>>, retx |-> <<>>,
           info |-> <<>>, poll_timer |-> "stopped"]
  /\ rx = [vr_r |-> 0, vr_x |-> 0, vr_ms |-> 0, vr_h |-> 0,
           window |-> <<>>, segments |-> <<>>, sdu |-> <<>>,
           poll_received |-> FALSE, do_status |-> FALSE,
           reordering |-> FALSE, prohibit |-> FALSE]
  /\ ctrl = Idle
  /\ air = <<>> /\ report = <<>> /\ losses = 0
  /\ written = 0 /\ discarded = {} /\ delivered = <<>> /\ acked = {} /\ ahead = FALSE

-----------------------------------------------------------------------------
(* The sender: SDUs from PDCP.                                             *)

write_sdu ==
  /\ ctrl = Idle
  /\ written < Len(SduLen)
  /\ written' = written + 1
  /\ IF Len(tx.queue) < QueueLen
     THEN tx' = [tx EXCEPT !.queue = Append(@, written')] /\ UNCHANGED discarded
     ELSE discarded' = discarded \cup {written'} /\ UNCHANGED tx
  /\ UNCHANGED <<ctrl, rx, radio, delivered, acked, ahead>>

(* The entry stays in the queue as a null pointer, here 0; apply_first     *)
(* finds nothing in a queue that is full.                                  *)
discard_sdu(s) ==
  /\ ctrl = Idle
  /\ Len(tx.queue) < QueueLen
  /\ \E i \in DOMAIN tx.queue :
       /\ tx.queue[i] = s
       /\ tx' = [tx EXCEPT !.queue[i] = 0]
  /\ discarded' = discarded \cup {s}
  /\ UNCHANGED <<ctrl, rx, radio, written, delivered, acked, ahead>>

-----------------------------------------------------------------------------
(* The sender: a grant of g units (read_pdu).  Operators on the sender's   *)
(* state, in the order in which the code applies them.                     *)

Full(x) == Cardinality(DOMAIN x.window) >= Window
Entry(sn) == [sn |-> sn, is_segment |-> FALSE, so |-> 0]

retransmit_pdu(x, sn) ==
  IF sn \in DOMAIN x.window THEN [x EXCEPT !.retx = Append(@, Entry(sn))] ELSE x

poll_required(x) ==
  \/ x.without_poll > PollPdu
  \/ x.poll_timer = "expired"
  \/ Full(x)
  \/ (x.queue = <<>> /\ x.retx = <<>>)

(* Another PDU: count it, and poll if it is time to.                       *)
Counted(x) == [x EXCEPT !.without_poll = IF @ > PollPdu THEN @ ELSE @ + 1]
Polled(x) ==
  IF poll_required(x) THEN [x EXCEPT !.without_poll = 0, !.poll_timer = "running"] ELSE x

(* Entries whose PDU has left the window are dropped; if nothing is left,  *)
(* VT(A) is sent again.                                                    *)
DropStale(x) ==
  LET live == {i \in DOMAIN x.retx : x.retx[i].sn \in DOMAIN x.window}
      y    == [x EXCEPT !.retx = <<>>]
  IN IF live # {} THEN [x EXCEPT !.retx = SubSeq(@, Min(live), Len(@))]
     ELSE IF x.retx = <<>> THEN x
     ELSE retransmit_pdu(y, x.vt_a)

(* Adding to the ring buffer overwrites what is in the slot.               *)
AddPdu(x, sn, data) ==
  LET kept == Without(x.window, {r \in DOMAIN x.window : r % Window = sn % Window})
  IN [x EXCEPT !.window = With(kept, sn, data)]

(* SDUs are read until the grant is used up; entries that PDCP discarded   *)
(* are skipped, and not counted by get_n_sdus.                             *)
Payload(x, g) ==
  LET queued == [i \in DOMAIN x.queue |-> IF x.queue[i] = 0 THEN <<>> ELSE Units(x.queue[i])]
      avail  == x.sdu \o FlattenSeq(queued)
  IN IF avail = <<>> THEN <<Empty>> ELSE SubSeq(avail, 1, Min({g, Len(avail)}))

(* The sender with this payload in a new PDU.                              *)
Packed(x, data) ==
  LET last == data[Len(data)]
      sdus == SdusOf(data)
      read == {i \in DOMAIN x.queue : x.queue[i] \in sdus}
  IN [AddPdu(x, x.vt_s, data) EXCEPT
       !.queue = IF read = {} THEN @ ELSE SubSeq(@, Max(read) + 1, Len(@)),
       !.sdu   = IF EndsSdu(last) THEN <<>>
                 ELSE SubSeq(Units(last[1]), last[2] + 1, SduLen[last[1]]),
       !.info  = [s \in DOMAIN @ \cup sdus |->
                    (IF s \in DOMAIN @ THEN @[s] ELSE {})
                    \cup (IF s \in sdus THEN {x.vt_s} ELSE {})]]

(* The radio: HARQ gives a PDU up before the sender, told that it arrived, *)
(* sends another in its place; half of the numbers would not do otherwise. *)
NoStraggler == \A i \in DOMAIN air : air[i].sn \in DOMAIN tx.window

(* VT(MS), the upper edge of the window, is kept but never looked at: only *)
(* the number of PDUs that wait bounds VT(S), and that only between SDUs.  *)
BuildData(x, g) ==
  IF \/ g = 0
     \/ x.sdu = <<>> /\ (x.queue = <<>> \/ Full(x))
  THEN tx' = x /\ UNCHANGED air
  ELSE /\ NoStraggler
       /\ \E data \in {Payload(x, g)} : \E y \in {Counted(Packed(x, data))} :
            LET poll == poll_required(y) IN
            /\ tx' = [Polled(y) EXCEPT !.poll_sn = IF poll THEN x.vt_s ELSE @,
                                       !.vt_s    = Next1(@)]
            /\ air' = Append(air, Pdu(x.vt_s, poll, data))

(* build_retx_pdu and build_segment.  The poll is decided before the       *)
(* entry is popped, and before a segment turns out not to fit: its header  *)
(* is longer than that of a PDU, so that read_pdu may then go on to build  *)
(* a data PDU with the grant.                                              *)
BuildRetx(x, g, fits) ==
  LET e    == Head(x.retx)
      data == x.window[e.sn]
      n    == Min({g, Len(data) - e.so})
      lsf  == e.so + n = Len(data)
      poll == poll_required(Counted(x))
  IN \E y \in {Polled(Counted(x))} :
       \/ /\ ~e.is_segment /\ Len(data) <= g
          /\ tx' = [y EXCEPT !.retx = Tail(@)]
          /\ air' = Append(air, Pdu(e.sn, poll, data))
       \/ /\ e.is_segment \/ Len(data) > g
          /\ IF g = 0 \/ ~fits THEN BuildData(y, g)
             ELSE /\ tx' = [y EXCEPT !.retx =
                       IF lsf THEN Tail(@)
                       ELSE <<[e EXCEPT !.is_segment = TRUE, !.so = @ + n]>> \o Tail(@)]
                  /\ air' = Append(air, Segment(e.sn, poll, e.so, lsf, SubSeq(data, e.so + 1, e.so + n)))

(* A grant of g units; fits: is there room for the header of a segment?    *)
read_pdu(g, fits) ==
  LET x == IF Full(tx) /\ tx.retx = <<>> THEN retransmit_pdu(tx, tx.vt_a) ELSE tx
  IN /\ Len(air) < InFlight
     /\ \E y \in {DropStale(x)} :
          IF y.retx # <<>> THEN BuildRetx(y, g, fits) ELSE BuildData(y, g)
     /\ ahead' = (ahead \/ (tx'.vt_s # tx.vt_s /\ Dist(tx.vt_a, tx.vt_s) >= Window))
     /\ UNCHANGED <<ctrl, rx, report, losses, written, discarded, delivered, acked>>

has_data == tx.retx # <<>> \/ tx.sdu # <<>> \/ \E i \in DOMAIN tx.queue : tx.queue[i] # 0

-----------------------------------------------------------------------------
(* The sender: status PDUs and the poll timer, on the stack's thread.      *)

(* handle_control_pdu, first section: validity, the poll timer, the queue. *)
ReceiveStatus ==
  LET st    == Head(report)
      valid == Dist(tx.vt_a, st.ack_sn) <= Window /\ Dist(st.ack_sn, tx.vt_s) <= Window
  IN /\ ctrl = Idle
     /\ report # <<>>
     /\ report' = <<>>
     /\ IF valid
        THEN /\ ctrl' = [pc |-> "control", ack_sn |-> st.ack_sn, nacks |-> st.nacks,
                         i |-> tx.vt_a, vt_s |-> tx.vt_s, update |-> TRUE, notify |-> {}]
             /\ tx' = [tx EXCEPT
                  !.poll_timer = IF Dist(tx.vt_a, tx.poll_sn) < Dist(tx.vt_a, st.ack_sn)
                                    /\ @ = "running"
                                 THEN "stopped" ELSE @,
                  !.retx = IF st.nacks # {} THEN <<>> ELSE @]
        ELSE UNCHANGED <<ctrl, tx>>
     /\ UNCHANGED <<rx, air, losses, pdcp>>

MoreToCheck ==
  /\ ctrl.pc = "control"
  /\ Dist(tx.vt_a, ctrl.i) < Dist(tx.vt_a, ctrl.ack_sn)
  /\ Dist(tx.vt_a, ctrl.i) < Dist(tx.vt_a, ctrl.vt_s)

(* The next sections: one for each sequence number.                        *)
NackAdvances ==
  /\ MoreToCheck
  /\ ctrl.i \in ctrl.nacks
  /\ tx' = IF \E k \in DOMAIN tx.retx : tx.retx[k].sn = ctrl.i THEN tx
           ELSE retransmit_pdu(tx, ctrl.i)
  /\ ctrl' = [ctrl EXCEPT !.i = Next1(@)]
  /\ UNCHANGED <<rx, radio, pdcp>>

Nack ==
  /\ MoreToCheck
  /\ ctrl.i \in ctrl.nacks
  /\ tx' = IF \E k \in DOMAIN tx.retx : tx.retx[k].sn = ctrl.i THEN tx
           ELSE retransmit_pdu(tx, ctrl.i)
  /\ ctrl' = [ctrl EXCEPT !.update = FALSE, !.i = Next1(@)]
  /\ UNCHANGED <<rx, radio, pdcp>>

(* update_notification_ack_info: SDUs all of which is sent, and of which   *)
(* this was the last PDU without an acknowledgement.                       *)
ConfirmedInPart(sn) ==
  {s \in SdusOf(tx.window[sn]) : s \in DOMAIN tx.info /\ tx.info[s] \subseteq {sn}}

Confirmed(sn) ==
  {s \in SdusOf(tx.window[sn]) :
     s \in DOMAIN tx.info /\ tx.info[s] \subseteq {sn} /\ s \notin SdusOf(tx.sdu)}

Ack ==
  /\ MoreToCheck
  /\ ctrl.i \notin ctrl.nacks
  /\ LET present == ctrl.i \in DOMAIN tx.window
         done    == IF present THEN Confirmed(ctrl.i) ELSE {}
     IN /\ tx' = [tx EXCEPT
             !.window = Without(@, {ctrl.i}),
             !.info   = [s \in DOMAIN @ \ done |-> IF present THEN @[s] \ {ctrl.i} ELSE @[s]],
             !.vt_a   = IF ctrl.update THEN Next1(@) ELSE @]
        /\ ctrl' = [ctrl EXCEPT !.i = Next1(@), !.notify = @ \cup done]
  /\ UNCHANGED <<rx, radio, pdcp>>

(* PDCP is told when the lock is released.                                 *)
NotifyDelivery ==
  /\ ctrl.pc = "control"
  /\ ~MoreToCheck
  /\ acked' = acked \cup ctrl.notify
  /\ ctrl' = Idle
  /\ UNCHANGED <<tx, rx, radio, written, discarded, delivered, ahead>>

(* The timer expires; the PHY may read a PDU before the callback has the   *)
(* lock.                                                                   *)
PollTimerExpires ==
  /\ ctrl = Idle
  /\ tx.poll_timer = "running"
  /\ Len(tx.retx) < MaxRetx
  /\ tx' = [tx EXCEPT !.poll_timer = "expired"]
  /\ ctrl' = [pc |-> "poll"]
  /\ UNCHANGED <<rx, radio, pdcp>>

WaitsForFullWindow ==
  /\ ctrl.pc = "poll"
  /\ ctrl' = Idle
  /\ tx' = IF Full(tx) THEN retransmit_pdu(tx, tx.vt_a) ELSE tx
  /\ UNCHANGED <<rx, radio, pdcp>>

timer_expired ==
  /\ ctrl.pc = "poll"
  /\ ctrl' = Idle
  /\ tx' = IF (tx.retx = <<>> /\ tx.queue = <<>>) \/ Full(tx)
           THEN retransmit_pdu(tx, tx.vt_a) ELSE tx
  /\ UNCHANGED <<rx, radio, pdcp>>

-----------------------------------------------------------------------------
(* The receiver.                                                           *)

Inside(x, sn) == Dist(x.vr_r, sn) < Window
Highest(x, sn) == IF Dist(x.vr_r, sn) >= Dist(x.vr_r, x.vr_h) THEN Next1(sn) ELSE x.vr_h

(* 5.2.3: a poll is answered at once when what it asks about is settled,   *)
(* else when the reordering timer expires.                                 *)
Settled(x, sn) == Dist(x.vr_r, sn) < Dist(x.vr_r, x.vr_ms) \/ Dist(x.vr_r, sn) >= Window
WithPoll(x, pdu) ==
  [x EXCEPT !.poll_received = @ \/ pdu.poll,
            !.do_status     = @ \/ (pdu.poll /\ Settled(x, pdu.sn))]
Answered(x, pdu) == [x EXCEPT !.do_status = @ \/ pdu.poll]

(* reassemble_rx_sdus: the n PDUs in order from VR(R) on leave the window; *)
(* their units are appended to rx_sdu, which goes to PDCP at each end of   *)
(* an SDU.  What was kept in segments of these numbers is cleared, its map *)
(* entry is not.                                                           *)
InOrder(x) == Dist(x.vr_r, FirstFree(x.window, x.vr_r))
Collected(x, n) == x.sdu \o FlattenSeq([k \in 1 .. n |-> x.window[(x.vr_r + k - 1) % MOD]])
Ends(units) == {0} \cup {i \in DOMAIN units : EndsSdu(units[i])}

Reassembled(x, n, units) ==
  LET moved == {(x.vr_r + k) % MOD : k \in 0 .. n - 1}
  IN [x EXCEPT !.vr_r     = (@ + n) % MOD,
               !.window   = Without(@, moved),
               !.segments = [sn \in DOMAIN @ |-> IF sn \in moved THEN <<>> ELSE @[sn]],
               !.sdu      = SubSeq(units, Max(Ends(units)) + 1, Len(units))]

(* What PDCP gets; the empty SDU of a PDU without data is not recorded.    *)
Deliver(units) ==
  LET sdu(i) == SubSeq(units, Max({j \in Ends(units) : j < i}) + 1, i)
      passed == [i \in DOMAIN units |->
                   IF i \in Ends(units) /\ sdu(i) # <<Empty>> THEN <<sdu(i)>> ELSE <<>>]
  IN delivered' = delivered \o FlattenSeq(passed)

(* 5.1.3.2.3: the reordering timer.                                        *)
Reordered(x) ==
  LET over == \/ x.vr_x = x.vr_r
              \/ (~Inside(x, x.vr_x) /\ Dist(x.vr_r, x.vr_x) # Window)
      on   == x.reordering /\ ~over
  IN IF ~on /\ x.vr_h # x.vr_r
     THEN [x EXCEPT !.reordering = TRUE, !.vr_x = x.vr_h]
     ELSE [x EXCEPT !.reordering = on]

Stored(x, pdu) ==
  LET y == [x EXCEPT !.window = With(@, pdu.sn, pdu.data), !.vr_h = Highest(x, pdu.sn)]
  IN [y EXCEPT !.vr_ms = FirstFree(y.window, @)]

(* The receiver after pdu, without the segments of the numbers in done.    *)
handle_data_pdu(x, pdu, done) ==
  IF ~Inside(x, pdu.sn) \/ pdu.sn \in DOMAIN x.window
  THEN /\ rx' = [Answered(x, pdu) EXCEPT !.segments = Without(@, done)]
       /\ UNCHANGED delivered
  ELSE \E y \in {Stored(x, pdu)} : \E n \in {InOrder(y)} : \E units \in {Collected(y, n)} :
         \E z \in {Reassembled(WithPoll(y, pdu), n, units)} :
           /\ rx' = [Reordered(z) EXCEPT !.segments = Without(@, done)]
           /\ Deliver(units)

(* add_segment_and_check: of two segments with one offset the longer is    *)
(* kept, and one that earlier ones cover is dropped.                       *)
Added(segs, seg) ==
  LET longer == seg.so \notin DOMAIN segs \/ Len(segs[seg.so].data) < Len(seg.data)
      all == IF longer THEN With(segs, seg.so, seg) ELSE segs
      End(o) == o + Len(all[o].data)
  IN Without(all, {o \in DOMAIN all : \E p \in DOMAIN all : p < o /\ End(p) >= End(o)})

Covering(segs, i) == {o \in DOMAIN segs : o < i /\ i <= o + Len(segs[o].data)}
Complete(segs) ==
  LET last == Max(DOMAIN segs) IN
  /\ segs[last].lsf
  /\ \A i \in 1 .. last + Len(segs[last].data) : Covering(segs, i) # {}
Joined(segs) ==
  LET last == Max(DOMAIN segs) IN
  Pdu(segs[last].sn, \E o \in DOMAIN segs : segs[o].poll,
      [i \in 1 .. last + Len(segs[last].data) |->
         LET o == Min(Covering(segs, i)) IN segs[o].data[i - o]])

handle_data_pdu_segment(x, seg) ==
  LET first == [x EXCEPT !.segments = With(@, seg.sn, With(<<>>, seg.so, seg)),
                         !.vr_h = Highest(x, seg.sn)]
  IN \/ /\ ~Inside(x, seg.sn)
        /\ rx' = Answered(x, seg) /\ UNCHANGED delivered
     \/ /\ Inside(x, seg.sn) /\ seg.sn \notin DOMAIN x.segments
        /\ rx' = WithPoll(first, seg) /\ UNCHANGED delivered
     \/ /\ Inside(x, seg.sn) /\ seg.sn \in DOMAIN x.segments
        /\ \E segs \in {Added(x.segments[seg.sn], seg)} :
           \E kept \in {[Answered(x, seg) EXCEPT !.segments[seg.sn] = segs]} :
             IF Complete(segs) THEN handle_data_pdu(kept, Joined(segs), {seg.sn})
             ELSE rx' = kept /\ UNCHANGED delivered

(* A PDU may be overtaken by the one behind it, once.                      *)
ReceiveData(i) ==
  /\ i \in DOMAIN air
  /\ i = 1 \/ (i = 2 /\ ~air[1].passed)
  /\ IF air[i].rf THEN handle_data_pdu_segment(rx, air[i])
     ELSE handle_data_pdu(rx, air[i], {})
  /\ air' = IF i = 1 THEN Tail(air) ELSE RemoveAt([air EXCEPT ![1].passed = TRUE], 2)
  /\ UNCHANGED <<tx, ctrl, report, losses, written, discarded, acked, ahead>>

ReorderingTimerExpires ==
  LET ms   == FirstFree(rx.window, rx.vr_x)
      more == Dist(rx.vr_r, rx.vr_h) > Dist(rx.vr_r, ms)
  IN /\ rx.reordering
     /\ rx' = [rx EXCEPT !.vr_ms = ms, !.do_status = @ \/ rx.poll_received,
                         !.reordering = more, !.vr_x = IF more THEN rx.vr_h ELSE @]
     /\ UNCHANGED <<tx, ctrl, radio, pdcp>>

(* get_status_pdu: whole, or cut off before a number that does not fit.    *)
Missing == {k \in 0 .. Dist(rx.vr_r, rx.vr_ms) - 1 : (rx.vr_r + k) % MOD \notin DOMAIN rx.window}
AcksWhatIsCut(upto) ==
  [ack_sn |-> rx.vr_ms,
   nacks  |-> {(rx.vr_r + k) % MOD : k \in {k \in Missing : k < upto}}]

Status(upto) ==
  LET nacks == {k \in Missing : k < upto}
      seen  == {k \in 0 .. upto - 1 : k \notin Missing}
      ack   == IF upto = Dist(rx.vr_r, rx.vr_ms) THEN upto
               ELSE IF seen = {} THEN 0 ELSE Max(seen)
      valid == \A k \in nacks : k < ack
  IN IF valid
     THEN [ack_sn |-> (rx.vr_r + ack) % MOD, nacks |-> {(rx.vr_r + k) % MOD : k \in nacks}]
     ELSE [ack_sn |-> rx.vr_r, nacks |-> {}]

build_status_pdu(upto) ==
  /\ rx.do_status /\ ~rx.prohibit
  /\ report = <<>>
  /\ report' = <<Status(upto)>>
  /\ rx' = [rx EXCEPT !.do_status = FALSE, !.poll_received = FALSE, !.prohibit = TRUE]
  /\ UNCHANGED <<tx, ctrl, air, losses, pdcp>>

StatusProhibitExpires ==
  /\ rx.prohibit
  /\ rx' = [rx EXCEPT !.prohibit = FALSE]
  /\ UNCHANGED <<tx, ctrl, radio, pdcp>>

-----------------------------------------------------------------------------
(* The radio gives a PDU up.                                               *)
LoseData(i) ==
  /\ losses < MaxLoss /\ i \in DOMAIN air
  /\ air' = RemoveAt(air, i)
  /\ losses' = losses + 1
  /\ UNCHANGED <<tx, ctrl, rx, report, pdcp>>

LoseStatus ==
  /\ losses < MaxLoss /\ report # <<>>
  /\ report' = <<>>
  /\ losses' = losses + 1
  /\ UNCHANGED <<tx, ctrl, rx, air, pdcp>>

Grants == MinPdu .. MaxPdu
Fits   == IF MinPdu = 0 THEN BOOLEAN ELSE {TRUE}
Uptos  == Missing \cup {Dist(rx.vr_r, rx.vr_ms)}

Next ==
  \/ write_sdu
  \/ \E s \in Discards : discard_sdu(s)
  \/ \E g \in Grants, fits \in Fits : read_pdu(g, fits)
  \/ ReceiveStatus \/ Nack \/ Ack \/ NotifyDelivery
  \/ PollTimerExpires \/ timer_expired
  \/ \E i \in 1 .. 2 : ReceiveData(i)
  \/ ReorderingTimerExpires
  \/ \E u \in Uptos : build_status_pdu(u)
  \/ StatusProhibitExpires
  \/ \E i \in 1 .. InFlight : LoseData(i)
  \/ LoseStatus

Spec == Init /\ [][Next]_vars

(* Every thread is scheduled, the radio delivers what it does not lose,    *)
(* MAC gives a grant that holds something whenever RLC reports data, and   *)
(* one large enough for the whole status.  Timers tick until they expire.  *)
FairSpec ==
  /\ Spec
  /\ WF_vars(has_data /\ \E g \in Grants \ {0} : read_pdu(g, TRUE))
  /\ SF_vars(ReceiveStatus)
  /\ WF_vars(Nack \/ Ack \/ NotifyDelivery \/ timer_expired)
  /\ SF_vars(PollTimerExpires)
  /\ WF_vars(ReceiveData(1))
  /\ WF_vars(ReorderingTimerExpires)
  /\ WF_vars(build_status_pdu(Dist(rx.vr_r, rx.vr_ms)))
  /\ WF_vars(StatusProhibitExpires)

-----------------------------------------------------------------------------
Written == 1 .. written

Unit == {Empty} \cup UNION {ToSet(Units(s)) : s \in DOMAIN SduLen}
Data == Seq(Unit)
Sent == [sn : SNs, poll : BOOLEAN, rf : BOOLEAN, so : Nat, lsf : BOOLEAN,
         data : Data, passed : BOOLEAN]
IsWindow(f, S) == DOMAIN f \subseteq SNs /\ \A sn \in DOMAIN f : f[sn] \in S

TypeOK ==
  /\ {tx.vt_a, tx.vt_s, tx.poll_sn, rx.vr_r, rx.vr_x, rx.vr_ms, rx.vr_h} \subseteq SNs
  /\ tx.without_poll \in 0 .. PollPdu
  /\ tx.queue \in Seq({0} \cup DOMAIN SduLen) /\ Len(tx.queue) <= QueueLen
  /\ tx.sdu \in Data /\ IsWindow(tx.window, Data) /\ Cardinality(DOMAIN tx.window) <= Window
  /\ tx.retx \in Seq([sn : SNs, is_segment : BOOLEAN, so : Nat])
  /\ DOMAIN tx.info \subseteq DOMAIN SduLen /\ \A s \in DOMAIN tx.info : tx.info[s] \subseteq SNs
  /\ tx.poll_timer \in {"stopped", "running", "expired"}
  /\ ctrl.pc \in {"idle", "poll", "control"}
  /\ ctrl.pc = "control" =>
       /\ {ctrl.i, ctrl.ack_sn, ctrl.vt_s} \cup ctrl.nacks \subseteq SNs
       /\ ctrl.update \in BOOLEAN /\ ctrl.notify \subseteq DOMAIN SduLen
  /\ IsWindow(rx.window, Data) /\ Cardinality(DOMAIN rx.window) <= Window /\ rx.sdu \in Data
  /\ DOMAIN rx.segments \subseteq SNs
  /\ \A sn \in DOMAIN rx.segments : \A o \in DOMAIN rx.segments[sn] :
       rx.segments[sn][o] \in Sent /\ rx.segments[sn][o].so = o
  /\ {rx.poll_received, rx.do_status, rx.reordering, rx.prohibit} \subseteq BOOLEAN
  /\ air \in Seq(Sent) /\ Len(air) <= InFlight
  /\ report \in Seq([ack_sn : SNs, nacks : SUBSET SNs]) /\ Len(report) <= 1
  /\ losses \in 0 .. MaxLoss /\ written \in 0 .. Len(SduLen)
  /\ discarded \subseteq 1 .. written /\ acked \subseteq 1 .. written
  /\ delivered \in Seq(Data) /\ ahead \in BOOLEAN

AtReceiver(u) ==
  \/ \E i \in DOMAIN delivered : u \in ToSet(delivered[i])
  \/ u \in ToSet(rx.sdu)
  \/ \E sn \in DOMAIN rx.window : u \in ToSet(rx.window[sn])

Name(sdu) == IF \E s \in Written : sdu = Units(s) THEN CHOOSE s \in Written : sdu = Units(s) ELSE 0

Service == INSTANCE RlcService WITH
  NofSdus   <- Len(SduLen),
  arrived   <- {s \in Written : \A u \in ToSet(Units(s)) : AtReceiver(u)},
  delivered <- [i \in DOMAIN delivered |-> Name(delivered[i])]

(* SDUs are delivered once, whole and in the order written, whatever the   *)
(* radio loses and reorders, and PDCP is told once of each that arrived,   *)
(* until the sender runs ahead of VT(MS).                                  *)
ImplementsService == Service!Spec

(* What the receiver still misses the sender still has, unless it ran      *)
(* ahead of VT(MS): no status, however cut, late or overtaken, makes       *)
(* handle_control_pdu remove a PDU from the window that has not arrived.   *)
MissingIsKept ==
  ~ahead => \A k \in 0 .. Dist(rx.vr_r, tx.vt_s) - 1 :
    LET sn == (rx.vr_r + k) % MOD IN
    sn \in DOMAIN rx.window \/ sn \in DOMAIN tx.window

(* handle_control_pdu ends with VT(A) at a PDU of the window, else it      *)
(* reports a protocol failure to RRC: only a sender that ran ahead does.   *)
NoProtocolFailure ==
  ctrl.pc = "control" /\ ~MoreToCheck /\ ~ahead
    => DOMAIN tx.window = {} \/ tx.vt_a \in DOMAIN tx.window

(* rlc_am_lte.h:445 calls VT(MS) the "High edge of tx window.  vt_a +      *)
(* window_size": no number is given to a PDU that is not below it.  Of     *)
(* two readings this is the weaker: one PDU may be sent at the edge.       *)
StaysInWindow == Dist(tx.vt_a, tx.vt_s) <= Window

(* Whatever PDCP writes is delivered in the end, unless it was discarded.  *)
EverythingDelivered ==
  \A s \in DOMAIN SduLen :
    (s \in Written) ~> (s \in discarded \/ Units(s) \in ToSet(delivered))
=============================================================================
