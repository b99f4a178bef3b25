# FlexRIC and srsRAN in TLA+

The repository holds two programs that work together: srsRAN (`src/srsRAN/srsran-jyd`), a 4G
stack of an eNB, a UE and a core network, and FlexRIC (`src/flexric/flexric-jyd`), the control
plane around it: an *E2 agent* inside the eNB, a *near-RT RIC* process, and *xApps*, programs that
subscribe to measurements of the eNB and control it through the RIC.

This directory models FlexRIC's control plane end to end, one module for each of its processes, and
of srsRAN the timers that every layer uses, the acknowledged mode of RLC, the layer that makes a
lossy radio a reliable bearer, and that bearer's move from one eNB to another: PDCP, GTP-U and RRC in
an S1 handover. Everything is model-checked with TLC on small instances. Most safety properties that a
run checks are also proved with TLAPS, for all values of the constants, and so are two of the
three refinements; the end of *Proofs* lists what is not.

    application threads            RIC process                         E2 node (eNB)
    +-----------------+     +--------------------------+         +------------------+
    | report/control  |     | iApp thread | RIC thread |         | agent thread     |
    |   event loop    |<--->|   E42 socket| E2 socket  |<------->|  E2 socket       |
    |   dispatcher    | E42 |      four shared tables  |   E2    |  service models  |
    +-----------------+     +--------------------------+         +------------------+
        E42Xapp                       NearRic                           E2Agent

                 srsRAN (eNB or UE)                          srsRAN (the peer)
      +-------------------------------------+        +---------------------------+
      | PDCP --write_sdu--> RLC AM sender --+--PDUs->| RLC AM receiver --> PDCP  |
      |        <-acked--    read_pdu (PHY)  |<-status|                           |
      |        timers (step_all, callbacks) |        |                           |
      +-------------------------------------+        +---------------------------+
                        RlcAm, over TimerHandler's service

    gateway --S1-U--> [tunnel] source eNB [PDCP] --RLC--> UE [PDCP]     PdcpHandover
       \                  | X2: forwarded SDUs, end marker   ^
        `-----S1-U--> [2 tunnels] target eNB [PDCP] ---RLC---'

## Inventory

### xApp SDK - `src/xApp` of FlexRIC

State: the registry of active procedures (`act_proc`), the map of pending events and their timers,
`sync_ui` (a mutex, a condition variable and the flags `flag_sync`, `msg_ack`), the dispatcher's
queue, `connected`, the stop flags. Operations: `init_xapp_api`, `report_sm_xapp_api`,
`rm_report_sm_xapp_api`, `control_sm_xapp_api`, `try_stop_xapp_api`; the event loop with a handler per
message; the dispatcher's worker. A call registers a procedure, sends, *then* supervises, *then*
waits; the event loop looks the procedure up, extracts the pending event, signals. What is hard: three
kinds of threads, four critical sections per call, a condition variable cleared after the send,
timers that abort the process. Correct means: a call that returns was accepted, answers meet their
calls, the registry is exact, nothing is delivered for a removed report, calls end.

### near-RT RIC and iApp - `src/ric`, `src/ric/iApp`

State: the nodes' addresses (`map_e2_node_sockaddr`), the connected nodes (`conn_e2_nodes`), the
nodes the iApp knows (`reg_e2_nodes`), pending events and timers, the RIC request id counter, the map
from a RIC request id to an xApp and its own request id (`map_ric_id`), the xApps' addresses. Two
threads with an event loop each call into each other. Operations: E2 setup, SCTP shutdown, answers and
indications of nodes, timers; E42 setup, and subscription, delete and control requests of xApps. What
is hard: the two loops interleave at every mutex, one of them held across a send on purpose; nodes
leave and return in the middle; an edge-triggered socket. Correct means: an answer reaches the xApp
that asked, under its own id; requests in flight are supervised; the three tables of nodes agree.

### E2 agent - `src/agent`

State: the setup timer (`pending`), a timer per subscription (`ind_event`), one edge-triggered socket.
Operations: setup and its retransmission, subscription, indication, deletion, control, the RIC's
shutdown. One thread, but timers, messages and the RIC's restarts come in any order. Correct means:
indications lie between the answers to subscription and deletion, every request is answered once,
and an agent that is not set up is trying to be.

### FlexRIC containers - `src/util/alg_ds`

Red-black tree, bimap, registry, ring buffer, thread-safe queue. The modules above use them as the
sets, functions and queues they implement. Correct means: they do implement them.

### srsRAN timers - `lib/include/srsran/common/timers.h`

State: a time wheel of intrusive lists, a word of state per timer (mode, duration, timeout), callbacks,
a free list, the clock. Operations: `get_unique_timer`, `set`, `run`, `stop`, `release`, `stop_all` by
any thread, `step_all` by the stack's thread every tic. What is hard: `step_all` walks a list and gives
the lock up for every callback, in which any timer may be started, stopped or released; the clock wraps;
a slot holds timers of several turns. Correct means: a timer fires once, at its deadline, unless it is
stopped; the wheel holds the running timers; no timer has two owners.

### srsRAN RLC, acknowledged mode - `lib/src/rlc/rlc_am_lte.cc`

State of the sender: `vt_a`, `vt_s`, the window of PDUs without an acknowledgement, the queue of
retransmissions, the SDU being cut, what is still to be acknowledged of each SDU, poll counters and
timer. State of the receiver: `vr_r`, `vr_x`, `vr_ms`, `vr_h`, the window, segments of PDUs, the SDU
being reassembled, reordering and status timers. Operations: `write_sdu`, `discard_sdu`, `read_pdu`,
`write_pdu` (data, segments, status), the timers. What is hard: sequence numbers modulo 1024; losses,
reordering and retransmissions cut at new offsets; `read_pdu` on a thread of the PHY between the
critical sections in which the stack's thread works a status off. Correct means: SDUs arrive once, whole
and in order; PDCP is told of an SDU only when it has arrived; nothing is removed that is still
missing; nothing stays undelivered.

### srsRAN PDCP and the S1 handover - `pdcp_entity_lte.cc`, `gtpu.cc`, `rrc_mobility.cc`

State: of the sender the next COUNT (`tx_hfn`, `next_pdcp_tx_sn`) and the undelivered SDUs with the
oldest number `fms`; of the receiver `rx_hfn`, `next_pdcp_rx_sn` and `last_submitted_pdcp_rx_sn`; of each
GTP-U tunnel its state and, while it buffers, its SDUs; of the procedure the state machine of
`rrc_mobility` at the source and the target. Operations: `write_sdu`, `write_pdu`, delivery
notifications and discards; `handle_ho_cmd`, the status transfer, data forwarding, the completion, the
end marker, the release; re-establishment at the source when the UE does not reach the target. What is
hard: only the low bits of a COUNT are sent; the messages of MME, UE, gateway and source eNB reach the
target in any order; SDUs come by two paths of which one must wait for the other; end markers travel
over UDP. Correct means: SDUs reach the UE in order, once, and deciphered with the COUNT they were
ciphered with; a handover in which nothing fails loses none; none is held back for ever.

### srsRAN, the other layers

The task queues, the eNB's S1AP and its other RRC procedures, the UE's NAS, RRC and random access, the core's MME and SPGW: sequence numbers again, and procedures with
guard timers.

### Left aside

E2AP codecs and ASN.1 (generated, pure), service models (payload codecs), SQLite storage (I/O), PHY
and radio (signal processing), vendored libraries and the `multiRAT` patches.

## Modules

| module | models | state and actions |
|---|---|---|
| `E42Xapp` | one xApp process | `pc`, `op`: the application's threads; `loopPc`, `loopMsg`: the event loop; one action per critical section of `report_sm_sync_xapp` and its kin (`Report`, `SendRequest`, `AddPendingEvent`, `EnterWait` ... `RmActProc`), of the handlers (`FindProcedure`, `ExtractPending`, `SignalSync`, `PushIndication`), the timers, the dispatcher and the stop protocol |
| `XappService` | what an application is promised | `Begin`, `Serve`, `Return` of a call; no timers, no threads but the callers |
| `E42Xapp_proofs` | theorems of `E42Xapp` | the inductive invariants, and the steps of the refinement |
| `MCE42Xapp` | instances of `E42Xapp` | |
| `NearRic` | the RIC process | `ricPc`: the RIC thread between two critical sections, `iPc`: the iApp thread; `sad`, `conn`, `reg`, `pending`, `ricMap`, `xapps`: the tables |
| `NearRic_proofs`, `NearRicFlight_proofs` | theorems of `NearRic`; the second holds those about requests in flight and failed assertions | the inductive invariants |
| `SocketLemmas` | facts about sockets as queues, used by the proofs | `Contents`, `Distinct` of a sequence |
| `MCNearRic` | instances of `NearRic` | the symmetry of nodes and xApps |
| `TimerHandler` | srsRAN's timers | `time_wheel`, `state`, `free_list`; `pc`, `it`, `calling`: `step_all` between two critical sections; `User`: any operation on any timer while the lock is free |
| `TimerService` | what a timer promises | `left`: the tics until it fires; `Start`, `Stop`, `Fire`, `Tick` |
| `TimerHandler_proofs` | theorems of `TimerHandler` | the inductive invariants, and facts about the clock's arithmetic and the wheel's lists |
| `RlcAm` | one direction of an RLC AM bearer | `tx`, `rx`: the two entities; `ctrl`: the stack's thread at the sender, `read_pdu`: a thread of the PHY; `air`, `report`: the PDUs on the radio |
| `RlcService` | what the bearer promises PDCP | `Write`, `Discard`, `Receive`, `Confirm`; no numbers, PDUs or retransmissions |
| `RlcAm_proofs` | theorems of `RlcAm` | the inductive invariants, and facts about numbers modulo `MOD` and about joined sequences |
| `MCRlcAm` | instances of `RlcAm` | the lengths of the SDUs |
| `PdcpHandover` | the downlink of one bearer through an S1 handover | `pdcp`: the senders of both eNBs; `src`, `tgt`: their tunnels and the procedure; `ue`: the receiver; `s1`, `x2`, `radio`, `acks`: what is on its way; `core`: gateway and MME; a handler is an action |
| `PdcpHandover_proofs` | theorems of `PdcpHandover` | the inductive invariants, and facts about buffers (their order, their parts, writing them out) and about the room that the map of undelivered SDUs has |
| `E2Agent` | the agent of one E2 node | `pending`, `subs`: the timers; `edge`: whether epoll has an event of the socket; an iteration of the loop is an action |
| `E2Agent_proofs` | theorems of `E2Agent` | the inductive invariants |

The modules of FlexRIC meet at their sockets. `E42Xapp` has the iApp as its environment, `NearRic` has xApps and
nodes, `E2Agent` has a RIC that restarts. An environment sends whatever the neighbouring module may:
set-ups are repeated until they are answered (`NodeResends`, `AppStarts`), indications may come after their
deletion (`Indicate`), and nodes and RICs leave. In two places it is milder than the neighbour, and the
properties concerned say so: the RIC of `E2Agent` ignores a repeated E2 SETUP-REQUEST, where the repository's
RIC aborts (`reg_e2_nodes.c:110`; `NearRic` has it), and a RIC that an agent is associated with always leaves with an
SCTP shutdown, because a mere loss is not an event for the agent (`endpoint_agent.c:47` does not subscribe to
it): an agent would not know of it, and would not set up again. `RlcAm` uses its timers as `TimerService` describes them: one that runs may expire, once, and
with `FairSpec` does. `PdcpHandover` uses RLC as `RlcService` describes it, a queue that delivers in
order and confirms later, until the UE leaves the cell. Its handlers are actions because an eNB's stack
is one thread; MME and gateway, which the code's own core does not implement for handovers, are
external. Conventions of the three FlexRIC modules:

* A failed `assert()` aborts the process. `crash` names the assertion; every action requires
  `crash = "none"`.
* A socket is a queue per association and per direction. SCTP neither loses nor reorders messages
  within an association; what is sent on one that has ended is lost.
* A mutex that is taken and released within a step of the code is implicit in the step. The one that
  is held across steps (`map_ric_id.mtx`) is a variable, `mapLock`.
* Contents of messages are left out, except for the ids that the code compares. A record's field
  `for` in `NearRic` and `gen` in `E2Agent` is not sent: it lets a property say what a message
  belongs to.
* The edge-triggered sockets of the iApp and of the agent (`EPOLLET`, one receive per event) have a
  flag `edge` that a message's arrival sets and a read clears. The RIC's and the xApp's sockets are
  level triggered.
* Where the code can leave the states in which a property holds, no guard of the model keeps it from doing so. A
  history variable remembers that it did, and the property says what holds until then: `disturbed`
  (`TimerHandler`), `ahead` (`RlcAm`), `met` (`PdcpHandover`), `shutDown` (`E2Agent`). *What the violations show*
  has what happens afterwards.
* `Mutant:` operators next to a definition are plausible mistakes in that code. Each property of a
  passing run is known to fail with one of them in place.

## Runs

| run | instance | shows |
|---|---|---|
| `xapp` | 1 caller, 2 procedures, 2 setups, 1 indication at a time | `AnswersMatchCalls`, `ReturnedReportsAreSubscribed`, `IndicationsFindReports`, `OutstandingIsSupervised`, `TimeoutMeansOutstanding`, `ProceduresMatch`, the inductive invariant `OneCallerInv`, `ImplementsService`; `CallsEnd`, `SetupEnds` |
| `ric_rejoin` | 1 node that associates twice, 2 xApps, 3 requests | `AnswersReachAsker`, `NoUnmappedAnswer`, `InFlightIsSupervised`, `AnswerFindsPendingEvent`, `TablesAgree` |
| `ric_one_xapp` | 2 nodes that stay, 1 xApp, 2 requests, 2 set-ups of each | `OnlyRepeatedSetupsAbort`, `RequestsAnswered` |
| `agent` | 2 incarnations of the RIC, 2 requests each, 3 messages in the socket | `IndicationsAreSubscribed`, `AnswersAreOpen`, `SetupIsSupervised`, `NoAssertionFails`, `RequestsHandled`, `SetsUp` |
| `timers` | 3 timers, a wheel of 2 slots, a clock of 4 values | `WheelHoldsRunning`, `FreeListExact`, `CallbackSeesExpired`, and `ImplementsService`, its liveness included |
| `rlc_am` | 2 SDUs of 2 and 1 units, window 2 of 4 numbers, 1 loss | `MissingIsKept`, `NoProtocolFailure`, and `ImplementsService` |
| `rlc_live` | 2 SDUs, window 4 of 8 numbers, 1 loss | `EverythingDelivered` |
| `handover` | 3 SDUs, 4 numbers, starting at 1 or 2, queue and buffers of 2, with and without `gtpu_tunnel_timeout`, 1 fault | `DecipheredInOrder`, `HandoverIsLossless`, `EverythingArrives` |
| `xapp_lost_wakeup` | 1 call | `NoUnforeseenTimeout` is violated |
| `rlc_lost_twice` | 2 losses | `EverythingDelivered` is violated |
| `timers_disturbed` | as `timers` | `CallbackHasToSeeExpired` is violated |
| `handover_reest` | as `handover` | `UnackedAreRetransmitted` is violated |

To repeat one: `tlc -config <run>.cfg <module>.tla`. The passing runs take between a second and two
minutes.

### Bounds and why they are enough

The bounds are constants; an action that would exceed one is disabled, nothing else.

* `MaxProc = 2`: a report, its removal and one more call, so that a late answer or a flag can meet
  the *next* call. The proofs are for every bound.
* `MaxReq = 3` of `ric_rejoin`: with two xApps, one of them gets to subscribe and delete while the other one
  calls. `MaxReq = 2` of `ric_one_xapp`: a call and the next one, while the timer of the first may still fire.
  The ids start at 2 and have 100 values, so that no wrap-around mixes with the other questions.
* `MaxEpoch = 2`: a node that leaves and returns while messages, timers and mappings of its first
  association are still around. Two nodes at once are in `ric_one_xapp`.
* `MaxGen = 2`: a RIC and its successor; three gave no new behaviour of the setup.
* `MaxInd`, `MaxSetup`: an indication or a setup that overtakes, or is overtaken by, each other kind
  of message needs one or two in the socket. `MaxSetup = 2` also lets a node and an xApp repeat their set-up
  once: the second one meets the assertions on repeated set-ups, or lies in one edge with the first.
* `TimerHandler`: a wheel of 2 slots and durations 1 and 3 put a timer of this turn and one of the next
  in a slot together, and restart one within its slot; the clock wraps at 4. Of 3 timers 2 exist at
  first, so that the list grows; one is used without a callback. Users may do to the list that is walked whatever
  they like; `disturbed` is part of the state, so that both kinds of tics follow each other.
* `rlc_am`: an SDU of 2 units is cut when the grant is small, its PDUs again when they are
  retransmitted; the second SDU may share a PDU with the first and may be discarded. A window of 2 in 4
  numbers fills and wraps around. Grants of 0 units stand for those too small for any PDU. 2 PDUs are on
  the air, so that one overtakes the other, and 1 is lost. States in which the sender has run ahead of VT(MS) are
  reached and counted, but what follows on them is not explored (`CONSTRAINT NotAhead`): sender and receiver have lost
  each other there.
* `rlc_live`: one loss of any PDU or status; the window is too large to fill, so that it cannot hide a
  poll that is never sent. `MinPdu = 1`: a grant holds at least the header of a segment and a unit.
* `handover`: one SDU can have been acknowledged, one be forwarded with its number and one come
  without, or by the target's own tunnel. With 4 numbers of which 2 are half, 3 SDUs pass the window of
  `store_sdu`, wrap before, in or after the handover, and a number comes again; with queues and buffers of 2 they meet
  every limit. The tunnel's timer is there or not, from the start. A fault is a lost X2 datagram (the end
  marker included), a discard, a time-out of the forwarding tunnel while SDUs may still come, a release
  of the source before the gateway's last SDUs, or a failed access to the target; there is one. `met` remembers three cases
  in which the code falls short, and the properties are about the others: `"wrap"`, a handover
  while a number from before a wrap is unacknowledged; `"window"`, more than half of the numbers given and not
  acknowledged or not received, or one given again before RLC has reported its first use; `"marker"`, a lost end marker. The
  safety properties were also checked, once each, with 8 numbers, 4 SDUs and 2 faults, and with 4 numbers, 5 SDUs and
  queues of 5 or of 2 and 3 (7 to 12 million states).

In `RlcAm` one assumption about the radio is external: HARQ does not hold a PDU so long that half of the
sequence numbers pass (`NoStraggler`). `CHECK_DEADLOCK FALSE` is given where the environment ends by its bounds and where an assertion ends
the process; `E42Xapp` has the explicit step `Ended` instead, and is checked for deadlock.

### Fairness

* `E42Xapp!FairSpec`: weak fairness of the application's threads once inside a call and of the event
  loop once it handles an event; strong fairness of reading the socket and of serving a timer, because
  `epoll_wait` reports the ready descriptors in turn; strong fairness of the end of a wait, whose
  deadline is absolute. Nothing is assumed of the peer. `PeerSpec` adds an iApp that reads the
  SETUP-REQUESTs that reach it; without it no xApp could connect.
* `NearRic!FairSpec`: both threads run, and a node that is up handles its messages. That an arrived
  message is read is *not* assumed of the iApp's socket beyond one read per edge: that is the point
  of `RequestsAnswered`. The timers may fire, or not.
* `E2Agent!FairSpec`: the agent's thread runs, its periodic setup timer fires, and the RIC is restarted
  when it is down and reads its socket. The subscriptions' timers need not fire.

* `TimerHandler!FairSpec`: the stack's thread calls `step_all` every tic and callbacks return.
* `RlcAm!FairSpec`: each thread runs; MAC gives grants that hold something while RLC reports data
  (`has_data`), and one that holds the whole status; the radio delivers what it does not lose; timers
  expire. Strong fairness only where the PHY's thread can take the opportunity away again and again:
  receiving a status, and the poll timer.
* `PdcpHandover!FairSpec`: the stacks' threads handle what reached them, the radio delivers, the UE goes
  to the target or comes back, MME and gateway finish a handover that has started, the forwarding
  tunnel's timer, where there is one, expires. Nothing makes a handover start, an acknowledgement be reported or an SDU be
  sent.

### What the violations show

Each is a statement of the code itself, quoted in `PROJECT.json`.

* `xapp_lost_wakeup`: the event loop handles the answer between the caller's `add_pending_event` and
  its `cond_wait_sync_ui`; that function clears the flag first, waits for a signal that has gone, and
  aborts with "No response from the E2 Node received".
* `rlc_lost_twice`: a retransmission polls only if counters, queues or the poll timer call for it. When
  the last data is lost, and its retransmission, which does not poll, as well, no timer runs and
  nobody asks: the SDU stays where it is until PDCP writes another.
* `timers_disturbed`: `step_all` moves its iterator on, stops the timer and calls its callback without the
  lock. If the callback, or any thread meanwhile, stops the next timer of the slot, that timer's callback is called all
  the same ("callback has to see the timer has already expired", `timers.h:259`): only the timeout is compared. The
  iterator leaves the list with it, so the timers behind it wait for the next turn of the wheel, as does one that is
  started for the tic at hand. `timers` shows that all else is as promised, and that the harm is confined to the tic.
* `handover_reest`: a UE that does not reach the target is re-established at the source. Its new PDCP entity takes the
  counters over, not the SDUs; those that were not acknowledged are gone, although `pdcp_entity_lte.cc:173` keeps
  them for that very case.

Further assertions of the code that the models can reach. They are kept as definitions; to see the
behaviour put the name under `INVARIANT` (or `PROPERTY`) in a cfg of that module:

| definition | with | behaviour |
|---|---|---|
| `E42Xapp!AnswerFindsPendingEvent` | `MaxProc = 1` | the answer comes between the send and the insertion of the pending event |
| `E42Xapp!OneSetupResponse` | `MaxSetup = 2` | a resent SETUP-REQUEST gets a second answer |
| `NearRic!DeletedNodeHasAddress` | `Departures = {"shutdown"}` | an xApp removes its report from a node that has left |
| `NearRic!ValidatedNodeHasAddress` | `Departures = {"shutdown"}` | a node leaves between validation and send |
| `NearRic!IdIsNotZero` | `IdMod = 3`, `FirstId = 2` | the 16-bit request id wraps to 0 |
| `NearRic!OnePendingAtTimeout` | 1 node, 2 xApps, `MaxReq = 2` | a request times out while another is pending; the handler asserts that there is one |
| `NearRic!NodeSetsUpOnce` | `ric_one_xapp` | a node repeats its set-up, because the answer is late, and the RIC aborts: "already existing"; or, with `Departures = {"loss"}`, `MaxEpoch = 2`, a node crashes, which the RIC is not told, and sets up again |
| `E42Xapp!NoPushAfterRemoval` | `MaxProc = 1`, `MaxInd = 1` | a late indication's report is looked up, removed and then the callback queued |
| `E2Agent!SetupAnswerIsExpected` | `AnswersAgain = TRUE`, `MaxSetup = 2` | a RIC that answers a resent E2 SETUP-REQUEST |
| `E2Agent!OneSetupTimer` | `MaxGen = 2`, `MaxReq = 0` | the RIC shuts down while the setup is pending: a second setup timer |
| `E2Agent!IndicationsAreCurrent` | `MaxGen = 2` | subscriptions outlive the RIC they were made for |
| `RlcAm!StaysInWindow` | `rlc_ahead` | the sender bounds the number of PDUs in its window (`rlc_am_lte.cc:1013`), not the numbers they span: VT(MS) (`rlc_am_lte.h:445`) is never used. When the oldest PDU is lost and those behind it are acknowledged, VT(S) runs ahead of the receiver's window; from there on `MissingIsKept` and `NoProtocolFailure` fail without their premise `~ahead` |
| `RlcAm!EverythingDelivered` | `rlc_live`, `InFlight = 2` | the PHY reads between two sections of a status and drops the retransmission that was to poll |
| `RlcAm!EverythingDelivered` | `rlc_live`, `MinPdu = 0` | a grant too small for a segment takes the poll along although nothing is sent (`build_segment` asks `poll_required` before it compares the sizes), and `read_pdu` goes on to new data: one loss is enough to stall the bearer |
| `PdcpHandover!DecipheredInOrder` | without `"wrap" \notin met` | SDUs from before a wrap are forwarded by number, those from after it first, and ciphered with the HFN from after it (`pdcp_entity_lte.cc:171`) |
| `PdcpHandover!DecipheredInOrder` | without `"window" \notin met`, `Starts = 0 .. 3`, `CHECK_DEADLOCK FALSE` | `store_sdu` admits half of the numbers and one more ("not more than half", line 687); the UE then takes a forwarded duplicate for a new SDU |
| `PdcpHandover!EverythingArrives` | without `HeldBack` | `gtpu_tunnel_timeout` is 0 by default (`main.cc:269`): a lost end marker leaves the target's main tunnel buffering |
| `PdcpHandover!HandoverIsLossless` | without `~Full'` | a tunnel that waits holds no more than `BUFFER_SIZE` SDUs (512), and is flushed at once into a queue of RLC that is shorter (256 by default) |

Two messages that arrive in one edge are why `NearRic!RequestsAnswered` and `E2Agent!RequestsHandled` speak of a
request that is alone in its socket: of two, one may stay unread. For an xApp the other one may be its own
repeated E42 SETUP-REQUEST.

## Proofs

Every theorem is for all values of the constants that the named assumptions of the modules allow. A
further hypothesis is part of the theorem's statement, and some run has it: `OneCaller` (xApp);
`~AnswersAgain` (agent); `IdsDoNotWrap` and, for `OneAssertion`, one xApp and nodes that stay (RIC). The timers, RLC and
the handover need none. What happens
without each is in the section before. Each inductive invariant was checked by
TLC on a small instance before it was proved.

### `E42Xapp_proofs`: one xApp

The only assumption is `BoundsAssumption`, that the bounds are natural numbers and one setup at least
may be sent.

* `TypeCorrect`: `Spec => []TypeOK`, for any set of application threads. `TypeOK` alone is not
  inductive: a step that reads `op[u]` or `loopMsg` needs to know that there is a request or a
  message. `TypeInv` adds that a call under way has one (`CallHasRequest`) and that the loop, past the
  handler's entry, handles a message of the right kind (`LoopHasMessage`).
* `AnswersMatch`, `ReportsAreSubscribed`, `RegistryIsExact`: with one application thread
  (`OneCaller`, the way the repository's xApps call), `AnswersMatchCalls`,
  `ReturnedReportsAreSubscribed` and `ProceduresMatch` always hold. They follow from `OneCallerInv`:
  * `TokenInv`: the one call in flight has one token, which is a request at the network, or its
    answer in the socket, or the answer in the event loop, or nothing;
  * `FlagInv`: the flag is set in a wait only when the token is gone and the call was served. This
    is what clearing the flag in `cond_wait_sync_ui` is for, and what a wait without its loop breaks;
  * `IdInv`: ids are fresh, handles and served requests are of ids handed out, and a deletion is
    of a handle;
  * `RegInv`: the registry is the handles and the procedure of the call.

  The proof has one step per action; the lemmas `SocketAppend`, `SocketTail` and `Frame` carry the
  facts about the socket and about steps that touch none of these variables.

Also with `OneCaller`:

* `OneCallerInvariant`: `[]OneCallerInv`, which `xapp` checks.
* `Supervised`, `TimeoutIsDue`: `OutstandingIsSupervised` and `TimeoutMeansOutstanding`. They need
  `PendingInv`: a pending event other than the setup's is that of the call that waits, and it is gone
  once the loop signals.
* `HeldReportsAreFound`: `IndicationsFindReports`, however late an indication is. A procedure that the network has
  accepted is in the registry, or its deletion has been accepted too (`ReportsInv`); the indications in the socket and
  the one the loop handles are of accepted reports (`SocketInv`, `LoopInv`); and no control procedure shares an id
  with a report (`KindInv`).
* `Implements`: `Spec => ImplementsService`. `ServiceStep` maps each action to a step of `XappService`
  or to none.

### `NearRic_proofs`, `NearRicFlight_proofs`: the RIC process

For any sets of nodes and xApps, any departures, bounds and modulus of the request ids:

* `TypeCorrect`: `TypeOK`; `TablesAlwaysAgree`: `TablesAgree`.
* `AnswersAreMapped`: `NoUnmappedAnswer`. The reason is the one the code gives: `map_ric_id`'s mutex is
  held from `LockMap` to `AddMapping`, and the answer's handler takes it. The invariant says that what
  is on the way to a node, at it or back has a mapping, or the iApp thread, which holds the lock, is about to add it.
* `AnswersAreTranslated`: `AnswersReachAsker`.
* `RequestsAreSupervised`, `ExtractsWhatIsThere`: while no request id has been given twice
  (`IdsDoNotWrap`: no more than `IdMod` requests, 2^16 in the code), `InFlightIsSupervised` and
  `AnswerFindsPendingEvent`. The hypothesis is needed: when the ids have wrapped, a late answer extracts
  the event of the request that now has its id, and the answer to that one finds none. `FlightInv`, the invariant,
  follows each id through its life: asked, lodged with the iApp thread, in a socket, pending, and, for a
  subscription, its deletion; and each association through setup and shutdown (`LeaveInv`).
* `OneAssertion`: with at most one xApp, nodes that stay (`Departures = {}`), `FirstId > 0` (1021 in the code) and
  `IdsDoNotWrap`, `OnlyRepeatedSetupsAbort`, for any number of nodes, requests and repeated set-ups: of the assertions
  the module has, only `reg_e2_nodes.c:110` can fail, after a node has sent its set-up twice. `AliveInv` puts the other
  invariants together with
  * `StayInv`: no connection is torn down, and a set-up that its node has not repeated is the only one in the
    node's socket and is read before the tables know the node;
  * `KnownInv`: the node of a call is one the iApp knows, an entry of `map_ric_id` has its xApp, and what was
    answered or is to be deleted has an entry;
  * `PositiveIds`: no request id is 0;
  * `CallInv`: one call is open, and its event is inserted when no other is there and gone before the answer is
    passed on, so a timer finds one event.

### `E2Agent_proofs`: the agent

For any window of the socket, number of RICs and of requests:

* `TypeCorrect`: `TypeOK`; `SetupSupervised`: `SetupIsSupervised`, from `SetupInv`.
* `AnsweredOnce`: `AnswersAreOpen`, from `RequestInv`: a request is in one place at a time, in the
  socket to the agent or, as an answer, in the one back.
* `IndicationsInOrder`: `IndicationsAreSubscribed`, from `SubsInv`, which orders indications and
  answers in the socket to the RIC and ties the agent's timers to them.
* `NoAssertion`: with `~AnswersAgain` (a RIC that answers a repeated E2 SETUP-REQUEST once), `NoAssertionFails`,
  from `PacedInv`. The section before shows what a second answer, and a shutdown, bring about.

### `TimerHandler_proofs`: the timers

For any number of timers and durations, any size of the wheel and any width of the clock that the size divides:

* `TypeCorrect`, `WheelCorrect`, `FreeListCorrect`: `TypeOK`, `WheelHoldsRunning`, `FreeListExact`, also
  when users disturb the walk. They are inductive together, as `TypeInv`: `WheelAt` says that every
  list holds each timer once and exactly the timers whose `Place` it is; `PopLemma`, `PushLemma`, `WheelPop` and `WheelPush`
  say what the two operations on lists do to it.
* `ExpiredBeforeCallback`: `CallbackSeesExpired`. The invariant is `AheadInv`: while
  `step_all` walks a list that nobody has disturbed in this tic, the timer to be visited next is in it, and every timer
  that is due is there or behind it. A user's step that does not disturb keeps it because taking a timer out or putting
  one at the head keeps the order of the others (`PopBefore`, `PushBefore`); the walk, because the iterator moves on before
  the timer leaves the list; and a new tic starts undisturbed.
* `ImplementsTimers`: `Spec => Service!Spec`, the safety of `ImplementsService`. The service may call a timer that
  is not due, or pass over one that is, in a disturbed tic only. The refinement maps a running timer to
  `(timeout - cur_time) % Tics`; `LeftWhenStarted` and `LeftTicks` are the arithmetic of it. With `AheadInv` an
  undisturbed tic never passes a timer that is due, and a timer is visited at its timeout only.

### `RlcAm_proofs`: the bearer's window

For any SDUs, any window, any numbering whose modulus is a multiple of the window (`ConstantsAssumption`; 512 and
1024 in the code: a number's slot in `static_circular_map` is its remainder by the window), any grants and losses:

* `TypeCorrect`: `TypeOK`. PDUs are joined with the library's `FlattenSeq`. That this returns a sequence of units is an
  induction; the prover has no induction rule it can use, so it is stated about sets: `SetInduction`, from the
  library's theorem that the natural numbers are well-founded.
* `MissingKept`: `MissingIsKept`, and `NoFailure`: `NoProtocolFailure`. The invariant, which holds until the sender
  runs ahead of VT(MS), is `WindowInv`, about numbers counted from VT(A):
  * `Order`: VR(R), VR(MS), VR(H) and VT(S) come in this order, within a window, and both windows lie between them;
  * `Kept`: what has not arrived is in the sender's window, which is the theorem itself;
  * `Recent`: what is on the air was sent less than a window ago;
  * `StatusInv`: a status has a base, the first number it asks for, which the sender holds until the status is
    worked off, and what a status acknowledges has arrived. There may be two: one on the air and one that
    `handle_control_pdu` works off, section by section, while `read_pdu` sends; the second must not take away the
    base of the first. This is why VT(A) is in the window when the loop looks for it.

### `PdcpHandover_proofs`: the handover

For any number space, number of SDUs, queues, buffers and faults:

* `TypeCorrect`: `TypeOK`. A tunnel that is activated writes its whole buffer within one action: what `WriteAll`, a
  fold, does to an entity and a queue is again proved with `SetInduction`. The buffer is sorted by PDCP number first.
  In the invariant (`KeyInv`) forwarded buffers are in that order already, so that the sort is the identity: the source
  forwards its unacknowledged SDUs in the order of their keys, and X2 keeps it. `PhaseInv` ties the states of
  source, target, UE and MME together.
* `Lossless`: `HandoverIsLossless`, an action property, without a hypothesis of its own: the exceptions are in the property. Each step
  keeps `Orderly` while nothing failed and no limit of the numbers was met, and drops nothing unless `Full`
  (`StepRoom`, from one lemma for each action). `Orderly` has six parts:
  * `SpaceInv`: an entity's undelivered numbers lie between `fms`, which is one of them, and the next number, in the circle of
    numbers (`Spread`), and the next number is no more than half of them away (`Close`). With that `store_sdu`, which
    compares plain integers, admits the next number (`WriteRoom`). An acknowledgement moves `fms` to the next number
    that is held, and keeps this (`ClearedRoom`);
  * `NumberInv`: what is forwarded with a number, on X2 or in the target's buffer, comes before the number that the status
    transfer carries, no more than half behind it, and after all numbers that the target holds. So `store_sdu` admits
    these, too, and writing the first leaves room for the others (`FoldRoom`);
  * `SourceInv`, `MarkerInv`, `GoneInv`: the end marker is the last datagram of each tunnel, the source's tunnel goes down with
    nothing behind the marker, and the target's forwarding tunnel is gone only when X2 is empty and nothing
    more can come. So no datagram meets a tunnel that is not there;
  * `LimitInv`: no queue or buffer is longer than its limit, so that one that refuses an SDU is full.

### Model-checked only

* Liveness (`CallsEnd`, `SetupEnds`, `RequestsAnswered`, `RequestsHandled`, `SetsUp`, `EverythingDelivered`, `EverythingArrives`, and the fairness in
  `TimerHandler!ImplementsService`): it needs ENABLED, which the prover does not handle.
* `PdcpHandover!DecipheredInOrder`.
* `RlcAm!ImplementsService`. `RlcService` speaks of what SDUs hold, and `SetToSortSeq`, which puts the units of a
  reassembled PDU in order, is opaque to the prover: what it returns is known by an induction over its recursive definition.

## Not modelled

FlexRIC: the RIC's own user API (`report_service_near_ric` and its publish/subscribe table), the stop
protocols of RIC, iApp and agent, the agent's and the xApp's handlers that are `assert(0)`, the
fragmentation of SCTP messages, and memory. Two threads of one xApp calling at once are in `E42Xapp`
(`UIs` is a set), and `TypeCorrect` covers them; its other properties are about one caller, because the
calls share one condition variable and no document of the SDK offers more.

Timers: the moves of `unique_timer`, `defer_callback` (a timer that releases itself), the allocation of
chunks.

RLC: negative acknowledgements of parts of a PDU (the sender handles them, this receiver never sends
them), `retx_count` and the report of `max_retx` to RRC, `reestablish` and `stop`, `byte_without_poll`,
`PollPdu = 0`, the headers' length fields (a PDU is the units it carries), exhaustion of the pool of
segments, reordered statuses (one is on the air at a time), metrics. Unacknowledged and transparent
mode, and NR's RLC. Three details are modelled as they are in the code and surprise: a discarded SDU
stays in the queue as a null entry, so that a grant with nothing else to send makes an empty PDU;
discarding does nothing while the queue is full; the segments of a reassembled PDU are cleared but
their map entry stays.

PDCP and handover: the uplink, status reports (which this code handles after a second handover or a
re-establishment), a second handover, SRBs and RLC UM bearers, integrity, several bearers; the failures
of the preparation, a handover without forwarding, and the one between cells of an eNB; reordered
datagrams. After a re-establishment the unacknowledged SDUs are not sent again, although
`pdcp_entity_lte.cc:173` says that they are: `handover_reest` shows it, and the other properties count them as given up.

The other procedures of RRC, S1AP, NAS, MME and SPGW are next (see *Plan*). PHY, radio, ASN.1, codecs and storage are pure
functions or input and output: their correctness is not a question of interleaving.

## Plan

1. `DecipheredInOrder`, proved without a bound on the SDUs: a log of the numbers given, from which
   every map, queue and tunnel takes its positions.
2. The refinement of `RlcService`, proved: the contents of PDUs, cut and joined, as functions instead of sequences.
3. `Containers`: bimap and registry against sets and functions over all short operation sequences,
   and `TsQueue`, the dispatcher's queue with its stop protocol.
4. `E2System`: `NearRic` and `E2Agent` composed at their sockets, with a subscription service as the
   abstract specification.
