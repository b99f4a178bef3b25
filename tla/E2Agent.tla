------------------------------ MODULE E2Agent ------------------------------
(***************************************************************************)
(* The E2 agent of FlexRIC (src/flexric/flexric-jyd/src/agent): the part   *)
(* of an E2 node that talks to the nearRT-RIC.                             *)
(*                                                                         *)
(* One thread serves one socket and the node's timers: one that resends    *)
(* the E2 SETUP-REQUEST until it is answered, and one per subscription,    *)
(* which paces its indications.  The socket is edge triggered and one      *)
(* message is read per event.  An iteration of the loop is one action.     *)
(*                                                                         *)
(* The environment is a RIC that stops and starts again.  An incarnation   *)
(* numbers its requests afresh; "gen" tells incarnations apart.            *)
(***************************************************************************)
EXTENDS Integers, Sequences, FiniteSets

CONSTANTS
  Window,        \* messages the RIC has in the agent's socket at a time
  AnswersAgain,  \* does the RIC answer a resent E2 SETUP-REQUEST again?
  MaxGen,        \* bound: incarnations of the RIC
  MaxReq,        \* bound: subscriptions and controls of one incarnation
  MaxSetup,      \* bound: E2 SETUP-REQUESTs in the RIC's socket
  MaxInd         \* bound: indications in the RIC's socket

ASSUME ConstantsAssumption ==
  /\ Window \in Nat \ {0} /\ AnswersAgain \in BOOLEAN
  /\ MaxGen \in Nat \ {0} /\ MaxReq \in Nat /\ MaxSetup \in Nat /\ MaxInd \in Nat

VARIABLES
  started,      \* e2_start_agent has sent the first E2 SETUP-REQUEST
  pending,      \* number of pending events, all of them SETUP_REQUEST
  pendingReady, \* how many of their timers are readable
  subs,         \* ind_event: the subscriptions, [id, gen]
  subsReady,    \* those whose timer is readable
  edge,         \* the edge-triggered epoll has an event of the socket
  crash,        \* "none", or the assertion that failed
  toAgent,      \* socket: messages of the RIC, [kind, id, gen]
  toRic,        \* socket: messages of the agent, [kind, id, gen]
  accepted,     \* history: incarnation whose SETUP-RESPONSE was handled last
  ric,          \* environment: [gen, up, assoc, setUp, shutDown]; did a
                \* RIC that was associated ever shut down?
  asked,        \* environment: requests of all incarnations
  got           \* environment: answers the RIC has read

agentVars == <<started, pending, pendingReady, subs, subsReady, crash, accepted>>
ricVars   == <<ric, asked, got>>
vars == <<agentVars, edge, toAgent, toRic, ricVars>>

Requests == {"SUB", "DEL", "CTRL"}
Msg(kind, id, gen) == [kind |-> kind, id |-> id, gen |-> gen]
Messages == [kind : Requests \cup {"SETUP", "IND", "SHUT"}, id : Nat, gen : Nat]

TypeOK ==
  /\ started \in BOOLEAN /\ edge \in BOOLEAN
  /\ pending \in Nat /\ pendingReady \in 0 .. pending
  /\ subs \subseteq [id : Nat, gen : Nat] /\ subsReady \subseteq subs
  /\ toAgent \in Seq(Messages) /\ toRic \in Seq(Messages)
  /\ accepted \in Nat
  /\ ric \in [gen : Nat, up : BOOLEAN, assoc : BOOLEAN, setUp : BOOLEAN,
              shutDown : BOOLEAN]
  /\ asked \subseteq Messages /\ got \subseteq Messages

Init ==
  /\ started = FALSE /\ pending = 0 /\ pendingReady = 0
  /\ subs = {} /\ subsReady = {} /\ edge = FALSE /\ crash = "none"
  /\ toAgent = <<>> /\ toRic = <<>> /\ accepted = 0
  /\ ric = [gen |-> 1, up |-> TRUE, assoc |-> FALSE, setUp |-> FALSE,
            shutDown |-> FALSE]
  /\ asked = {} /\ got = {}

Alive == crash = "none"
Check(condition, label) == crash' = IF condition THEN crash ELSE label

(* sctp_sendmsg on a one-to-many socket associates again when it must;     *)
(* what is sent to a RIC that is down is lost.                             *)
Send(m) == IF ric.up
           THEN toRic' = Append(toRic, m) /\ ric' = [ric EXCEPT !.assoc = TRUE]
           ELSE UNCHANGED <<toRic, ric>>
SendSetup == Send(Msg("SETUP", 0, 0))

Count(kind, s) == Len(SelectSeq(s, LAMBDA m : m.kind = kind))

-----------------------------------------------------------------------------
(* The agent.                                                              *)

(* e2_start_agent: the request, then its pending event and timer. *)
Start ==
  /\ Alive /\ ~started
  /\ started' = TRUE /\ pending' = pending + 1
  /\ SendSetup
  /\ UNCHANGED <<pendingReady, subs, subsReady, edge, crash, accepted, toAgent,
                 asked, got>>

(* next_async_event_agent: one event of the socket, one message. *)
Recv(kind) ==
  /\ Alive /\ started /\ edge /\ toAgent # <<>>
  /\ Head(toAgent).kind = kind
  /\ toAgent' = Tail(toAgent) /\ edge' = FALSE

(* RIC SUBSCRIPTION REQUEST: a timer and an indication event, and yes. *)
HandleSubscription ==
  LET m == Head(toAgent) IN
  /\ Recv("SUB")
  /\ subs' = subs \cup {[id |-> m.id, gen |-> m.gen]}
  /\ Send(m)
  /\ UNCHANGED <<started, pending, pendingReady, subsReady, crash, accepted,
                 asked, got>>

(* Mutants: the deletion is answered and nothing stopped; the event goes,  *)
(* its timer stays.                                                        *)
AnswerOnly(s) == s \in subs /\ UNCHANGED <<subs, subsReady>>
KeepTimer(s) == subs' = subs \ {s} /\ UNCHANGED subsReady

StopIndEvent(s) == subs' = subs \ {s} /\ subsReady' = subsReady \ {s}

(* RIC SUBSCRIPTION DELETE REQUEST: stop_ind_event extracts an event with  *)
(* this request id; there must be one.                                     *)
HandleDelete ==
  LET m  == Head(toAgent)
      ss == {s \in subs : s.id = m.id}
  IN
  /\ Recv("DEL")
  /\ \/ /\ ss = {} /\ crash' = "extract a key not found"
        /\ UNCHANGED <<subs, subsReady, toRic, ric>>
     \/ \E s \in ss : StopIndEvent(s) /\ Send(m) /\ UNCHANGED crash
  /\ UNCHANGED <<started, pending, pendingReady, accepted, asked, got>>

(* Mutant: the handler sends the acknowledge that the loop sends again. *)
AnswerTwice ==
  LET m == Head(toAgent) IN
  /\ Recv("CTRL")
  /\ toRic' = toRic \o <<m, m>> /\ ric' = [ric EXCEPT !.assoc = TRUE]
  /\ UNCHANGED <<agentVars, asked, got>>

(* RIC CONTROL REQUEST: the service model's, and its acknowledge. *)
HandleControl ==
  /\ Recv("CTRL")
  /\ Send(Head(toAgent))
  /\ UNCHANGED <<agentVars, asked, got>>

(* E2 SETUP-RESPONSE: one pending event is extracted and its timer closed. *)
HandleSetupResponse ==
  /\ Recv("SETUP")
  /\ Check(pending > 0, "extract a key not found")
  /\ accepted' = Head(toAgent).gen
  /\ IF pending = 0 THEN UNCHANGED <<pending, pendingReady>>
     ELSE /\ pending' = pending - 1
          /\ pendingReady' \in {pendingReady, pendingReady - 1} \cap (0 .. pending')
  /\ UNCHANGED <<started, subs, subsReady, toRic, ricVars>>

(* Mutant: the lost RIC is only logged. *)
IgnoreLoss == UNCHANGED pending

SuperviseSetup == pending' = pending + 1

(* SCTP shutdown: a setup timer is started.  The subscriptions stay. *)
HandleShutdown ==
  /\ Recv("SHUT")
  /\ SuperviseSetup
  /\ UNCHANGED <<started, pendingReady, subs, subsReady, crash, accepted, toRic,
                 ricVars>>

(* A subscription's timer is readable: an indication is sent. *)
IndicationEvent ==
  /\ Alive /\ started
  /\ \E s \in subsReady :
       /\ Count("IND", toRic) < MaxInd
       /\ Send(Msg("IND", s.id, s.gen))
       /\ subsReady' = subsReady \ {s}
  /\ UNCHANGED <<started, pending, pendingReady, subs, crash, accepted, edge,
                 toAgent, asked, got>>

(* Mutants: every resending starts another timer; the timer fires once.    *)
RestartTimer == pending' = pending + 1
OneShotTimer == pending' = pending - 1
KeepPending == UNCHANGED pending

(* A setup timer is readable: pend_event looks for its event, and the      *)
(* E2 SETUP-REQUEST is sent again; the timer is periodic.                  *)
SetupTimeout ==
  /\ Alive /\ started /\ pendingReady > 0
  /\ Count("SETUP", toRic) < MaxSetup
  /\ IF pending = 1 THEN SendSetup /\ UNCHANGED crash
     ELSE /\ crash' = "bi_map_size(&ag->pending) == 1"
          /\ UNCHANGED <<toRic, ric>>
  /\ KeepPending
  /\ pendingReady' = pendingReady - 1
  /\ UNCHANGED <<started, subs, subsReady, accepted, edge, toAgent, asked, got>>

HandleMessage == \/ HandleSubscription \/ HandleDelete \/ HandleControl
                 \/ HandleSetupResponse \/ HandleShutdown

-----------------------------------------------------------------------------
(* The environment: time and the RIC.                                      *)

SetupTimerExpires ==
  /\ Alive /\ pendingReady < pending
  /\ pendingReady' = pendingReady + 1
  /\ UNCHANGED <<started, pending, subs, subsReady, crash, accepted, edge,
                 toAgent, toRic, ricVars>>

SubTimerExpires ==
  /\ Alive
  /\ \E s \in subs \ subsReady : subsReady' = subsReady \cup {s}
  /\ UNCHANGED <<started, pending, pendingReady, subs, crash, accepted, edge,
                 toAgent, toRic, ricVars>>

ToAgent(m) == toAgent' = Append(toAgent, m) /\ edge' = TRUE

(* The RIC reads the agent's next message; an E2 SETUP-REQUEST it answers, *)
(* a resent one perhaps.                                                   *)
RicReads ==
  LET m == Head(toRic) IN
  /\ Alive /\ ric.up /\ toRic # <<>>
  /\ toRic' = Tail(toRic)
  /\ IF m.kind = "SETUP"
     THEN /\ ric' = [ric EXCEPT !.setUp = TRUE]
          /\ IF ~ric.setUp \/ AnswersAgain
             THEN ToAgent(Msg("SETUP", 0, ric.gen))
             ELSE UNCHANGED <<toAgent, edge>>
          /\ UNCHANGED got
     ELSE /\ got' = IF m.kind \in Requests THEN got \cup {m} ELSE got
          /\ UNCHANGED <<ric, toAgent, edge>>
  /\ UNCHANGED <<agentVars, asked>>

Ask(m) ==
  /\ Alive /\ ric.up /\ ric.setUp /\ Len(toAgent) < Window
  /\ asked' = asked \cup {m}
  /\ ToAgent(m)
  /\ UNCHANGED <<agentVars, toRic, ric, got>>

(* A subscription or a control, under the incarnation's next id. *)
RicAsks ==
  LET id == 1 + Cardinality({m \in asked : m.gen = ric.gen /\ m.kind # "DEL"}) IN
  /\ id <= MaxReq
  /\ \E kind \in {"SUB", "CTRL"} : Ask(Msg(kind, id, ric.gen))

(* The delete of a subscription of this incarnation that was answered. *)
RicDeletes ==
  \E m \in got : /\ m.kind = "SUB" /\ m.gen = ric.gen
                 /\ Msg("DEL", m.id, m.gen) \notin asked
                 /\ Ask(Msg("DEL", m.id, m.gen))

(* The RIC stops; an agent associated with it is notified of the SCTP      *)
(* shutdown.                                                               *)
RicStops ==
  /\ Alive /\ ric.up /\ ric.gen < MaxGen
  /\ \/ ric.assoc /\ ToAgent(Msg("SHUT", 0, 0))
     \/ ~ric.assoc /\ UNCHANGED <<toAgent, edge>>
  /\ ric' = [ric EXCEPT !.up = FALSE, !.setUp = FALSE, !.assoc = FALSE,
                         !.shutDown = @ \/ ric.assoc]
  /\ toRic' = <<>>
  /\ UNCHANGED <<agentVars, asked, got>>

RicStarts ==
  /\ Alive /\ ~ric.up
  /\ ric' = [ric EXCEPT !.up = TRUE, !.gen = @ + 1]
  /\ UNCHANGED <<agentVars, edge, toAgent, toRic, asked, got>>

Next == \/ Start \/ HandleMessage \/ IndicationEvent \/ SetupTimeout
        \/ SetupTimerExpires \/ SubTimerExpires
        \/ RicReads \/ RicAsks \/ RicDeletes \/ RicStops \/ RicStarts

Spec == Init /\ [][Next]_vars

(* The agent's thread runs and epoll serves the ready descriptors in turn, *)
(* periodic timers fire, and the RIC reads its socket and is restarted.    *)
FairSpec ==
  /\ Spec
  /\ WF_vars(Start) /\ SF_vars(HandleMessage) /\ SF_vars(SetupTimeout)
  /\ WF_vars(SetupTimerExpires)
  /\ WF_vars(RicReads) /\ WF_vars(RicStarts)

-----------------------------------------------------------------------------
(* Properties.                                                             *)

(* The agent's first RIC reads an indication only between the answer to    *)
(* its subscription and the answer to the subscription's deletion:         *)
(* stop_ind_event closes the timer before the deletion is answered, and no *)
(* indication overtakes an answer.  (To a RIC that restarts this is not    *)
(* promised: its request ids repeat those of subscriptions the agent kept.)*)
IndicationsAreSubscribed ==
  toRic # <<>> /\ Head(toRic).kind = "IND" /\ ric.gen = 1 =>
    /\ [Head(toRic) EXCEPT !.kind = "SUB"] \in got
    /\ [Head(toRic) EXCEPT !.kind = "DEL"] \notin got

(* Every request is answered once: an answer the RIC reads is to a request *)
(* that was made, by it or by its predecessor, and is open.                *)
AnswersAreOpen ==
  toRic # <<>> /\ Head(toRic).kind \in Requests =>
    Head(toRic) \in asked \ got

(* A started agent without a setup timer has been accepted by the RIC      *)
(* there is, or the notification that this RIC's predecessor shut down is  *)
(* in its socket: e2_start_agent and notification_handle_ag leave no gap.  *)
SetupIsSupervised ==
  started /\ Alive /\ pending = 0 =>
    \/ accepted = ric.gen
    \/ \E k \in DOMAIN toAgent : toAgent[k].kind = "SHUT"

(* Until a RIC shuts down, and if it ignores a repeated E2 SETUP-REQUEST,  *)
(* no assertion of the agent fails, however late the answer to the first   *)
(* one is.  (The repository's RIC does not ignore it: it aborts,           *)
(* reg_e2_nodes.c:110.)                                                    *)
NoAssertionFails == ~ric.shutDown => Alive

(* A request that is alone in the agent's socket, with an edge to report,  *)
(* is answered, whatever arrives behind it.                                *)
RequestsHandled ==
  \A id \in 1 .. MaxReq, kind \in Requests, g \in 1 .. MaxGen :
    edge /\ Len(toAgent) = 1 /\ toAgent[1] = Msg(kind, id, g)
      ~> Msg(kind, id, g) \in got \/ ric.shutDown

(* The agent sets up with a RIC that stays, even one that starts after it. *)
SetsUp ==
  \A g \in 1 .. MaxGen :
    (ric.up /\ ric.gen = g)
      ~> (ric.setUp \/ ~ric.up \/ ric.gen # g \/ ric.shutDown)

(* e2_agent.c:222 asserts that a setup timer that fires is the only one,   *)
(* and assoc_rb_tree.c:418 that an event that is extracted is there.       *)
OneSetupTimer == crash # "bi_map_size(&ag->pending) == 1"
SetupAnswerIsExpected == crash # "extract a key not found"

(* map_ric_id.c:176 asserts that a RIC is indicated only what it asked.    *)
IndicationsAreCurrent ==
  toRic # <<>> /\ Head(toRic).kind = "IND" => Head(toRic).gen = ric.gen
=============================================================================
