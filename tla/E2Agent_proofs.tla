--------------------------- MODULE E2Agent_proofs ---------------------------
(***************************************************************************)
(* Theorems about E2Agent, for any number of incarnations of the RIC, of   *)
(* requests, and of messages in the sockets.                               *)
(***************************************************************************)
EXTENDS E2Agent, SocketLemmas, FiniteSetTheorems, TLAPS

Sub(i, g) == Msg("SUB", i, g)
Del(i, g) == Msg("DEL", i, g)

(* The requests' ids count the requests of an incarnation.                 *)
AskedOf(g) == {m \in asked : m.gen = g /\ m.kind # "DEL"}
TypeInv ==
  /\ TypeOK
  /\ IsFiniteSet(asked)
  /\ ric.gen > 0


LEMMA Message ==
  /\ \A k \in Requests \cup {"SETUP", "IND", "SHUT"}, i \in Nat, g \in Nat :
       /\ Msg(k, i, g) \in Messages
       /\ Msg(k, i, g).kind = k /\ Msg(k, i, g).id = i /\ Msg(k, i, g).gen = g
  /\ \A m \in Messages : /\ m = Msg(m.kind, m.id, m.gen)
                         /\ m.kind \in Requests \cup {"SETUP", "IND", "SHUT"}
                         /\ m.id \in Nat /\ m.gen \in Nat
                         /\ [m EXCEPT !.kind = "SUB"] = Msg("SUB", m.id, m.gen)
                         /\ [m EXCEPT !.kind = "DEL"] = Msg("DEL", m.id, m.gen)
BY DEF Msg, Messages, Requests

(* The states of the RIC, and how its record changes.                      *)
RicStates == [gen : Nat, up : BOOLEAN, assoc : BOOLEAN, setUp : BOOLEAN,
              shutDown : BOOLEAN]

LEMMA RicChanges ==
  ASSUME NEW r \in RicStates
  PROVE  /\ [r EXCEPT !.assoc = TRUE] \in RicStates
         /\ [r EXCEPT !.setUp = TRUE] \in RicStates
         /\ [r EXCEPT !.up = FALSE, !.setUp = FALSE, !.assoc = FALSE,
                      !.shutDown = @ \/ r.assoc] \in RicStates
         /\ [r EXCEPT !.up = TRUE, !.gen = @ + 1] \in RicStates
         /\ [r EXCEPT !.up = TRUE, !.gen = @ + 1].gen = r.gen + 1
<1>1. r.gen + 1 \in Nat
  BY DEF RicStates
<1> QED
  BY <1>1, Zenon DEF RicStates

LEMMA TypeInvInit == Init => TypeInv
<1> SUFFICES ASSUME Init PROVE TypeInv
  OBVIOUS
<1>1. /\ started \in BOOLEAN /\ edge \in BOOLEAN
      /\ ric \in RicStates
  <2>1. 1 \in Nat
    OBVIOUS
  <2> QED
    BY <2>1, Zenon DEF Init, RicStates
<1>2. /\ pending \in Nat /\ pendingReady \in 0 .. pending /\ accepted \in Nat
      /\ toAgent \in Seq(Messages) /\ toRic \in Seq(Messages)
      /\ IsFiniteSet(asked) /\ ric.gen > 0
  BY FS_EmptySet, SocketEmpty DEF Init
<1>3. subs = {} /\ subsReady = {} /\ asked = {} /\ got = {}
  BY DEF Init
<1> QED
  BY <1>1, <1>2, <1>3 DEF TypeInv, TypeOK, RicStates

(* The step of the RIC's record, and of the agent's flags.                 *)
LEMMA RicStep ==
  ASSUME TypeInv, [Next]_vars
  PROVE  /\ ric' \in RicStates /\ ric'.gen \in {ric.gen, ric.gen + 1}
         /\ ric.shutDown => ric'.shutDown
<1>1. ric \in RicStates
  BY DEF TypeInv, TypeOK, RicStates
<1>2. \/ ric' = ric
      \/ ric' = [ric EXCEPT !.assoc = TRUE]
      \/ ric' = [ric EXCEPT !.setUp = TRUE]
      \/ ric' = [ric EXCEPT !.up = FALSE, !.setUp = FALSE, !.assoc = FALSE,
                             !.shutDown = @ \/ ric.assoc]
      \/ ric' = [ric EXCEPT !.up = TRUE, !.gen = @ + 1]
  <2>1. CASE Start \/ HandleMessage \/ IndicationEvent \/ SetupTimeout
    BY <2>1 DEF Start, HandleMessage, HandleSubscription, HandleDelete, HandleControl,
                HandleSetupResponse, HandleShutdown, IndicationEvent, SetupTimeout,
                SendSetup, Send, ricVars
  <2>2. CASE \/ SetupTimerExpires \/ SubTimerExpires \/ RicReads \/ RicAsks
             \/ RicDeletes \/ RicStops \/ RicStarts \/ UNCHANGED vars
    BY <2>2 DEF SetupTimerExpires, SubTimerExpires, RicReads, RicAsks, RicDeletes,
                Ask, RicStops, RicStarts, ricVars, vars
  <2> QED
    BY <2>1, <2>2 DEF Next
<1> QED
  <2>1. /\ ric'.gen \in {ric.gen, ric.gen + 1}
        /\ ric.shutDown => ric'.shutDown
    BY <1>1, <1>2 DEF RicStates
  <2> QED
    BY <1>1, <1>2, <2>1, RicChanges

LEMMA FlagsStep ==
  ASSUME TypeInv, [Next]_vars
  PROVE  started' \in BOOLEAN /\ edge' \in BOOLEAN
<1>1. CASE Start \/ HandleMessage \/ IndicationEvent \/ SetupTimeout
  BY <1>1, Zenon DEF Start, HandleMessage, HandleSubscription, HandleDelete, HandleControl,
              HandleSetupResponse, HandleShutdown, IndicationEvent, SetupTimeout,
              Recv, agentVars, TypeInv, TypeOK
<1>2. CASE \/ SetupTimerExpires \/ SubTimerExpires \/ RicReads \/ RicAsks
           \/ RicDeletes \/ RicStops \/ RicStarts \/ UNCHANGED vars
  BY <1>2, Zenon DEF SetupTimerExpires, SubTimerExpires, RicReads, RicAsks, RicDeletes,
              Ask, RicStops, RicStarts, ToAgent, agentVars, vars, TypeInv, TypeOK
<1> QED
  BY <1>1, <1>2 DEF Next

(* The sockets only grow by one message at their end, lose the first one,  *)
(* or are cleared.                                                         *)
LEMMA RequestsAreMessages ==
  ASSUME toAgent \in Seq(Messages), toAgent # <<>>
  PROVE  Head(toAgent) \in Messages
OBVIOUS

LEMMA SendStep ==
  ASSUME NEW m \in Messages, Send(m)
  PROVE  toRic' = toRic \/ toRic' = Append(toRic, m)
BY DEF Send

LEMMA ToRicStep ==
  ASSUME toAgent \in Seq(Messages), toRic \in Seq(Messages),
         subs \subseteq [id : Nat, gen : Nat], subsReady \subseteq subs, [Next]_vars
  PROVE  toRic' \in Seq(Messages)
<1>1. (\E m \in Messages : Send(m)) => toRic' \in Seq(Messages)
  BY SendStep
<1>2. CASE Start \/ SetupTimeout
  BY <1>1, <1>2, Message DEF Start, SetupTimeout, SendSetup
<1>3. CASE HandleSubscription \/ HandleDelete \/ HandleControl
  BY <1>1, <1>3, RequestsAreMessages DEF HandleSubscription, HandleDelete, HandleControl, Recv
<1>4. CASE IndicationEvent
  <2>1. PICK s \in subsReady : Send(Msg("IND", s.id, s.gen))
    BY <1>4 DEF IndicationEvent
  <2>2. s.id \in Nat /\ s.gen \in Nat
    OBVIOUS
  <2> QED
    BY <1>1, <2>1, <2>2, Message
<1>5. CASE RicReads \/ RicStops
  <2>1. (toRic # <<>> /\ toRic' = Tail(toRic)) \/ toRic' = <<>>
    BY <1>5 DEF RicReads, RicStops
  <2>2. toRic # <<>> => Tail(toRic) \in Seq(Messages)
    OBVIOUS
  <2>3. <<>> \in Seq(Messages)
    OBVIOUS
  <2> QED
    BY <2>1, <2>2, <2>3
<1>6. CASE \/ HandleSetupResponse \/ HandleShutdown \/ SetupTimerExpires \/ SubTimerExpires
           \/ RicAsks \/ RicDeletes \/ RicStarts \/ UNCHANGED vars
  BY <1>6 DEF HandleSetupResponse, HandleShutdown, SetupTimerExpires, SubTimerExpires,
              RicAsks, RicDeletes, Ask, RicStarts, vars
<1> QED
  BY <1>2, <1>3, <1>4, <1>5, <1>6 DEF Next, HandleMessage

LEMMA AskMessage ==
  ASSUME asked \subseteq Messages, IsFiniteSet(asked), got \subseteq Messages,
         ric.gen \in Nat, RicAsks \/ RicDeletes
  PROVE  \E m \in Messages : m.kind \in Requests /\ Ask(m)
<1>1. CASE RicAsks
  <2>1. IsFiniteSet({m \in asked : m.gen = ric.gen /\ m.kind # "DEL"})
    BY FS_Subset
  <2>2. 1 + Cardinality({m \in asked : m.gen = ric.gen /\ m.kind # "DEL"}) \in Nat
    BY <2>1, FS_CardinalityType
  <2> QED
    BY <1>1, <2>2, Message DEF RicAsks, Requests
<1>2. CASE RicDeletes
  <2>1. PICK m \in got : Ask(Msg("DEL", m.id, m.gen))
    BY <1>2 DEF RicDeletes
  <2>2. m.id \in Nat /\ m.gen \in Nat
    BY Message
  <2> QED
    BY <2>1, <2>2, Message DEF Requests
<1> QED
  BY <1>1, <1>2

LEMMA AskedStep ==
  ASSUME asked \subseteq Messages, IsFiniteSet(asked), got \subseteq Messages,
         toRic \in Seq(Messages), ric.gen \in Nat, [Next]_vars
  PROVE  asked' \subseteq Messages /\ IsFiniteSet(asked') /\ got' \subseteq Messages
<1>1. CASE RicAsks \/ RicDeletes
  <2>1. PICK m \in Messages : Ask(m)
    BY <1>1, AskMessage
  <2> QED
    BY <2>1, FS_AddElement DEF Ask
<1>2. CASE RicReads
  BY <1>2 DEF RicReads
<1>3. CASE \/ Start \/ HandleMessage \/ IndicationEvent \/ SetupTimeout \/ SetupTimerExpires
           \/ SubTimerExpires \/ RicStops \/ RicStarts \/ UNCHANGED vars
  BY <1>3 DEF Start, HandleMessage, HandleSubscription, HandleDelete, HandleControl,
              HandleSetupResponse, HandleShutdown, IndicationEvent, SetupTimeout,
              SetupTimerExpires, SubTimerExpires, RicStops, RicStarts, ricVars, vars
<1> QED
  BY <1>1, <1>2, <1>3 DEF Next

LEMMA ToAgentStep ==
  ASSUME asked \subseteq Messages, IsFiniteSet(asked), got \subseteq Messages,
         toAgent \in Seq(Messages), ric.gen \in Nat, [Next]_vars
  PROVE  toAgent' \in Seq(Messages)
<1>1. CASE HandleMessage
  <2>1. toAgent # <<>> /\ toAgent' = Tail(toAgent)
    BY <1>1 DEF HandleMessage, HandleSubscription, HandleDelete, HandleControl,
                HandleSetupResponse, HandleShutdown, Recv
  <2> QED
    BY <2>1
<1>2. CASE RicReads \/ RicStops
  <2>1. \/ toAgent' = toAgent
        \/ toAgent' = Append(toAgent, Msg("SETUP", 0, ric.gen))
        \/ toAgent' = Append(toAgent, Msg("SHUT", 0, 0))
    BY <1>2 DEF RicReads, RicStops, ToAgent
  <2>2. Msg("SETUP", 0, ric.gen) \in Messages /\ Msg("SHUT", 0, 0) \in Messages
    BY Message
  <2> QED
    BY <2>1, <2>2
<1>3. CASE RicAsks \/ RicDeletes
  <2>1. PICK m \in Messages : Ask(m)
    BY <1>3, AskMessage
  <2> QED
    BY <2>1 DEF Ask, ToAgent
<1>4. CASE \/ Start \/ IndicationEvent \/ SetupTimeout \/ SetupTimerExpires
           \/ SubTimerExpires \/ RicStarts \/ UNCHANGED vars
  BY <1>4 DEF Start, IndicationEvent, SetupTimeout, SetupTimerExpires, SubTimerExpires,
              RicStarts, vars
<1> QED
  BY <1>1, <1>2, <1>3, <1>4 DEF Next

LEMMA EventsStep ==
  ASSUME toAgent \in Seq(Messages), pending \in Nat, pendingReady \in 0 .. pending,
         accepted \in Nat, subs \subseteq [id : Nat, gen : Nat], subsReady \subseteq subs,
         [Next]_vars
  PROVE  /\ pending' \in Nat /\ pendingReady' \in 0 .. pending' /\ accepted' \in Nat
         /\ subs' \subseteq [id : Nat, gen : Nat] /\ subsReady' \subseteq subs'
<1>1. CASE Start \/ SetupTimeout \/ SetupTimerExpires \/ HandleShutdown
  <2>1. /\ UNCHANGED <<subs, subsReady, accepted>>
        /\ \/ pending' = pending + 1 /\ pendingReady' = pendingReady
           \/ pending' = pending /\ pendingReady > 0 /\ pendingReady' = pendingReady - 1
           \/ pending' = pending /\ pendingReady < pending /\ pendingReady' = pendingReady + 1
    BY <1>1 DEF Start, SetupTimeout, SetupTimerExpires, HandleShutdown, SuperviseSetup,
                KeepPending
  <2> QED
    BY <2>1
<1>2. CASE HandleSetupResponse
  <2>1. /\ toAgent # <<>> /\ accepted' = Head(toAgent).gen
        /\ UNCHANGED <<subs, subsReady>>
        /\ \/ UNCHANGED <<pending, pendingReady>>
           \/ /\ pending # 0 /\ pending' = pending - 1
              /\ pendingReady' \in {pendingReady, pendingReady - 1} \cap (0 .. pending')
    BY <1>2 DEF HandleSetupResponse, Recv
  <2>2. accepted' \in Nat
    BY <2>1, RequestsAreMessages, Message
  <2> QED
    BY <2>1, <2>2
<1>3. CASE HandleSubscription
  <2>1. PICK m \in Messages : subs' = subs \cup {[id |-> m.id, gen |-> m.gen]}
    BY <1>3, RequestsAreMessages DEF HandleSubscription, Recv
  <2>2. m.id \in Nat /\ m.gen \in Nat
    BY Message
  <2>3. UNCHANGED <<pending, pendingReady, accepted, subsReady>>
    BY <1>3 DEF HandleSubscription
  <2> QED
    BY <2>1, <2>2, <2>3
<1>4. CASE HandleDelete
  BY <1>4 DEF HandleDelete, StopIndEvent
<1>5. CASE \/ HandleControl \/ IndicationEvent \/ SubTimerExpires \/ RicReads \/ RicAsks
           \/ RicDeletes \/ RicStops \/ RicStarts \/ UNCHANGED vars
  BY <1>5 DEF HandleControl, IndicationEvent, SubTimerExpires, RicReads, RicAsks,
              RicDeletes, Ask, RicStops, RicStarts, agentVars, vars
<1> QED
  BY <1>1, <1>2, <1>3, <1>4, <1>5 DEF Next, HandleMessage

LEMMA TypeInvStep == TypeInv /\ [Next]_vars => TypeInv'
<1> SUFFICES ASSUME TypeInv, [Next]_vars PROVE TypeInv'
  OBVIOUS
<1>1. ric.gen \in Nat /\ ric.gen > 0
  BY DEF TypeInv, TypeOK
<1>2. ric'.gen > 0
  BY <1>1, RicStep
<1> QED
  BY <1>1, <1>2, RicStep, FlagsStep, ToRicStep, ToAgentStep, AskedStep, EventsStep, Zenon
  DEF TypeInv, TypeOK, RicStates

(* Every variable has its type.                                            *)
THEOREM TypeCorrect == Spec => []TypeOK
<1>1. TypeInv => TypeOK
  BY DEF TypeInv
<1> QED
  BY <1>1, TypeInvInit, TypeInvStep, PTL DEF Spec

-----------------------------------------------------------------------------
(* What the agent has sent reaches the RIC only while they are associated, *)
(* and an incarnation that ends leaves a notification behind its answers.  *)
Associated == ric.up /\ ric.assoc
Current == IF Associated THEN {ric.gen} ELSE {}

ShutAfter(s, k) == \E j \in DOMAIN s : j > k /\ s[j].kind = "SHUT"
Covered(s, gens) ==
  \A k \in DOMAIN s : s[k].kind = "SETUP" => s[k].gen \in gens \/ ShutAfter(s, k)

AssocInv ==
  /\ toRic # <<>> => Associated
  /\ ric.assoc => ric.up

SetupInv ==
  /\ AssocInv
  /\ Covered(toAgent, Current)
  /\ started /\ Alive /\ pending = 0 => accepted \in Current \/ ShutAfter(toAgent, 0)

(* What a message read, a message sent and a notification do to the cover. *)
LEMMA CoverTail ==
  ASSUME NEW s \in Seq(Messages), s # <<>>, NEW gens, Covered(s, gens)
  PROVE  /\ Covered(Tail(s), gens)
         /\ Head(s).kind = "SETUP" => Head(s).gen \in gens \/ ShutAfter(Tail(s), 0)
         /\ Head(s).kind # "SHUT" /\ ShutAfter(s, 0) => ShutAfter(Tail(s), 0)
<1>1. \A j, k \in DOMAIN s : j > k => j - 1 \in DOMAIN Tail(s) /\ Tail(s)[j - 1] = s[j] /\ j - 1 > k - 1
  OBVIOUS
<1>2. \A k \in DOMAIN s : ShutAfter(s, k) => ShutAfter(Tail(s), k - 1)
  BY <1>1 DEF ShutAfter
<1>3. \A k \in DOMAIN Tail(s) : k + 1 \in DOMAIN s /\ Tail(s)[k] = s[k + 1] /\ (k + 1) - 1 = k
  OBVIOUS
<1>4. 1 \in DOMAIN s /\ s[1] = Head(s) /\ 1 - 1 = 0
  OBVIOUS
<1>5. Covered(Tail(s), gens)
  BY <1>2, <1>3 DEF Covered
<1>6. Head(s).kind = "SETUP" => Head(s).gen \in gens \/ ShutAfter(Tail(s), 0)
  BY <1>2, <1>4 DEF Covered
<1>7. ASSUME Head(s).kind # "SHUT", ShutAfter(s, 0) PROVE ShutAfter(Tail(s), 0)
  <2>1. PICK j \in DOMAIN s : j > 0 /\ s[j].kind = "SHUT"
    BY <1>7 DEF ShutAfter
  <2>2. j # 1 /\ j > 1
    BY <1>4, <1>7, <2>1
  <2> QED
    BY <1>1, <1>4, <2>1, <2>2 DEF ShutAfter
<1> QED
  BY <1>5, <1>6, <1>7

LEMMA CoverAppend ==
  ASSUME NEW s \in Seq(Messages), NEW m \in Messages, NEW gens, Covered(s, gens),
         m.kind = "SETUP" => m.gen \in gens
  PROVE  /\ Covered(Append(s, m), gens)
         /\ ShutAfter(s, 0) => ShutAfter(Append(s, m), 0)
<1>1. /\ DOMAIN Append(s, m) = DOMAIN s \cup {Len(s) + 1}
      /\ \A k \in DOMAIN s : Append(s, m)[k] = s[k]
      /\ Append(s, m)[Len(s) + 1] = m
  OBVIOUS
<1>2. \A k : ShutAfter(s, k) => ShutAfter(Append(s, m), k)
  BY <1>1 DEF ShutAfter
<1> QED
  BY <1>1, <1>2 DEF Covered

LEMMA CoverShut ==
  ASSUME NEW s \in Seq(Messages), NEW m \in Messages, m.kind = "SHUT"
  PROVE  Covered(Append(s, m), {}) /\ ShutAfter(Append(s, m), 0)
<1>1. /\ DOMAIN Append(s, m) = DOMAIN s \cup {Len(s) + 1}
      /\ \A k \in DOMAIN s : Append(s, m)[k] = s[k] /\ Len(s) + 1 > k
      /\ Append(s, m)[Len(s) + 1] = m /\ Len(s) + 1 > 0
  OBVIOUS
<1>2. \A k \in DOMAIN s \cup {0} : ShutAfter(Append(s, m), k)
  BY <1>1 DEF ShutAfter
<1> QED
  BY <1>1, <1>2 DEF Covered

LEMMA CoverMonotonic ==
  ASSUME NEW s, NEW small, NEW large, small \subseteq large, Covered(s, small)
  PROVE  Covered(s, large)
BY DEF Covered

LEMMA SetupInvInit == Init => SetupInv
BY DEF Init, SetupInv, AssocInv, Covered, Alive

LEMMA SendAssociates ==
  ASSUME ric \in RicStates, AssocInv, NEW m, Send(m)
  PROVE  AssocInv' /\ Current \subseteq Current'
BY DEF Send, AssocInv, Associated, Current, RicStates

LEMMA AssocKept ==
  ASSUME TypeInv, AssocInv,
         \/ Start \/ HandleMessage \/ IndicationEvent \/ SetupTimeout
         \/ SetupTimerExpires \/ SubTimerExpires \/ RicReads \/ RicAsks \/ RicDeletes
         \/ UNCHANGED vars
  PROVE  AssocInv' /\ Current \subseteq Current'
<1>1. ric \in RicStates
  BY DEF TypeInv, TypeOK, RicStates
<1>2. CASE \/ Start \/ HandleSubscription \/ HandleDelete \/ HandleControl
           \/ IndicationEvent \/ SetupTimeout
  <2>1. (\E m : Send(m)) \/ UNCHANGED <<ric, toRic>>
    BY <1>2 DEF Start, HandleSubscription, HandleDelete, HandleControl, IndicationEvent,
                SetupTimeout, SendSetup
  <2> QED
    BY <1>1, <2>1, SendAssociates DEF AssocInv, Associated, Current
<1>3. CASE RicReads
  <2>1. /\ toRic # <<>>
        /\ ric' = ric \/ ric' = [ric EXCEPT !.setUp = TRUE]
    BY <1>3 DEF RicReads
  <2>2. ric'.up = ric.up /\ ric'.assoc = ric.assoc /\ ric'.gen = ric.gen
    BY <1>1, <2>1 DEF RicStates
  <2> QED
    BY <2>1, <2>2 DEF AssocInv, Associated, Current
<1>4. CASE \/ HandleSetupResponse \/ HandleShutdown \/ SetupTimerExpires \/ SubTimerExpires
           \/ RicAsks \/ RicDeletes \/ UNCHANGED vars
  <2>1. UNCHANGED <<ric, toRic>>
    BY <1>4 DEF HandleSetupResponse, HandleShutdown, SetupTimerExpires, SubTimerExpires,
                RicAsks, RicDeletes, Ask, ricVars, vars
  <2> QED
    BY <2>1 DEF AssocInv, Associated, Current
<1> QED
  BY <1>2, <1>3, <1>4 DEF HandleMessage

LEMMA SetupInvStep ==
  ASSUME TypeInv, SetupInv, [Next]_vars
  PROVE  SetupInv'
<1>1. toAgent \in Seq(Messages) /\ pending \in Nat /\ ric \in RicStates
  BY DEF TypeInv, TypeOK, RicStates
<1>2. AssocInv /\ Covered(toAgent, Current)
  BY DEF SetupInv
<1>3. CASE Start \/ HandleShutdown
  <2>1. pending' = pending + 1
        /\ \/ toAgent' = toAgent
           \/ toAgent # <<>> /\ toAgent' = Tail(toAgent)
    BY <1>3 DEF Start, HandleShutdown, SuperviseSetup, Recv
  <2>2. pending' # 0
    BY <1>1, <2>1
  <2>3. Covered(toAgent', Current)
    BY <1>1, <1>2, <2>1, CoverTail
  <2> QED
    BY <1>2, <1>3, <2>2, <2>3, AssocKept, CoverMonotonic DEF SetupInv, HandleMessage
<1>4. CASE HandleSubscription \/ HandleDelete \/ HandleControl
  <2>1. /\ UNCHANGED <<started, pending, accepted>> /\ Alive
        /\ toAgent # <<>> /\ toAgent' = Tail(toAgent) /\ Head(toAgent).kind # "SHUT"
    BY <1>4 DEF HandleSubscription, HandleDelete, HandleControl, Recv, agentVars
  <2>2. AssocInv' /\ Current \subseteq Current'
    BY <1>2, <1>4, AssocKept DEF HandleMessage
  <2> QED
    BY <1>1, <1>2, <2>1, <2>2, CoverTail, CoverMonotonic DEF SetupInv
<1>5. CASE HandleSetupResponse
  <2>1. /\ Alive /\ started /\ toAgent # <<>> /\ toAgent' = Tail(toAgent)
        /\ Head(toAgent).kind = "SETUP" /\ accepted' = Head(toAgent).gen
    BY <1>5 DEF HandleSetupResponse, Recv
  <2>2. AssocInv' /\ Current \subseteq Current'
    BY <1>2, <1>5, AssocKept DEF HandleMessage
  <2> QED
    BY <1>1, <1>2, <2>1, <2>2, CoverTail, CoverMonotonic DEF SetupInv
<1>6. CASE \/ IndicationEvent \/ SetupTimeout \/ SetupTimerExpires \/ SubTimerExpires
           \/ UNCHANGED vars
  <2>1. /\ UNCHANGED <<started, pending, accepted, toAgent>>
        /\ Alive' => Alive
    BY <1>6 DEF IndicationEvent, SetupTimeout, KeepPending, SetupTimerExpires,
                SubTimerExpires, vars, agentVars, Alive
  <2>2. AssocInv' /\ Current \subseteq Current'
    BY <1>2, <1>6, AssocKept
  <2> QED
    BY <1>2, <2>1, <2>2, CoverMonotonic DEF SetupInv
<1>7. CASE RicReads \/ RicAsks \/ RicDeletes
  <2>1. /\ UNCHANGED <<started, pending, accepted, crash>>
        /\ \/ toAgent' = toAgent
           \/ \E m \in Messages : /\ toAgent' = Append(toAgent, m)
                                  /\ m.kind = "SETUP" => m.gen \in Current
    <3>1. CASE RicReads
      <4>1. Msg("SETUP", 0, ric.gen) \in Messages /\ Msg("SETUP", 0, ric.gen).gen = ric.gen
        <5>1. 0 \in Nat /\ ric.gen \in Nat
          BY <1>1 DEF RicStates
        <5> QED
          BY <5>1, Message
      <4>2. ric.gen \in Current
        BY <1>2, <3>1 DEF RicReads, AssocInv, Current
      <4> QED
        BY <3>1, <4>1, <4>2 DEF RicReads, ToAgent, agentVars
    <3>2. CASE RicAsks \/ RicDeletes
      <4>1. /\ asked \subseteq Messages /\ IsFiniteSet(asked) /\ got \subseteq Messages
            /\ ric.gen \in Nat
        BY DEF TypeInv, TypeOK
      <4>2. PICK m \in Messages : m.kind \in Requests /\ Ask(m)
        BY <3>2, <4>1, AskMessage
      <4>3. m.kind # "SETUP"
        BY <4>2 DEF Requests
      <4> QED
        BY <4>2, <4>3 DEF Ask, ToAgent, agentVars
    <3> QED
      BY <1>7, <3>1, <3>2
  <2>2. AssocInv' /\ Current \subseteq Current'
    BY <1>2, <1>7, AssocKept
  <2> QED
    BY <1>1, <1>2, <2>1, <2>2, CoverAppend, CoverMonotonic DEF SetupInv, Alive
<1>8. CASE RicStops
  <2>1. CASE ric.assoc
    <3>1. Msg("SHUT", 0, 0) \in Messages /\ Msg("SHUT", 0, 0).kind = "SHUT"
      BY Message
    <3>2. Covered(toAgent', {}) /\ ShutAfter(toAgent', 0)
      BY <1>1, <1>8, <2>1, <3>1, CoverShut DEF RicStops, ToAgent
    <3>3. AssocInv'
      BY <1>1, <1>8 DEF RicStops, AssocInv, RicStates
    <3> QED
      BY <3>2, <3>3, CoverMonotonic DEF SetupInv
  <2>2. CASE ~ric.assoc
    <3>1. UNCHANGED <<started, pending, accepted, crash, toAgent>>
      BY <1>8, <2>2 DEF RicStops, agentVars
    <3>2. Current = {}
      BY <2>2 DEF Current, Associated
    <3>3. AssocInv'
      BY <1>1, <1>8 DEF RicStops, AssocInv, RicStates
    <3> QED
      BY <1>2, <3>1, <3>2, <3>3, CoverMonotonic DEF SetupInv, Alive
  <2> QED
    BY <2>1, <2>2
<1>9. CASE RicStarts
  <2>1. /\ UNCHANGED <<started, pending, accepted, crash, toAgent, toRic>>
        /\ ~ric.up /\ ric' = [ric EXCEPT !.up = TRUE, !.gen = @ + 1]
    BY <1>9 DEF RicStarts, agentVars
  <2>2. Current = {} /\ ric'.up /\ ric'.assoc = ric.assoc
    BY <1>1, <2>1 DEF Current, Associated, RicStates
  <2>3. AssocInv'
    BY <1>2, <2>1, <2>2 DEF AssocInv, Associated
  <2> QED
    BY <1>2, <2>1, <2>2, <2>3, CoverMonotonic DEF SetupInv, Alive
<1> QED
  BY <1>3, <1>4, <1>5, <1>6, <1>7, <1>8, <1>9 DEF Next, HandleMessage

(* A started agent that watches for no setup has been accepted by the RIC  *)
(* there is, or the notification of a shutdown waits in its socket.        *)
THEOREM SetupSupervised == Spec => []SetupIsSupervised
<1>1. SetupInv => SetupIsSupervised
  BY DEF SetupInv, SetupIsSupervised, Current, ShutAfter
<1>2. Init => TypeInv /\ SetupInv
  BY TypeInvInit, SetupInvInit
<1>3. (TypeInv /\ SetupInv) /\ [Next]_vars => (TypeInv /\ SetupInv)'
  BY TypeInvStep, SetupInvStep
<1> QED
  BY <1>1, <1>2, <1>3, PTL DEF Spec

-----------------------------------------------------------------------------
(* A request is asked once, and is in one place until the RIC reads its    *)
(* answer: "open" is what was asked and not yet answered.                  *)
OpenIn(s, open) == \A k \in DOMAIN s : s[k].kind \in Requests => s[k] \in open
Once(s) == \A j, k \in DOMAIN s : s[j].kind \in Requests /\ s[j] = s[k] => j = k
Apart(s, t) ==
  \A j \in DOMAIN s, k \in DOMAIN t : s[j].kind \in Requests => s[j] # t[k]
Lodged(s, t, open) ==
  OpenIn(s, open) /\ OpenIn(t, open) /\ Once(s) /\ Once(t) /\ Apart(s, t)

AskedInv ==
  /\ got \subseteq asked
  /\ \A m \in asked : m.gen \in 1 .. ric.gen
  /\ \A m \in AskedOf(ric.gen) : m.id <= Cardinality(AskedOf(ric.gen))
  /\ \A m \in asked : m.kind = "DEL" => Sub(m.id, m.gen) \in got

RequestInv == AskedInv /\ Lodged(toAgent, toRic, asked \ got)

(* What is asked, answered, lost and read stays lodged.                    *)
LEMMA LodgedAsk ==
  ASSUME NEW s \in Seq(Messages), NEW t \in Seq(Messages), NEW open, NEW m \in Messages,
         Lodged(s, t, open), m.kind \in Requests => m \notin open
  PROVE  Lodged(Append(s, m), t, open \cup {m})
<1> DEFINE a == Append(s, m)
<1>1. /\ DOMAIN a = DOMAIN s \cup {Len(s) + 1}
      /\ \A k \in DOMAIN s : a[k] = s[k]
      /\ a[Len(s) + 1] = m
  BY SocketSend
<1> HIDE DEF a
<1> QED
  BY <1>1 DEF Lodged, OpenIn, Once, Apart, a

LEMMA LodgedSend ==
  ASSUME NEW s \in Seq(Messages), NEW t \in Seq(Messages), NEW open, NEW m \in Messages,
         Lodged(s, t, open), m.kind \notin Requests
  PROVE  Lodged(Append(s, m), t, open) /\ Lodged(s, Append(t, m), open)
<1>1. \A u \in Seq(Messages) : LET a == Append(u, m) IN
        /\ DOMAIN a = DOMAIN u \cup {Len(u) + 1}
        /\ \A k \in DOMAIN u : a[k] = u[k]
        /\ a[Len(u) + 1] = m
  BY SocketSend
<1> DEFINE a == Append(s, m)
           b == Append(t, m)
<1>2. /\ DOMAIN a = DOMAIN s \cup {Len(s) + 1}
      /\ \A k \in DOMAIN s : a[k] = s[k]
      /\ a[Len(s) + 1] = m
  BY <1>1
<1>3. /\ DOMAIN b = DOMAIN t \cup {Len(t) + 1}
      /\ \A k \in DOMAIN t : b[k] = t[k]
      /\ b[Len(t) + 1] = m
  BY <1>1
<1> HIDE DEF a, b
<1>4. Lodged(a, t, open)
  BY <1>2 DEF Lodged, OpenIn, Once, Apart
<1>5. Lodged(s, b, open)
  BY <1>3 DEF Lodged, OpenIn, Once, Apart
<1> QED
  BY <1>4, <1>5 DEF a, b

LEMMA LodgedTail ==
  ASSUME NEW s \in Seq(Messages), NEW t \in Seq(Messages), NEW open,
         Lodged(s, t, open), s # <<>>
  PROVE  /\ Lodged(Tail(s), t, open \ {Head(s)})
         /\ Lodged(Tail(s), Append(t, Head(s)), open)
<1> DEFINE h == Head(s)
           r == Tail(s)
           a == Append(t, h)
<1>1. /\ h \in Messages /\ 1 \in DOMAIN s /\ h = s[1]
      /\ \A k \in DOMAIN r : k + 1 \in DOMAIN s /\ r[k] = s[k + 1] /\ k + 1 # 1
      /\ \A j, k \in DOMAIN r : j + 1 = k + 1 => j = k
  OBVIOUS
<1>2. /\ DOMAIN a = DOMAIN t \cup {Len(t) + 1}
      /\ \A k \in DOMAIN t : a[k] = t[k]
      /\ a[Len(t) + 1] = h
  BY <1>1, SocketSend
<1> HIDE DEF h, r, a
<1>3. Once(r) /\ OpenIn(r, open) /\ Apart(r, t)
  BY <1>1 DEF Lodged, OpenIn, Once, Apart
<1>4. \A k \in DOMAIN r : r[k].kind \in Requests => r[k] # h
  BY <1>1 DEF Lodged, Once
<1>5. \A k \in DOMAIN t : t[k].kind \in Requests => t[k] # h
  BY <1>1 DEF Lodged, Apart
<1>6. Lodged(r, t, open \ {h})
  BY <1>3, <1>4, <1>5 DEF Lodged, OpenIn
<1>7. h.kind \in Requests => h \in open
  BY <1>1 DEF Lodged, OpenIn
<1>8. OpenIn(a, open) /\ Once(a)
  BY <1>2, <1>5, <1>7 DEF Lodged, OpenIn, Once
<1>9. Apart(r, a)
  BY <1>2, <1>3, <1>4 DEF Apart
<1> QED
  BY <1>3, <1>6, <1>8, <1>9 DEF Lodged, h, r, a

LEMMA LodgedSymmetric ==
  ASSUME NEW s, NEW t, NEW open, Lodged(s, t, open)
  PROVE  Lodged(t, s, open)
BY DEF Lodged, Apart

LEMMA LodgedLess ==
  ASSUME NEW s, NEW t, NEW small, NEW large, Lodged(s, t, small), small \subseteq large
  PROVE  Lodged(s, t, large) /\ Lodged(s, <<>>, large)
BY DEF Lodged, OpenIn, Once, Apart

(* The RIC's requests are new.                                             *)
LEMMA AskIsNew ==
  ASSUME asked \subseteq Messages, IsFiniteSet(asked), got \subseteq Messages,
         ric.gen \in Nat, ric.gen > 0, AskedInv, RicAsks \/ RicDeletes
  PROVE  \E m \in Messages :
           /\ m.kind \in Requests /\ m.gen = ric.gen /\ m \notin asked /\ Ask(m)
           /\ m.kind # "DEL" => m.id = 1 + Cardinality(AskedOf(ric.gen))
           /\ m.kind = "DEL" => Sub(m.id, m.gen) \in got
<1> DEFINE n == Cardinality(AskedOf(ric.gen))
<1>1. n \in Nat
  BY FS_Subset, FS_CardinalityType DEF AskedOf
<1>2. CASE RicAsks
  <2>1. PICK kind \in {"SUB", "CTRL"} : Ask(Msg(kind, 1 + n, ric.gen))
    BY <1>2 DEF RicAsks, AskedOf
  <2> DEFINE m == Msg(kind, 1 + n, ric.gen)
  <2>2. 1 + n \in Nat /\ kind \in Requests /\ kind # "DEL"
    BY <1>1 DEF Requests
  <2>3. m \in Messages /\ m.kind = kind /\ m.id = 1 + n /\ m.gen = ric.gen
    BY <2>2, Message
  <2> HIDE DEF m
  <2>4. m \notin asked
    <3>1. m \in asked => m \in AskedOf(ric.gen)
      BY <2>2, <2>3 DEF AskedOf
    <3>2. m \in AskedOf(ric.gen) => m.id <= n
      BY DEF AskedInv
    <3> QED
      BY <1>1, <2>3, <3>1, <3>2
  <2> QED
    BY <2>1, <2>2, <2>3, <2>4 DEF m
<1>3. CASE RicDeletes
  <2>1. PICK r \in got : /\ r.kind = "SUB" /\ r.gen = ric.gen /\ Msg("DEL", r.id, r.gen) \notin asked
                         /\ Ask(Msg("DEL", r.id, r.gen))
    BY <1>3 DEF RicDeletes
  <2>2. r.id \in Nat /\ r.gen \in Nat /\ "DEL" \in Requests
    BY Message DEF Requests
  <2>3. LET m == Msg("DEL", r.id, r.gen) IN
          m \in Messages /\ m.kind = "DEL" /\ m.gen = r.gen /\ m.id = r.id
    BY <2>2, Message
  <2>4. Sub(r.id, r.gen) = r
    BY <2>1, Message DEF Sub
  <2> QED
    BY <2>1, <2>2, <2>3, <2>4
<1> QED
  BY <1>2, <1>3

LEMMA RequestInvInit == Init => RequestInv
BY DEF Init, RequestInv, AskedInv, AskedOf, Lodged, OpenIn, Once, Apart

LEMMA AskedInvAsk ==
  ASSUME TypeInv, RequestInv, RicAsks \/ RicDeletes
  PROVE  RequestInv'
<1>1. /\ asked \subseteq Messages /\ IsFiniteSet(asked) /\ got \subseteq Messages
      /\ ric.gen \in Nat /\ ric.gen > 0
      /\ toAgent \in Seq(Messages) /\ toRic \in Seq(Messages) /\ AskedInv
  BY DEF TypeInv, TypeOK, RequestInv
<1>2. PICK m \in Messages :
        /\ m.kind \in Requests /\ m.gen = ric.gen /\ m \notin asked /\ Ask(m)
        /\ m.kind # "DEL" => m.id = 1 + Cardinality(AskedOf(ric.gen))
        /\ m.kind = "DEL" => Sub(m.id, m.gen) \in got
  BY <1>1, AskIsNew
<1>3. /\ asked' = asked \cup {m} /\ got' = got /\ ric' = ric
      /\ toAgent' = Append(toAgent, m) /\ toRic' = toRic
  BY <1>2 DEF Ask, ToAgent
<1>4. Lodged(toAgent, toRic, asked \ got)'
  <2>1. asked' \ got' = (asked \ got) \cup {m}
    BY <1>1, <1>2, <1>3 DEF AskedInv
  <2>2. Lodged(Append(toAgent, m), toRic, (asked \ got) \cup {m})
    BY <1>1, <1>2, LodgedAsk DEF RequestInv
  <2> QED
    BY <1>3, <2>1, <2>2
<1>5. AskedInv'
  <2> DEFINE A == AskedOf(ric.gen)
  <2>1. IsFiniteSet(A) /\ m \notin A /\ Cardinality(A) \in Nat
    BY <1>1, <1>2, FS_Subset, FS_CardinalityType DEF AskedOf
  <2>2. \A a \in A : a.id \in Nat /\ a.id <= Cardinality(A)
    BY <1>1 DEF AskedInv, AskedOf, Messages
  <2>3. A' = IF m.kind = "DEL" THEN A ELSE A \cup {m}
    BY <1>2, <1>3 DEF AskedOf
  <2>4. Cardinality(A \cup {m}) = Cardinality(A) + 1
    BY <2>1, FS_AddElement
  <2>5. \A a \in A' : a.id <= Cardinality(A')
    <3>1. CASE m.kind = "DEL"
      BY <2>2, <2>3, <3>1
    <3>2. CASE m.kind # "DEL"
      <4>1. A' = A \cup {m} /\ Cardinality(A') = Cardinality(A) + 1
        BY <2>3, <2>4, <3>2
      <4>2. m.id = Cardinality(A) + 1
        BY <1>2, <2>1, <3>2
      <4> HIDE DEF A
      <4> QED
        BY <2>1, <2>2, <4>1, <4>2
    <3> QED
      BY <3>1, <3>2
  <2>6. \A a \in asked' : a.gen \in 1 .. ric.gen
    BY <1>1, <1>2, <1>3 DEF AskedInv
  <2>7. \A a \in asked' : a.kind = "DEL" => Sub(a.id, a.gen) \in got'
    BY <1>1, <1>2, <1>3 DEF AskedInv
  <2> QED
    BY <1>1, <1>3, <2>5, <2>6, <2>7 DEF AskedInv
<1> QED
  BY <1>4, <1>5 DEF RequestInv

LEMMA AskedKept ==
  ASSUME AskedInv, asked' = asked, got' = got, ric'.gen = ric.gen
  PROVE  AskedInv'
BY DEF AskedInv, AskedOf

LEMMA RequestInvStep ==
  ASSUME TypeInv, RequestInv, [Next]_vars
  PROVE  RequestInv'
<1> DEFINE open == asked \ got
<1>1. /\ toAgent \in Seq(Messages) /\ toRic \in Seq(Messages) /\ ric \in RicStates
      /\ subs \subseteq [id : Nat, gen : Nat] /\ subsReady \subseteq subs
  BY DEF TypeInv, TypeOK, RicStates
<1>2. AskedInv /\ Lodged(toAgent, toRic, open)
  BY DEF RequestInv
<1> HIDE DEF open
<1>3. \A m : Send(m) => ric'.gen = ric.gen
  BY <1>1 DEF Send, RicStates
<1>4. CASE HandleMessage
  <2>1. /\ toAgent # <<>> /\ toAgent' = Tail(toAgent) /\ asked' = asked /\ got' = got
        /\ (toRic' = toRic /\ ric' = ric) \/ Send(Head(toAgent))
    BY <1>4 DEF HandleMessage, HandleSubscription, HandleDelete, HandleControl,
                HandleSetupResponse, HandleShutdown, Recv, ricVars
  <2>2. AskedInv' /\ open' = open
    BY <1>2, <1>3, <2>1, AskedKept DEF open
  <2>3. \/ toRic' = toRic
        \/ toRic' = Append(toRic, Head(toAgent))
    BY <2>1 DEF Send
  <2>4. /\ Lodged(Tail(toAgent), toRic, open \ {Head(toAgent)})
        /\ Lodged(Tail(toAgent), Append(toRic, Head(toAgent)), open)
    BY <1>1, <1>2, <2>1, LodgedTail
  <2>5. Lodged(Tail(toAgent), toRic, open)
    BY <2>4, LodgedLess
  <2> QED
    BY <2>1, <2>2, <2>3, <2>4, <2>5 DEF RequestInv, open
<1>5. CASE Start \/ SetupTimeout \/ IndicationEvent
  <2>1. /\ toAgent' = toAgent /\ asked' = asked /\ got' = got
        /\ \/ toRic' = toRic /\ ric' = ric
           \/ \E m \in Messages : m.kind \notin Requests /\ Send(m)
    <3>1. CASE Start \/ SetupTimeout
      <4>1. Msg("SETUP", 0, 0) \in Messages /\ Msg("SETUP", 0, 0).kind \notin Requests
        BY Message DEF Requests
      <4> QED
        BY <3>1, <4>1 DEF Start, SetupTimeout, SendSetup
    <3>2. CASE IndicationEvent
      <4>1. PICK r \in subsReady : Send(Msg("IND", r.id, r.gen))
        BY <3>2 DEF IndicationEvent
      <4>2. r.id \in Nat /\ r.gen \in Nat
        BY <1>1
      <4>3. /\ Msg("IND", r.id, r.gen) \in Messages
            /\ Msg("IND", r.id, r.gen).kind \notin Requests
        BY <4>2, Message DEF Requests
      <4> QED
        BY <3>2, <4>1, <4>3 DEF IndicationEvent
    <3> QED
      BY <1>5, <3>1, <3>2
  <2>2. AskedInv' /\ open' = open
    BY <1>2, <1>3, <2>1, AskedKept DEF open
  <2>3. Lodged(toAgent, toRic', open)
    <3>1. CASE \E m \in Messages : m.kind \notin Requests /\ Send(m)
      <4>1. PICK m \in Messages : m.kind \notin Requests /\ Send(m)
        BY <3>1
      <4>2. Lodged(toAgent, Append(toRic, m), open)
        BY <1>1, <1>2, <4>1, LodgedSend
      <4> QED
        BY <1>2, <4>1, <4>2 DEF Send
    <3> QED
      BY <1>2, <2>1, <3>1
  <2> QED
    BY <2>1, <2>2, <2>3 DEF RequestInv, open
<1>6. CASE RicReads
  <2> DEFINE h == Head(toRic)
  <2>1. toRic # <<>> /\ toRic' = Tail(toRic) /\ asked' = asked
    BY <1>6 DEF RicReads
  <2>2. /\ Lodged(toAgent, Tail(toRic), open \ {h})
        /\ Lodged(toAgent, Tail(toRic), open)
    BY <1>1, <1>2, <2>1, LodgedSymmetric, LodgedTail, LodgedLess
  <2>3. h.kind \in Requests => h \in open
    BY <1>1, <1>2, <2>1 DEF Lodged, OpenIn
  <2>4. ric'.gen = ric.gen
    BY <1>1, <1>6 DEF RicReads, RicStates
  <2>5. CASE h.kind \in Requests
    <3>1. h.kind # "SETUP"
      BY <2>5 DEF Requests
    <3>2. got' = got \cup {h} /\ toAgent' = toAgent
      BY <1>6, <2>5, <3>1 DEF RicReads
    <3>3. open' = open \ {h}
      BY <2>1, <3>2 DEF open
    <3>4. AskedInv'
      BY <1>2, <2>1, <2>3, <2>4, <2>5, <3>2 DEF AskedInv, AskedOf, open
    <3> QED
      BY <2>1, <2>2, <3>2, <3>3, <3>4 DEF RequestInv, open
  <2>6. CASE h.kind \notin Requests
    <3>1. /\ got' = got
          /\ toAgent' = toAgent \/ toAgent' = Append(toAgent, Msg("SETUP", 0, ric.gen))
      BY <1>6, <2>6 DEF RicReads, ToAgent
    <3>2. Tail(toRic) \in Seq(Messages)
      BY <1>1, <2>1
    <3>3. ric.gen \in Nat /\ 0 \in Nat
      BY <1>1 DEF RicStates
    <3>4. /\ Msg("SETUP", 0, ric.gen) \in Messages
          /\ Msg("SETUP", 0, ric.gen).kind \notin Requests
      BY <3>3, Message DEF Requests
    <3>5. Lodged(toAgent', Tail(toRic), open)
      BY <1>1, <2>2, <3>1, <3>2, <3>4, LodgedSend
    <3> QED
      BY <1>2, <2>1, <2>4, <3>1, <3>5, AskedKept DEF RequestInv, open
  <2> QED
    BY <2>5, <2>6
<1>7. CASE RicStops
  <2>1. /\ toRic' = <<>> /\ asked' = asked /\ got' = got
        /\ toAgent' = toAgent \/ toAgent' = Append(toAgent, Msg("SHUT", 0, 0))
    BY <1>7 DEF RicStops, ToAgent
  <2>2. ric'.gen = ric.gen
    BY <1>1, <1>7 DEF RicStops, RicStates
  <2>3. Msg("SHUT", 0, 0) \in Messages /\ Msg("SHUT", 0, 0).kind \notin Requests
    BY Message DEF Requests
  <2>4. Lodged(toAgent', toRic, open)
    BY <1>1, <1>2, <2>1, <2>3, LodgedSend
  <2>5. Lodged(toAgent', <<>>, open)
    BY <2>4, LodgedLess
  <2> QED
    BY <1>2, <2>1, <2>2, <2>5, AskedKept DEF RequestInv, open
<1>8. CASE RicStarts
  <2>1. /\ UNCHANGED <<toAgent, toRic, asked, got>>
        /\ ric' = [ric EXCEPT !.up = TRUE, !.gen = @ + 1]
    BY <1>8 DEF RicStarts
  <2>2. ric.gen \in Nat /\ ric'.gen = ric.gen + 1
    BY <1>1, <2>1 DEF RicStates
  <2>3. \A m \in asked : m.gen \in 1 .. ric.gen
    BY <1>2 DEF AskedInv
  <2>4. AskedOf(ric.gen)' = {}
    BY <2>1, <2>2, <2>3 DEF AskedOf
  <2>5. AskedInv'
    BY <1>2, <2>1, <2>2, <2>3, <2>4 DEF AskedInv
  <2> QED
    BY <1>2, <2>1, <2>5 DEF RequestInv, open
<1>9. CASE SetupTimerExpires \/ SubTimerExpires \/ UNCHANGED vars
  <2>1. UNCHANGED <<toAgent, toRic, ric, asked, got>>
    BY <1>9 DEF SetupTimerExpires, SubTimerExpires, vars, ricVars
  <2> QED
    BY <1>2, <2>1, AskedKept DEF RequestInv, open
<1> QED
  BY <1>4, <1>5, <1>6, <1>7, <1>8, <1>9, AskedInvAsk DEF Next

(* Every request is answered once, whatever incarnation of the RIC made it:*)
(* an answer the RIC reads is to a request that is open.                   *)
THEOREM AnsweredOnce == Spec => []AnswersAreOpen
<1>1. TypeInv /\ RequestInv => AnswersAreOpen
  <2> SUFFICES ASSUME TypeInv, RequestInv, toRic # <<>>, Head(toRic).kind \in Requests
               PROVE  Head(toRic) \in asked \ got
    BY DEF AnswersAreOpen
  <2>1. 1 \in DOMAIN toRic /\ Head(toRic) = toRic[1]
    BY DEF TypeInv, TypeOK
  <2> QED
    BY <2>1 DEF RequestInv, Lodged, OpenIn
<1>2. Init => TypeInv /\ RequestInv
  BY TypeInvInit, RequestInvInit
<1>3. (TypeInv /\ RequestInv) /\ [Next]_vars => (TypeInv /\ RequestInv)'
  BY TypeInvStep, RequestInvStep
<1> QED
  BY <1>1, <1>2, <1>3, PTL DEF Spec

-----------------------------------------------------------------------------
(* The first RIC: a subscription's answer is ahead of its indications, the *)
(* answer to its deletion behind them.  "g" are the answers it has read.   *)
Ahead(s, g, m, k) == m \in g \/ \E j \in DOMAIN s : j < k /\ s[j] = m
Subscribed(s, g, i, k) ==
  Ahead(s, g, Sub(i, 1), k) /\ ~Ahead(s, g, Del(i, 1), k)

InOrder(s, g, ss) ==
  /\ \A r \in ss : r.gen = 1 /\ Subscribed(s, g, r.id, Len(s) + 1)
  /\ \A k \in DOMAIN s : s[k].kind = "IND" =>
       s[k].gen = 1 /\ Subscribed(s, g, s[k].id, k)

SubsInv == ric.gen = 1 /\ ric.up => InOrder(toRic, got, subs)

LEMMA AheadSend ==
  ASSUME NEW s \in Seq(Messages), NEW g, NEW x \in Messages, NEW m
  PROVE  /\ \A k \in DOMAIN s \cup {Len(s) + 1} :
              Ahead(Append(s, x), g, m, k) <=> Ahead(s, g, m, k)
         /\ Ahead(Append(s, x), g, m, Len(Append(s, x)) + 1)
              <=> Ahead(s, g, m, Len(s) + 1) \/ x = m
<1> DEFINE a == Append(s, x)
<1>1. /\ DOMAIN a = DOMAIN s \cup {Len(s) + 1}
      /\ \A k \in DOMAIN s : a[k] = s[k]
      /\ a[Len(s) + 1] = x /\ Len(a) = Len(s) + 1
  BY SocketSend
<1>2. /\ Len(s) \in Nat
      /\ \A k \in DOMAIN s : k \in Nat /\ k < Len(s) + 1 /\ ~(Len(s) + 1 < k)
  OBVIOUS
<1> HIDE DEF a
<1>3. \A k \in DOMAIN s \cup {Len(s) + 1} : Ahead(a, g, m, k) <=> Ahead(s, g, m, k)
  BY <1>1, <1>2 DEF Ahead
<1>4. Ahead(a, g, m, (Len(s) + 1) + 1) <=> Ahead(s, g, m, Len(s) + 1) \/ x = m
  <2>1. \A j \in DOMAIN s \cup {Len(s) + 1} : j < (Len(s) + 1) + 1
    BY <1>2
  <2> QED
    BY <1>1, <1>2, <2>1 DEF Ahead
<1> QED
  BY <1>1, <1>3, <1>4 DEF a

LEMMA AheadRead ==
  ASSUME NEW s \in Seq(Messages), s # <<>>, NEW g, NEW h, NEW m \in Messages,
         h = IF Head(s).kind \in Requests THEN g \cup {Head(s)} ELSE g,
         m.kind \in Requests, NEW k \in DOMAIN s \cup {Len(s) + 1}, k # 1
  PROVE  Ahead(Tail(s), h, m, k - 1) <=> Ahead(s, g, m, k)
<1> DEFINE t == Tail(s)
<1>1. /\ 1 \in DOMAIN s /\ Head(s) = s[1] /\ 1 < k
      /\ \A j \in DOMAIN t : /\ j + 1 \in DOMAIN s /\ t[j] = s[j + 1]
                             /\ j < k - 1 => j + 1 < k
      /\ \A j \in DOMAIN s : j < k /\ j # 1 =>
           j - 1 \in DOMAIN t /\ t[j - 1] = s[j] /\ j - 1 < k - 1
  OBVIOUS
<1> HIDE DEF t
<1>2. ASSUME Ahead(t, h, m, k - 1) PROVE Ahead(s, g, m, k)
  BY <1>1, <1>2 DEF Ahead
<1>3. ASSUME Ahead(s, g, m, k) PROVE Ahead(t, h, m, k - 1)
  <2>1. CASE m \in g
    BY <2>1 DEF Ahead
  <2>2. CASE m \notin g
    <3>1. PICK j \in DOMAIN s : j < k /\ s[j] = m
      BY <1>3, <2>2 DEF Ahead
    <3>2. CASE j = 1
      BY <1>1, <3>1, <3>2 DEF Ahead
    <3>3. CASE j # 1
      BY <1>1, <3>1, <3>3 DEF Ahead
    <3> QED
      BY <3>2, <3>3
  <2> QED
    BY <2>1, <2>2
<1> QED
  BY <1>2, <1>3 DEF t

LEMMA OrderSend ==
  ASSUME NEW s \in Seq(Messages), NEW g, NEW ss, InOrder(s, g, ss),
         NEW x \in Messages, NEW next,
         x.kind = "IND" => \E r \in ss : r.id = x.id /\ r.gen = x.gen,
         \A r \in next :
           /\ x # Del(r.id, 1)
           /\ \/ r \in ss
              \/ /\ r.gen = 1 /\ x = Sub(r.id, 1)
                 /\ ~Ahead(s, g, Del(r.id, 1), Len(s) + 1)
  PROVE  InOrder(Append(s, x), g, next)
<1> DEFINE a == Append(s, x)
<1>1. /\ DOMAIN a = DOMAIN s \cup {Len(s) + 1}
      /\ \A k \in DOMAIN s : a[k] = s[k]
      /\ a[Len(s) + 1] = x
  BY SocketSend
<1>2. \A m : /\ \A k \in DOMAIN s \cup {Len(s) + 1} : Ahead(a, g, m, k) <=> Ahead(s, g, m, k)
             /\ Ahead(a, g, m, Len(a) + 1) <=> Ahead(s, g, m, Len(s) + 1) \/ x = m
  BY AheadSend
<1> HIDE DEF a
<1>3. \A r \in next : r.gen = 1 /\ Subscribed(a, g, r.id, Len(a) + 1)
  BY <1>2 DEF InOrder, Subscribed
<1>4. \A k \in DOMAIN a : a[k].kind = "IND" =>
        a[k].gen = 1 /\ Subscribed(a, g, a[k].id, k)
  <2>1. \A i : \A k \in DOMAIN s \cup {Len(s) + 1} :
          Subscribed(a, g, i, k) <=> Subscribed(s, g, i, k)
    BY <1>2 DEF Subscribed
  <2>2. ASSUME NEW k \in DOMAIN s, a[k].kind = "IND"
        PROVE  a[k].gen = 1 /\ Subscribed(a, g, a[k].id, k)
    BY <1>1, <2>1, <2>2 DEF InOrder
  <2>3. ASSUME x.kind = "IND"
        PROVE  x.gen = 1 /\ Subscribed(a, g, x.id, Len(s) + 1)
    BY <2>1, <2>3 DEF InOrder
  <2> QED
    BY <1>1, <2>2, <2>3
<1> QED
  BY <1>3, <1>4 DEF InOrder, a

LEMMA OrderRead ==
  ASSUME NEW s \in Seq(Messages), s # <<>>, NEW g, NEW h,
         h = IF Head(s).kind \in Requests THEN g \cup {Head(s)} ELSE g,
         NEW ss \in SUBSET [id : Nat, gen : Nat], InOrder(s, g, ss)
  PROVE  InOrder(Tail(s), h, ss)
<1> DEFINE t == Tail(s)
<1>1. /\ Len(s) + 1 # 1 /\ Len(t) + 1 = (Len(s) + 1) - 1
      /\ \A k \in DOMAIN t : /\ k + 1 \in DOMAIN s /\ k + 1 # 1 /\ (k + 1) - 1 = k
                             /\ t[k] = s[k + 1] /\ s[k + 1] \in Messages
  OBVIOUS
<1>2. \A i \in Nat : Sub(i, 1) \in Messages /\ Sub(i, 1).kind \in Requests
                     /\ Del(i, 1) \in Messages /\ Del(i, 1).kind \in Requests
  BY Message DEF Sub, Del, Requests
<1>3. \A i \in Nat, k \in DOMAIN s \cup {Len(s) + 1} : k # 1 =>
        (Subscribed(t, h, i, k - 1) <=> Subscribed(s, g, i, k))
  BY <1>2, AheadRead DEF Subscribed
<1> HIDE DEF t
<1>4. \A r \in ss : r.gen = 1 /\ Subscribed(t, h, r.id, Len(t) + 1)
  BY <1>1, <1>3 DEF InOrder
<1>5. \A k \in DOMAIN t : t[k].kind = "IND" =>
        t[k].gen = 1 /\ Subscribed(t, h, t[k].id, k)
  <2> SUFFICES ASSUME NEW k \in DOMAIN t, t[k].kind = "IND"
               PROVE  t[k].gen = 1 /\ Subscribed(t, h, t[k].id, k)
    OBVIOUS
  <2>1. /\ k + 1 \in DOMAIN s /\ k + 1 # 1 /\ (k + 1) - 1 = k
        /\ t[k] = s[k + 1] /\ t[k].id \in Nat
    BY <1>1, Message
  <2>2. t[k].gen = 1 /\ Subscribed(s, g, t[k].id, k + 1)
    BY <2>1 DEF InOrder
  <2>3. Subscribed(t, h, t[k].id, (k + 1) - 1)
    BY <1>3, <2>1, <2>2
  <2> QED
    BY <2>1, <2>2, <2>3
<1> QED
  BY <1>4, <1>5 DEF InOrder, t

LEMMA SubsInvInit == Init => SubsInv
BY DEF Init, SubsInv, InOrder

LEMMA Deletion ==
  \A i : Del(i, 1).kind = "DEL" /\ Del(i, 1).id = i /\ Del(i, 1).gen = 1
BY DEF Del, Msg

(* The agent's answers and indications keep the order.                     *)
LEMMA SubsInvAgent ==
  ASSUME TypeInv, RequestInv, ric.gen = 1, ric.up, InOrder(toRic, got, subs),
         Start \/ HandleMessage \/ IndicationEvent \/ SetupTimeout
  PROVE  InOrder(toRic', got', subs')
<1>1. /\ toAgent \in Seq(Messages) /\ toRic \in Seq(Messages) /\ ric \in RicStates
      /\ subs \subseteq [id : Nat, gen : Nat] /\ subsReady \subseteq subs
      /\ asked \subseteq Messages
  BY DEF TypeInv, TypeOK, RicStates
<1>2. got' = got /\ \A m : Send(m) => toRic' = Append(toRic, m)
  BY DEF Send, Start, HandleMessage, HandleSubscription, HandleDelete, HandleControl,
         HandleSetupResponse, HandleShutdown, IndicationEvent, SetupTimeout, ricVars
<1>3. \A r \in subs : r.gen = 1
  BY DEF InOrder
<1>4. CASE Start \/ SetupTimeout
  <2>1. subs' = subs /\ (toRic' = toRic \/ toRic' = Append(toRic, Msg("SETUP", 0, 0)))
    BY <1>2, <1>4 DEF Start, SetupTimeout, SendSetup
  <2>2. Msg("SETUP", 0, 0) \in Messages /\ Msg("SETUP", 0, 0).kind = "SETUP"
    BY Message
  <2>3. \A r \in subs : Msg("SETUP", 0, 0) # Del(r.id, 1)
    BY <2>2, Deletion, Zenon
  <2>4. InOrder(Append(toRic, Msg("SETUP", 0, 0)), got, subs)
    BY <1>1, <2>2, <2>3, OrderSend
  <2> QED
    BY <1>2, <2>1, <2>4
<1>5. CASE IndicationEvent
  <2>1. PICK r \in subsReady : subs' = subs /\ Send(Msg("IND", r.id, r.gen))
    BY <1>5 DEF IndicationEvent
  <2> DEFINE x == Msg("IND", r.id, r.gen)
  <2>2. x \in Messages /\ x.kind = "IND" /\ x.id = r.id /\ x.gen = r.gen /\ r \in subs
    <3>1. r.id \in Nat /\ r.gen \in Nat /\ r \in subs
      BY <1>1, <2>1
    <3> QED
      BY <3>1 DEF Msg, Messages
  <2> HIDE DEF x
  <2>3. \A q \in subs : x # Del(q.id, 1)
    BY <2>2, Deletion, Zenon
  <2>4. InOrder(Append(toRic, x), got, subs)
    BY <1>1, <2>2, <2>3, OrderSend
  <2> QED
    BY <1>2, <2>1, <2>4 DEF x
<1>6. CASE HandleSubscription
  <2> DEFINE m == Head(toAgent)
  <2>1. /\ toAgent # <<>> /\ m.kind = "SUB" /\ Send(m)
        /\ subs' = subs \cup {[id |-> m.id, gen |-> m.gen]}
    BY <1>6 DEF HandleSubscription, Recv
  <2>2. m \in Messages /\ 1 \in DOMAIN toAgent /\ m = toAgent[1]
    BY <1>1, <2>1
  <2>3. m \in asked \ got
    BY <2>1, <2>2 DEF RequestInv, Lodged, OpenIn, Requests
  <2>4. m.gen = 1
    BY <2>3 DEF RequestInv, AskedInv
  <2> HIDE DEF m
  <2>5. m = Sub(m.id, 1) /\ m.id \in Nat
    BY <2>1, <2>2, <2>4, Message DEF Sub
  <2>6. \A i \in Nat : /\ Del(i, 1) \in Messages /\ Del(i, 1).kind = "DEL"
                       /\ Del(i, 1).id = i /\ Del(i, 1).gen = 1
    BY Message DEF Del, Requests
  <2>7. Del(m.id, 1) \notin asked
    BY <2>3, <2>5, <2>6 DEF RequestInv, AskedInv
  <2>8. ~Ahead(toRic, got, Del(m.id, 1), Len(toRic) + 1)
    <3>1. got \subseteq asked
      BY DEF RequestInv, AskedInv
    <3>2. \A k \in DOMAIN toRic : toRic[k] # Del(m.id, 1)
      BY <2>5, <2>6, <2>7 DEF RequestInv, Lodged, OpenIn, Requests
    <3> QED
      BY <2>7, <3>1, <3>2 DEF Ahead
  <2>9. \A r \in subs' : /\ m # Del(r.id, 1)
                         /\ \/ r \in subs
                            \/ /\ r.gen = 1 /\ m = Sub(r.id, 1)
                               /\ ~Ahead(toRic, got, Del(r.id, 1), Len(toRic) + 1)
    <3>1. \A r \in subs' : r.id \in Nat
      BY <1>1, <2>1, <2>5
    <3> QED
      BY <2>1, <2>4, <2>5, <2>6, <2>8, <3>1
  <2>10. InOrder(Append(toRic, m), got, subs')
    BY <1>1, <2>1, <2>2, <2>9, OrderSend
  <2> QED
    BY <1>2, <2>1, <2>10
<1>7. CASE HandleDelete
  <2> DEFINE m == Head(toAgent)
  <2>1. toAgent # <<>> /\ m.kind = "DEL"
    BY <1>7 DEF HandleDelete, Recv
  <2>2. m \in Messages
    BY <1>1, <2>1
  <2>3. CASE toRic' = toRic /\ subs' = subs
    BY <1>2, <2>3
  <2>4. CASE \E r \in subs : r.id = m.id /\ subs' = subs \ {r} /\ Send(m)
    <3>1. PICK r \in subs : r.id = m.id /\ subs' = subs \ {r} /\ Send(m)
      BY <2>4
    <3> HIDE DEF m
    <3>2. \A q \in subs' : q \in subs /\ q.id # m.id
      <4>1. \A q \in subs : q = [id |-> q.id, gen |-> q.gen]
        BY <1>1
      <4> QED
        BY <1>3, <3>1, <4>1
    <3>3. \A q \in subs' : m # Del(q.id, 1)
      BY <3>2, Deletion, Zenon
    <3>4. InOrder(Append(toRic, m), got, subs')
      BY <1>1, <2>1, <2>2, <3>2, <3>3, OrderSend
    <3> QED
      BY <1>2, <3>1, <3>4
  <2> QED
    BY <1>7, <2>3, <2>4 DEF HandleDelete, StopIndEvent
<1>8. CASE HandleControl
  <2> DEFINE m == Head(toAgent)
  <2>1. toAgent # <<>> /\ m.kind = "CTRL" /\ Send(m) /\ subs' = subs
    BY <1>8 DEF HandleControl, Recv, agentVars
  <2>2. m \in Messages
    BY <1>1, <2>1
  <2> HIDE DEF m
  <2>3. \A q \in subs : m # Del(q.id, 1)
    BY <2>1, Deletion, Zenon
  <2>4. InOrder(Append(toRic, m), got, subs)
    BY <1>1, <2>1, <2>2, <2>3, OrderSend
  <2> QED
    BY <1>2, <2>1, <2>4
<1>9. CASE HandleSetupResponse \/ HandleShutdown
  BY <1>9, <1>2 DEF HandleSetupResponse, HandleShutdown
<1> QED
  BY <1>4, <1>5, <1>6, <1>7, <1>8, <1>9 DEF HandleMessage

LEMMA SubsInvStep ==
  ASSUME TypeInv, RequestInv, SubsInv, [Next]_vars
  PROVE  SubsInv'
<1>1. /\ toRic \in Seq(Messages) /\ ric \in RicStates /\ ric.gen > 0
      /\ subs \in SUBSET [id : Nat, gen : Nat]
  BY DEF TypeInv, TypeOK, RicStates
<1>2. CASE Start \/ HandleMessage \/ IndicationEvent \/ SetupTimeout
  <2>1. (\E m : Send(m)) \/ ric' = ric
    BY <1>2 DEF Start, HandleMessage, HandleSubscription, HandleDelete, HandleControl,
                HandleSetupResponse, HandleShutdown, IndicationEvent, SetupTimeout,
                SendSetup, ricVars
  <2>2. ric'.gen = ric.gen /\ ric'.up = ric.up
    BY <1>1, <2>1 DEF Send, RicStates
  <2> QED
    BY <1>2, <2>2, SubsInvAgent DEF SubsInv
<1>3. CASE RicReads
  <2>1. /\ toRic # <<>> /\ toRic' = Tail(toRic) /\ subs' = subs
        /\ got' = IF Head(toRic).kind \in Requests THEN got \cup {Head(toRic)} ELSE got
        /\ ric' = ric \/ ric' = [ric EXCEPT !.setUp = TRUE]
    BY <1>3 DEF RicReads, agentVars, Requests
  <2>2. ric'.gen = ric.gen /\ ric'.up = ric.up
    BY <1>1, <2>1 DEF RicStates
  <2>3. InOrder(toRic, got, subs) => InOrder(Tail(toRic), got', subs)
    BY <1>1, <2>1, OrderRead
  <2> QED
    BY <2>1, <2>2, <2>3 DEF SubsInv
<1>4. CASE RicStops \/ RicStarts
  <2>1. ric'.up = FALSE \/ ric'.gen = ric.gen + 1
    BY <1>1, <1>4 DEF RicStops, RicStarts, RicStates
  <2> QED
    BY <1>1, <2>1 DEF SubsInv, RicStates
<1>5. CASE RicAsks \/ RicDeletes \/ SetupTimerExpires \/ SubTimerExpires \/ UNCHANGED vars
  <2>1. UNCHANGED <<toRic, got, subs, ric>>
    BY <1>5 DEF RicAsks, RicDeletes, Ask, SetupTimerExpires, SubTimerExpires, vars,
                agentVars, ricVars
  <2> QED
    BY <2>1 DEF SubsInv
<1> QED
  BY <1>2, <1>3, <1>4, <1>5 DEF Next

(* The first RIC reads no indication before its subscription's answer, and *)
(* none after the answer to the subscription's deletion.                   *)
THEOREM IndicationsInOrder == Spec => []IndicationsAreSubscribed
<1>1. TypeInv /\ SetupInv /\ SubsInv => IndicationsAreSubscribed
  <2> SUFFICES ASSUME TypeInv, SetupInv, SubsInv, toRic # <<>>,
                      Head(toRic).kind = "IND", ric.gen = 1
               PROVE  /\ [Head(toRic) EXCEPT !.kind = "SUB"] \in got
                      /\ [Head(toRic) EXCEPT !.kind = "DEL"] \notin got
    BY DEF IndicationsAreSubscribed
  <2> DEFINE h == Head(toRic)
  <2>1. /\ h \in Messages /\ 1 \in DOMAIN toRic /\ h = toRic[1]
        /\ \A j \in DOMAIN toRic : ~(j < 1)
    BY DEF TypeInv, TypeOK
  <2>2. ric.up
    BY DEF SetupInv, AssocInv, Associated
  <2> HIDE DEF h
  <2>3. h.gen = 1 /\ Subscribed(toRic, got, h.id, 1)
    BY <2>1, <2>2 DEF SubsInv, InOrder, h
  <2>4. Sub(h.id, 1) \in got /\ Del(h.id, 1) \notin got
    BY <2>1, <2>3 DEF Subscribed, Ahead
  <2> QED
    BY <2>1, <2>3, <2>4, Message DEF Sub, Del, h
<1>2. Init => TypeInv /\ SetupInv /\ RequestInv /\ SubsInv
  BY TypeInvInit, SetupInvInit, RequestInvInit, SubsInvInit
<1>3. (TypeInv /\ SetupInv /\ RequestInv /\ SubsInv) /\ [Next]_vars
        => (TypeInv /\ SetupInv /\ RequestInv /\ SubsInv)'
  BY TypeInvStep, SetupInvStep, RequestInvStep, SubsInvStep
<1> QED
  BY <1>1, <1>2, <1>3, PTL DEF Spec

-----------------------------------------------------------------------------
(* A RIC that answers one E2 SETUP-REQUEST and does not shut down: the     *)
(* first setup timer is the only one until the answer is handled.          *)
OneResponse(s) ==
  /\ \A k \in DOMAIN s : s[k].kind # "SHUT"
  /\ \A j, k \in DOMAIN s : s[j].kind = "SETUP" /\ s[k].kind = "SETUP" => j = k
SomeResponse(s) == \E k \in DOMAIN s : s[k].kind = "SETUP"

OneSetup ==
  /\ OneResponse(toAgent)
  /\ ~ric.assoc => toAgent = <<>> /\ ~ric.setUp /\ asked = {} /\ subs = {}
  /\ ~started => pending = 0 /\ toRic = <<>>
  /\ ric.setUp => started
  /\ started /\ ~ric.setUp => pending = 1
  /\ pending \in {0, 1}
  /\ SomeResponse(toAgent) => pending = 1 /\ ric.setUp

(* A subscription whose deletion is not answered is there to be deleted.   *)
Kept(s, g, ss, gen) ==
  /\ \A r \in ss : r.gen = gen
  /\ \A i \in Nat :
       /\ Ahead(s, g, Sub(i, gen), Len(s) + 1)
       /\ ~Ahead(s, g, Del(i, gen), Len(s) + 1)
       => [id |-> i, gen |-> gen] \in ss

SubsKept ==
  ric.assoc => /\ \A m \in asked : m.gen = ric.gen
               /\ Kept(toRic, got, subs, ric.gen)

PacedInv == ~ric.shutDown => OneSetup /\ SubsKept /\ Alive

LEMMA ResponseTail ==
  ASSUME NEW s \in Seq(Messages), s # <<>>, OneResponse(s)
  PROVE  /\ OneResponse(Tail(s))
         /\ SomeResponse(Tail(s)) => SomeResponse(s)
         /\ Head(s).kind = "SETUP" => SomeResponse(s) /\ ~SomeResponse(Tail(s))
         /\ Head(s).kind # "SHUT"
<1> DEFINE t == Tail(s)
<1>1. /\ 1 \in DOMAIN s /\ Head(s) = s[1]
      /\ \A k \in DOMAIN t : k + 1 \in DOMAIN s /\ t[k] = s[k + 1] /\ k + 1 # 1
      /\ \A j, k \in DOMAIN t : j + 1 = k + 1 => j = k
  OBVIOUS
<1> HIDE DEF t
<1> QED
  BY <1>1 DEF OneResponse, SomeResponse, t

LEMMA ResponseAppend ==
  ASSUME NEW s \in Seq(Messages), NEW m \in Messages, OneResponse(s),
         m.kind # "SHUT", m.kind = "SETUP" => ~SomeResponse(s)
  PROVE  /\ OneResponse(Append(s, m))
         /\ SomeResponse(Append(s, m)) <=> SomeResponse(s) \/ m.kind = "SETUP"
<1> DEFINE a == Append(s, m)
<1>1. /\ DOMAIN a = DOMAIN s \cup {Len(s) + 1}
      /\ \A k \in DOMAIN s : a[k] = s[k]
      /\ a[Len(s) + 1] = m
  BY SocketSend
<1> HIDE DEF a
<1> QED
  BY <1>1 DEF OneResponse, SomeResponse, a

LEMMA KeptSend ==
  ASSUME NEW s \in Seq(Messages), NEW g, NEW ss, NEW gen \in Nat, Kept(s, g, ss, gen),
         NEW x \in Messages, NEW next,
         \A r \in next : r.gen = gen,
         \A r \in ss : r \in next \/ x = Del(r.id, gen),
         x.kind = "SUB" => [id |-> x.id, gen |-> gen] \in next
  PROVE  Kept(Append(s, x), g, next, gen)
<1>1. \A m : Ahead(Append(s, x), g, m, Len(Append(s, x)) + 1)
               <=> Ahead(s, g, m, Len(s) + 1) \/ x = m
  BY AheadSend
<1>2. SUFFICES ASSUME NEW i \in Nat,
                      Ahead(Append(s, x), g, Sub(i, gen), Len(Append(s, x)) + 1),
                      ~Ahead(Append(s, x), g, Del(i, gen), Len(Append(s, x)) + 1)
               PROVE  [id |-> i, gen |-> gen] \in next
  BY DEF Kept
<1>3. CASE x = Sub(i, gen)
  BY <1>3 DEF Sub, Msg
<1>4. CASE x # Sub(i, gen)
  <2>1. [id |-> i, gen |-> gen] \in ss /\ x # Del(i, gen)
    BY <1>1, <1>2, <1>4 DEF Kept
  <2> QED
    BY <2>1
<1> QED
  BY <1>3, <1>4

LEMMA KeptRead ==
  ASSUME NEW s \in Seq(Messages), s # <<>>, NEW g, NEW h,
         h = IF Head(s).kind \in Requests THEN g \cup {Head(s)} ELSE g,
         NEW ss, NEW gen \in Nat, Kept(s, g, ss, gen)
  PROVE  Kept(Tail(s), h, ss, gen)
<1>1. Len(s) + 1 # 1 /\ Len(Tail(s)) + 1 = (Len(s) + 1) - 1
  OBVIOUS
<1>2. \A i \in Nat : Sub(i, gen) \in Messages /\ Sub(i, gen).kind \in Requests
                     /\ Del(i, gen) \in Messages /\ Del(i, gen).kind \in Requests
  BY Message DEF Sub, Del, Requests
<1>3. \A i \in Nat :
        /\ Ahead(Tail(s), h, Sub(i, gen), Len(Tail(s)) + 1)
             <=> Ahead(s, g, Sub(i, gen), Len(s) + 1)
        /\ Ahead(Tail(s), h, Del(i, gen), Len(Tail(s)) + 1)
             <=> Ahead(s, g, Del(i, gen), Len(s) + 1)
  BY <1>1, <1>2, AheadRead
<1> QED
  BY <1>3 DEF Kept

LEMMA PacedInvInit == Init => PacedInv
BY DEF Init, PacedInv, OneSetup, OneResponse, SomeResponse, SubsKept, Alive

LEMMA OneSetupStep ==
  ASSUME TypeInv, SetupInv, OneSetup, ~AnswersAgain, ~ric'.shutDown, [Next]_vars
  PROVE  OneSetup'
<1>1. /\ toAgent \in Seq(Messages) /\ toRic \in Seq(Messages) /\ ric \in RicStates
      /\ asked \subseteq Messages /\ IsFiniteSet(asked) /\ got \subseteq Messages
      /\ ric.gen \in Nat
  BY DEF TypeInv, TypeOK, RicStates
<1>2. OneResponse(toAgent)
  BY DEF OneSetup
<1>3. \A m : Send(m) => /\ ric'.setUp = ric.setUp
                        /\ ric'.assoc \/ ric' = ric
  BY <1>1 DEF Send, RicStates
<1>4. CASE Start
  <2>1. /\ ~started /\ started' = TRUE /\ pending' = pending + 1
        /\ toAgent' = toAgent /\ asked' = asked /\ subs' = subs
        /\ ric'.setUp = ric.setUp /\ (ric'.assoc \/ ric' = ric)
    BY <1>3, <1>4 DEF Start, SendSetup
  <2> QED
    BY <2>1 DEF OneSetup
<1>5. CASE HandleSubscription \/ HandleDelete \/ HandleControl
  <2>1. /\ toAgent # <<>> /\ toAgent' = Tail(toAgent) /\ started
        /\ UNCHANGED <<started, pending, asked>>
        /\ ric' = ric \/ Send(Head(toAgent))
    BY <1>5 DEF HandleSubscription, HandleDelete, HandleControl, Recv, agentVars
  <2>2. ric.assoc
    BY <2>1 DEF OneSetup
  <2>3. ric'.setUp = ric.setUp /\ ric'.assoc
    BY <1>3, <2>1, <2>2
  <2>4. OneResponse(toAgent') /\ (SomeResponse(toAgent') => SomeResponse(toAgent))
    BY <1>1, <1>2, <2>1, ResponseTail
  <2> QED
    BY <2>1, <2>3, <2>4 DEF OneSetup
<1>6. CASE HandleSetupResponse
  <2>1. /\ toAgent # <<>> /\ toAgent' = Tail(toAgent) /\ Head(toAgent).kind = "SETUP"
        /\ started /\ UNCHANGED <<started, ric, toRic, asked, subs>>
        /\ pending # 0 => pending' = pending - 1
    BY <1>6 DEF HandleSetupResponse, Recv, ricVars
  <2>2. OneResponse(toAgent') /\ SomeResponse(toAgent) /\ ~SomeResponse(toAgent')
    BY <1>1, <1>2, <2>1, ResponseTail
  <2>3. pending = 1 /\ pending' = 0 /\ ric.setUp /\ ric.assoc
    BY <2>1, <2>2 DEF OneSetup
  <2> QED
    BY <2>1, <2>2, <2>3 DEF OneSetup
<1>7. CASE HandleShutdown
  <2>1. toAgent # <<>> /\ Head(toAgent).kind = "SHUT"
    BY <1>7 DEF HandleShutdown, Recv
  <2> QED
    BY <1>1, <1>2, <2>1, ResponseTail
<1>8. CASE IndicationEvent \/ SetupTimeout
  <2>1. /\ started /\ UNCHANGED <<started, pending, toAgent, asked, subs>>
        /\ ric' = ric \/ \E m : Send(m)
    BY <1>8 DEF IndicationEvent, SetupTimeout, SendSetup, KeepPending
  <2>2. ric'.setUp = ric.setUp /\ (ric'.assoc \/ ric' = ric)
    BY <1>3, <2>1
  <2> QED
    BY <2>1, <2>2 DEF OneSetup
<1>9. CASE RicReads
  <2>1. /\ toRic # <<>> /\ started /\ ric.assoc
        /\ UNCHANGED <<started, pending, asked, subs>>
    BY <1>9 DEF RicReads, agentVars, OneSetup, SetupInv, AssocInv, Associated
  <2>2. CASE Head(toRic).kind = "SETUP" /\ ~ric.setUp
    <3>1. /\ ric' = [ric EXCEPT !.setUp = TRUE]
          /\ toAgent' = Append(toAgent, Msg("SETUP", 0, ric.gen))
      BY <1>9, <2>2 DEF RicReads, ToAgent
    <3>2. ric'.setUp /\ ric'.assoc
      BY <1>1, <2>1, <3>1 DEF RicStates
    <3>3. Msg("SETUP", 0, ric.gen) \in Messages /\ Msg("SETUP", 0, ric.gen).kind = "SETUP"
      BY <1>1 DEF Msg, Messages
    <3>4. ~SomeResponse(toAgent) /\ pending = 1
      BY <2>1, <2>2 DEF OneSetup
    <3>5. OneResponse(toAgent')
      BY <1>1, <1>2, <3>1, <3>3, <3>4, ResponseAppend
    <3> QED
      BY <2>1, <3>2, <3>4, <3>5 DEF OneSetup
  <2>3. CASE ~(Head(toRic).kind = "SETUP" /\ ~ric.setUp)
    <3>1. /\ toAgent' = toAgent
          /\ ric' = ric \/ (ric.setUp /\ ric' = [ric EXCEPT !.setUp = TRUE])
      BY <1>9, <2>3 DEF RicReads, ToAgent
    <3>2. ric'.setUp = ric.setUp /\ ric'.assoc
      BY <1>1, <2>1, <3>1 DEF RicStates
    <3> QED
      BY <2>1, <3>1, <3>2 DEF OneSetup
  <2> QED
    BY <2>2, <2>3
<1>10. CASE RicAsks \/ RicDeletes
  <2>1. PICK m \in Messages : m.kind \in Requests /\ Ask(m)
    BY <1>1, <1>10, AskMessage
  <2>2. /\ UNCHANGED <<started, pending, subs, toRic, ric>> /\ ric.setUp
        /\ toAgent' = Append(toAgent, m)
    BY <2>1 DEF Ask, ToAgent, agentVars
  <2>3. m.kind # "SHUT" /\ m.kind # "SETUP"
    BY <2>1 DEF Requests
  <2>4. OneResponse(toAgent') /\ (SomeResponse(toAgent') => SomeResponse(toAgent))
    BY <1>1, <1>2, <2>2, <2>3, ResponseAppend
  <2> QED
    BY <2>2, <2>4 DEF OneSetup
<1>11. CASE RicStops
  <2>1. /\ ~ric.assoc /\ UNCHANGED <<toAgent, started, pending, asked, subs>>
        /\ toRic' = <<>>
        /\ ric' = [ric EXCEPT !.up = FALSE, !.setUp = FALSE, !.assoc = FALSE,
                               !.shutDown = @ \/ ric.assoc]
    BY <1>1, <1>11 DEF RicStops, RicStates, agentVars
  <2>2. ~ric'.assoc /\ ~ric'.setUp
    BY <1>1, <2>1 DEF RicStates
  <2> QED
    BY <2>1, <2>2 DEF OneSetup, SomeResponse
<1>12. CASE RicStarts
  <2>1. /\ UNCHANGED <<toAgent, toRic, started, pending, asked, subs>>
        /\ ric' = [ric EXCEPT !.up = TRUE, !.gen = @ + 1]
    BY <1>12 DEF RicStarts, agentVars
  <2>2. ric'.assoc = ric.assoc /\ ric'.setUp = ric.setUp
    BY <1>1, <2>1 DEF RicStates
  <2> QED
    BY <2>1, <2>2 DEF OneSetup
<1>13. CASE SetupTimerExpires \/ SubTimerExpires \/ UNCHANGED vars
  <2>1. UNCHANGED <<toAgent, toRic, started, pending, asked, subs, ric>>
    BY <1>13 DEF SetupTimerExpires, SubTimerExpires, vars, agentVars, ricVars
  <2> QED
    BY <2>1 DEF OneSetup
<1> QED
  BY <1>4, <1>5, <1>6, <1>7, <1>8, <1>9, <1>10, <1>11, <1>12, <1>13 DEF Next, HandleMessage

LEMMA DeletionFindsSub ==
  ASSUME TypeInv, RequestInv, OneSetup, SubsKept, Recv("DEL")
  PROVE  \E r \in subs : r.id = Head(toAgent).id
<1> DEFINE m == Head(toAgent)
<1>1. toAgent # <<>> /\ m.kind = "DEL" /\ ric.assoc
  BY DEF Recv, OneSetup
<1>2. m \in Messages /\ 1 \in DOMAIN toAgent /\ m = toAgent[1]
  BY <1>1 DEF TypeInv, TypeOK
<1>3. m \in asked \ got /\ \A k \in DOMAIN toRic : toRic[k] # m
  BY <1>1, <1>2 DEF RequestInv, Lodged, OpenIn, Apart, Requests
<1>4. m.gen = ric.gen
  BY <1>1, <1>3 DEF SubsKept
<1> HIDE DEF m
<1>5. m.id \in Nat /\ Del(m.id, ric.gen) = m
  <2>1. m = Msg(m.kind, m.id, m.gen) /\ m.id \in Nat
    BY <1>2, Message
  <2> QED
    BY <1>1, <1>4, <2>1 DEF Del
<1>6. Sub(m.id, ric.gen) \in got
  BY <1>1, <1>3, <1>4 DEF RequestInv, AskedInv
<1>7. [id |-> m.id, gen |-> ric.gen] \in subs
  BY <1>1, <1>3, <1>5, <1>6 DEF SubsKept, Kept, Ahead
<1> QED
  BY <1>7 DEF m

LEMMA KeptAgent ==
  ASSUME TypeInv, SetupInv, RequestInv, OneSetup, SubsKept,
         Start \/ HandleMessage \/ IndicationEvent \/ SetupTimeout, ric'.assoc
  PROVE  Kept(toRic', got, subs', ric.gen)
<1>1. /\ toAgent \in Seq(Messages) /\ toRic \in Seq(Messages) /\ ric.gen \in Nat
      /\ subs \subseteq [id : Nat, gen : Nat] /\ subsReady \subseteq subs
  BY DEF TypeInv, TypeOK
<1>2. Kept(toRic, got, subs, ric.gen) /\ (ric.assoc => ric.up)
  <2>1. CASE ~ric.assoc
    <3>1. toRic = <<>> /\ subs = {} /\ asked = {} /\ got = {}
      BY <2>1 DEF SetupInv, AssocInv, Associated, OneSetup, RequestInv, AskedInv
    <3>2. \A m : ~Ahead(toRic, got, m, Len(toRic) + 1)
      BY <3>1 DEF Ahead
    <3> QED
      BY <2>1, <3>1, <3>2 DEF Kept
  <2>2. CASE ric.assoc
    BY <2>2 DEF SubsKept, SetupInv, AssocInv
  <2> QED
    BY <2>1, <2>2
<1>3. \A r \in subs : r.gen = ric.gen
  BY <1>2 DEF Kept
<1>4. ASSUME NEW x \in Messages, subs' = subs, x.kind \notin {"SUB", "DEL"},
             toRic' = toRic \/ toRic' = Append(toRic, x)
      PROVE  Kept(toRic', got, subs', ric.gen)
  <2>1. \A r \in subs : r \in subs \/ x = Del(r.id, ric.gen)
    OBVIOUS
  <2>2. Kept(Append(toRic, x), got, subs, ric.gen)
    BY <1>1, <1>2, <1>3, <1>4, <2>1, KeptSend
  <2> QED
    BY <1>2, <1>4, <2>2
<1>5. CASE Start \/ SetupTimeout
  <2>1. subs' = subs /\ (toRic' = toRic \/ toRic' = Append(toRic, Msg("SETUP", 0, 0)))
    BY <1>5 DEF Start, SetupTimeout, SendSetup, Send
  <2>2. Msg("SETUP", 0, 0) \in Messages /\ Msg("SETUP", 0, 0).kind = "SETUP"
    BY Message
  <2> QED
    BY <1>4, <2>1, <2>2
<1>6. CASE IndicationEvent
  <2>1. PICK r \in subsReady : subs' = subs /\ Send(Msg("IND", r.id, r.gen))
    BY <1>6 DEF IndicationEvent
  <2>2. r.id \in Nat /\ r.gen \in Nat
    BY <1>1
  <2>3. Msg("IND", r.id, r.gen) \in Messages /\ Msg("IND", r.id, r.gen).kind = "IND"
    BY <2>2 DEF Msg, Messages
  <2>4. toRic' = toRic \/ toRic' = Append(toRic, Msg("IND", r.id, r.gen))
    BY <2>1 DEF Send
  <2> QED
    BY <1>4, <2>1, <2>3, <2>4
<1>7. CASE HandleSetupResponse \/ HandleShutdown
  BY <1>2, <1>7 DEF HandleSetupResponse, HandleShutdown
<1>8. CASE HandleSubscription \/ HandleDelete \/ HandleControl
  <2> DEFINE m == Head(toAgent)
  <2>1. toAgent # <<>> /\ ric.up /\ ric.assoc
    BY <1>2, <1>8 DEF HandleSubscription, HandleDelete, HandleControl, Recv, OneSetup
  <2>2. m \in Messages /\ 1 \in DOMAIN toAgent /\ m = toAgent[1]
    BY <1>1, <2>1
  <2>3. m.kind \in Requests => m.gen = ric.gen
    BY <2>1, <2>2 DEF RequestInv, Lodged, OpenIn, SubsKept
  <2>4. CASE HandleControl
    <3>1. subs' = subs /\ m.kind = "CTRL" /\ toRic' = Append(toRic, m)
      BY <2>1, <2>4 DEF HandleControl, Recv, Send, agentVars
    <3> QED
      BY <1>4, <2>2, <3>1
  <2>5. CASE HandleSubscription
    <3>1. /\ m.kind = "SUB" /\ toRic' = Append(toRic, m)
          /\ subs' = subs \cup {[id |-> m.id, gen |-> m.gen]}
      BY <2>1, <2>5 DEF HandleSubscription, Recv, Send
    <3>2. m.gen = ric.gen
      BY <2>3, <3>1 DEF Requests
    <3> HIDE DEF m
    <3>3. (\A r \in subs' : r.gen = ric.gen) /\ [id |-> m.id, gen |-> ric.gen] \in subs'
      BY <1>3, <3>1, <3>2
    <3> QED
      BY <1>1, <1>2, <2>2, <3>1, <3>3, KeptSend
  <2>6. CASE HandleDelete
    <3>1. m.kind = "DEL" /\ \E r \in subs : r.id = m.id
      BY <2>6, DeletionFindsSub DEF HandleDelete, Recv
    <3>2. PICK r \in subs : r.id = m.id /\ subs' = subs \ {r} /\ toRic' = Append(toRic, m)
      BY <2>1, <2>6, <3>1 DEF HandleDelete, StopIndEvent, Send
    <3> HIDE DEF m
    <3>3. m = Del(m.id, ric.gen)
      <4>1. m = Msg(m.kind, m.id, m.gen) /\ m.gen = ric.gen
        BY <2>2, <2>3, <3>1, Message DEF Requests
      <4> QED
        BY <3>1, <4>1 DEF Del
    <3>4. \A q \in subs : q \in subs' \/ m = Del(q.id, ric.gen)
      BY <3>2, <3>3
    <3> QED
      BY <1>1, <1>2, <1>3, <2>2, <3>1, <3>2, <3>4, KeptSend
  <2> QED
    BY <1>8, <2>4, <2>5, <2>6
<1> QED
  BY <1>5, <1>6, <1>7, <1>8 DEF HandleMessage

LEMMA SubsKeptStep ==
  ASSUME TypeInv, SetupInv, RequestInv, OneSetup, SubsKept, [Next]_vars
  PROVE  SubsKept'
<1>1. /\ toRic \in Seq(Messages) /\ ric \in RicStates /\ ric.gen \in Nat
      /\ asked \subseteq Messages /\ IsFiniteSet(asked) /\ got \subseteq Messages
  BY DEF TypeInv, TypeOK, RicStates
<1>2. CASE Start \/ HandleMessage \/ IndicationEvent \/ SetupTimeout
  <2>1. asked' = asked /\ got' = got /\ (ric' = ric \/ \E m : Send(m))
    BY <1>2 DEF Start, HandleMessage, HandleSubscription, HandleDelete, HandleControl,
                HandleSetupResponse, HandleShutdown, IndicationEvent, SetupTimeout,
                SendSetup, ricVars
  <2>2. ric'.gen = ric.gen
    BY <1>1, <2>1 DEF Send, RicStates
  <2>3. \A m \in asked : m.gen = ric.gen
    BY DEF SubsKept, OneSetup
  <2> QED
    BY <1>2, <2>1, <2>2, <2>3, KeptAgent DEF SubsKept
<1>3. CASE RicReads
  <2>1. /\ toRic # <<>> /\ toRic' = Tail(toRic) /\ subs' = subs /\ asked' = asked
        /\ got' = IF Head(toRic).kind \in Requests THEN got \cup {Head(toRic)} ELSE got
        /\ ric' = ric \/ ric' = [ric EXCEPT !.setUp = TRUE]
    BY <1>3 DEF RicReads, agentVars, Requests
  <2>2. ric'.gen = ric.gen /\ ric'.assoc = ric.assoc
    BY <1>1, <2>1 DEF RicStates
  <2>3. Kept(toRic, got, subs, ric.gen) => Kept(Tail(toRic), got', subs, ric.gen)
    BY <1>1, <2>1, KeptRead
  <2> QED
    BY <2>1, <2>2, <2>3 DEF SubsKept
<1>4. CASE RicAsks \/ RicDeletes
  <2>1. PICK m \in Messages : m.gen = ric.gen /\ Ask(m)
    BY <1>1, <1>4, AskIsNew DEF TypeInv, RequestInv
  <2>2. /\ asked' = asked \cup {m} /\ UNCHANGED <<ric, toRic, got, subs>>
    BY <2>1 DEF Ask, agentVars
  <2> QED
    BY <2>1, <2>2 DEF SubsKept
<1>5. CASE RicStops \/ RicStarts
  <2>1. ~ric'.assoc
    BY <1>1, <1>5 DEF RicStops, RicStarts, RicStates, SetupInv, AssocInv
  <2> QED
    BY <2>1 DEF SubsKept
<1>6. CASE SetupTimerExpires \/ SubTimerExpires \/ UNCHANGED vars
  <2>1. UNCHANGED <<ric, asked, toRic, got, subs>>
    BY <1>6 DEF SetupTimerExpires, SubTimerExpires, vars, agentVars, ricVars
  <2> QED
    BY <2>1 DEF SubsKept
<1> QED
  BY <1>2, <1>3, <1>4, <1>5, <1>6 DEF Next

LEMMA AliveStep ==
  ASSUME TypeInv, RequestInv, OneSetup, SubsKept, Alive, [Next]_vars
  PROVE  Alive'
<1>1. pending \in Nat /\ pendingReady \in 0 .. pending /\ toAgent \in Seq(Messages)
  BY DEF TypeInv, TypeOK
<1>2. CASE HandleDelete
  <2>1. \E r \in subs : r.id = Head(toAgent).id
    BY <1>2, DeletionFindsSub DEF HandleDelete
  <2> QED
    BY <1>2, <2>1 DEF HandleDelete, Alive
<1>3. CASE HandleSetupResponse
  <2>1. toAgent # <<>> /\ Head(toAgent).kind = "SETUP"
    BY <1>3 DEF HandleSetupResponse, Recv
  <2>2. 1 \in DOMAIN toAgent /\ toAgent[1].kind = "SETUP"
    BY <1>1, <2>1
  <2>3. pending = 1
    BY <2>2 DEF OneSetup, SomeResponse
  <2> QED
    BY <1>3, <2>3 DEF HandleSetupResponse, Check, Alive
<1>4. CASE SetupTimeout
  <2>1. pendingReady > 0 /\ pending \in {0, 1}
    BY <1>4 DEF SetupTimeout, OneSetup
  <2>2. pending = 1
    BY <1>1, <2>1
  <2> QED
    BY <1>4, <2>2 DEF SetupTimeout, Alive
<1>5. CASE \/ Start \/ HandleSubscription \/ HandleControl \/ HandleShutdown
           \/ IndicationEvent \/ SetupTimerExpires \/ SubTimerExpires
           \/ RicReads \/ RicAsks \/ RicDeletes \/ RicStops \/ RicStarts \/ UNCHANGED vars
  BY <1>5 DEF Start, HandleSubscription, HandleControl, HandleShutdown, IndicationEvent,
              SetupTimerExpires, SubTimerExpires, RicReads, RicAsks, RicDeletes, Ask,
              RicStops, RicStarts, agentVars, vars, Alive
<1> QED
  BY <1>2, <1>3, <1>4, <1>5 DEF Next, HandleMessage

(* Until a RIC shuts down, and with one that answers no repeated           *)
(* E2 SETUP-REQUEST, no assertion of the agent fails, however many         *)
(* messages are in flight: a setup timer that fires is the only one, and   *)
(* what a message extracts is there.                                       *)
THEOREM NoAssertion ==
  ASSUME ~AnswersAgain
  PROVE  Spec => []NoAssertionFails
<1> DEFINE IInv == TypeInv /\ SetupInv /\ RequestInv /\ PacedInv
<1>1. IInv => NoAssertionFails
  BY DEF PacedInv, NoAssertionFails
<1>2. Init => IInv
  BY TypeInvInit, SetupInvInit, RequestInvInit, PacedInvInit
<1>3. IInv /\ [Next]_vars => IInv'
  <2> SUFFICES ASSUME IInv, [Next]_vars PROVE IInv'
    OBVIOUS
  <2>1. TypeInv' /\ SetupInv' /\ RequestInv'
    BY TypeInvStep, SetupInvStep, RequestInvStep
  <2>2. ASSUME ~ric'.shutDown PROVE OneSetup' /\ SubsKept' /\ Alive'
    <3>1. OneSetup /\ SubsKept /\ Alive
      BY <2>2, RicStep DEF PacedInv
    <3> QED
      BY <2>2, <3>1, OneSetupStep, SubsKeptStep, AliveStep
  <2> QED
    BY <2>1, <2>2 DEF PacedInv
<1> HIDE DEF IInv
<1> QED
  BY <1>1, <1>2, <1>3, PTL DEF Spec

=============================================================================
