------------------------ MODULE TimerHandler_proofs -------------------------
(***************************************************************************)
(* Theorems about TimerHandler, for any number of timers, any size of the  *)
(* wheel and any width of the clock, and users who disturb the walk.       *)
(***************************************************************************)
EXTENDS TimerHandler, SocketLemmas, FiniteSetTheorems, TLAPS

Positions == 0 .. Wheel - 1
Clock == 0 .. Tics - 1
States == [mode : Modes, duration : Durations \cup {0}, timeout : Clock]

(* A list of the wheel: pop takes one timer out, push_front puts one in.   *)
LEMMA PopLemma ==
  ASSUME NEW S, NEW list \in Seq(S), NEW t
  PROVE  /\ Pop(list, t) \in Seq(S)
         /\ Distinct(list) => /\ Distinct(Pop(list, t))
                              /\ Contents(Pop(list, t)) = Contents(list) \ {t}
<1>1. CASE \A k \in DOMAIN list : list[k] # t
  BY <1>1 DEF Pop, Contents
<1>2. CASE \E k \in DOMAIN list : list[k] = t
  <2> DEFINE k == CHOOSE j \in DOMAIN list : list[j] = t
             short == [i \in 1 .. Len(list) - 1 |-> list[IF i < k THEN i ELSE i + 1]]
  <2>1. k \in DOMAIN list /\ list[k] = t /\ Pop(list, t) = short
    BY <1>2 DEF Pop
  <2> HIDE DEF k
  <2>2. /\ Len(list) \in Nat /\ DOMAIN list = 1 .. Len(list) /\ Len(list) - 1 \in Nat
        /\ k \in Nat
        /\ \A i \in DOMAIN list : list[i] \in S
    BY <2>1
  <2>3. \A i \in 1 .. Len(list) - 1 :
          LET j == IF i < k THEN i ELSE i + 1 IN
          j \in DOMAIN list /\ j # k /\ short[i] = list[j]
    BY <2>2
  <2>4. short \in Seq(S) /\ DOMAIN short = 1 .. Len(list) - 1
    BY <2>2, <2>3
  <2>5. \A j \in DOMAIN list : j # k => \E i \in DOMAIN short : short[i] = list[j]
    <3> SUFFICES ASSUME NEW j \in DOMAIN list, j # k
                 PROVE  \E i \in DOMAIN short : short[i] = list[j]
      OBVIOUS
    <3>1. CASE j < k
      BY <2>1, <2>2, <2>4, <3>1
    <3>2. CASE j > k
      <4>1. j - 1 \in 1 .. Len(list) - 1 /\ ~(j - 1 < k) /\ (j - 1) + 1 = j
        BY <2>1, <2>2, <3>2
      <4> QED
        BY <2>4, <4>1
    <3> QED
      BY <2>2, <3>1, <3>2
  <2>6. ASSUME Distinct(list)
        PROVE  Distinct(short) /\ Contents(short) = Contents(list) \ {t}
    <3>1. \A h, i \in DOMAIN short : short[h] = short[i] => h = i
      <4> SUFFICES ASSUME NEW h \in DOMAIN short, NEW i \in DOMAIN short, short[h] = short[i]
                   PROVE  h = i
        OBVIOUS
      <4> DEFINE a == IF h < k THEN h ELSE h + 1
                 b == IF i < k THEN i ELSE i + 1
      <4>1. a = b
        BY <2>3, <2>4, <2>6 DEF Distinct
      <4> QED
        BY <2>2, <2>4, <4>1
    <3>2. \A i \in DOMAIN short : short[i] \in Contents(list) /\ short[i] # t
      BY <2>1, <2>3, <2>4, <2>6 DEF Contents, Distinct
    <3>3. \A j \in DOMAIN list : list[j] # t => \E i \in DOMAIN short : short[i] = list[j]
      BY <2>1, <2>5
    <3> HIDE DEF short
    <3> QED
      BY <3>1, <3>2, <3>3 DEF Contents, Distinct
  <2> QED
    BY <2>1, <2>4, <2>6
<1> QED
  BY <1>1, <1>2

LEMMA PushLemma ==
  ASSUME NEW S, NEW list \in Seq(S), NEW t \in S
  PROVE  /\ <<t>> \o list \in Seq(S) /\ Len(<<t>> \o list) = Len(list) + 1
         /\ Contents(<<t>> \o list) = Contents(list) \cup {t}
         /\ Distinct(list) /\ t \notin Contents(list) => Distinct(<<t>> \o list)
<1> DEFINE long == <<t>> \o list
<1>1. /\ long \in Seq(S) /\ Len(long) = Len(list) + 1 /\ Len(list) \in Nat
      /\ long[1] = t /\ 1 \in DOMAIN long /\ DOMAIN long \subseteq Nat
      /\ \A i \in DOMAIN list : i + 1 \in DOMAIN long /\ long[i + 1] = list[i]
      /\ \A i \in DOMAIN long : i # 1 => i - 1 \in DOMAIN list /\ long[i] = list[i - 1]
  OBVIOUS
<1> HIDE DEF long
<1>2. Contents(long) = Contents(list) \cup {t}
  <2>1. \A i \in DOMAIN long : long[i] \in Contents(list) \cup {t}
    BY <1>1 DEF Contents
  <2>2. \A i \in DOMAIN list : list[i] \in Contents(long)
    BY <1>1 DEF Contents
  <2>3. t \in Contents(long)
    BY <1>1 DEF Contents
  <2>4. Contents(long) \subseteq Contents(list) \cup {t}
    BY <2>1 DEF Contents
  <2>5. Contents(list) \subseteq Contents(long)
    BY <2>2 DEF Contents
  <2> QED
    BY <2>3, <2>4, <2>5
<1>3. ASSUME Distinct(list), t \notin Contents(list)
      PROVE  Distinct(long)
  <2> SUFFICES ASSUME NEW i \in DOMAIN long, NEW j \in DOMAIN long, long[i] = long[j]
               PROVE  i = j
    BY DEF Distinct
  <2>1. CASE i = 1 \/ j = 1
    BY <1>1, <1>3, <2>1 DEF Contents
  <2>2. CASE i # 1 /\ j # 1
    <3>1. i - 1 = j - 1
      BY <1>1, <1>3, <2>2 DEF Distinct
    <3> QED
      BY <1>1, <3>1
  <2> QED
    BY <2>1, <2>2
<1> QED
  BY <1>1, <1>2, <1>3 DEF long

(* A wheel whose lists hold each timer once, at the position "at" says; a  *)
(* timer that is in no list is at Wheel.                                   *)
WheelAt(wheel, at) == \A p \in Positions :
  /\ wheel[p] \in Seq(Timers) /\ Distinct(wheel[p])
  /\ \A t \in Timers : t \in Contents(wheel[p]) <=> at[t] = p

LEMMA WheelPop ==
  ASSUME NEW wheel \in [Positions -> Seq(Timers)], NEW at \in [Timers -> Nat],
         WheelAt(wheel, at), NEW t \in Timers, at[t] \in Positions
  PROVE  LET next == [wheel EXCEPT ![at[t]] = Pop(@, t)] IN
         /\ next \in [Positions -> Seq(Timers)]
         /\ WheelAt(next, [at EXCEPT ![t] = Wheel])
<1> DEFINE o == at[t]
           next == [wheel EXCEPT ![o] = Pop(@, t)]
           moved == [at EXCEPT ![t] = Wheel]
<1>1. /\ Pop(wheel[o], t) \in Seq(Timers) /\ Distinct(Pop(wheel[o], t))
      /\ Contents(Pop(wheel[o], t)) = Contents(wheel[o]) \ {t}
  BY PopLemma DEF WheelAt
<1>2. next[o] = Pop(wheel[o], t) /\ \A p \in Positions : p # o => next[p] = wheel[p]
  OBVIOUS
<1>3. next \in [Positions -> Seq(Timers)]
  BY <1>1
<1>4. Wheel \notin Positions
  BY ConstantsAssumption DEF Positions
<1>5. moved[t] = Wheel /\ \A u \in Timers : u # t => moved[u] = at[u]
  OBVIOUS
<1> HIDE DEF next, moved
<1>6. ASSUME NEW p \in Positions
      PROVE  /\ next[p] \in Seq(Timers) /\ Distinct(next[p])
             /\ \A u \in Timers : u \in Contents(next[p]) <=> moved[u] = p
  <2>1. CASE p = o
    BY <1>1, <1>2, <1>4, <1>5, <2>1 DEF WheelAt
  <2>2. CASE p # o
    BY <1>2, <1>4, <1>5, <2>2 DEF WheelAt
  <2> QED
    BY <2>1, <2>2
<1>7. WheelAt(next, moved)
  BY <1>6 DEF WheelAt
<1> QED
  BY <1>3, <1>7 DEF next, moved

LEMMA WheelPush ==
  ASSUME NEW wheel \in [Positions -> Seq(Timers)], NEW at \in [Timers -> Nat],
         WheelAt(wheel, at), NEW t \in Timers, at[t] = Wheel, NEW o \in Positions
  PROVE  LET next == [wheel EXCEPT ![o] = <<t>> \o @] IN
         /\ next \in [Positions -> Seq(Timers)]
         /\ WheelAt(next, [at EXCEPT ![t] = o])
<1> DEFINE long == <<t>> \o wheel[o]
           next == [wheel EXCEPT ![o] = long]
           moved == [at EXCEPT ![t] = o]
<1>1. Wheel \notin Positions
  BY ConstantsAssumption DEF Positions
<1>2. /\ long \in Seq(Timers) /\ Distinct(long)
      /\ Contents(long) = Contents(wheel[o]) \cup {t}
  BY <1>1, PushLemma DEF WheelAt
<1> HIDE DEF long
<1>3. next[o] = long /\ \A p \in Positions : p # o => next[p] = wheel[p]
  OBVIOUS
<1>4. next \in [Positions -> Seq(Timers)]
  BY <1>2
<1>5. moved[t] = o /\ \A u \in Timers : u # t => moved[u] = at[u]
  OBVIOUS
<1> HIDE DEF next, moved
<1>6. ASSUME NEW p \in Positions
      PROVE  /\ next[p] \in Seq(Timers) /\ Distinct(next[p])
             /\ \A u \in Timers : u \in Contents(next[p]) <=> moved[u] = p
  <2>1. CASE p = o
    BY <1>2, <1>3, <1>5, <2>1 DEF WheelAt
  <2>2. CASE p # o
    BY <1>1, <1>3, <1>5, <2>2 DEF WheelAt
  <2> QED
    BY <2>1, <2>2
<1>7. WheelAt(next, moved)
  BY <1>6 DEF WheelAt
<1> QED
  BY <1>4, <1>7 DEF next, moved, long

-----------------------------------------------------------------------------
(* The wheel and the states of the timers.                                 *)
Place(states) == [t \in Timers |->
  IF states[t].mode = "RUNNING" THEN Position(states[t].timeout) ELSE Wheel]
RunningIn(states) == {t \in Timers : states[t].mode = "RUNNING"}

WheelInv ==
  /\ cur_time \in Clock /\ state \in [Timers -> States]
  /\ time_wheel \in [Positions -> Seq(Timers)]
  /\ WheelAt(time_wheel, Place(state))
  /\ nof_running = Cardinality(RunningIn(state))

LEMMA Arithmetic ==
  /\ 0 \in Clock /\ 0 \in Positions
  /\ \A x \in Nat : Position(x) \in Positions /\ x % Tics \in Clock
  /\ Clock \subseteq Nat /\ Positions \subseteq Nat /\ Wheel \in Nat \ Positions
BY ConstantsAssumption DEF Clock, Positions, Position

LEMMA PlaceType ==
  ASSUME NEW states \in [Timers -> States]
  PROVE  /\ Place(states) \in [Timers -> Nat]
         /\ \A t \in Timers :
              /\ states[t].mode = "RUNNING" <=> Place(states)[t] \in Positions
              /\ states[t].mode = "RUNNING" => Place(states)[t] = Position(states[t].timeout)
              /\ states[t].mode # "RUNNING" => Place(states)[t] = Wheel
<1>1. \A t \in Timers : states[t].timeout \in Nat /\ Position(states[t].timeout) \in Positions
  BY Arithmetic DEF States
<1> QED
  BY <1>1, Arithmetic DEF Place

LEMMA CountRunning ==
  ASSUME NEW states
  PROVE  /\ IsFiniteSet(RunningIn(states))
         /\ Cardinality(RunningIn(states)) \in 0 .. MaxTimers
<1>1. MaxTimers \in Nat /\ Timers = 0 .. MaxTimers - 1
  BY ConstantsAssumption DEF Timers
<1>2. IsFiniteSet(Timers) /\ Cardinality(Timers) = MaxTimers
  BY <1>1, FS_Interval
<1>3. RunningIn(states) \in SUBSET Timers
  BY DEF RunningIn
<1>4. /\ IsFiniteSet(RunningIn(states))
      /\ Cardinality(RunningIn(states)) <= Cardinality(Timers)
  BY <1>2, <1>3, FS_Subset
<1> QED
  BY <1>1, <1>2, <1>4, FS_CardinalityType

(* stop_timer_ and dealloc_timer_: the timer is out of the wheel.          *)
LEMMA DisconnectLemma ==
  ASSUME WheelInv, NEW t \in Timers, Disconnect(t), NEW s \in States, s.mode # "RUNNING"
  PROVE  LET states == [state EXCEPT ![t] = s] IN
         /\ states \in [Timers -> States]
         /\ time_wheel' \in [Positions -> Seq(Timers)]
         /\ WheelAt(time_wheel', Place(states))
         /\ nof_running' = Cardinality(RunningIn(states))
<1> DEFINE states == [state EXCEPT ![t] = s]
           at == Place(state)
<1>1. /\ states \in [Timers -> States] /\ states[t] = s
      /\ \A u \in Timers : u # t => states[u] = state[u]
  BY DEF WheelInv
<1> HIDE DEF states
<1>2. at \in [Timers -> Nat] /\ Place(states) \in [Timers -> Nat]
  BY <1>1, PlaceType DEF WheelInv
<1>3. Place(states) = [at EXCEPT ![t] = Wheel]
  BY <1>1, <1>2, Arithmetic DEF Place
<1>4. CASE Running(t)
  <2>1. at[t] \in Positions /\ at[t] = Position(state[t].timeout)
    BY <1>4, PlaceType DEF Running, WheelInv
  <2>2. time_wheel' = [time_wheel EXCEPT ![at[t]] = Pop(@, t)] /\ nof_running' = nof_running - 1
    BY <1>4, <2>1 DEF Disconnect
  <2>3. /\ time_wheel' \in [Positions -> Seq(Timers)]
        /\ WheelAt(time_wheel', Place(states))
    <3>1. time_wheel \in [Positions -> Seq(Timers)] /\ WheelAt(time_wheel, at)
      BY DEF WheelInv
    <3> HIDE DEF at
    <3>2. /\ [time_wheel EXCEPT ![at[t]] = Pop(@, t)] \in [Positions -> Seq(Timers)]
          /\ WheelAt([time_wheel EXCEPT ![at[t]] = Pop(@, t)], [at EXCEPT ![t] = Wheel])
      BY <1>2, <2>1, <3>1, WheelPop
    <3> QED
      BY <1>3, <2>2, <3>2
  <2>4. RunningIn(states) = RunningIn(state) \ {t} /\ t \in RunningIn(state)
    BY <1>1, <1>4 DEF RunningIn, Running
  <2>5. Cardinality(RunningIn(states)) = Cardinality(RunningIn(state)) - 1
    BY <2>4, CountRunning, FS_RemoveElement
  <2> QED
    BY <1>1, <2>2, <2>3, <2>5 DEF WheelInv, states
<1>5. CASE ~Running(t)
  <2>1. Place(states) = at
    BY <1>1, <1>2, <1>3, <1>5, PlaceType DEF Running, WheelInv, Place
  <2>2. RunningIn(states) = RunningIn(state)
    BY <1>1, <1>5 DEF RunningIn, Running
  <2> QED
    BY <1>1, <1>5, <2>1, <2>2 DEF WheelInv, Disconnect, states
<1> QED
  BY <1>4, <1>5

(* start_run_: the timer moves to the position of its new timeout.         *)
LEMMA StartLemma ==
  ASSUME WheelInv, NEW t \in Timers, NEW d \in Durations, start_run_(t, d),
         cur_time' = cur_time
  PROVE  WheelInv'
<1> DEFINE timeout == (cur_time + d) % Tics
           s == State("RUNNING", d, timeout)
           at == Place(state)
           o == Position(timeout)
<1>1. cur_time + d \in Nat
  BY ConstantsAssumption, Arithmetic DEF WheelInv
<1>2. timeout \in Clock /\ o \in Positions
  BY <1>1, Arithmetic
<1>3. s \in States /\ s.mode = "RUNNING" /\ s.timeout = timeout
  BY <1>2 DEF State, States, Modes
<1>4. state' = [state EXCEPT ![t] = s]
  BY DEF start_run_
<1>5. /\ state' \in [Timers -> States] /\ state'[t] = s
      /\ \A u \in Timers : u # t => state'[u] = state[u]
  BY <1>3, <1>4 DEF WheelInv
<1>6. /\ at \in [Timers -> Nat] /\ WheelAt(time_wheel, at)
      /\ time_wheel \in [Positions -> Seq(Timers)]
  BY PlaceType DEF WheelInv
<1>7. Place(state') = [at EXCEPT ![t] = o]
  BY <1>3, <1>5, <1>6 DEF Place
<1>8. RunningIn(state') = RunningIn(state) \cup {t}
  BY <1>3, <1>5 DEF RunningIn
<1>9. Cardinality(RunningIn(state')) =
        IF Running(t) THEN Cardinality(RunningIn(state)) ELSE Cardinality(RunningIn(state)) + 1
  <2>1. t \in RunningIn(state) <=> Running(t)
    BY DEF RunningIn, Running
  <2>2. IsFiniteSet(RunningIn(state))
    BY CountRunning
  <2> QED
    BY <1>8, <2>1, <2>2, FS_AddElement
<1>10. CASE Running(t)
  <2>1. at[t] \in Positions /\ at[t] = Position(state[t].timeout)
    BY <1>10, PlaceType DEF Running, WheelInv
  <2>2. nof_running' = nof_running
    BY <1>10 DEF start_run_
  <2>3. CASE at[t] = o
    <3>1. time_wheel' = time_wheel
      BY <1>10, <2>1, <2>3 DEF start_run_
    <3>2. Place(state') = at
      BY <1>6, <1>7, <2>3
    <3> QED
      BY <1>5, <1>6, <1>9, <1>10, <2>2, <3>1, <3>2 DEF WheelInv
  <2>4. CASE at[t] # o
    <3> DEFINE popped == [time_wheel EXCEPT ![at[t]] = Pop(@, t)]
               out == [at EXCEPT ![t] = Wheel]
    <3>1. time_wheel' = [popped EXCEPT ![o] = <<t>> \o @]
      BY <1>10, <2>1, <2>4 DEF start_run_
    <3> HIDE DEF at, o
    <3>2. popped \in [Positions -> Seq(Timers)] /\ WheelAt(popped, out)
      BY <1>6, <2>1, WheelPop
    <3>3. out \in [Timers -> Nat] /\ out[t] = Wheel /\ [out EXCEPT ![t] = o] = [at EXCEPT ![t] = o]
      BY <1>6, Arithmetic
    <3> HIDE DEF popped, out
    <3>4. /\ [popped EXCEPT ![o] = <<t>> \o @] \in [Positions -> Seq(Timers)]
          /\ WheelAt([popped EXCEPT ![o] = <<t>> \o @], [out EXCEPT ![t] = o])
      BY <1>2, <3>2, <3>3, WheelPush
    <3> QED
      BY <1>5, <1>7, <1>9, <1>10, <2>2, <3>1, <3>3, <3>4 DEF WheelInv
  <2> QED
    BY <2>3, <2>4
<1>11. CASE ~Running(t)
  <2>1. at[t] = Wheel
    BY <1>11, PlaceType DEF Running, WheelInv
  <2>2. /\ time_wheel' = [time_wheel EXCEPT ![o] = <<t>> \o @]
        /\ nof_running' = nof_running + 1
    BY <1>11 DEF start_run_
  <2> HIDE DEF at, o
  <2>3. /\ [time_wheel EXCEPT ![o] = <<t>> \o @] \in [Positions -> Seq(Timers)]
        /\ WheelAt([time_wheel EXCEPT ![o] = <<t>> \o @], [at EXCEPT ![t] = o])
    BY <1>2, <1>6, <2>1, WheelPush
  <2> QED
    BY <1>5, <1>7, <1>9, <1>11, <2>2, <2>3 DEF WheelInv
<1> QED
  BY <1>10, <1>11

LEMMA StopLemma ==
  ASSUME WheelInv, NEW t \in Timers, NEW mode \in {"STOPPED", "EXPIRED"},
         stop_timer_(t, mode), cur_time' = cur_time
  PROVE  WheelInv' /\ RunningIn(state') \subseteq RunningIn(state)
<1> DEFINE s == IF Running(t) THEN [state[t] EXCEPT !.mode = mode] ELSE state[t]
<1>1. s \in States /\ s.mode # "RUNNING"
  BY DEF WheelInv, States, Modes, Running
<1>2. state' = [state EXCEPT ![t] = s] /\ Disconnect(t)
  BY DEF stop_timer_, WheelInv
<1>3. /\ state'[t] = s /\ \A u \in Timers : u # t => state'[u] = state[u]
  BY <1>2 DEF WheelInv
<1> HIDE DEF s
<1>4. /\ state' \in [Timers -> States]
      /\ time_wheel' \in [Positions -> Seq(Timers)]
      /\ WheelAt(time_wheel', Place(state'))
      /\ nof_running' = Cardinality(RunningIn(state'))
  BY <1>1, <1>2, DisconnectLemma
<1>5. RunningIn(state') \subseteq RunningIn(state)
  BY <1>1, <1>3 DEF RunningIn
<1> QED
  BY <1>4, <1>5 DEF WheelInv

LEMMA StopAllLemma ==
  ASSUME WheelInv, stop_all
  PROVE  WheelInv' /\ RunningIn(state') = {}
<1>1. /\ state' \in [Timers -> States] /\ \A t \in Timers : state'[t].mode # "RUNNING"
  BY DEF stop_all, WheelInv, States, Modes, Running
<1>2. \A p \in Positions : time_wheel'[p] = <<>>
  BY DEF stop_all, WheelInv
<1>3. time_wheel' \in [Positions -> Seq(Timers)]
  BY SocketEmpty DEF stop_all, WheelInv
<1>4. WheelAt(time_wheel', Place(state'))
  <2>1. /\ <<>> \in Seq(Timers) /\ Distinct(<<>>) /\ Contents(<<>>) = {}
    BY SocketEmpty DEF Distinct, Contents
  <2>2. \A t \in Timers : Place(state')[t] \notin Positions
    BY <1>1, PlaceType
  <2> QED
    BY <1>2, <2>1, <2>2 DEF WheelAt
<1>5. RunningIn(state') = {}
  BY <1>1 DEF RunningIn
<1> QED
  BY <1>1, <1>3, <1>4, <1>5, FS_EmptySet DEF stop_all, WheelInv

-----------------------------------------------------------------------------
(* The handles, and the walk.                                              *)
ListInv ==
  /\ size \in Capacity .. MaxTimers /\ size \in Nat
  /\ allocated \subseteq 0 .. size - 1 /\ free_list \in Seq(0 .. size - 1)
  /\ callback \subseteq allocated
  /\ Distinct(free_list) /\ Contents(free_list) \cap allocated = {}
  /\ Len(free_list) + Cardinality(allocated) = size
  /\ RunningIn(state) \subseteq allocated

WalkInv ==
  /\ pc \in {"idle", "walk", "callback"}
  /\ it \in Timers \cup {End} /\ calling \in Timers \cup {End}
  /\ pc = "callback" <=> calling # End

TypeInv == WheelInv /\ ListInv /\ WalkInv

LEMMA Handles ==
  ASSUME ListInv
  PROVE  /\ allocated \subseteq Timers
         /\ IsFiniteSet(allocated) /\ Cardinality(allocated) \in Nat
<1>1. /\ MaxTimers \in Nat /\ Timers = 0 .. MaxTimers - 1 /\ size \in Nat /\ size <= MaxTimers
      /\ allocated \subseteq 0 .. size - 1
  BY ConstantsAssumption DEF Timers, ListInv
<1>2. allocated \subseteq Timers
  BY <1>1
<1>3. IsFiniteSet(Timers)
  BY <1>1, FS_Interval
<1> QED
  BY <1>2, <1>3, FS_Subset, FS_CardinalityType

LEMMA GetStep ==
  ASSUME TypeInv, get_unique_timer
  PROVE  TypeInv'
<1>1. UNCHANGED <<cur_time, state, time_wheel, nof_running, callback, walkVars>>
  BY DEF get_unique_timer
<1>2. WheelInv' /\ WalkInv'
  BY <1>1 DEF TypeInv, WheelInv, WalkInv, walkVars
<1>3. ListInv /\ allocated \subseteq Timers /\ IsFiniteSet(allocated) /\ Cardinality(allocated) \in Nat
  BY Handles DEF TypeInv
<1>4. CASE free_list # <<>>
  <2> DEFINE h == Head(free_list)
  <2>1. /\ allocated' = allocated \cup {h} /\ free_list' = Tail(free_list) /\ size' = size
    BY <1>4 DEF get_unique_timer
  <2>2. /\ h \in 0 .. size - 1 /\ free_list' \in Seq(0 .. size - 1)
        /\ Len(free_list') = Len(free_list) - 1 /\ Len(free_list) \in Nat
    BY <1>3, <1>4, <2>1 DEF ListInv
  <2>3. /\ Contents(free_list) = Contents(free_list') \cup {h}
        /\ Distinct(free_list') /\ h \notin Contents(free_list')
    BY <1>3, <1>4, <2>1, ContentsRecv DEF ListInv
  <2> HIDE DEF h
  <2>4. h \notin allocated
    BY <1>3, <2>3 DEF ListInv
  <2>5. Cardinality(allocated') = Cardinality(allocated) + 1
    BY <1>3, <2>1, <2>4, FS_AddElement
  <2>6. Len(free_list') + Cardinality(allocated') = size'
    BY <1>3, <2>1, <2>2, <2>5 DEF ListInv
  <2>7. Contents(free_list') \cap allocated' = {} /\ callback' \subseteq allocated'
        /\ RunningIn(state') \subseteq allocated' /\ allocated' \subseteq 0 .. size' - 1
    BY <1>1, <1>3, <2>1, <2>2, <2>3 DEF ListInv
  <2> QED
    BY <1>2, <1>3, <2>1, <2>2, <2>3, <2>6, <2>7 DEF TypeInv, ListInv
<1>5. CASE free_list = <<>>
  <2>1. /\ allocated' = allocated \cup {size} /\ size' = size + 1 /\ free_list' = free_list
        /\ size < MaxTimers
    BY <1>5 DEF get_unique_timer
  <2>2. size \notin allocated /\ size' \in Capacity .. MaxTimers /\ size' \in Nat
        /\ allocated' \subseteq 0 .. size' - 1
    BY <1>3, <2>1, ConstantsAssumption DEF ListInv
  <2>3. Cardinality(allocated') = Cardinality(allocated) + 1
    BY <1>3, <2>1, <2>2, FS_AddElement
  <2>4. /\ Contents(free_list') = {} /\ free_list' \in Seq(0 .. size' - 1)
        /\ Distinct(free_list') /\ Len(free_list') = 0
    BY <1>5, <2>1, SocketEmpty DEF Contents, Distinct
  <2>5. Len(free_list') + Cardinality(allocated') = size'
    BY <1>3, <1>5, <2>1, <2>3, <2>4 DEF ListInv
  <2>6. callback' \subseteq allocated' /\ RunningIn(state') \subseteq allocated'
    BY <1>1, <1>3, <2>1 DEF ListInv
  <2> QED
    BY <1>2, <2>2, <2>4, <2>5, <2>6 DEF TypeInv, ListInv
<1> QED
  BY <1>4, <1>5

LEMMA DeallocStep ==
  ASSUME TypeInv, NEW t \in Timers, dealloc_timer_(t)
  PROVE  TypeInv'
<1>1. /\ t \in allocated /\ Disconnect(t) /\ cur_time' = cur_time /\ size' = size
      /\ state' = [state EXCEPT ![t] = State("STOPPED", 0, 0)]
      /\ allocated' = allocated \ {t} /\ callback' = callback \ {t}
      /\ free_list' = <<t>> \o free_list /\ UNCHANGED walkVars
  BY DEF dealloc_timer_
<1>2. WalkInv'
  BY <1>1 DEF TypeInv, WalkInv, walkVars
<1>3. State("STOPPED", 0, 0) \in States /\ State("STOPPED", 0, 0).mode = "STOPPED"
  BY Arithmetic DEF State, States, Modes
<1>4. /\ state' \in [Timers -> States] /\ state'[t] = State("STOPPED", 0, 0)
      /\ \A u \in Timers : u # t => state'[u] = state[u]
  BY <1>1, <1>3 DEF TypeInv, WheelInv
<1>5. WheelInv'
  BY <1>1, <1>3, DisconnectLemma DEF TypeInv, WheelInv
<1>6. /\ ListInv /\ IsFiniteSet(allocated) /\ Cardinality(allocated) \in Nat
  BY Handles DEF TypeInv
<1>7. /\ free_list' \in Seq(0 .. size - 1) /\ Len(free_list') = Len(free_list) + 1
      /\ Contents(free_list') = Contents(free_list) \cup {t} /\ Distinct(free_list')
      /\ Len(free_list) \in Nat
  <2>1. t \in 0 .. size - 1 /\ t \notin Contents(free_list) /\ Distinct(free_list)
        /\ free_list \in Seq(0 .. size - 1)
    BY <1>1, <1>6 DEF ListInv
  <2> DEFINE ids == 0 .. size - 1
             list == free_list
  <2>2. list \in Seq(ids) /\ t \in ids /\ Len(list) \in Nat
    BY <2>1
  <2> HIDE DEF ids, list
  <2>3. /\ <<t>> \o list \in Seq(ids) /\ Len(<<t>> \o list) = Len(list) + 1
        /\ Contents(<<t>> \o list) = Contents(list) \cup {t}
    BY <2>2, PushLemma
  <2>4. Distinct(list) /\ t \notin Contents(list) => Distinct(<<t>> \o list)
    BY <2>2, PushLemma
  <2> QED
    BY <1>1, <2>1, <2>2, <2>3, <2>4 DEF ids, list
<1>8. Cardinality(allocated') = Cardinality(allocated) - 1
  BY <1>1, <1>6, FS_RemoveElement
<1>9. Len(free_list') + Cardinality(allocated') = size'
  BY <1>1, <1>6, <1>7, <1>8 DEF ListInv
<1>10. RunningIn(state') \subseteq allocated'
  BY <1>1, <1>3, <1>4, <1>6 DEF RunningIn, ListInv
<1>11. /\ Contents(free_list') \cap allocated' = {} /\ callback' \subseteq allocated'
       /\ allocated' \subseteq 0 .. size' - 1
  BY <1>1, <1>6, <1>7 DEF ListInv
<1> QED
  BY <1>1, <1>2, <1>5, <1>6, <1>7, <1>9, <1>10, <1>11 DEF TypeInv, ListInv

(* A user's step that leaves the lists of handles and the walk alone.      *)
LEMMA UserFrame ==
  ASSUME TypeInv, WheelInv', UNCHANGED <<listVars, walkVars>>,
         callback' \subseteq allocated, RunningIn(state') \subseteq allocated
  PROVE  TypeInv'
<1>1. WalkInv'
  BY DEF TypeInv, WalkInv, walkVars
<1>2. ListInv'
  BY DEF TypeInv, ListInv, listVars
<1> QED
  BY <1>1, <1>2 DEF TypeInv

LEMMA Restarted ==
  ASSUME TypeInv, NEW t \in allocated, NEW d \in Durations, start_run_(t, d)
  PROVE  RunningIn(state') \subseteq allocated
BY DEF TypeInv, ListInv, WheelInv, RunningIn, start_run_

LEMMA SetStep ==
  ASSUME TypeInv, NEW t \in Timers, NEW d \in Durations, set(t, d)
  PROVE  TypeInv'
<1>1. /\ t \in allocated /\ cur_time' = cur_time /\ UNCHANGED <<listVars, walkVars>>
      /\ callback' \subseteq callback \cup {t}
  BY DEF set
<1>2. callback' \subseteq allocated
  BY <1>1 DEF TypeInv, ListInv
<1>3. CASE Running(t)
  <2>1. start_run_(t, d)
    BY <1>3 DEF set
  <2>2. WheelInv'
    BY <1>1, <2>1, StartLemma DEF TypeInv
  <2>3. RunningIn(state') \subseteq allocated
    BY <1>1, <2>1, Restarted
  <2> QED
    BY <1>1, <1>2, <2>2, <2>3, UserFrame
<1>4. CASE ~Running(t)
  <2> DEFINE s == State("STOPPED", d, 0)
  <2>1. /\ state' = [state EXCEPT ![t] = s]
        /\ time_wheel' = time_wheel /\ nof_running' = nof_running
    BY <1>4 DEF set
  <2>2. s \in States /\ s.mode = "STOPPED"
    BY Arithmetic DEF State, States, Modes
  <2>3. Disconnect(t)
    BY <1>4, <2>1 DEF Disconnect
  <2>4. /\ state'[t] = s /\ \A u \in Timers : u # t => state'[u] = state[u]
    BY <2>1, <2>2 DEF TypeInv, WheelInv
  <2> HIDE DEF s
  <2>5. WheelInv'
    BY <1>1, <2>1, <2>2, <2>3, DisconnectLemma DEF TypeInv, WheelInv
  <2>6. RunningIn(state') \subseteq allocated
    BY <2>2, <2>4 DEF RunningIn, TypeInv, ListInv
  <2> QED
    BY <1>1, <1>2, <2>5, <2>6, UserFrame
<1> QED
  BY <1>3, <1>4

LEMMA RunStep ==
  ASSUME TypeInv, NEW t \in Timers, run(t)
  PROVE  TypeInv'
<1> DEFINE d == state[t].duration
<1>1. /\ t \in allocated /\ d > 0 /\ start_run_(t, d)
      /\ cur_time' = cur_time /\ callback' = callback /\ UNCHANGED <<listVars, walkVars>>
  BY DEF run
<1>2. d \in Durations
  BY <1>1 DEF TypeInv, WheelInv, States
<1> HIDE DEF d
<1>3. WheelInv'
  BY <1>1, <1>2, StartLemma DEF TypeInv
<1>4. RunningIn(state') \subseteq allocated
  BY <1>1, <1>2, Restarted
<1>5. callback' \subseteq allocated
  BY <1>1 DEF TypeInv, ListInv
<1> QED
  BY <1>1, <1>3, <1>4, <1>5, UserFrame

LEMMA StopStep ==
  ASSUME TypeInv, NEW t \in Timers, stop(t)
  PROVE  TypeInv'
<1>1. /\ stop_timer_(t, "STOPPED") /\ cur_time' = cur_time /\ callback' = callback
      /\ UNCHANGED <<listVars, walkVars>>
  BY DEF stop
<1>2. WheelInv' /\ RunningIn(state') \subseteq RunningIn(state)
  BY <1>1, StopLemma DEF TypeInv
<1>3. callback' \subseteq allocated /\ RunningIn(state') \subseteq allocated
  BY <1>1, <1>2 DEF TypeInv, ListInv
<1> QED
  BY <1>1, <1>2, <1>3, UserFrame

LEMMA StopAllStep ==
  ASSUME TypeInv, stop_all
  PROVE  TypeInv'
<1>1. callback' = callback /\ UNCHANGED <<listVars, walkVars>>
  BY DEF stop_all
<1>2. WheelInv' /\ RunningIn(state') = {}
  BY StopAllLemma DEF TypeInv
<1>3. callback' \subseteq allocated /\ RunningIn(state') \subseteq allocated
  BY <1>1, <1>2 DEF TypeInv, ListInv
<1> QED
  BY <1>1, <1>2, <1>3, UserFrame

-----------------------------------------------------------------------------
(* The iterator stays on timers, whatever list the timer it holds is in.   *)
LEMMA NextVisited ==
  ASSUME WheelInv
  PROVE  /\ \A p \in Positions : Head0(time_wheel[p]) \in Timers \cup {End}
         /\ \A t \in Timers : Successor(t) \in Timers \cup {End}
<1>1. \A p \in Positions : Head0(time_wheel[p]) \in Timers \cup {End}
  BY DEF WheelInv, Head0
<1>2. ASSUME NEW t \in Timers
      PROVE  Successor(t) \in Timers \cup {End}
  <2> DEFINE Follows(u) ==
         \E p \in DOMAIN time_wheel : \E i \in 1 .. Len(time_wheel[p]) - 1 :
           time_wheel[p][i] = t /\ time_wheel[p][i + 1] = u
  <2>1. CASE ~\E p \in DOMAIN time_wheel :
               \E i \in 1 .. Len(time_wheel[p]) - 1 : time_wheel[p][i] = t
    BY <2>1 DEF Successor
  <2>2. CASE \E p \in DOMAIN time_wheel :
               \E i \in 1 .. Len(time_wheel[p]) - 1 : time_wheel[p][i] = t
    <3>1. PICK p \in DOMAIN time_wheel :
            \E i \in 1 .. Len(time_wheel[p]) - 1 : time_wheel[p][i] = t
      BY <2>2
    <3>2. PICK i \in 1 .. Len(time_wheel[p]) - 1 : time_wheel[p][i] = t
      BY <3>1
    <3>3. time_wheel[p] \in Seq(Timers)
      BY <3>1 DEF WheelInv
    <3>4. time_wheel[p][i + 1] \in Timers
      BY <3>2, <3>3
    <3>5. \E u \in Timers : Follows(u)
      BY <3>1, <3>2, <3>4
    <3>6. Successor(t) = CHOOSE u \in Timers : Follows(u)
      BY <2>2 DEF Successor
    <3> QED
      BY <3>5, <3>6
  <2> QED
    BY <2>1, <2>2
<1> QED
  BY <1>1, <1>2

LEMMA BeginStep ==
  ASSUME TypeInv, StepBegin
  PROVE  TypeInv'
<1>1. /\ pc = "idle" /\ pc' = "walk" /\ it' = Head0(time_wheel[Position(NextTic)])
      /\ UNCHANGED <<cur_time, state, callback, time_wheel, nof_running, listVars, calling>>
  BY DEF StepBegin
<1>2. cur_time + 1 \in Nat
  BY Arithmetic DEF TypeInv, WheelInv
<1>3. NextTic \in Clock /\ Position(NextTic) \in Positions
  BY <1>2, Arithmetic DEF NextTic
<1>4. it' \in Timers \cup {End}
  BY <1>1, <1>3, NextVisited DEF TypeInv
<1>5. WheelInv' /\ ListInv'
  BY <1>1 DEF TypeInv, WheelInv, ListInv, listVars
<1>6. WalkInv'
  BY <1>1, <1>4 DEF TypeInv, WalkInv
<1> QED
  BY <1>5, <1>6 DEF TypeInv

LEMMA WalkStep ==
  ASSUME TypeInv, Walk
  PROVE  TypeInv'
<1>1. /\ pc = "walk" /\ it \in Timers /\ it # End /\ it' = Successor(it)
      /\ UNCHANGED <<cur_time, callback, listVars>>
  BY DEF Walk, TypeInv, WalkInv
<1>2. it' \in Timers \cup {End}
  BY <1>1, NextVisited DEF TypeInv
<1>3. WheelInv' /\ RunningIn(state') \subseteq RunningIn(state)
  <2>1. CASE state[it].timeout = NextTic
    <3>1. stop_timer_(it, "EXPIRED")
      BY <2>1 DEF Walk
    <3> QED
      BY <1>1, <3>1, StopLemma DEF TypeInv
  <2>2. CASE state[it].timeout # NextTic
    BY <1>1, <2>2 DEF Walk, TypeInv, WheelInv
  <2> QED
    BY <2>1, <2>2
<1>4. ListInv'
  BY <1>1, <1>3 DEF TypeInv, ListInv, listVars
<1>5. \/ pc' = "callback" /\ calling' = it
      \/ pc' = pc /\ calling' = calling
  BY DEF Walk
<1>6. WalkInv'
  BY <1>1, <1>2, <1>5 DEF TypeInv, WalkInv
<1> QED
  BY <1>3, <1>4, <1>6 DEF TypeInv

LEMMA ReturnStep ==
  ASSUME TypeInv, CallbackReturns
  PROVE  TypeInv'
<1>1. /\ pc' = "walk" /\ calling' = End
      /\ UNCHANGED <<cur_time, state, callback, time_wheel, nof_running, listVars, it>>
  BY DEF CallbackReturns
<1>2. WheelInv' /\ ListInv'
  BY <1>1 DEF TypeInv, WheelInv, ListInv, listVars
<1>3. WalkInv'
  BY <1>1 DEF TypeInv, WalkInv
<1> QED
  BY <1>2, <1>3 DEF TypeInv

LEMMA EndStep ==
  ASSUME TypeInv, StepEnd
  PROVE  TypeInv'
<1>1. /\ pc = "walk" /\ pc' = "idle" /\ cur_time' = NextTic
      /\ UNCHANGED <<state, callback, time_wheel, nof_running, listVars, it, calling>>
  BY DEF StepEnd
<1>2. cur_time + 1 \in Nat
  BY Arithmetic DEF TypeInv, WheelInv
<1>3. cur_time' \in Clock
  BY <1>1, <1>2, Arithmetic DEF NextTic
<1>4. WheelInv' /\ ListInv'
  BY <1>1, <1>3 DEF TypeInv, WheelInv, ListInv, listVars
<1>5. WalkInv'
  BY <1>1 DEF TypeInv, WalkInv
<1> QED
  BY <1>4, <1>5 DEF TypeInv

-----------------------------------------------------------------------------
LEMMA TypeInvInit == Init => TypeInv
<1> SUFFICES ASSUME Init PROVE TypeInv
  OBVIOUS
<1>1. Capacity \in Nat /\ Capacity <= MaxTimers /\ MaxTimers \in Nat /\ size = Capacity
  BY ConstantsAssumption DEF Init
<1>2. state \in [Timers -> States] /\ RunningIn(state) = {}
  BY Arithmetic DEF Init, State, States, Modes, RunningIn
<1>3. \A t \in Timers : Place(state)[t] \notin Positions
  <2>1. \A t \in Timers : state[t].mode # "RUNNING"
    BY DEF Init, State
  <2> QED
    BY <1>2, <2>1, PlaceType
<1>4. WheelAt(time_wheel, Place(state)) /\ time_wheel \in [Positions -> Seq(Timers)]
  <2>1. <<>> \in Seq(Timers) /\ Distinct(<<>>) /\ Contents(<<>>) = {}
    BY SocketEmpty DEF Distinct, Contents
  <2>2. time_wheel = [p \in Positions |-> <<>>]
    BY DEF Init, Positions
  <2> QED
    BY <1>3, <2>1, <2>2 DEF WheelAt
<1>5. WheelInv
  BY <1>2, <1>4, Arithmetic, FS_EmptySet DEF Init, WheelInv
<1>6. /\ free_list \in Seq(0 .. size - 1) /\ Len(free_list) = Capacity /\ Distinct(free_list)
  BY <1>1 DEF Init, Distinct
<1>7. ListInv
  BY <1>1, <1>2, <1>6, FS_EmptySet DEF Init, ListInv
<1>8. WalkInv
  BY DEF Init, WalkInv
<1> QED
  BY <1>5, <1>7, <1>8 DEF TypeInv

LEMMA TypeInvNext == TypeInv /\ [Next]_vars => TypeInv'
<1> SUFFICES ASSUME TypeInv, [Next]_vars PROVE TypeInv'
  OBVIOUS
<1>1. CASE UNCHANGED vars
  BY <1>1 DEF vars, listVars, walkVars, TypeInv, WheelInv, ListInv, WalkInv
<1>2. CASE User
  BY <1>2, GetStep, StopAllStep, SetStep, RunStep, StopStep, DeallocStep DEF User
<1>3. CASE step_all
  BY <1>3, BeginStep, WalkStep, ReturnStep, EndStep DEF step_all
<1> QED
  BY <1>1, <1>2, <1>3 DEF Next

(* Only the user's steps set the flag, and only while a callback runs.     *)
FlagInv == disturbed \in BOOLEAN /\ (disturbed => pc # "idle")

LEMMA FlagInvNext == TypeInv /\ FlagInv /\ [Next]_vars => FlagInv'
<1> SUFFICES ASSUME TypeInv, FlagInv, [Next]_vars PROVE FlagInv'
  OBVIOUS
<1>1. CASE UNCHANGED vars
  BY <1>1 DEF vars, walkVars, FlagInv
<1>2. CASE User
  <2>1. disturbed' = (disturbed \/ ~WalkUndisturbed) /\ pc' = pc
    BY <1>2 DEF User, walkVars, get_unique_timer, stop_all, set, run, stop, dealloc_timer_
  <2>2. ~WalkUndisturbed => pc # "idle"
    BY DEF WalkUndisturbed
  <2> HIDE DEF WalkUndisturbed
  <2> QED
    BY <2>1, <2>2 DEF FlagInv
<1>3. CASE step_all
  BY <1>3 DEF step_all, StepBegin, Walk, CallbackReturns, StepEnd, FlagInv
<1> QED
  BY <1>1, <1>2, <1>3 DEF Next

LEMMA TypeInvHolds == Spec => [](TypeInv /\ FlagInv)
<1>1. Init => FlagInv
  BY DEF Init, FlagInv
<1> QED
  BY <1>1, TypeInvInit, TypeInvNext, FlagInvNext, PTL DEF Spec

(* Every variable has its type: timers.h indexes timer_list and the wheel  *)
(* with what it computes, and a count of running timers never underflows.  *)
THEOREM TypeCorrect == Spec => []TypeOK
<1>1. TypeInv /\ FlagInv => TypeOK
  BY CountRunning, Arithmetic
     DEF TypeInv, FlagInv, WheelInv, ListInv, WalkInv, TypeOK, States, Clock, Positions
<1> QED
  BY <1>1, TypeInvHolds, PTL

(* The wheel holds exactly the running timers, each once and in the list   *)
(* its timeout selects, whatever the callbacks do to the timers while      *)
(* step_all walks a list: stop_timer_ and start_run_ pop a timer from the  *)
(* list it really is in.                                                   *)
THEOREM WheelCorrect == Spec => []WheelHoldsRunning
<1>1. ASSUME TypeInv
      PROVE  WheelHoldsRunning
  <2>1. /\ state \in [Timers -> States] /\ DOMAIN time_wheel = Positions
        /\ nof_running = Cardinality({t \in Timers : Running(t)})
    BY <1>1 DEF TypeInv, WheelInv, RunningIn, Running
  <2>2. ASSUME NEW p \in Positions, NEW i \in DOMAIN time_wheel[p]
        PROVE  LET t == time_wheel[p][i] IN
                 /\ Running(t) /\ Position(state[t].timeout) = p
                 /\ \A j \in DOMAIN time_wheel[p] : time_wheel[p][j] = t => j = i
    <3> DEFINE t == time_wheel[p][i]
    <3>1. time_wheel[p] \in Seq(Timers) /\ Distinct(time_wheel[p])
      BY <1>1 DEF TypeInv, WheelInv, WheelAt
    <3>2. t \in Timers /\ t \in Contents(time_wheel[p])
      BY <2>2, <3>1 DEF Contents
    <3>3. Place(state)[t] = p
      BY <1>1, <3>2 DEF TypeInv, WheelInv, WheelAt
    <3>4. \A j \in DOMAIN time_wheel[p] : time_wheel[p][j] = t => j = i
      BY <2>2, <3>1 DEF Distinct
    <3> HIDE DEF t
    <3>5. Running(t) /\ Position(state[t].timeout) = p
      BY <2>1, <3>2, <3>3, PlaceType DEF Running
    <3> QED
      BY <3>4, <3>5 DEF t
  <2>3. ASSUME NEW t \in Timers, Running(t)
        PROVE  \E i \in DOMAIN time_wheel[Position(state[t].timeout)] :
                 time_wheel[Position(state[t].timeout)][i] = t
    <3> DEFINE p == Position(state[t].timeout)
    <3>1. Place(state)[t] = p /\ p \in Positions
      BY <2>1, <2>3, PlaceType DEF Running
    <3> HIDE DEF p
    <3>2. t \in Contents(time_wheel[p])
      BY <1>1, <3>1 DEF TypeInv, WheelInv, WheelAt
    <3>3. \E i \in DOMAIN time_wheel[p] : time_wheel[p][i] = t
      BY <3>2 DEF Contents
    <3> QED
      BY <3>3 DEF p
  <2> QED
    BY <2>1, <2>2, <2>3 DEF WheelHoldsRunning
<1> QED
  BY <1>1, TypeInvHolds, PTL

(* The free list holds every timer that was created and is not allocated,  *)
(* once, and only an allocated timer runs: dealloc_timer_ stops a timer    *)
(* before it gives it to the next user.                                    *)
THEOREM FreeListCorrect == Spec => []FreeListExact
<1>1. ASSUME TypeInv
      PROVE  FreeListExact
  <2>1. \A i \in DOMAIN free_list : free_list[i] \notin allocated
    BY <1>1 DEF TypeInv, ListInv, Contents
  <2>2. \A i, j \in DOMAIN free_list : free_list[i] = free_list[j] => i = j
    BY <1>1 DEF TypeInv, ListInv, Distinct
  <2>3. Len(free_list) + Cardinality(allocated) = size
    BY <1>1 DEF TypeInv, ListInv
  <2>4. \A t \in Timers : Running(t) => t \in allocated
    BY <1>1 DEF TypeInv, ListInv, RunningIn, Running
  <2> QED
    BY <2>1, <2>2, <2>3, <2>4 DEF FreeListExact
<1> QED
  BY <1>1, TypeInvHolds, PTL

-----------------------------------------------------------------------------
(* The handler implements TimerService.  The clock is modular: these are   *)
(* the facts about %.                                                      *)
LEMMA Modulo ==
  ASSUME NEW x \in Int
  PROVE  /\ 0 <= x /\ x < Tics => x % Tics = x
         /\ Tics <= x /\ x < Tics + Tics => x % Tics = x - Tics
         /\ x < 0 /\ x + Tics >= 0 => x % Tics = x + Tics
<1> DEFINE T == Tics
<1>1. T \in Nat \ {0}
  BY ConstantsAssumption
<1> HIDE DEF T
<1>2. 0 <= x /\ x < T => x % T = x
  BY <1>1
<1>3. T <= x /\ x < T + T => x % T = x - T
  BY <1>1
<1>4. x < 0 /\ x + T >= 0 => x % T = x + T
  BY <1>1
<1> QED
  BY <1>2, <1>3, <1>4 DEF T

(* A timer that is started has its duration left.                          *)
LEMMA LeftWhenStarted ==
  ASSUME NEW c \in Clock, NEW d \in Durations
  PROVE  /\ (c + d) % Tics # c
         /\ (((c + d) % Tics) - c) % Tics = d
<1> DEFINE T == Tics
           u == (c + d) % T
<1>1. T \in Nat /\ c \in Nat /\ c < T /\ d \in Nat /\ 0 < d /\ d < T
  BY ConstantsAssumption DEF Clock
<1>2. (c + d < T => u = c + d) /\ (c + d >= T => u = c + d - T)
  BY <1>1, Modulo
<1> HIDE DEF T, u
<1>3. u # c /\ u \in Nat /\ u < T
  BY <1>1, <1>2
<1>4. (u - c) % T = IF u >= c THEN u - c ELSE u - c + T
  BY <1>1, <1>3, Modulo DEF T
<1>5. (u - c) % T = d
  BY <1>1, <1>2, <1>3, <1>4
<1> QED
  BY <1>3, <1>5 DEF T, u

(* A tic takes one off what a timer has left that is not due, and one that *)
(* is due has one tic left.                                                *)
LEMMA LeftTicks ==
  ASSUME NEW c \in Clock, NEW u \in Clock, u # c
  PROVE  /\ (u - c) % Tics \in Nat \ {0}
         /\ u = (c + 1) % Tics <=> (u - c) % Tics = 1
         /\ u # (c + 1) % Tics =>
              (u - ((c + 1) % Tics)) % Tics = ((u - c) % Tics) - 1
<1> DEFINE T == Tics
           n == (c + 1) % T
<1>1. T \in Nat /\ c \in Nat /\ c < T /\ u \in Nat /\ u < T
  BY ConstantsAssumption DEF Clock
<1>2. n = IF c + 1 < T THEN c + 1 ELSE 0
  BY <1>1, Modulo
<1> HIDE DEF T, n
<1>3. n \in Nat /\ n < T
  BY <1>1, <1>2
<1>4. (u - c) % T = IF u >= c THEN u - c ELSE u - c + T
  BY <1>1, Modulo DEF T
<1>5. (u - n) % T = IF u >= n THEN u - n ELSE u - n + T
  BY <1>1, <1>3, Modulo DEF T
<1>6. (u - c) % T \in Nat \ {0}
  BY <1>1, <1>4
<1>7. u = n <=> (u - c) % T = 1
  BY <1>1, <1>2, <1>4
<1>8. u # n => (u - n) % T = ((u - c) % T) - 1
  BY <1>1, <1>2, <1>4, <1>5
<1> QED
  BY <1>6, <1>7, <1>8 DEF T, n

(* A timer that was passed has a whole turn of the clock left.             *)
LEMMA TurnTicks ==
  ASSUME NEW c \in Clock
  PROVE  /\ Tics = 1 <=> c = (c + 1) % Tics
         /\ c # (c + 1) % Tics => (c - ((c + 1) % Tics)) % Tics = Tics - 1
<1> DEFINE T == Tics
           n == (c + 1) % T
<1>1. T \in Nat /\ c \in Nat /\ c < T
  BY ConstantsAssumption DEF Clock
<1>2. n = IF c + 1 < T THEN c + 1 ELSE 0
  BY <1>1, Modulo
<1> HIDE DEF T, n
<1>3. T = 1 <=> c = n
  BY <1>1, <1>2
<1>4. n \in Nat /\ n < T /\ (c - n) % T = IF c >= n THEN c - n ELSE c - n + T
  BY <1>1, <1>2, Modulo DEF T
<1>5. c # n => (c - n) % T = T - 1
  BY <1>1, <1>2, <1>4
<1> QED
  BY <1>3, <1>5 DEF T, n

(* One timer is ahead of another in a list, or the same.                   *)
Before(list, a, b) ==
  \E i \in DOMAIN list : \E j \in DOMAIN list : i <= j /\ list[i] = a /\ list[j] = b

LEMMA PopBefore ==
  ASSUME NEW S, NEW list \in Seq(S), NEW t, NEW a, NEW b,
         a # t, b # t, Before(list, a, b)
  PROVE  Before(Pop(list, t), a, b)
<1>1. PICK i \in DOMAIN list, j \in DOMAIN list : i <= j /\ list[i] = a /\ list[j] = b
  BY DEF Before
<1>2. CASE \A k \in DOMAIN list : list[k] # t
  BY <1>1, <1>2 DEF Pop, Before
<1>3. CASE \E k \in DOMAIN list : list[k] = t
  <2> DEFINE k == CHOOSE j0 \in DOMAIN list : list[j0] = t
             short == [h \in 1 .. Len(list) - 1 |-> list[IF h < k THEN h ELSE h + 1]]
             At(h) == IF h < k THEN h ELSE h - 1
  <2>1. k \in DOMAIN list /\ list[k] = t /\ Pop(list, t) = short
    BY <1>3 DEF Pop
  <2> HIDE DEF k
  <2>2. /\ Len(list) \in Nat /\ DOMAIN list = 1 .. Len(list) /\ k \in Nat
        /\ i \in Nat /\ j \in Nat
    BY <1>1, <2>1
  <2>3. ASSUME NEW h \in DOMAIN list, h # k
        PROVE  At(h) \in DOMAIN short /\ short[At(h)] = list[h]
    <3>1. /\ h \in Nat /\ At(h) \in 1 .. Len(list) - 1
          /\ (IF At(h) < k THEN At(h) ELSE At(h) + 1) = h
      BY <2>1, <2>2, <2>3
    <3> QED
      BY <3>1
  <2>4. i # k /\ j # k
    BY <1>1, <2>1
  <2>5. At(i) <= At(j)
    BY <1>1, <2>2, <2>4
  <2>6. /\ At(i) \in DOMAIN short /\ short[At(i)] = a
        /\ At(j) \in DOMAIN short /\ short[At(j)] = b
    BY <1>1, <2>3, <2>4
  <2> HIDE DEF At, short
  <2> QED
    BY <2>1, <2>5, <2>6 DEF Before
<1> QED
  BY <1>2, <1>3

LEMMA PushBefore ==
  ASSUME NEW S, NEW list \in Seq(S), NEW t \in S, NEW a, NEW b, Before(list, a, b)
  PROVE  Before(<<t>> \o list, a, b)
<1> DEFINE long == <<t>> \o list
<1>1. PICK i \in DOMAIN list, j \in DOMAIN list : i <= j /\ list[i] = a /\ list[j] = b
  BY DEF Before
<1>2. \A h \in DOMAIN list : h \in Nat /\ h + 1 \in DOMAIN long /\ long[h + 1] = list[h]
  OBVIOUS
<1> HIDE DEF long
<1>3. i + 1 <= j + 1
  BY <1>1, <1>2
<1>4. Before(long, a, b)
  BY <1>1, <1>2, <1>3 DEF Before
<1> QED
  BY <1>4 DEF long

(* The list that step_all walks.                                           *)
Walked == time_wheel[Position(NextTic)]

(* While step_all walks, every timer that is due is still to be visited: it*)
(* is at the iterator or behind it, unless the walk was disturbed.         *)
AheadInv ==
  pc # "idle" /\ ~disturbed =>
    /\ it # End => it \in Contents(Walked)
    /\ \A t \in Timers : Due(t) => it # End /\ Before(Walked, it, t)

LEMMA TicTypes ==
  ASSUME TypeInv
  PROVE  /\ cur_time \in Clock /\ NextTic \in Clock /\ Position(NextTic) \in Positions
         /\ Walked \in Seq(Timers) /\ Distinct(Walked)
         /\ \A t \in Timers : state[t] \in States /\ state[t].timeout \in Clock
         /\ \A t \in Timers : Due(t) => t \in Contents(Walked)
         /\ \A t \in Timers : t \in Contents(Walked) => Running(t)
<1>1. cur_time \in Clock /\ state \in [Timers -> States]
  BY DEF TypeInv, WheelInv
<1>2. cur_time + 1 \in Nat
  BY <1>1, Arithmetic
<1>3. NextTic \in Clock /\ Position(NextTic) \in Positions
  BY <1>2, Arithmetic DEF NextTic
<1>4. \A t \in Timers : state[t] \in States /\ state[t].timeout \in Clock
  BY <1>1 DEF States
<1>5. /\ Walked \in Seq(Timers) /\ Distinct(Walked)
      /\ \A t \in Timers : t \in Contents(Walked) <=> Place(state)[t] = Position(NextTic)
  BY <1>3 DEF TypeInv, WheelInv, WheelAt, Walked
<1>6. \A t \in Timers : Due(t) => t \in Contents(Walked)
  BY <1>1, <1>5, PlaceType DEF Due, Running
<1>7. \A t \in Timers : t \in Contents(Walked) => Running(t)
  BY <1>1, <1>3, <1>5, PlaceType DEF Running
<1> QED
  BY <1>1, <1>3, <1>4, <1>5, <1>6, <1>7

(* What a user does to the wheel: one timer starts, one leaves, or all do. *)
Leaves(t) ==
  /\ Disconnect(t)
  /\ \E s \in States : s.mode # "RUNNING" /\ state' = [state EXCEPT ![t] = s]

LEMMA UserEffect ==
  ASSUME TypeInv, User
  PROVE  /\ cur_time' = cur_time /\ UNCHANGED walkVars
         /\ disturbed' = (disturbed \/ ~WalkUndisturbed)
         /\ \/ UNCHANGED <<state, time_wheel>>
            \/ \E t \in Timers : \E d \in Durations : start_run_(t, d)
            \/ \E t \in Timers : Leaves(t)
            \/ stop_all
<1>1. ASSUME get_unique_timer
      PROVE  cur_time' = cur_time /\ UNCHANGED walkVars /\ UNCHANGED <<state, time_wheel>>
  BY <1>1 DEF get_unique_timer, walkVars
<1>2. ASSUME stop_all
      PROVE  cur_time' = cur_time /\ UNCHANGED walkVars
  BY <1>2 DEF stop_all
<1>3. ASSUME NEW t \in Timers, NEW d \in Durations, set(t, d)
      PROVE  /\ cur_time' = cur_time /\ UNCHANGED walkVars
             /\ start_run_(t, d) \/ Leaves(t)
  <2>1. CASE Running(t)
    BY <1>3, <2>1 DEF set
  <2>2. CASE ~Running(t)
    <3>1. State("STOPPED", d, 0) \in States /\ State("STOPPED", d, 0).mode # "RUNNING"
      BY Arithmetic DEF State, States, Modes
    <3>2. state' = [state EXCEPT ![t] = State("STOPPED", d, 0)] /\ Disconnect(t)
      BY <1>3, <2>2 DEF set, Disconnect
    <3> QED
      BY <1>3, <3>1, <3>2 DEF set, Leaves
  <2> QED
    BY <2>1, <2>2
<1>4. ASSUME NEW t \in Timers, run(t)
      PROVE  /\ cur_time' = cur_time /\ UNCHANGED walkVars
             /\ \E d \in Durations : start_run_(t, d)
  <2>1. state[t].duration \in Durations
    BY <1>4 DEF run, TypeInv, WheelInv, States
  <2> QED
    BY <1>4, <2>1 DEF run
<1>5. ASSUME NEW t \in Timers, NEW mode \in {"STOPPED", "EXPIRED"}, stop_timer_(t, mode)
      PROVE  Leaves(t)
  <2> DEFINE s == IF Running(t) THEN [state[t] EXCEPT !.mode = mode] ELSE state[t]
  <2>1. s \in States /\ s.mode # "RUNNING"
    BY DEF TypeInv, WheelInv, States, Modes, Running
  <2>2. state' = [state EXCEPT ![t] = s] /\ Disconnect(t)
    BY <1>5 DEF stop_timer_, TypeInv, WheelInv
  <2> QED
    BY <2>1, <2>2 DEF Leaves
<1>6. ASSUME NEW t \in Timers, stop(t)
      PROVE  cur_time' = cur_time /\ UNCHANGED walkVars /\ Leaves(t)
  BY <1>5, <1>6 DEF stop
<1>7. ASSUME NEW t \in Timers, dealloc_timer_(t)
      PROVE  cur_time' = cur_time /\ UNCHANGED walkVars /\ Leaves(t)
  <2>1. State("STOPPED", 0, 0) \in States /\ State("STOPPED", 0, 0).mode # "RUNNING"
    BY Arithmetic DEF State, States, Modes
  <2> QED
    BY <1>7, <2>1 DEF dealloc_timer_, Leaves
<1>8. disturbed' = (disturbed \/ ~WalkUndisturbed)
  BY DEF User
<1> HIDE DEF WalkUndisturbed
<1> QED
  BY <1>1, <1>2, <1>3, <1>4, <1>6, <1>7, <1>8 DEF User

(* The list that is walked loses or gains one timer at a time.             *)
LEMMA WalkedAfter ==
  ASSUME TypeInv, User
  PROVE  \/ Walked' = Walked \/ Walked' = <<>>
         \/ \E t \in Timers : Walked' = Pop(Walked, t) \/ Walked' = <<t>> \o Walked
<1> DEFINE P == Position(NextTic)
<1>1. P \in Positions /\ time_wheel \in [Positions -> Seq(Timers)]
  BY TicTypes DEF TypeInv, WheelInv
<1>2. cur_time' = cur_time /\ Walked = time_wheel[P] /\ Walked' = time_wheel'[P]
  BY UserEffect DEF Walked, NextTic
<1> HIDE DEF P
<1>3. CASE UNCHANGED <<state, time_wheel>>
  BY <1>2, <1>3
<1>4. ASSUME NEW t \in Timers, NEW d \in Durations, start_run_(t, d)
      PROVE  Walked' = Walked \/ Walked' = Pop(Walked, t) \/ Walked' = <<t>> \o Walked
  <2> DEFINE o == Position(state[t].timeout)
             n == Position((cur_time + d) % Tics)
             popped == [time_wheel EXCEPT ![o] = Pop(@, t)]
  <2>1. CASE Running(t) /\ o = n
    BY <1>2, <1>4, <2>1 DEF start_run_
  <2>2. CASE Running(t) /\ o # n
    <3>1. time_wheel' = [popped EXCEPT ![n] = <<t>> \o @]
      BY <1>4, <2>2 DEF start_run_
    <3> HIDE DEF o, n
    <3> QED
      BY <1>1, <1>2, <2>2, <3>1
  <2>3. CASE ~Running(t)
    <3>1. time_wheel' = [time_wheel EXCEPT ![n] = <<t>> \o @]
      BY <1>4, <2>3 DEF start_run_
    <3> HIDE DEF n
    <3> QED
      BY <1>1, <1>2, <3>1
  <2> QED
    BY <2>1, <2>2, <2>3
<1>5. ASSUME NEW t \in Timers, Leaves(t)
      PROVE  Walked' = Walked \/ Walked' = Pop(Walked, t)
  BY <1>1, <1>2, <1>5 DEF Leaves, Disconnect
<1>6. CASE stop_all
  BY <1>1, <1>2, <1>6 DEF stop_all
<1> QED
  BY <1>3, <1>4, <1>5, <1>6, UserEffect

LEMMA UserKeepsAhead ==
  ASSUME TypeInv, TypeInv', FlagInv, AheadInv, User
  PROVE  AheadInv'
<1>1. disturbed' = (disturbed \/ ~WalkUndisturbed)
  BY UserEffect
<1>2. /\ cur_time' = cur_time /\ pc' = pc /\ it' = it
      /\ NextTic' = NextTic
  BY UserEffect DEF walkVars, NextTic
<1>3. CASE pc = "idle" \/ disturbed \/ ~WalkUndisturbed
  <2>1. pc' = "idle" \/ disturbed'
    <3> HIDE DEF WalkUndisturbed
    <3> QED
      BY <1>1, <1>2, <1>3 DEF FlagInv
  <2> QED
    BY <2>1 DEF AheadInv
<1>4. CASE pc # "idle" /\ ~disturbed /\ WalkUndisturbed
  <2>1. pc = "callback" /\ WalkUndisturbed
    BY <1>4 DEF User, TypeInv, WalkInv
  <2>2. it # End => it \in Contents(Walked')
    BY <1>2, <2>1 DEF WalkUndisturbed, Walked, Contents
  <2>3. ASSUME NEW u \in Timers, Due(u)'
        PROVE  it # End /\ Before(Walked', it, u)
    <3>1. it # End /\ Before(Walked, it, u)
      BY <1>4, <2>1, <2>3 DEF WalkUndisturbed, AheadInv
    <3>2. u \in Contents(Walked')
      <4>1. NextTic \in Clock /\ Position(NextTic) \in Positions
        BY TicTypes
      <4>2. /\ state' \in [Timers -> States] /\ WheelAt(time_wheel', Place(state'))
            /\ state'[u].mode = "RUNNING" /\ state'[u].timeout = NextTic
        BY <1>2, <2>3 DEF TypeInv, WheelInv, Due, Running
      <4>3. Place(state')[u] = Position(NextTic)
        BY <4>2, PlaceType
      <4>4. u \in Contents(time_wheel'[Position(NextTic)])
        BY <4>1, <4>2, <4>3 DEF WheelAt
      <4> QED
        BY <1>2, <4>4 DEF Walked
    <3>3. it \in Contents(Walked')
      BY <2>2, <3>1
    <3>4. Walked \in Seq(Timers) /\ Distinct(Walked)
      BY TicTypes
    <3>5. Walked' # <<>>
      BY <3>3 DEF Contents
    <3>6. ASSUME NEW t \in Timers, Walked' = Pop(Walked, t)
          PROVE  Before(Walked', it, u)
      <4>1. Contents(Pop(Walked, t)) = Contents(Walked) \ {t}
        BY <3>4, PopLemma
      <4>2. it # t /\ u # t
        BY <3>2, <3>3, <3>6, <4>1
      <4> QED
        BY <3>1, <3>4, <3>6, <4>2, PopBefore
    <3>7. ASSUME NEW t \in Timers, Walked' = <<t>> \o Walked
          PROVE  Before(Walked', it, u)
      BY <3>1, <3>4, <3>7, PushBefore
    <3> QED
      BY <3>1, <3>5, <3>6, <3>7, WalkedAfter
  <2> QED
    BY <1>2, <2>2, <2>3 DEF AheadInv
<1> QED
  BY <1>3, <1>4

(* In the list that is walked, the iterator moves on to the next timer.    *)
LEMMA SuccessorOf ==
  ASSUME TypeInv, NEW k \in DOMAIN Walked
  PROVE  Successor(Walked[k]) = IF k < Len(Walked) THEN Walked[k + 1] ELSE End
<1> DEFINE t == Walked[k]
           P == Position(NextTic)
<1>1. /\ P \in Positions /\ Walked = time_wheel[P] /\ Walked \in Seq(Timers) /\ Distinct(Walked)
      /\ DOMAIN time_wheel = Positions
  BY TicTypes DEF Walked, TypeInv, WheelInv
<1>2. t \in Timers /\ t \in Contents(Walked)
  BY <1>1 DEF Contents
<1> HIDE DEF P
<1>3. ASSUME NEW p \in Positions, NEW i \in DOMAIN time_wheel[p], time_wheel[p][i] = t
      PROVE  p = P /\ i = k
  <2>1. t \in Contents(time_wheel[p])
    BY <1>3 DEF Contents
  <2>2. p = P
    BY <1>1, <1>2, <2>1 DEF TypeInv, WheelInv, WheelAt
  <2> QED
    BY <1>1, <1>3, <2>2 DEF Distinct
<1>4. /\ Len(Walked) \in Nat /\ DOMAIN Walked = 1 .. Len(Walked) /\ k \in Nat
      /\ \A p \in Positions :
           DOMAIN time_wheel[p] = 1 .. Len(time_wheel[p]) /\ Len(time_wheel[p]) \in Nat
  BY <1>1 DEF TypeInv, WheelInv
<1>5. ASSUME NEW p \in DOMAIN time_wheel, NEW i \in 1 .. Len(time_wheel[p]) - 1,
             time_wheel[p][i] = t
      PROVE  p = P /\ i = k /\ k < Len(Walked)
  <2>1. i \in DOMAIN time_wheel[p] /\ p \in Positions
    BY <1>1, <1>4
  <2>2. p = P /\ i = k
    BY <1>3, <1>5, <2>1
  <2> QED
    BY <1>1, <1>4, <2>2
<1> HIDE DEF t
<1>6. CASE k < Len(Walked)
  <2> DEFINE Follows(u) ==
         \E p \in DOMAIN time_wheel : \E i \in 1 .. Len(time_wheel[p]) - 1 :
           time_wheel[p][i] = t /\ time_wheel[p][i + 1] = u
  <2>1. k \in 1 .. Len(time_wheel[P]) - 1 /\ time_wheel[P][k] = t /\ P \in DOMAIN time_wheel
    BY <1>1, <1>4, <1>6 DEF t
  <2>2. Walked[k + 1] \in Timers /\ Walked[k + 1] = time_wheel[P][k + 1]
    BY <1>1, <1>4, <1>6
  <2>3. Follows(Walked[k + 1])
    BY <2>1, <2>2
  <2>4. ASSUME NEW u \in Timers, Follows(u)
        PROVE  u = Walked[k + 1]
    <3>1. PICK p \in DOMAIN time_wheel :
            \E i \in 1 .. Len(time_wheel[p]) - 1 :
              time_wheel[p][i] = t /\ time_wheel[p][i + 1] = u
      BY <2>4
    <3>2. PICK i \in 1 .. Len(time_wheel[p]) - 1 :
              time_wheel[p][i] = t /\ time_wheel[p][i + 1] = u
      BY <3>1
    <3>3. p = P /\ i = k
      BY <1>5, <3>2
    <3> QED
      BY <2>2, <3>2, <3>3
  <2>5. Successor(t) = CHOOSE u \in Timers : Follows(u)
    BY <2>1 DEF Successor
  <2> HIDE DEF Follows
  <2> QED
    BY <1>6, <2>2, <2>3, <2>4, <2>5 DEF t
<1>7. CASE ~(k < Len(Walked))
  <2>1. Successor(t) = End
    BY <1>5, <1>7 DEF Successor
  <2> QED
    BY <1>7, <2>1 DEF t
<1> QED
  BY <1>6, <1>7

(* stop_timer_ takes the timer that is visited out of the list.            *)
LEMMA VisitDue ==
  ASSUME TypeInv, AheadInv, Walk, state[it].timeout = NextTic,
         ~disturbed \/ Running(it)
  PROVE  /\ it \in Timers /\ Running(it) /\ stop_timer_(it, "EXPIRED")
         /\ state' = [state EXCEPT ![it].mode = "EXPIRED"]
         /\ time_wheel' = [time_wheel EXCEPT ![Position(NextTic)] = Pop(@, it)]
         /\ Walked' = Pop(Walked, it)
<1>1. /\ pc = "walk" /\ it \in Timers /\ it # End /\ stop_timer_(it, "EXPIRED")
      /\ cur_time' = cur_time
  BY DEF Walk, TypeInv, WalkInv
<1>2. Running(it)
  BY <1>1, TicTypes DEF AheadInv
<1>3. /\ state' = [state EXCEPT ![it].mode = "EXPIRED"]
      /\ time_wheel' = [time_wheel EXCEPT ![Position(NextTic)] = Pop(@, it)]
  BY <1>1, <1>2 DEF stop_timer_, Disconnect
<1>4. Walked' = Pop(Walked, it)
  <2> DEFINE P == Position(NextTic)
  <2>1. P \in Positions /\ time_wheel \in [Positions -> Seq(Timers)]
    BY TicTypes DEF TypeInv, WheelInv
  <2>2. Walked = time_wheel[P] /\ Walked' = time_wheel'[P]
    BY <1>1 DEF Walked, NextTic
  <2>3. time_wheel' = [time_wheel EXCEPT ![P] = Pop(@, it)]
    BY <1>3
  <2> HIDE DEF P
  <2> QED
    BY <2>1, <2>2, <2>3
<1> QED
  BY <1>1, <1>2, <1>3, <1>4

LEMMA WalkKeepsAhead ==
  ASSUME TypeInv, AheadInv, Walk
  PROVE  AheadInv'
<1> SUFFICES ASSUME ~disturbed PROVE AheadInv'
  BY DEF Walk, AheadInv
<1>1. /\ pc = "walk" /\ it \in Timers /\ it # End /\ it' = Successor(it)
      /\ cur_time' = cur_time /\ NextTic' = NextTic
  BY DEF Walk, TypeInv, WalkInv, NextTic
<1>2. /\ Walked \in Seq(Timers) /\ Distinct(Walked) /\ it \in Contents(Walked)
      /\ state \in [Timers -> States]
  BY <1>1, TicTypes DEF AheadInv, TypeInv, WheelInv
<1>3. PICK k \in DOMAIN Walked : Walked[k] = it
  BY <1>2 DEF Contents
<1>4. it' = IF k < Len(Walked) THEN Walked[k + 1] ELSE End
  BY <1>1, <1>3, SuccessorOf
<1>5. /\ Len(Walked) \in Nat /\ DOMAIN Walked = 1 .. Len(Walked) /\ k \in Nat
      /\ DOMAIN Walked \subseteq Nat
  BY <1>2
<1>6. it' # End => /\ it' \in Timers /\ it' # it /\ it' \in Contents(Walked)
  <2> SUFFICES ASSUME k < Len(Walked)
               PROVE  /\ it' \in Timers /\ it' # it /\ it' \in Contents(Walked)
    BY <1>4
  <2>1. k + 1 \in DOMAIN Walked /\ k + 1 # k /\ it' = Walked[k + 1]
    BY <1>4, <1>5
  <2>2. it' # it
    BY <1>2, <1>3, <2>1 DEF Distinct
  <2>3. it' \in Timers /\ it' \in Contents(Walked)
    BY <1>2, <2>1 DEF Contents
  <2> QED
    BY <2>2, <2>3
<1>7. ASSUME NEW u \in Timers, u # it, Due(u)
      PROVE  it' # End /\ Before(Walked, it', u)
  <2>1. Before(Walked, it, u)
    BY <1>1, <1>7 DEF AheadInv
  <2>2. PICK i \in DOMAIN Walked, j \in DOMAIN Walked :
          i <= j /\ Walked[i] = it /\ Walked[j] = u
    BY <2>1 DEF Before
  <2>3. i = k /\ j # k
    BY <1>2, <1>3, <1>7, <2>2 DEF Distinct
  <2>4. k + 1 \in DOMAIN Walked /\ k + 1 <= j /\ k < Len(Walked)
    BY <1>5, <2>2, <2>3
  <2>5. it' = Walked[k + 1]
    BY <1>4, <2>4
  <2>6. it' \in Timers
    BY <1>2, <2>4, <2>5
  <2>7. it' # End
    BY <2>6, ConstantsAssumption
  <2> QED
    BY <2>2, <2>4, <2>5, <2>7 DEF Before
<1>8. CASE state[it].timeout = NextTic
  <2>1. /\ state' = [state EXCEPT ![it].mode = "EXPIRED"] /\ Walked' = Pop(Walked, it)
    BY <1>8, VisitDue
  <2>2. /\ state'[it].mode = "EXPIRED" /\ \A u \in Timers : u # it => state'[u] = state[u]
    BY <1>1, <1>2, <2>1 DEF States
  <2>3. Contents(Walked') = Contents(Walked) \ {it}
    BY <1>2, <2>1, PopLemma
  <2>4. it' # End => it' \in Contents(Walked')
    BY <1>6, <2>3
  <2>5. ASSUME NEW u \in Timers, Due(u)'
        PROVE  it' # End /\ Before(Walked', it', u)
    <3>1. u # it /\ Due(u)
      BY <1>1, <2>2, <2>5 DEF Due, Running
    <3>2. it' # End /\ Before(Walked, it', u)
      BY <1>7, <3>1
    <3>3. Before(Pop(Walked, it), it', u)
      BY <1>2, <1>6, <3>1, <3>2, PopBefore
    <3> QED
      BY <2>1, <3>2, <3>3
  <2> QED
    BY <2>4, <2>5 DEF AheadInv
<1>9. CASE state[it].timeout # NextTic
  <2>1. state' = state /\ time_wheel' = time_wheel
    BY <1>9 DEF Walk
  <2>2. Walked' = Walked
    BY <1>1, <2>1 DEF Walked
  <2>3. ASSUME NEW u \in Timers, Due(u)'
        PROVE  it' # End /\ Before(Walked', it', u)
    <3>1. u # it /\ Due(u)
      BY <1>1, <1>9, <2>1, <2>3 DEF Due, Running
    <3> QED
      BY <1>7, <2>2, <3>1
  <2> QED
    BY <1>6, <2>2, <2>3 DEF AheadInv
<1> QED
  BY <1>8, <1>9

(* A walk begins with all that is due ahead, however the one before went.  *)
LEMMA BeginKeepsAhead ==
  ASSUME TypeInv, StepBegin
  PROVE  AheadInv'
<1>1. /\ it' = Head0(Walked) /\ state' = state /\ time_wheel' = time_wheel
      /\ cur_time' = cur_time
  BY DEF StepBegin, Walked
<1>2. Walked' = Walked /\ Walked \in Seq(Timers)
  BY <1>1, TicTypes DEF Walked, NextTic
<1>3. it' # End => it' \in Contents(Walked')
  BY <1>1, <1>2 DEF Head0, Contents
<1>4. ASSUME NEW u \in Timers, Due(u)'
      PROVE  it' # End /\ Before(Walked', it', u)
  <2>1. u \in Contents(Walked)
    BY <1>1, <1>4, TicTypes DEF Due, Running, NextTic
  <2>2. PICK j \in DOMAIN Walked : Walked[j] = u
    BY <2>1 DEF Contents
  <2>3. 1 \in DOMAIN Walked /\ 1 <= j /\ it' = Walked[1] /\ Walked[1] \in Timers
    BY <1>1, <1>2, <2>2 DEF Head0
  <2>4. it' # End
    BY <2>3, ConstantsAssumption
  <2> QED
    BY <1>2, <2>2, <2>3, <2>4 DEF Before
<1> QED
  BY <1>3, <1>4 DEF AheadInv

LEMMA AheadInvInit == Init => AheadInv
BY DEF Init, AheadInv

LEMMA AheadInvNext ==
  ASSUME TypeInv, TypeInv', FlagInv, AheadInv, [Next]_vars
  PROVE  AheadInv'
<1>1. CASE UNCHANGED vars
  BY <1>1 DEF vars, listVars, walkVars, AheadInv, Running, Due, Walked, NextTic
<1>2. CASE User
  BY <1>2, UserKeepsAhead
<1>3. CASE StepBegin
  BY <1>3, BeginKeepsAhead
<1>4. CASE Walk
  BY <1>4, WalkKeepsAhead
<1>5. CASE CallbackReturns
  BY <1>5 DEF CallbackReturns, AheadInv, Running, Due, Walked, NextTic, TypeInv, WalkInv
<1>6. CASE StepEnd
  BY <1>6 DEF StepEnd, AheadInv
<1> QED
  BY <1>1, <1>2, <1>3, <1>4, <1>5, <1>6 DEF Next, step_all

LEMMA AheadHolds == Spec => [](TypeInv /\ FlagInv /\ AheadInv)
<1>1. Init => FlagInv
  BY DEF Init, FlagInv
<1>2. Init => TypeInv /\ FlagInv /\ AheadInv
  BY <1>1, TypeInvInit, AheadInvInit
<1>3. TypeInv /\ FlagInv /\ AheadInv /\ [Next]_vars => TypeInv' /\ FlagInv' /\ AheadInv'
  BY TypeInvNext, FlagInvNext, AheadInvNext
<1> QED
  BY <1>2, <1>3, PTL DEF Spec

(* A callback sees that its timer has expired (timers.h:259) in every tic  *)
(* whose walk is not disturbed.  One that was disturbed before does no     *)
(* harm: the next walk starts at the head of a list that holds, by         *)
(* WheelInv, exactly the timers of its slot.                               *)
THEOREM ExpiredBeforeCallback == Spec => CallbackSeesExpired
<1> DEFINE Seen == calling = End /\ calling' # End /\ ~disturbed =>
                    state'[calling'].mode = "EXPIRED"
<1>1. ASSUME TypeInv, AheadInv, [Next]_vars
      PROVE  [Seen]_vars
  <2> SUFFICES ASSUME calling = End, calling' # End, ~disturbed
               PROVE  state'[calling'].mode = "EXPIRED"
    OBVIOUS
  <2>1. Walk
    <3>1. ~User
      BY UserEffect, <1>1 DEF walkVars
    <3> QED
      BY <1>1, <3>1 DEF Next, step_all, StepBegin, CallbackReturns, StepEnd, vars, walkVars
  <2>2. state[it].timeout = NextTic /\ calling' = it
    BY <2>1 DEF Walk
  <2>3. /\ it \in Timers /\ state' = [state EXCEPT ![it].mode = "EXPIRED"]
        /\ state \in [Timers -> States]
    BY <1>1, <2>1, <2>2, VisitDue DEF TypeInv, WheelInv
  <2> QED
    BY <2>2, <2>3 DEF States
<1>2. TypeInv /\ FlagInv /\ AheadInv /\ [Next]_vars => [Seen]_vars
  BY <1>1
<1>3. Spec => [][Next]_vars
  BY DEF Spec
<1>4. Spec => [][Seen]_vars
  BY <1>2, <1>3, AheadHolds, PTL
<1> QED
  BY <1>4 DEF CallbackSeesExpired

-----------------------------------------------------------------------------
(* How left, the time a timer has left, changes.                           *)
LEMMA LeftOf ==
  ASSUME TypeInv
  PROVE  /\ left \in [Timers -> Nat]
         /\ \A t \in Timers : Running(t) => left[t] # 0
         /\ \A t \in Timers : Running(t) => (left[t] = 1 <=> Due(t))
         /\ \A t \in Timers : ~Running(t) => left[t] = 0
<1>1. ASSUME NEW t \in Timers, Running(t)
      PROVE  left[t] \in Nat \ {0} /\ (left[t] = 1 <=> Due(t))
  <2>1. state[t].timeout \in Clock /\ cur_time \in Clock
    BY TicTypes
  <2>2. CASE state[t].timeout # cur_time
    <3>1. left[t] = (state[t].timeout - cur_time) % Tics
      BY <1>1, <2>2 DEF left
    <3>2. /\ (state[t].timeout - cur_time) % Tics \in Nat \ {0}
          /\ state[t].timeout = NextTic <=> (state[t].timeout - cur_time) % Tics = 1
      BY <2>1, <2>2, LeftTicks DEF NextTic
    <3> QED
      BY <1>1, <3>1, <3>2 DEF Due
  <2>3. CASE state[t].timeout = cur_time
    <3>1. left[t] = Tics /\ Tics \in Nat \ {0}
      BY <1>1, <2>3, ConstantsAssumption DEF left
    <3>2. Tics = 1 <=> cur_time = NextTic
      BY <2>1, TurnTicks DEF NextTic
    <3> QED
      BY <1>1, <2>3, <3>1, <3>2 DEF Due
  <2> QED
    BY <2>2, <2>3
<1>2. \A t \in Timers : ~Running(t) => left[t] = 0
  BY DEF left
<1>3. \A t \in Timers : left[t] \in Nat
  BY <1>1, <1>2
<1>4. left \in [Timers -> Nat]
  BY <1>3 DEF left
<1> QED
  BY <1>1, <1>2, <1>4

LEMMA LeftAfterStart ==
  ASSUME TypeInv, NEW t \in Timers, NEW d \in Durations, start_run_(t, d),
         cur_time' = cur_time
  PROVE  left' = [left EXCEPT ![t] = d]
<1>1. /\ state' = [state EXCEPT ![t] = State("RUNNING", d, (cur_time + d) % Tics)]
      /\ state \in [Timers -> States] /\ cur_time \in Clock
  BY DEF start_run_, TypeInv, WheelInv
<1>2. /\ state'[t].mode = "RUNNING" /\ state'[t].timeout = (cur_time + d) % Tics
      /\ \A u \in Timers : u # t => state'[u] = state[u]
  BY <1>1 DEF State
<1>3. (((cur_time + d) % Tics) - cur_time) % Tics = d /\ (cur_time + d) % Tics # cur_time
  BY <1>1, LeftWhenStarted
<1>4. left'[t] = d
  BY <1>2, <1>3 DEF left, Running
<1>5. \A u \in Timers : u # t => left'[u] = left[u]
  BY <1>2 DEF left, Running
<1> QED
  BY <1>4, <1>5 DEF left

LEMMA LeftAfterStop ==
  ASSUME TypeInv, NEW t \in Timers,
         NEW s, s.mode # "RUNNING", state' = [state EXCEPT ![t] = s], cur_time' = cur_time
  PROVE  left' = [left EXCEPT ![t] = 0]
<1>1. /\ state'[t].mode # "RUNNING"
      /\ \A u \in Timers : u # t => state'[u] = state[u]
  BY DEF TypeInv, WheelInv
<1>2. left'[t] = 0
  BY <1>1 DEF left, Running
<1>3. \A u \in Timers : u # t => left'[u] = left[u]
  BY <1>1 DEF left, Running
<1> QED
  BY <1>2, <1>3 DEF left

(* The walk is disturbed only in a callback, by a start for the very next  *)
(* tic or by what stops or starts again a timer that runs.                 *)
LEMMA UserDisturbs ==
  ASSUME TypeInv, FlagInv, AheadInv, User
  PROVE  /\ disturbed' \in {disturbed, disturbed \/ calling # End}
         /\ UNCHANGED <<state, time_wheel>> => disturbed' = disturbed
         /\ \A t \in Timers, d \in Durations :
              start_run_(t, d) /\ ~Running(t) /\ d # 1 => disturbed' = disturbed
         /\ \A t \in Timers : Leaves(t) /\ ~Running(t) => disturbed' = disturbed
         /\ stop_all /\ (\A t \in Timers : ~Running(t)) => disturbed' = disturbed
<1> DEFINE P == Position(NextTic)
           Kept == /\ it # End => it \in Contents(time_wheel'[P])
                   /\ \A t \in Timers : Due(t)' => Due(t)
<1>1. disturbed' = (disturbed \/ ~WalkUndisturbed) /\ cur_time' = cur_time
  BY UserEffect
<1>2. Kept => WalkUndisturbed
  BY DEF WalkUndisturbed, Contents
<1>3. ~WalkUndisturbed => pc = "callback" /\ calling # End
  BY DEF WalkUndisturbed, TypeInv, WalkInv
<1>4. disturbed \in BOOLEAN
  BY DEF FlagInv
<1>5. disturbed' \in {disturbed, disturbed \/ calling # End}
  <2> HIDE DEF WalkUndisturbed
  <2> QED
    BY <1>1, <1>3, <1>4
<1>6. SUFFICES ASSUME ~disturbed, pc = "callback"
      PROVE  /\ UNCHANGED <<state, time_wheel>> => Kept
             /\ \A t \in Timers, d \in Durations :
                  start_run_(t, d) /\ ~Running(t) /\ d # 1 => Kept
             /\ \A t \in Timers : Leaves(t) /\ ~Running(t) => Kept
             /\ stop_all /\ (\A t \in Timers : ~Running(t)) => Kept
  <2> HIDE DEF WalkUndisturbed, Kept
  <2> QED
    BY <1>1, <1>2, <1>3, <1>4, <1>5, Zenon
<1>7. /\ it # End => it \in Contents(time_wheel[P]) /\ it \in Timers
      /\ NextTic' = NextTic /\ P \in Positions /\ NextTic \in Clock /\ cur_time \in Clock
      /\ state \in [Timers -> States] /\ time_wheel \in [Positions -> Seq(Timers)]
  BY <1>1, <1>6, TicTypes DEF AheadInv, Walked, NextTic, TypeInv, WheelInv, WalkInv
<1>8. UNCHANGED <<state, time_wheel>> => Kept
  BY <1>7 DEF Due, Running
<1>9. ASSUME NEW t \in Timers, NEW d \in Durations, start_run_(t, d), ~Running(t), d # 1
      PROVE  Kept
  <2> DEFINE n == Position((cur_time + d) % Tics)
  <2>1. /\ time_wheel' = [time_wheel EXCEPT ![n] = <<t>> \o @]
        /\ state' = [state EXCEPT ![t] = State("RUNNING", d, (cur_time + d) % Tics)]
    BY <1>9 DEF start_run_
  <2>2. (cur_time + d) % Tics # NextTic
    <3>1. (cur_time + d) % Tics \in Clock
      <4>1. cur_time + d \in Nat
        BY <1>7, ConstantsAssumption DEF Clock
      <4> QED
        BY <4>1, Arithmetic
    <3> QED
      BY <1>7, <1>9, <3>1, LeftWhenStarted, LeftTicks DEF NextTic
  <2>3. /\ state'[t].timeout = (cur_time + d) % Tics
        /\ \A u \in Timers : u # t => state'[u] = state[u]
    BY <1>7, <2>1 DEF State
  <2>4. \A u \in Timers : Due(u)' => Due(u)
    BY <1>7, <2>2, <2>3 DEF Due, Running
  <2>5. time_wheel'[P] = time_wheel[P] \/ time_wheel'[P] = <<t>> \o time_wheel[P]
    <3> HIDE DEF n, P
    <3> QED
      BY <1>7, <2>1
  <2>6. /\ time_wheel[P] \in Seq(Timers)
        /\ Contents(<<t>> \o time_wheel[P]) = Contents(time_wheel[P]) \cup {t}
    BY <1>7, PushLemma
  <2> HIDE DEF P
  <2> QED
    BY <1>7, <2>4, <2>5, <2>6
<1>10. ASSUME NEW t \in Timers, Leaves(t), ~Running(t)
       PROVE  Kept
  <2>1. /\ time_wheel' = time_wheel /\ state'[t].mode # "RUNNING"
        /\ \A u \in Timers : u # t => state'[u] = state[u]
    BY <1>7, <1>10 DEF Leaves, Disconnect
  <2> QED
    BY <1>7, <2>1 DEF Due, Running
<1>11. ASSUME stop_all, \A t \in Timers : ~Running(t)
       PROVE  Kept
  <2>1. it = End
    BY <1>7, <1>11, TicTypes DEF Walked
  <2>2. \A t \in Timers : ~Due(t)'
    BY <1>11, StopAllLemma DEF TypeInv, RunningIn, Due, Running
  <2> QED
    BY <2>1, <2>2
<1> HIDE DEF Kept
<1> QED
  BY <1>8, <1>9, <1>10, <1>11

(* A user's step is a start, a stop, the stop of all, or nothing.          *)
LEMMA UserServes ==
  ASSUME TypeInv, FlagInv, AheadInv, User
  PROVE  [Service!Next]_(Service!vars)
<1>1. cur_time' = cur_time /\ calling' = calling
  BY UserEffect DEF walkVars
<1>2. CASE UNCHANGED <<state, time_wheel>>
  BY <1>1, <1>2, UserDisturbs DEF Service!vars, left, Running
<1>3. ASSUME NEW t \in Timers, NEW d \in Durations, start_run_(t, d)
      PROVE  Service!Next
  <2>1. left' = [left EXCEPT ![t] = d]
    BY <1>1, <1>3, LeftAfterStart
  <2>2. d \in 1 .. MaxDuration
    BY ConstantsAssumption DEF MaxDuration
  <2>3. Service!MayDisturb(left[t] # 0 \/ d = 1)
    <3>1. CASE Running(t) \/ d = 1
      BY <3>1, UserDisturbs, LeftOf DEF Service!MayDisturb
    <3>2. CASE ~Running(t) /\ d # 1
      BY <1>3, <3>2, UserDisturbs DEF Service!MayDisturb
    <3> QED
      BY <3>1, <3>2
  <2> QED
    BY <1>1, <2>1, <2>2, <2>3 DEF Service!Next, Service!Start
<1>4. ASSUME NEW t \in Timers, Leaves(t)
      PROVE  Service!Next
  <2>1. PICK s \in States : s.mode # "RUNNING" /\ state' = [state EXCEPT ![t] = s]
    BY <1>4 DEF Leaves
  <2>2. left' = [left EXCEPT ![t] = 0]
    BY <1>1, <2>1, LeftAfterStop
  <2>3. Service!MayDisturb(left[t] # 0)
    <3>1. CASE Running(t)
      BY <3>1, UserDisturbs, LeftOf DEF Service!MayDisturb
    <3>2. CASE ~Running(t)
      BY <1>4, <3>2, UserDisturbs DEF Service!MayDisturb
    <3> QED
      BY <3>1, <3>2
  <2> QED
    BY <1>1, <2>2, <2>3 DEF Service!Next, Service!Stop
<1>5. CASE stop_all
  <2>1. \A t \in Timers : state'[t].mode # "RUNNING"
    BY <1>5, StopAllLemma DEF TypeInv, RunningIn
  <2>2. left' = [t \in Timers |-> 0]
    BY <2>1 DEF left, Running
  <2>3. Service!MayDisturb(\E t \in Timers : left[t] # 0)
    <3>1. CASE \E t \in Timers : Running(t)
      BY <3>1, UserDisturbs, LeftOf DEF Service!MayDisturb
    <3>2. CASE \A t \in Timers : ~Running(t)
      BY <1>5, <3>2, UserDisturbs DEF Service!MayDisturb
    <3> QED
      BY <3>1, <3>2
  <2> QED
    BY <1>1, <2>2, <2>3 DEF Service!Next, Service!StopAll
<1> QED
  BY <1>2, <1>3, <1>4, <1>5, UserEffect

(* step_all fires the timers that are due, then lets the tic pass.         *)
LEMMA StepServes ==
  ASSUME TypeInv, FlagInv, AheadInv, step_all
  PROVE  [Service!Next]_(Service!vars)
<1>1. CASE StepBegin
  BY <1>1 DEF StepBegin, Service!vars, left, Running
<1>2. CASE Walk
  <2>1. /\ pc = "walk" /\ calling = End /\ it \in Timers /\ cur_time' = cur_time
        /\ calling' \in {it, calling} /\ disturbed' = disturbed
    BY <1>2 DEF Walk, TypeInv, WalkInv
  <2>2. CASE state[it].timeout = NextTic /\ (~disturbed \/ Running(it))
    <3>1. Running(it) /\ state' = [state EXCEPT ![it].mode = "EXPIRED"]
      BY <1>2, <2>2, VisitDue
    <3>2. left[it] = 1
      BY <2>1, <2>2, <3>1, LeftOf DEF Due
    <3> DEFINE s == [state[it] EXCEPT !.mode = "EXPIRED"]
    <3>3. s.mode # "RUNNING" /\ state' = [state EXCEPT ![it] = s]
      BY <2>1, <3>1 DEF TypeInv, WheelInv, States
    <3> HIDE DEF s
    <3>4. left' = [left EXCEPT ![it] = 0]
      BY <2>1, <3>3, LeftAfterStop
    <3> QED
      BY <2>1, <3>2, <3>4 DEF Service!Next, Service!Fire
  <2>3. CASE state[it].timeout = NextTic /\ disturbed /\ ~Running(it)
    <3>1. state' = state
      BY <1>2, <2>3 DEF Walk, stop_timer_
    <3>2. left' = left /\ left[it] = 0
      BY <2>1, <2>3, <3>1, LeftOf DEF left, Running
    <3>3. CASE calling' = it
      BY <2>1, <2>3, <3>2, <3>3 DEF Service!Next, Service!CallStopped
    <3>4. CASE calling' = calling
      BY <2>1, <3>2, <3>4 DEF Service!vars
    <3> QED
      BY <2>1, <3>3, <3>4
  <2>4. CASE state[it].timeout # NextTic
    BY <1>2, <2>1, <2>4 DEF Walk, Service!vars, left, Running
  <2> QED
    BY <2>2, <2>3, <2>4 DEF FlagInv
<1>3. CASE CallbackReturns
  <2>1. /\ calling # End /\ calling' = End /\ state' = state /\ cur_time' = cur_time
        /\ disturbed' = disturbed
    BY <1>3 DEF CallbackReturns, TypeInv, WalkInv
  <2>2. left' = left
    BY <2>1 DEF left, Running
  <2> QED
    BY <2>1, <2>2 DEF Service!Next, Service!Return
<1>4. CASE StepEnd
  <2>1. /\ pc = "walk" /\ it = End /\ calling = End /\ calling' = calling
        /\ cur_time' = NextTic /\ state' = state /\ disturbed' = FALSE
    BY <1>4 DEF StepEnd, TypeInv, WalkInv
  <2>2. disturbed \/ \A t \in Timers : left[t] # 1
    BY <2>1, LeftOf DEF AheadInv
  <2>3. ASSUME NEW t \in Timers, Running(t)
        PROVE  left'[t] = IF left[t] = 1 THEN Tics ELSE left[t] - 1
    <3>1. state[t].timeout \in Clock /\ cur_time \in Clock
      BY TicTypes
    <3>2. left'[t] = IF state[t].timeout = NextTic THEN Tics
                     ELSE (state[t].timeout - NextTic) % Tics
      BY <2>1, <2>3 DEF left, Running
    <3>3. CASE state[t].timeout = NextTic
      BY <2>3, <3>2, <3>3, LeftOf DEF Due
    <3>4. CASE state[t].timeout # NextTic /\ state[t].timeout # cur_time
      <4>1. left[t] = (state[t].timeout - cur_time) % Tics /\ left[t] # 1
        BY <2>3, <3>4, LeftOf DEF left, Due
      <4>2. (state[t].timeout - NextTic) % Tics = ((state[t].timeout - cur_time) % Tics) - 1
        BY <3>1, <3>4, LeftTicks DEF NextTic
      <4> QED
        BY <3>2, <3>4, <4>1, <4>2
    <3>5. CASE state[t].timeout # NextTic /\ state[t].timeout = cur_time
      <4>1. left[t] = Tics /\ left[t] # 1
        BY <2>3, <3>5, LeftOf DEF left, Due
      <4>2. (cur_time - NextTic) % Tics = Tics - 1
        BY <3>1, <3>5, TurnTicks DEF NextTic
      <4> QED
        BY <3>2, <3>5, <4>1, <4>2
    <3> QED
      BY <3>3, <3>4, <3>5
  <2>4. ASSUME NEW t \in Timers
        PROVE  left'[t] = IF left[t] = 0 THEN 0
                          ELSE IF left[t] = 1 THEN MaxDuration + 1 ELSE left[t] - 1
    <3>1. CASE Running(t)
      <4>1. left[t] # 0 /\ MaxDuration + 1 = Tics
        BY <3>1, LeftOf, ConstantsAssumption DEF MaxDuration
      <4> QED
        BY <2>3, <3>1, <4>1
    <3>2. CASE ~Running(t)
      BY <2>1, <3>2 DEF left, Running
    <3> QED
      BY <3>1, <3>2
  <2>5. left' = [t \in Timers |-> IF left[t] = 0 THEN 0
                                 ELSE IF left[t] = 1 THEN MaxDuration + 1 ELSE left[t] - 1]
    BY <2>4 DEF left
  <2> QED
    BY <2>1, <2>2, <2>5 DEF Service!Next, Service!Tick
<1> QED
  BY <1>1, <1>2, <1>3, <1>4 DEF step_all

(* The wheel implements the timers its users expect, safety's part: a      *)
(* timer fires once, when exactly its duration has passed, however the     *)
(* clock wraps and the wheel is shared, and no tic passes a timer that is  *)
(* due unless a user disturbed the walk of that very tic.                  *)
THEOREM ImplementsTimers == Spec => Service!Spec
<1>1. Init => Service!Init
  BY DEF Init, Service!Init, left, Running, State
<1>2. TypeInv /\ FlagInv /\ AheadInv /\ [Next]_vars => [Service!Next]_(Service!vars)
  <2> SUFFICES ASSUME TypeInv, FlagInv, AheadInv, [Next]_vars
               PROVE  [Service!Next]_(Service!vars)
    OBVIOUS
  <2>1. CASE UNCHANGED vars
    BY <2>1 DEF vars, walkVars, Service!vars, left, Running
  <2> QED
    BY <2>1, UserServes, StepServes DEF Next
<1> QED
  BY <1>1, <1>2, AheadHolds, PTL DEF Spec, Service!Spec
=============================================================================
