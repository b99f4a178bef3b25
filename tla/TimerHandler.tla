---------------------------- MODULE TimerHandler ----------------------------
(***************************************************************************)
(* The timers of srsRAN (timer_handler in common/timers.h): every layer of *)
(* the stack supervises its procedures with them.  A time wheel holds the  *)
(* running timers in lists, by the low bits of their timeout.  Each tic,   *)
(* step_all walks one list, stops the timers that are due and calls their  *)
(* callbacks, each with the lock released, the walk's iterator in hand.    *)
(*                                                                         *)
(* Arithmetic on tics wraps at Tics (2^32 in the code).  While the lock is *)
(* free any thread, the callback's own included, may operate on any timer. *)
(***************************************************************************)
EXTENDS Integers, Sequences, FiniteSets

CONSTANTS
  Capacity,    \* timers created with the handler
  MaxTimers,   \* bound: timers in all
  Wheel,       \* WHEEL_SIZE
  Tics,        \* values of the clock, 2^32 in the code
  Durations,   \* bound: durations in use
  Plain,       \* bound: timers used without a callback
  End          \* the end of a list, and "no timer"

Timers == 0 .. MaxTimers - 1

ASSUME ConstantsAssumption ==
  /\ MaxTimers \in Nat /\ Capacity \in 0 .. MaxTimers
  /\ Wheel \in Nat \ {0} /\ Tics \in Nat \ {0} /\ Tics % Wheel = 0
  /\ Durations \subseteq 1 .. Tics - 1
  /\ Plain \subseteq Timers /\ End \notin Timers

VARIABLES
  cur_time,
  state,       \* timer -> [mode, duration, timeout]
  callback,    \* timers that have a callback
  time_wheel,  \* position -> list of timers
  nof_running,
  size,        \* of timer_list: timers created
  allocated,
  free_list,
  pc,          \* step_all: "idle", "walk" or "callback"
  it,          \* its iterator: the next timer to visit, or End
  calling,     \* the timer whose callback runs, or End
  disturbed    \* history: the walk of this tic was disturbed, see User

listVars == <<size, allocated, free_list>>
walkVars == <<pc, it, calling>>
vars == <<cur_time, state, callback, time_wheel, nof_running, listVars, walkVars,
          disturbed>>

Modes == {"STOPPED", "RUNNING", "EXPIRED"}
State(mode, duration, timeout) ==
  [mode |-> mode, duration |-> duration, timeout |-> timeout]

Running(t) == state[t].mode = "RUNNING"
Position(timeout) == timeout % Wheel
NextTic == (cur_time + 1) % Tics

Init ==
  /\ cur_time = 0
  /\ state = [t \in Timers |-> State("STOPPED", 0, 0)]
  /\ callback = {}
  /\ time_wheel = [p \in 0 .. Wheel - 1 |-> <<>>]
  /\ nof_running = 0
  /\ size = Capacity
  /\ allocated = {}
  /\ free_list = [i \in 1 .. Capacity |-> i - 1]
  /\ pc = "idle" /\ it = End /\ calling = End
  /\ disturbed = FALSE

(* intrusive_double_linked_list: pop, and the iterator's operator++, which *)
(* follows the links of the list the timer is in by then.                  *)
Pop(list, t) ==
  IF \E k \in DOMAIN list : list[k] = t
  THEN LET k == CHOOSE k \in DOMAIN list : list[k] = t
       IN [i \in 1 .. Len(list) - 1 |-> list[IF i < k THEN i ELSE i + 1]]
  ELSE list
Head0(list) == IF list = <<>> THEN End ELSE Head(list)
Successor(t) ==
  IF \E p \in DOMAIN time_wheel : \E i \in 1 .. Len(time_wheel[p]) - 1 : time_wheel[p][i] = t
  THEN CHOOSE u \in Timers :
         \E p \in DOMAIN time_wheel : \E i \in 1 .. Len(time_wheel[p]) - 1 :
           time_wheel[p][i] = t /\ time_wheel[p][i + 1] = u
  ELSE End

-----------------------------------------------------------------------------
(* The operations of a user who holds a handle; each takes the lock.       *)

(* Mutant: a running timer stays in its old list.                          *)
StartTwice(t, d) ==
  LET timeout == (cur_time + d) % Tics IN
  /\ state' = [state EXCEPT ![t] = State("RUNNING", d, timeout)]
  /\ time_wheel' = [time_wheel EXCEPT ![Position(timeout)] = <<t>> \o Pop(@, t)]
  /\ nof_running' = IF Running(t) THEN nof_running ELSE nof_running + 1

start_run_(t, d) ==
  LET timeout == (cur_time + d) % Tics
      old     == Position(state[t].timeout)
      popped  == IF Running(t) THEN [time_wheel EXCEPT ![old] = Pop(@, t)] ELSE time_wheel
  IN /\ state' = [state EXCEPT ![t] = State("RUNNING", d, timeout)]
     /\ IF Running(t) /\ old = Position(timeout)
        THEN UNCHANGED <<time_wheel, nof_running>>
        ELSE /\ time_wheel' = [popped EXCEPT ![Position(timeout)] = <<t>> \o @]
             /\ nof_running' = IF Running(t) THEN nof_running ELSE nof_running + 1

(* Mutant: the timer is left for the walk to find.                         *)
StaysInWheel(t) == UNCHANGED <<time_wheel, nof_running>>

(* If the timer runs, it leaves the wheel.                                 *)
Disconnect(t) ==
  IF Running(t)
  THEN /\ time_wheel' = [time_wheel EXCEPT ![Position(state[t].timeout)] = Pop(@, t)]
       /\ nof_running' = nof_running - 1
  ELSE UNCHANGED <<time_wheel, nof_running>>

stop_timer_(t, mode) ==
  /\ Disconnect(t)
  /\ state' = IF Running(t) THEN [state EXCEPT ![t].mode = mode] ELSE state

get_unique_timer ==
  /\ free_list # <<>> \/ size < MaxTimers
  /\ IF free_list # <<>>
     THEN /\ allocated' = allocated \cup {Head(free_list)}
          /\ free_list' = Tail(free_list)
          /\ UNCHANGED size
     ELSE /\ allocated' = allocated \cup {size}
          /\ size' = size + 1
          /\ UNCHANGED free_list
  /\ UNCHANGED <<cur_time, state, callback, time_wheel, nof_running, walkVars>>

(* set(duration) for a timer without a callback, else set(duration, ...).  *)
set(t, d) ==
  /\ t \in allocated
  /\ callback' = IF t \in Plain THEN callback ELSE callback \cup {t}
  /\ IF Running(t)
     THEN start_run_(t, d)
     ELSE /\ state' = [state EXCEPT ![t] = State("STOPPED", d, 0)]
          /\ UNCHANGED <<time_wheel, nof_running>>
  /\ UNCHANGED <<cur_time, listVars, walkVars>>

run(t) ==
  /\ t \in allocated
  /\ state[t].duration > 0
  /\ start_run_(t, state[t].duration)
  /\ UNCHANGED <<cur_time, callback, listVars, walkVars>>

stop(t) ==
  /\ t \in allocated
  /\ stop_timer_(t, "STOPPED")
  /\ UNCHANGED <<cur_time, callback, listVars, walkVars>>

(* Mutants: the timer runs on; the callback stays for the next owner.      *)
FreeRunning(t) ==
  /\ t \in allocated
  /\ allocated' = allocated \ {t} /\ callback' = callback \ {t}
  /\ free_list' = <<t>> \o free_list
  /\ UNCHANGED <<cur_time, state, time_wheel, nof_running, size, walkVars>>
FreeWithCallback(t) ==
  /\ t \in allocated
  /\ Disconnect(t) /\ state' = [state EXCEPT ![t] = State("STOPPED", 0, 0)]
  /\ allocated' = allocated \ {t} /\ free_list' = <<t>> \o free_list
  /\ UNCHANGED <<cur_time, callback, size, walkVars>>

(* release: the handle is given up, also by defer_callback's own callback. *)
dealloc_timer_(t) ==
  /\ t \in allocated
  /\ Disconnect(t)
  /\ state' = [state EXCEPT ![t] = State("STOPPED", 0, 0)]
  /\ allocated' = allocated \ {t}
  /\ callback' = callback \ {t}
  /\ free_list' = <<t>> \o free_list
  /\ UNCHANGED <<cur_time, size, walkVars>>

stop_all ==
  /\ state' = [t \in Timers |-> IF Running(t) THEN [state[t] EXCEPT !.mode = "STOPPED"]
                                ELSE state[t]]
  /\ time_wheel' = [p \in DOMAIN time_wheel |-> <<>>]
  /\ nof_running' = 0
  /\ UNCHANGED <<cur_time, callback, listVars, walkVars>>

-----------------------------------------------------------------------------
(* step_all.                                                               *)

StepBegin ==
  /\ pc = "idle"
  /\ pc' = "walk"
  /\ it' = Head0(time_wheel[Position(NextTic)])
  /\ UNCHANGED <<cur_time, state, callback, time_wheel, nof_running, listVars, calling, disturbed>>

(* Mutant: the iterator moves on after the timer has left the list.        *)
StopThenAdvance ==
  /\ pc = "walk" /\ it # End
  /\ IF state[it].timeout = NextTic
     THEN /\ stop_timer_(it, "EXPIRED") /\ it' = End
          /\ pc' = IF it \in callback THEN "callback" ELSE pc
          /\ calling' = IF it \in callback THEN it ELSE calling
     ELSE it' = Successor(it) /\ UNCHANGED <<state, time_wheel, nof_running, pc, calling>>
  /\ UNCHANGED <<cur_time, callback, listVars, disturbed>>

(* The iterator moves on before the timer is stopped.  The comparison does *)
(* not ask whether the timer still runs.                                   *)
Walk ==
  /\ pc = "walk" /\ it # End
  /\ it' = Successor(it)
  /\ IF state[it].timeout = NextTic
     THEN /\ stop_timer_(it, "EXPIRED")
          /\ IF it \in callback
             THEN pc' = "callback" /\ calling' = it
             ELSE UNCHANGED <<pc, calling>>
     ELSE UNCHANGED <<state, time_wheel, nof_running, pc, calling>>
  /\ UNCHANGED <<cur_time, callback, listVars, disturbed>>

CallbackReturns ==
  /\ pc = "callback"
  /\ pc' = "walk" /\ calling' = End
  /\ UNCHANGED <<cur_time, state, callback, time_wheel, nof_running, listVars, it, disturbed>>

StepEnd ==
  /\ pc = "walk" /\ it = End
  /\ pc' = "idle"
  /\ cur_time' = NextTic
  /\ disturbed' = FALSE
  /\ UNCHANGED <<state, callback, time_wheel, nof_running, listVars, it, calling>>

-----------------------------------------------------------------------------
(* What the walk relies on while a callback runs and the lock is free: the *)
(* timer to visit next stays in its list, and no timer is started for the  *)
(* tic being processed.  Nothing in the code sees to it: disturbed records *)
(* that a user, in the callback or in another thread, did otherwise.       *)
Due(t) == Running(t) /\ state[t].timeout = NextTic
WalkUndisturbed ==
  pc = "callback" =>
    /\ it # End => \E i \in DOMAIN time_wheel'[Position(NextTic)] :
                     time_wheel'[Position(NextTic)][i] = it
    /\ \A t \in Timers : Due(t)' => Due(t)

User ==
  /\ pc # "walk"
  /\ \/ get_unique_timer
     \/ stop_all
     \/ \E t \in Timers : \/ \E d \in Durations : set(t, d)
                          \/ run(t)
                          \/ stop(t)
                          \/ dealloc_timer_(t)
  /\ disturbed' = (disturbed \/ ~WalkUndisturbed)

step_all == StepBegin \/ Walk \/ CallbackReturns \/ StepEnd

Next == User \/ step_all

Spec == Init /\ [][Next]_vars

(* The stack's thread calls step_all every tic, and callbacks return.      *)
FairSpec == Spec /\ WF_vars(step_all)

-----------------------------------------------------------------------------
(* Every variable has its type.                                            *)
TypeOK ==
  /\ cur_time \in 0 .. Tics - 1
  /\ state \in [Timers -> [mode : Modes, duration : Durations \cup {0}, timeout : 0 .. Tics - 1]]
  /\ callback \subseteq allocated
  /\ time_wheel \in [0 .. Wheel - 1 -> Seq(Timers)]
  /\ nof_running \in 0 .. MaxTimers
  /\ size \in Capacity .. MaxTimers
  /\ allocated \subseteq 0 .. size - 1
  /\ free_list \in Seq(0 .. size - 1)
  /\ pc \in {"idle", "walk", "callback"}
  /\ it \in Timers \cup {End} /\ calling \in Timers \cup {End}
  /\ pc = "callback" <=> calling # End
  /\ disturbed \in BOOLEAN /\ (disturbed => pc # "idle")

(* The wheel holds exactly the running timers, each once and in the list   *)
(* its timeout selects: pop takes a timer out of the list it is in.        *)
WheelHoldsRunning ==
  /\ \A p \in DOMAIN time_wheel : \A i \in DOMAIN time_wheel[p] :
       LET t == time_wheel[p][i] IN
         /\ Running(t) /\ Position(state[t].timeout) = p
         /\ \A j \in DOMAIN time_wheel[p] : time_wheel[p][j] = t => j = i
  /\ \A t \in Timers : Running(t) =>
       \E i \in DOMAIN time_wheel[Position(state[t].timeout)] :
         time_wheel[Position(state[t].timeout)][i] = t
  /\ nof_running = Cardinality({t \in Timers : Running(t)})

(* The free list holds every timer that was created and is not allocated,  *)
(* once: two users never share a timer, and none is lost to the list.      *)
FreeListExact ==
  /\ \A i \in DOMAIN free_list : free_list[i] \notin allocated
  /\ \A i, j \in DOMAIN free_list : free_list[i] = free_list[j] => i = j
  /\ Len(free_list) + Cardinality(allocated) = size
  /\ \A t \in Timers : Running(t) => t \in allocated

(* No callback is called for a timer that was stopped, in a tic whose walk *)
(* nobody disturbed, though the walk compares timeouts only.               *)
CallbackSeesExpired ==
  [][ calling = End /\ calling' # End /\ ~disturbed => state'[calling'].mode = "EXPIRED" ]_vars

(* timers.h:259 says it of every tic: "callback has to see the timer has   *)
(* already expired".  The timer visited next may have been stopped while   *)
(* the callback before it ran (timers.h:262-267).                          *)
CallbackHasToSeeExpired ==
  [][ calling = End /\ calling' # End => state'[calling'].mode = "EXPIRED" ]_vars

(* The wheel gives what the timers promise: a timer fires once, when its   *)
(* duration has passed and not before, time goes on, and a tic passes no   *)
(* timer that is due, unless that tic's walk was disturbed; the tic after  *)
(* it is sound again.  A timer that is passed waits for the clock to wrap. *)
MaxDuration == Tics - 1
left == [t \in Timers |-> IF ~Running(t) THEN 0
                          ELSE IF state[t].timeout = cur_time THEN Tics
                          ELSE (state[t].timeout - cur_time) % Tics]
Service == INSTANCE TimerService WITH None <- End
ImplementsService == Service!FairSpec
=============================================================================
