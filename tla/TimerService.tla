---------------------------- MODULE TimerService ----------------------------
(***************************************************************************)
(* What srsRAN's timers promise their users: a timer that was started      *)
(* fires once, when exactly its duration has passed, unless it is stopped  *)
(* or started again before; time does not pass a timer that is due, and    *)
(* one callback runs at a time.  The promise has one condition: while a    *)
(* callback runs, no timer that runs is stopped or started again and none  *)
(* is started for the very next tic.  A user who does it may disturb the   *)
(* tic at hand, and only that one: it may pass timers that are due and     *)
(* call a stopped timer's callback.  TimerHandler implements this module.  *)
(***************************************************************************)
EXTENDS Naturals

CONSTANTS
  Timers,       \* the timers
  MaxDuration,  \* the longest duration
  None          \* "no timer"

VARIABLES
  left,         \* tics until a timer fires, 0 for one that is not running
  calling,      \* the timer whose callback runs, or None
  disturbed     \* was the tic at hand disturbed?

vars == <<left, calling, disturbed>>

Init ==
  /\ left = [t \in Timers |-> 0]
  /\ calling = None
  /\ disturbed = FALSE

(* A user's step during a callback may disturb the tic if it may at all.   *)
MayDisturb(may) == disturbed' \in {disturbed, disturbed \/ (calling # None /\ may)}

(* A user, a callback among them, starts a timer, again perhaps.           *)
Start(t, d) ==
  /\ left' = [left EXCEPT ![t] = d]
  /\ MayDisturb(left[t] # 0 \/ d = 1)
  /\ UNCHANGED calling

Stop(t) ==
  /\ left' = [left EXCEPT ![t] = 0]
  /\ MayDisturb(left[t] # 0)
  /\ UNCHANGED calling

StopAll ==
  /\ left' = [t \in Timers |-> 0]
  /\ MayDisturb(\E t \in Timers : left[t] # 0)
  /\ UNCHANGED calling

Fire(t) ==
  /\ calling = None
  /\ left[t] = 1
  /\ left' = [left EXCEPT ![t] = 0]
  /\ calling' \in {t, None}
  /\ UNCHANGED disturbed

(* The callback of a timer that does not run.                              *)
CallStopped(t) ==
  /\ calling = None /\ disturbed
  /\ left[t] = 0
  /\ calling' = t
  /\ UNCHANGED <<left, disturbed>>

Return ==
  /\ calling # None
  /\ calling' = None
  /\ UNCHANGED <<left, disturbed>>

(* A timer that is passed fires when the clock has come round.             *)
Tick ==
  /\ calling = None
  /\ disturbed \/ \A t \in Timers : left[t] # 1
  /\ left' = [t \in Timers |-> IF left[t] = 0 THEN 0
                               ELSE IF left[t] = 1 THEN MaxDuration + 1
                               ELSE left[t] - 1]
  /\ disturbed' = FALSE
  /\ UNCHANGED calling

Next ==
  \/ \E t \in Timers : \/ \E d \in 1 .. MaxDuration : Start(t, d)
                       \/ Stop(t)
                       \/ Fire(t)
                       \/ CallStopped(t)
  \/ StopAll
  \/ Return
  \/ Tick

Spec == Init /\ [][Next]_vars

(* Time passes, and a timer that is due fires unless a user intervenes.    *)
FairSpec ==
  /\ Spec
  /\ WF_vars(Tick) /\ WF_vars(Return)
  /\ \A t \in Timers : WF_vars(Fire(t))

=============================================================================
