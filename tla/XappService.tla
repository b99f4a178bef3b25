---------------------------- MODULE XappService ----------------------------
(***************************************************************************)
(* What the xApp SDK promises the application that calls it: a call that   *)
(* returns was accepted by the network, and the handles an application     *)
(* holds are those of the reports that returned and were not removed.  How *)
(* requests, answers, timers and threads bring that about is of no         *)
(* concern here; E42Xapp implements this module.                           *)
(***************************************************************************)
EXTENDS Naturals

CONSTANTS
  Callers,    \* threads that make synchronous calls
  Procedures  \* ids of the procedures

VARIABLES
  call,       \* the call each thread is in
  handles,    \* handles the application holds
  served,     \* requests the network accepted
  open        \* the SDK is in service

vars == <<call, handles, served, open>>

Calls == [kind : {"SUBSCRIPTION", "DELETE", "CONTROL"}, id : Procedures]
NoCall == [kind |-> "NONE", id |-> 0]

Init ==
  /\ call = [c \in Callers |-> NoCall]
  /\ handles = {}
  /\ served = {}
  /\ open = TRUE

(* A new procedure takes an id nobody used; a removal uses up its handle.  *)
Begin(c, r) ==
  /\ open
  /\ call[c] = NoCall
  /\ IF r.kind = "DELETE"
     THEN r.id \in handles /\ handles' = handles \ {r.id}
     ELSE /\ \A s \in served : s.id # r.id
          /\ \A d \in Callers : call[d].id # r.id
          /\ UNCHANGED handles
  /\ call' = [call EXCEPT ![c] = r]
  /\ UNCHANGED <<served, open>>

(* The network accepts a request once.                                     *)
Serve(r) ==
  /\ open
  /\ r \notin served
  /\ \E c \in Callers : call[c] = r
  /\ served' = served \cup {r}
  /\ UNCHANGED <<call, handles, open>>

Return(c) ==
  /\ open
  /\ call[c] \in served
  /\ call' = [call EXCEPT ![c] = NoCall]
  /\ handles' = IF call[c].kind = "SUBSCRIPTION" THEN handles \cup {call[c].id}
                ELSE handles
  /\ UNCHANGED <<served, open>>

(* An assertion fails, or the application stops the SDK.                   *)
Close ==
  /\ open
  /\ open' = FALSE
  /\ UNCHANGED <<call, handles, served>>

Next ==
  \/ \E c \in Callers : \/ \E r \in Calls : Begin(c, r)
                        \/ Return(c)
  \/ \E r \in Calls : Serve(r)
  \/ Close

Spec == Init /\ [][Next]_vars

=============================================================================
