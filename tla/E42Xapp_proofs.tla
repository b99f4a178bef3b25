-------------------------- MODULE E42Xapp_proofs ---------------------------
(***************************************************************************)
(* Theorems about E42Xapp, for any number of procedures, set-up attempts   *)
(* and indications: types, the registry and the answers; then, with one    *)
(* application thread, that requests under way are supervised, that        *)
(* indications are dispatched to procedures that are still registered, and *)
(* that the xApp implements XappService.                                   *)
(***************************************************************************)
EXTENDS E42Xapp, TLAPS

(* The parts of the type invariant that depend on where the threads are:   *)
(* a call under way has a request, and past HandlerEntry the loop handles  *)
(* an answer or an indication.                                             *)
CallHasRequest ==
  \A u \in UIs : (pc[u] \in {"init", "idle"}) <=> (op[u] = NoMsg)

LoopHasMessage ==
  /\ loopPc \in {"find", "extract", "signal", "push"} => loopMsg \in Message
  /\ loopPc \in {"find", "signal", "push"} => loopMsg.kind # "SETUP"
  /\ loopPc \in {"extract", "signal"} => loopMsg.kind # "INDICATION"

TypeInv == TypeOK /\ CallHasRequest /\ LoopHasMessage

(* Requests, messages and pending events, so that the steps below need not *)
(* look into their sets.                                                   *)
LEMMA Requests ==
  /\ \A k \in Kinds, i \in ProcIds : [kind |-> k, id |-> i] \in Request
  /\ \A r \in Request : /\ r.kind \in Kinds
                        /\ r.id \in ProcIds
                        /\ r # NoMsg
                        /\ r # Setup
                        /\ r = [kind |-> r.kind, id |-> r.id]
BY DEF Request, Kinds, NoMsg, Setup

LEMMA Messages ==
  /\ Request \subseteq Message
  /\ Setup \in Message
  /\ Setup \notin Request
  /\ \A i \in ProcIds : [kind |-> "INDICATION", id |-> i] \in Message \ Request
  /\ \A m \in Message : /\ m.kind \in Kinds \cup {"INDICATION", "SETUP"}
                        /\ m.kind # "SETUP" => m.id \in ProcIds
                        /\ m.kind \in Kinds => m \in Request
BY DEF Message, Request, Kinds, Setup

LEMMA PendingEvents ==
  /\ Request \subseteq PendingEvent
  /\ Setup \in PendingEvent
BY DEF PendingEvent

LEMMA ProcIdsAreNat == ProcIds \subseteq Nat /\ 0 \notin ProcIds
BY BoundsAssumption DEF ProcIds

LEMMA TypeInvInit == Init => TypeInv
<1> SUFFICES ASSUME Init PROVE TypeInv
  OBVIOUS
<1>1. TypeOK
  <2>1. /\ nextId \in 1..(MaxProc + 1)
        /\ setupSent \in 0..MaxSetup
        /\ setupReqs \in 0..setupSent
    BY BoundsAssumption DEF Init
  <2>2. queue \in Seq(ProcIds) /\ toXapp \in Seq(Message)
    BY DEF Init
  <2> QED
    BY <2>1, <2>2 DEF Init, TypeOK, Crashes
<1>2. CallHasRequest /\ LoopHasMessage
  BY DEF Init, CallHasRequest, LoopHasMessage
<1> QED
  BY <1>1, <1>2 DEF TypeInv

LEMMA TypeInvStep == TypeInv /\ [Next]_vars => TypeInv'
<1> SUFFICES ASSUME TypeInv, [Next]_vars PROVE TypeInv'
  OBVIOUS
<1> USE BoundsAssumption, Requests, Messages, PendingEvents
    DEF TypeInv, TypeOK, CallHasRequest, LoopHasMessage, Crashes, Kinds,
        uiVars, syncVars, loopVars, timerVars, envVars, Abort, NextEvent
<1>1. ASSUME NEW u \in UIs, Connected(u) PROVE TypeInv'
  BY <1>1 DEF Connected
<1>2. ASSUME NEW u \in UIs, NEW k \in {"SUBSCRIPTION", "CONTROL"},
             StartProcedure(u, k) PROVE TypeInv'
  BY <1>2, ProcIdsAreNat DEF StartProcedure, ProcIds
<1>3. ASSUME NEW u \in UIs, NEW h \in ProcIds, RmReport(u, h) PROVE TypeInv'
  <2>1. CASE h \in actProc
    <3>1. PICK r \in Request : op' = [op EXCEPT ![u] = r]
      BY <1>3, <2>1 DEF RmReport
    <3>2. /\ handles' = handles \ {h}
          /\ pc' = [pc EXCEPT ![u] = "send"]
          /\ UNCHANGED <<actProc, nextId, timerVars, syncVars, loopVars, queue,
                         stop, crash, envVars>>
      BY <1>3, <2>1 DEF RmReport
    <3> QED
      BY <3>1, <3>2
  <2>2. CASE h \notin actProc
    BY <1>3, <2>2 DEF RmReport
  <2> QED
    BY <2>1, <2>2
<1>4. ASSUME NEW u \in UIs, SendRequest(u) PROVE TypeInv'
  BY <1>4 DEF SendRequest
<1>5. ASSUME NEW u \in UIs, AddPendingEvent(u) PROVE TypeInv'
  BY <1>5 DEF AddPendingEvent, Supervise
<1>6. ASSUME NEW u \in UIs, EnterWait(u) PROVE TypeInv'
  <2>1. /\ pc' = [pc EXCEPT ![u] = "blocked"]
        /\ flagSync' = FALSE /\ msgAck' = FALSE
        /\ UNCHANGED <<op, handles, actProc, nextId, timerVars, loopVars, queue,
                       stop, crash, envVars>>
    BY <1>6 DEF EnterWait, ResetSync
  <2>2. pc[u] = "enter"
    BY <1>6 DEF EnterWait
  <2>3. TypeOK'
    <3>1. pc' \in [UIs -> {"init", "idle", "send", "pend", "enter", "blocked",
                           "woken", "return", "remove"}]
      BY <2>1
    <3>2. flagSync' \in BOOLEAN /\ msgAck' \in BOOLEAN
      BY <2>1
    <3>3. UNCHANGED <<op, handles, actProc, nextId, timerVars, loopVars, queue,
                      stop, crash, envVars>>
      BY <2>1
    <3> QED
      BY <3>1, <3>2, <3>3
  <2>4. CallHasRequest' /\ LoopHasMessage'
    <3>1. \A v \in UIs : pc'[v] = IF v = u THEN "blocked" ELSE pc[v]
      BY <2>1
    <3> QED
      BY <2>1, <2>2, <3>1
  <2> QED
    BY <2>3, <2>4
<1>7. ASSUME NEW u \in UIs, SpuriousWakeup(u) \/ RecheckFlag(u) PROVE TypeInv'
  BY <1>7 DEF SpuriousWakeup, RecheckFlag, WaitOver
<1>8. ASSUME NEW u \in UIs, WaitTimeout(u) PROVE TypeInv'
  BY <1>8 DEF WaitTimeout
<1>9. ASSUME NEW u \in UIs, ReturnFromWait(u) PROVE TypeInv'
  <2>1. CASE msgAck /\ op[u].kind = "SUBSCRIPTION"
    <3>1. /\ handles' = handles \cup {op[u].id}
          /\ op' = [op EXCEPT ![u] = NoMsg]
          /\ pc' = [pc EXCEPT ![u] = "idle"]
          /\ UNCHANGED <<actProc, nextId, timerVars, syncVars, loopVars, queue,
                         stop, crash, envVars>>
      BY <1>9, <2>1 DEF ReturnFromWait
    <3>2. op[u] \in Request
      BY <1>9 DEF ReturnFromWait
    <3>3. TypeOK'
      BY <3>1, <3>2
    <3>4. CallHasRequest' /\ LoopHasMessage'
      BY <3>1
    <3> QED
      BY <3>3, <3>4
  <2>2. CASE msgAck /\ op[u].kind # "SUBSCRIPTION"
    BY <1>9, <2>2 DEF ReturnFromWait
  <2>3. CASE ~msgAck
    BY <1>9, <2>3 DEF ReturnFromWait
  <2> QED
    BY <2>1, <2>2, <2>3
<1>10. ASSUME NEW u \in UIs, RmActProc(u) PROVE TypeInv'
  <2>1. actProc' \subseteq actProc
    BY <1>10 DEF RmActProc, Unregister
  <2>2. CASE op[u].id \in actProc
    <3>1. /\ op' = [op EXCEPT ![u] = NoMsg]
          /\ pc' = [pc EXCEPT ![u] = "idle"]
          /\ UNCHANGED <<handles, nextId, timerVars, syncVars, loopVars, queue,
                         stop, crash, envVars>>
      BY <1>10, <2>2 DEF RmActProc
    <3>2. TypeOK'
      BY <2>1, <3>1
    <3>3. CallHasRequest' /\ LoopHasMessage'
      BY <3>1
    <3> QED
      BY <3>2, <3>3
  <2>3. CASE op[u].id \notin actProc
    BY <1>10, <2>1, <2>3 DEF RmActProc
  <2> QED
    BY <2>2, <2>3
<1>11. CASE TryStop
  BY <1>11 DEF TryStop
<1>25. CASE FreeXapp
  BY <1>25 DEF FreeXapp
<1>12. CASE StartXapp
  BY <1>12 DEF StartXapp
<1>13. CASE RecvMessage
  BY <1>13 DEF RecvMessage, HandlerEntry
<1>14. CASE FindProcedure
  BY <1>14 DEF FindProcedure
<1>15. CASE ExtractPending
  <2>1. pending' \subseteq pending /\ expired' \subseteq pending'
    BY <1>15 DEF ExtractPending, CloseTimer
  <2>2. CASE loopMsg.kind = "SETUP"
    <3>1. /\ UNCHANGED <<uiVars, actProc, nextId, syncVars, queue, stop, envVars>>
          /\ crash' \in {crash, "extract"}
      BY <1>15 DEF ExtractPending
    <3>2. \/ UNCHANGED loopVars
          \/ loopPc' \in {"recv", "leave"} /\ loopMsg' = NoMsg /\ connected' = TRUE
      BY <1>15, <2>2 DEF ExtractPending
    <3>3. CallHasRequest' /\ LoopHasMessage'
      BY <3>1, <3>2
    <3>4. TypeOK'
      <4>1. /\ loopPc' \in {"start", "recv", "find", "extract", "signal", "push",
                            "leave", "exit"}
            /\ loopMsg' \in Message \cup {NoMsg}
            /\ connected' \in BOOLEAN
        <5>1. CASE UNCHANGED loopVars
          BY <5>1
        <5>2. CASE /\ loopPc' \in {"recv", "leave"}
                   /\ loopMsg' = NoMsg /\ connected' = TRUE
          BY <5>2
        <5> QED
          BY <3>2, <5>1, <5>2
      <4>2. pending' \subseteq PendingEvent /\ expired' \subseteq pending'
        BY <2>1
      <4> HIDE Requests, Messages, PendingEvents DEF CallHasRequest, LoopHasMessage
      <4> QED
        BY <3>1, <4>1, <4>2
    <3> QED
      BY <3>3, <3>4
  <2>3. CASE loopMsg.kind # "SETUP"
    BY <1>15, <2>1, <2>3 DEF ExtractPending, NoMsg
  <2> QED
    BY <2>2, <2>3
<1>16. CASE SignalSync
  BY <1>16 DEF SignalSync
<1>17. CASE PushIndication
  BY <1>17 DEF PushIndication, NoMsg
<1>18. ASSUME NEW p \in PendingEvent, TimerEvent(p) PROVE TypeInv'
  BY <1>18 DEF TimerEvent, ResendSetup
<1>19. ASSUME NEW p \in PendingEvent, TimerExpires(p) PROVE TypeInv'
  BY <1>19 DEF TimerExpires
<1>20. CASE LoopExit
  BY <1>20 DEF LoopExit
<1>26. CASE Dispatch
  BY <1>26 DEF Dispatch
<1>21. CASE IappSetup
  BY <1>21 DEF IappSetup
<1>27. CASE LoseSetup
  BY <1>27 DEF LoseSetup
<1>22. ASSUME NEW r \in Request, IappAnswer(r) PROVE TypeInv'
  BY <1>22 DEF IappAnswer
<1>23. ASSUME NEW i \in ProcIds, Indicate(i) PROVE TypeInv'
  BY <1>23 DEF Indicate
<1>24. CASE Ended \/ UNCHANGED vars
  BY <1>24 DEF Ended, vars
<1> QED
  BY <1>1, <1>2, <1>3, <1>4, <1>5, <1>6, <1>7, <1>8, <1>9, <1>10, <1>11, <1>12,
     <1>13, <1>14, <1>15, <1>16, <1>17, <1>18, <1>19, <1>20, <1>21, <1>22,
     <1>23, <1>24, <1>25, <1>26, <1>27
  DEF Next, UIStep, LoopHandler, Report, Control

(* Type correctness, for any number of callers: in particular the dispatch *)
(* queue only ever holds ids of procedures, and a timer never outlives its *)
(* pending event.                                                          *)
THEOREM TypeCorrect == Spec => []TypeOK
<1>1. TypeInv => TypeOK
  BY DEF TypeInv
<1> QED
  BY <1>1, TypeInvInit, TypeInvStep, PTL DEF Spec

-----------------------------------------------------------------------------
(* One application thread.  The request it has sent and its answer are one *)
(* token: it is with the network, in the socket or in the hands of the     *)
(* event loop, and when it is gone the flag has been set for this call.    *)

OneCaller == \A a, b \in UIs : a = b

InFlight(r) ==
  \E u \in UIs : op[u] = r /\ pc[u] \in {"pend", "enter", "blocked", "woken"}

Answers == {k \in DOMAIN toXapp : toXapp[k] \in Request}

InLoop == loopPc \in {"find", "extract", "signal"} /\ loopMsg \in Request

NoToken == reqs = {} /\ Answers = {} /\ ~InLoop

TokenInv ==
  /\ \A r \in reqs : InFlight(r) /\ r \notin served
  /\ \A k \in Answers : InFlight(toXapp[k]) /\ toXapp[k] \in served
  /\ InLoop => InFlight(loopMsg) /\ loopMsg \in served
  /\ \A j, k \in Answers : j = k
  /\ InLoop => Answers = {}

FlagInv ==
  /\ flagSync => msgAck
  /\ \A u \in UIs :
       /\ pc[u] = "send" => op[u] \notin served
       /\ pc[u] \in {"blocked", "woken"} /\ flagSync => NoToken /\ op[u] \in served
       /\ pc[u] = "return" => flagSync /\ op[u] \in served
       /\ pc[u] = "remove" => op[u] \in served

Deletion(i) == [kind |-> "DELETE", id |-> i]

HandlesInv ==
  \A i \in handles : /\ i < nextId
                    /\ [kind |-> "SUBSCRIPTION", id |-> i] \in served
                    /\ Deletion(i) \notin served

ServedInv == \A r \in served : r.id < nextId

CallInv ==
  \A u \in UIs : op[u] # NoMsg =>
    /\ op[u].id < nextId
    /\ op[u].id \notin handles
    /\ op[u].kind # "DELETE" => Deletion(op[u].id) \notin served

IdInv == HandlesInv /\ ServedInv /\ CallInv

RegInv ==
  /\ \A i \in ProcIds :
       i \in actProc <=> i \in handles \/ \E u \in UIs : op[u] # NoMsg /\ op[u].id = i
  /\ AnswersMatchCalls

OneCallerInv == TokenInv /\ FlagInv /\ IdInv /\ RegInv

LEMMA FreshId ==
  ASSUME TypeOK, HandlesInv
  PROVE  nextId \notin handles
<1>1. nextId \in Int
  BY BoundsAssumption DEF TypeOK
<1>2. ~(nextId < nextId)
  BY <1>1
<1> QED
  BY <1>2 DEF HandlesInv

(* The invariant mentions no other variable than these.                    *)
LEMMA Frame ==
  ASSUME OneCallerInv, Answers' = Answers,
         \A k \in Answers : toXapp'[k] = toXapp[k],
         UNCHANGED <<pc, op, handles, actProc, nextId, flagSync, msgAck, loopPc,
                     loopMsg, crash, reqs, served>>
  PROVE  OneCallerInv'
<1>1. TokenInv'
  BY DEF OneCallerInv, TokenInv, InFlight, InLoop
<1>2. FlagInv'
  BY DEF OneCallerInv, FlagInv, NoToken, InLoop
<1>3. IdInv' /\ RegInv'
  BY DEF OneCallerInv, IdInv, HandlesInv, ServedInv, CallInv, RegInv, AnswersMatchCalls
<1> QED
  BY <1>1, <1>2, <1>3 DEF OneCallerInv

LEMMA OneCallerInvInit == Init => OneCallerInv
BY DEF Init, OneCallerInv, TokenInv, FlagInv, IdInv, HandlesInv, ServedInv,
   CallInv, RegInv, InFlight, Answers,
   InLoop, AnswersMatchCalls

(* What goes into the socket, and what comes out of it.                    *)
LEMMA SocketAppend ==
  ASSUME NEW m \in Message, toXapp \in Seq(Message), toXapp' = Append(toXapp, m)
  PROVE  /\ Answers \subseteq Answers'
         /\ \A k \in Answers : toXapp'[k] = toXapp[k]
         /\ m \notin Request => Answers' = Answers
         /\ m \in Request => /\ Answers' = Answers \cup {Len(toXapp) + 1}
                             /\ toXapp'[Len(toXapp) + 1] = m
BY DEF Answers

LEMMA SocketTail ==
  ASSUME toXapp \in Seq(Message), toXapp # <<>>, toXapp' = Tail(toXapp)
  PROVE  /\ \A k \in Answers' : k \in Nat /\ k + 1 \in Answers
                               /\ toXapp'[k] = toXapp[k + 1]
         /\ Head(toXapp) \in Message
         /\ Head(toXapp) \in Request => 1 \in Answers /\ toXapp[1] = Head(toXapp)
BY DEF Answers

LEMMA OneCallerInvStep ==
  ASSUME OneCaller, TypeInv, OneCallerInv, [Next]_vars
  PROVE  OneCallerInv'
<1> USE BoundsAssumption, Requests, Messages, ProcIdsAreNat
    DEF OneCallerInv, OneCaller, TypeInv, TypeOK, CallHasRequest, LoopHasMessage
<1> USE DEF TokenInv, FlagInv, IdInv, HandlesInv, ServedInv, CallInv, RegInv,
      InFlight, InLoop, NoToken,
      AnswersMatchCalls, Kinds, uiVars, syncVars, loopVars, timerVars, envVars,
      Abort, NextEvent
<1>0. toXapp' = toXapp => Answers' = Answers
  BY DEF Answers
<1> USE <1>0
<1>1. ASSUME NEW u \in UIs, Connected(u) PROVE OneCallerInv'
  BY <1>1 DEF Connected
<1>2. ASSUME NEW u \in UIs, NEW k \in {"SUBSCRIPTION", "CONTROL"},
             StartProcedure(u, k) PROVE OneCallerInv'
  <2> DEFINE r == [kind |-> k, id |-> nextId]
  <2>1. /\ pc[u] = "idle" /\ op[u] = NoMsg /\ nextId \in ProcIds /\ nextId \in Nat
        /\ r \in Request /\ r # NoMsg /\ r.id = nextId /\ r.kind # "DELETE"
        /\ Deletion(nextId) \in Request /\ Deletion(nextId).id = nextId
    BY <1>2 DEF StartProcedure, ProcIds, Deletion
  <2>2. /\ op' = [op EXCEPT ![u] = r]
        /\ pc' = [pc EXCEPT ![u] = "send"]
        /\ actProc' = actProc \cup {nextId}
        /\ nextId' = nextId + 1
        /\ UNCHANGED <<handles, syncVars, loopVars, crash, envVars>>
    BY <1>2 DEF StartProcedure
  <2>3. r \notin served /\ Deletion(nextId) \notin served
    BY <2>1
  <2> HIDE DEF r
  <2>4. TokenInv'
    BY <2>1, <2>2
  <2>5. FlagInv'
    BY <2>1, <2>2, <2>3
  <2>6. IdInv'
    <3>1. HandlesInv' /\ ServedInv'
      BY <2>1, <2>2
    <3>2. CallInv'
      <4>1. op'[u] = r /\ \A v \in UIs : v = u
        BY <2>2
      <4>2. nextId \notin handles
        BY FreshId
      <4> QED
        BY <2>1, <2>2, <2>3, <4>1, <4>2
    <3> QED
      BY <3>1, <3>2
  <2>7. RegInv'
    BY <2>1, <2>2
  <2> QED
    BY <2>4, <2>5, <2>6, <2>7
<1>3. ASSUME NEW u \in UIs, NEW h \in ProcIds, RmReport(u, h) PROVE OneCallerInv'
  <2> DEFINE r == Deletion(h)
  <2>1. /\ pc[u] = "idle" /\ op[u] = NoMsg /\ h \in handles /\ h \in actProc
        /\ r \in Request /\ r # NoMsg /\ r.id = h /\ r.kind = "DELETE"
        /\ r \notin served
    BY <1>3 DEF RmReport, Deletion
  <2>2. /\ op' = [op EXCEPT ![u] = r]
        /\ pc' = [pc EXCEPT ![u] = "send"]
        /\ handles' = handles \ {h}
        /\ UNCHANGED <<actProc, nextId, syncVars, loopVars, crash, envVars>>
    BY <1>3, <2>1 DEF RmReport, Deletion
  <2> HIDE DEF r
  <2>4. TokenInv'
    BY <2>1, <2>2
  <2>5. FlagInv'
    BY <2>1, <2>2
  <2>6. IdInv'
    <3>1. HandlesInv' /\ ServedInv'
      BY <2>1, <2>2
    <3>2. CallInv'
      <4>1. op'[u] = r /\ \A v \in UIs : v = u
        BY <2>2
      <4>2. r.id < nextId' /\ r.id \notin handles'
        BY <2>1, <2>2
      <4> QED
        BY <2>1, <4>1, <4>2
    <3> QED
      BY <3>1, <3>2
  <2>7. RegInv'
    BY <2>1, <2>2
  <2> QED
    BY <2>4, <2>5, <2>6, <2>7
<1>4. ASSUME NEW u \in UIs, SendRequest(u) PROVE OneCallerInv'
  BY <1>4 DEF SendRequest
<1>5. ASSUME NEW u \in UIs, AddPendingEvent(u) PROVE OneCallerInv'
  BY <1>5 DEF AddPendingEvent
<1>6. ASSUME NEW u \in UIs, EnterWait(u) PROVE OneCallerInv'
  BY <1>6 DEF EnterWait, ResetSync
<1>7. ASSUME NEW u \in UIs, SpuriousWakeup(u) PROVE OneCallerInv'
  BY <1>7 DEF SpuriousWakeup
<1>28. ASSUME NEW u \in UIs, RecheckFlag(u) PROVE OneCallerInv'
  BY <1>28 DEF RecheckFlag, WaitOver
<1>8. ASSUME NEW u \in UIs, WaitTimeout(u) PROVE OneCallerInv'
  BY <1>8 DEF WaitTimeout
<1>9. ASSUME NEW u \in UIs, ReturnFromWait(u) PROVE OneCallerInv'
  <2>1. /\ pc[u] = "return" /\ msgAck /\ op[u] \in served /\ op[u] \in Request
        /\ \A v \in UIs : v = u
        /\ UNCHANGED <<actProc, nextId, syncVars, loopVars, crash, envVars>>
    BY <1>9 DEF ReturnFromWait
  <2>2. CASE op[u].kind = "SUBSCRIPTION"
    <3>1. /\ handles' = handles \cup {op[u].id}
          /\ op' = [op EXCEPT ![u] = NoMsg]
          /\ pc' = [pc EXCEPT ![u] = "idle"]
      BY <1>9, <2>1, <2>2 DEF ReturnFromWait
    <3>2. [kind |-> "SUBSCRIPTION", id |-> op[u].id] \in served
      BY <2>1, <2>2
    <3>3. TokenInv' /\ FlagInv'
      BY <2>1, <3>1
    <3>4. IdInv'
      BY <2>1, <2>2, <3>1, <3>2
    <3>5. RegInv'
      BY <2>1, <3>1
    <3> QED
      BY <3>3, <3>4, <3>5
  <2>3. CASE op[u].kind # "SUBSCRIPTION"
    <3>1. /\ UNCHANGED <<op, handles>>
          /\ pc' = [pc EXCEPT ![u] = "remove"]
      BY <1>9, <2>1, <2>3 DEF ReturnFromWait
    <3>2. TokenInv'
      <4>1. NoToken
        BY <2>1
      <4>2. NoToken'
        BY <2>1, <4>1
      <4> QED
        BY <4>2
    <3>4. FlagInv'
      BY <2>1, <3>1
    <3>3. IdInv' /\ RegInv'
      BY <2>1, <3>1
    <3> QED
      BY <3>2, <3>3, <3>4
  <2> QED
    BY <2>2, <2>3
<1>10. ASSUME NEW u \in UIs, RmActProc(u) PROVE OneCallerInv'
  <2>1. /\ pc[u] = "remove" /\ op[u] \in Request /\ op[u].id \in actProc
        /\ op[u].id \notin handles
        /\ \A v \in UIs : v = u
    <3>1. pc[u] = "remove" /\ op[u] # NoMsg /\ op[u] \in Request
      BY <1>10 DEF RmActProc
    <3> QED
      BY <3>1
  <2>2. /\ actProc' = actProc \ {op[u].id}
        /\ op' = [op EXCEPT ![u] = NoMsg]
        /\ pc' = [pc EXCEPT ![u] = "idle"]
        /\ UNCHANGED <<handles, nextId, syncVars, loopVars, crash, envVars>>
    BY <1>10, <2>1 DEF RmActProc, Unregister
  <2>3. TokenInv' /\ FlagInv'
    <3>1. NoToken
      BY <2>1
    <3>2. NoToken'
      BY <2>2, <3>1
    <3>3. TokenInv'
      BY <3>2
    <3>4. FlagInv'
      BY <2>1, <2>2
    <3> QED
      BY <3>3, <3>4
  <2>4. IdInv'
    BY <2>1, <2>2
  <2>5. RegInv'
    BY <2>1, <2>2
  <2> QED
    BY <2>3, <2>4, <2>5
<1>11. CASE TryStop
  BY <1>11 DEF TryStop
<1>12. CASE FreeXapp
  BY <1>12 DEF FreeXapp
<1>13. CASE StartXapp
  BY <1>13 DEF StartXapp
<1>14. CASE RecvMessage
  <2>1. /\ \A k \in Answers' : k \in Nat /\ k + 1 \in Answers
                              /\ toXapp'[k] = toXapp[k + 1]
        /\ Head(toXapp) \in Message
        /\ Head(toXapp) \in Request => 1 \in Answers /\ toXapp[1] = Head(toXapp)
    BY <1>14, SocketTail DEF RecvMessage
  <2>2. Head(toXapp) \in Request => Answers' = {}
    <3> SUFFICES ASSUME Head(toXapp) \in Request, NEW k \in Answers' PROVE FALSE
      OBVIOUS
    <3>1. k \in Nat /\ 1 \in Answers /\ k + 1 \in Answers
      BY <2>1
    <3>2. k + 1 = 1
      BY <3>1
    <3>3. k \in DOMAIN toXapp'
      BY DEF Answers
    <3> QED
      BY <3>1, <3>2, <3>3, <1>14 DEF RecvMessage
  <2>3. UNCHANGED <<uiVars, actProc, nextId, syncVars, reqs, served>>
    BY <1>14 DEF RecvMessage
  <2>4. ~InLoop /\ (InLoop' => Head(toXapp) \in Request /\ loopMsg' = Head(toXapp))
    BY <1>14 DEF RecvMessage, HandlerEntry
  <2>5. TokenInv'
    <3>1. \A r \in reqs' : InFlight(r)' /\ r \notin served'
      BY <2>3
    <3>2. \A k \in Answers' : InFlight(toXapp[k])' /\ toXapp'[k] \in served'
      BY <2>1, <2>3
    <3>3. InLoop' => InFlight(loopMsg)' /\ loopMsg' \in served'
      BY <2>1, <2>3, <2>4
    <3>4. \A j, k \in Answers' : j = k
      BY <2>1
    <3> QED
      BY <2>2, <2>4, <3>1, <3>2, <3>3, <3>4
  <2>6. FlagInv'
    BY <2>1, <2>3, <2>4
  <2>7. IdInv' /\ RegInv'
    BY <1>14, <2>3 DEF RecvMessage
  <2> QED
    BY <2>5, <2>6, <2>7
<1>15. CASE FindProcedure
  <2>1. loopMsg \in Request => loopMsg.id \in actProc
    BY <1>15 DEF FindProcedure
  <2>2. loopMsg \notin Request => loopMsg.kind = "INDICATION"
    BY <1>15, Messages DEF FindProcedure, Message
  <2>3. crash' \notin {"no_procedure", "no_ack", "not_registered"}
    BY <1>15, <2>1, <2>2 DEF FindProcedure
  <2>4. /\ InLoop' => InLoop /\ loopMsg' = loopMsg
        /\ NoToken => NoToken'
        /\ UNCHANGED <<uiVars, actProc, nextId, syncVars, envVars>>
    BY <1>15 DEF FindProcedure
  <2>5. TokenInv'
    BY <2>4
  <2>6. FlagInv' /\ IdInv'
    BY <2>4
  <2>7. RegInv'
    BY <2>3, <2>4
  <2> QED
    BY <2>5, <2>6, <2>7
<1>16. CASE ExtractPending
  BY <1>16 DEF ExtractPending
<1>17. CASE SignalSync
  <2>1. loopMsg \in Request /\ InLoop /\ ~InLoop'
    BY <1>17 DEF SignalSync, NoMsg
  <2>2. NoToken' /\ \A u \in UIs : pc[u] \in {"enter", "blocked", "woken"} => op[u] \in served
    BY <1>17, <2>1 DEF SignalSync
  <2>3. /\ flagSync' /\ msgAck'
        /\ UNCHANGED <<op, handles, actProc, nextId, envVars, crash>>
    BY <1>17 DEF SignalSync
  <2>4. \A u \in UIs : pc'[u] # pc[u] => pc[u] = "blocked" /\ pc'[u] = "woken"
    BY <1>17 DEF SignalSync
  <2>5. TokenInv'
    BY <2>2, <2>3
  <2>6. FlagInv'
    BY <2>2, <2>3, <2>4
  <2>7. IdInv' /\ RegInv'
    BY <2>3
  <2> QED
    BY <2>5, <2>6, <2>7
<1>18. CASE PushIndication
  BY <1>18 DEF PushIndication
<1>19. ASSUME NEW p \in PendingEvent, TimerEvent(p) PROVE OneCallerInv'
  BY <1>19 DEF TimerEvent
<1>20. ASSUME NEW p \in PendingEvent, TimerExpires(p) PROVE OneCallerInv'
  BY <1>20 DEF TimerExpires
<1>21. CASE LoopExit
  BY <1>21 DEF LoopExit
<1>22. CASE Dispatch
  BY <1>22 DEF Dispatch
<1>23. CASE IappSetup
  <2>1. toXapp' = Append(toXapp, Setup)
    BY <1>23 DEF IappSetup
  <2>2. Answers' = Answers /\ \A k \in Answers : toXapp'[k] = toXapp[k]
    BY <2>1, SocketAppend
  <2>3. UNCHANGED <<uiVars, actProc, nextId, syncVars, loopVars, crash, reqs, served>>
    BY <1>23 DEF IappSetup
  <2> QED
    BY <2>2, <2>3, Frame
<1>24. CASE LoseSetup
  BY <1>24 DEF LoseSetup
<1>25. ASSUME NEW r \in Request, IappAnswer(r) PROVE OneCallerInv'
  <2>1. /\ Answers' = Answers \cup {Len(toXapp) + 1}
        /\ toXapp'[Len(toXapp) + 1] = r
        /\ \A k \in Answers : toXapp'[k] = toXapp[k]
    <3>1. r \in Message /\ toXapp' = Append(toXapp, r)
      BY <1>25 DEF IappAnswer
    <3> QED
      BY <3>1, SocketAppend
  <2>2. /\ InFlight(r) /\ r \notin served
        /\ Answers = {} /\ ~InLoop
        /\ \A s \in reqs : s = r
    BY <1>25 DEF IappAnswer
  <2>3. /\ reqs' = {} /\ served' = served \cup {r}
        /\ UNCHANGED <<uiVars, actProc, nextId, syncVars, loopVars, crash>>
    BY <1>25, <2>2 DEF IappAnswer
  <2>4. TokenInv'
    BY <2>1, <2>2, <2>3
  <2>5. FlagInv'
    BY <2>2, <2>3, <1>25 DEF IappAnswer
  <2>6. IdInv'
    <3>0. \A i \in ProcIds : r = Deletion(i) => i = r.id /\ r.kind = "DELETE"
      BY DEF Deletion
    <3>1. /\ r.id < nextId /\ r.id \notin handles
          /\ \A i \in ProcIds : r = Deletion(i) => i = r.id /\ r.kind = "DELETE"
      BY <2>2, <3>0
    <3>2. HandlesInv'
      <4>1. \A i \in handles : i \in ProcIds /\ r # Deletion(i)
        BY <3>1
      <4> QED
        BY <2>3, <4>1
    <3>3. ServedInv'
      BY <2>3, <3>1
    <3>4. CallInv'
      BY <2>2, <2>3, <3>1
    <3> QED
      BY <3>2, <3>3, <3>4
  <2>7. RegInv'
    BY <2>3
  <2> QED
    BY <2>4, <2>5, <2>6, <2>7
<1>26. ASSUME NEW i \in ProcIds, Indicate(i) PROVE OneCallerInv'
  <2>1. toXapp' = Append(toXapp, [kind |-> "INDICATION", id |-> i])
    BY <1>26 DEF Indicate
  <2>2. Answers' = Answers /\ \A k \in Answers : toXapp'[k] = toXapp[k]
    <3>1. PICK m \in Message \ Request : toXapp' = Append(toXapp, m)
      BY <2>1, Messages
    <3> QED
      BY <3>1, SocketAppend
  <2>3. UNCHANGED <<uiVars, actProc, nextId, syncVars, loopVars, crash, reqs, served>>
    BY <1>26 DEF Indicate
  <2> QED
    BY <2>2, <2>3, Frame
<1>27. CASE Ended \/ UNCHANGED vars
  BY <1>27 DEF Ended, vars
<1> QED
  BY <1>1, <1>2, <1>3, <1>4, <1>5, <1>6, <1>7, <1>8, <1>9, <1>10, <1>11, <1>12,
     <1>13, <1>14, <1>15, <1>16, <1>17, <1>18, <1>19, <1>20, <1>21, <1>22,
     <1>23, <1>24, <1>25, <1>26, <1>27, <1>28
  DEF Next, UIStep, LoopHandler, Report, Control

(* With one application thread, for any number of procedures, of set-up    *)
(* retries and of indications: no answer reaches the xApp for a procedure  *)
(* it has forgotten, no wait ends without its acknowledgement, no handle   *)
(* is refused.                                                             *)
THEOREM AnswersMatch == ASSUME OneCaller PROVE Spec => []AnswersMatchCalls
<1>1. OneCallerInv => AnswersMatchCalls
  BY DEF OneCallerInv, RegInv
<1>2. Init => TypeInv /\ OneCallerInv
  BY TypeInvInit, OneCallerInvInit
<1>3. (TypeInv /\ OneCallerInv) /\ [Next]_vars => (TypeInv /\ OneCallerInv)'
  BY TypeInvStep, OneCallerInvStep
<1> QED
  BY <1>1, <1>2, <1>3, PTL DEF Spec

(* A handle that report_sm_sync_xapp returned is that of a subscription    *)
(* the network accepted.                                                   *)
THEOREM ReportsAreSubscribed ==
  ASSUME OneCaller PROVE Spec => []ReturnedReportsAreSubscribed
<1>1. OneCallerInv => ReturnedReportsAreSubscribed
  BY DEF OneCallerInv, IdInv, HandlesInv, ReturnedReportsAreSubscribed
<1>2. Init => TypeInv /\ OneCallerInv
  BY TypeInvInit, OneCallerInvInit
<1>3. (TypeInv /\ OneCallerInv) /\ [Next]_vars => (TypeInv /\ OneCallerInv)'
  BY TypeInvStep, OneCallerInvStep
<1> QED
  BY <1>1, <1>2, <1>3, PTL DEF Spec

(* The registry of procedures is exactly the handles and the calls.        *)
THEOREM RegistryIsExact == ASSUME OneCaller PROVE Spec => []ProceduresMatch
<1>1. TypeInv /\ OneCallerInv => ProceduresMatch
  BY Requests DEF OneCallerInv, RegInv, ProceduresMatch, TypeInv, TypeOK
<1>2. Init => TypeInv /\ OneCallerInv
  BY TypeInvInit, OneCallerInvInit
<1>3. (TypeInv /\ OneCallerInv) /\ [Next]_vars => (TypeInv /\ OneCallerInv)'
  BY TypeInvStep, OneCallerInvStep
<1> QED
  BY <1>1, <1>2, <1>3, PTL DEF Spec

-----------------------------------------------------------------------------
(* Supervision, the dispatcher and the refinement.                         *)

Waiting(u) == pc[u] \in {"enter", "blocked", "woken"}
Subscription(i) == [kind |-> "SUBSCRIPTION", id |-> i]

(* A pending event other than the set-up's belongs to the call that waits, *)
(* and it is gone once the answer has been extracted.                      *)
PendingInv ==
  /\ \A p \in pending : p = Setup \/ \E u \in UIs : op[u] = p /\ Waiting(u)
  /\ loopPc = "signal" => pending \subseteq {Setup} /\ \A u \in UIs : Waiting(u)
  /\ \A u \in UIs : pc[u] \in {"blocked", "woken"} /\ flagSync => pending \subseteq {Setup}

SupervisionInv == PendingInv /\ OutstandingIsSupervised /\ TimeoutMeansOutstanding

(* Indications are of reports that were accepted, and such a report is in  *)
(* the registry until its deletion has been accepted, too.                 *)
SocketInv == \A k \in Indications : Subscription(toXapp[k].id) \in served
LoopInv   == loopMsg.kind = "INDICATION" => Subscription(loopMsg.id) \in served
ReportsInv ==
  \A i \in ProcIds : Subscription(i) \in served => i \in actProc \/ Deletion(i) \in served

(* A procedure is a report's or a control's, not both; reports stay in the *)
(* registry when they return.                                              *)
KindInv ==
  \A u \in UIs :
    /\ op[u].kind = "CONTROL" => Subscription(op[u].id) \notin served
    /\ pc[u] = "remove" => op[u].kind # "SUBSCRIPTION"

DispatchInv == SocketInv /\ LoopInv /\ ReportsInv /\ KindInv

LEMMA SupervisionInvInit == Init => SupervisionInv
BY DEF Init, SupervisionInv, PendingInv, OutstandingIsSupervised,
   TimeoutMeansOutstanding

LEMMA SupervisionInvStep ==
  ASSUME OneCaller, TypeInv, OneCallerInv, SupervisionInv, [Next]_vars
  PROVE  SupervisionInv'
<1> USE BoundsAssumption, Requests, Messages
    DEF OneCallerInv, OneCaller, TypeInv, TypeOK, CallHasRequest, LoopHasMessage,
        SupervisionInv, PendingInv, OutstandingIsSupervised, TimeoutMeansOutstanding,
        Waiting, Alive, Running, Kinds, Abort, NextEvent,
        uiVars, syncVars, loopVars, timerVars, envVars
<1>1. ASSUME NEW u \in UIs, Connected(u) PROVE SupervisionInv'
  BY <1>1 DEF Connected
<1>2. ASSUME NEW u \in UIs, NEW k \in {"SUBSCRIPTION", "CONTROL"},
             StartProcedure(u, k) PROVE SupervisionInv'
  BY <1>2 DEF StartProcedure
<1>3. ASSUME NEW u \in UIs, NEW h \in ProcIds, RmReport(u, h) PROVE SupervisionInv'
  BY <1>3 DEF RmReport
<1>4. ASSUME NEW u \in UIs, SendRequest(u) PROVE SupervisionInv'
  BY <1>4 DEF SendRequest
<1>5. ASSUME NEW u \in UIs, AddPendingEvent(u) PROVE SupervisionInv'
  BY <1>5 DEF AddPendingEvent, Supervise
<1>6. ASSUME NEW u \in UIs, EnterWait(u) PROVE SupervisionInv'
  BY <1>6 DEF EnterWait, ResetSync
<1>7. ASSUME NEW u \in UIs, SpuriousWakeup(u) PROVE SupervisionInv'
  BY <1>7 DEF SpuriousWakeup
<1>8. ASSUME NEW u \in UIs, RecheckFlag(u) PROVE SupervisionInv'
  <2>1. CASE flagSync
    <3>1. pc' = [pc EXCEPT ![u] = "return"] /\ pc[u] = "woken" /\ pending \subseteq {Setup}
      BY <1>8, <2>1 DEF RecheckFlag, WaitOver
    <3>2. UNCHANGED <<op, timerVars, syncVars, loopVars, stop, crash, envVars>>
      BY <1>8 DEF RecheckFlag
    <3>3. loopPc # "signal" /\ crash # "pending_timeout"
      BY <1>8, <2>1, <3>1 DEF RecheckFlag, FlagInv, NoToken, InLoop
    <3> QED
      BY <3>1, <3>2, <3>3
  <2>2. CASE ~flagSync
    BY <1>8, <2>2 DEF RecheckFlag, WaitOver
  <2> QED
    BY <2>1, <2>2
<1>9. ASSUME NEW u \in UIs, WaitTimeout(u) PROVE SupervisionInv'
  BY <1>9 DEF WaitTimeout
<1>10. ASSUME NEW u \in UIs, ReturnFromWait(u) PROVE SupervisionInv'
  BY <1>10 DEF ReturnFromWait
<1>11. ASSUME NEW u \in UIs, RmActProc(u) PROVE SupervisionInv'
  BY <1>11 DEF RmActProc
<1>12. CASE TryStop
  BY <1>12 DEF TryStop
<1>13. CASE FreeXapp
  BY <1>13 DEF FreeXapp
<1>14. CASE StartXapp
  BY <1>14 DEF StartXapp
<1>15. CASE RecvMessage
  BY <1>15 DEF RecvMessage, HandlerEntry
<1>16. CASE FindProcedure
  BY <1>16 DEF FindProcedure
<1>17. CASE ExtractPending
  <2>1. CASE \A p \in pending : ~Matches(p, loopMsg)
    BY <1>17, <2>1 DEF ExtractPending
  <2>2. ASSUME NEW p \in pending, Matches(p, loopMsg), CloseTimer(p),
               loopMsg.kind = "SETUP"
        PROVE  SupervisionInv'
    <3>1. p = Setup /\ pending' = pending \ {Setup} /\ loopPc' # "signal"
      BY <1>17, <2>2 DEF ExtractPending, CloseTimer, Matches, Setup
    <3>2. /\ UNCHANGED <<uiVars, syncVars, stop, envVars>>
          /\ crash = "none" /\ crash' # "pending_timeout" /\ stop # "freed"
      BY <1>17 DEF ExtractPending
    <3>3. \A u \in UIs : Waiting(u) => op[u] \in Request /\ op[u] # Setup
      OBVIOUS
    <3>4. PendingInv'
      BY <3>1, <3>2, <3>3
    <3>5. OutstandingIsSupervised' /\ TimeoutMeansOutstanding'
      BY <3>1, <3>2, <3>3
    <3> QED
      BY <3>4, <3>5
  <2>3. ASSUME NEW p \in pending, Matches(p, loopMsg), CloseTimer(p),
               loopMsg.kind # "SETUP"
        PROVE  SupervisionInv'
    <3>1. p # Setup /\ loopMsg \in Request /\ loopPc = "extract"
      BY <1>17, <2>3 DEF ExtractPending, Matches, Setup
    <3>2. PICK u \in UIs : op[u] = p /\ Waiting(u)
      BY <3>1
    <3>3. InLoop /\ \A v \in UIs : v = u
      BY <3>1 DEF InLoop
    <3>4. op[u] = loopMsg /\ reqs = {} /\ Answers = {}
      BY <3>2, <3>3 DEF TokenInv, InFlight
    <3>5. pending' \subseteq {Setup}
      BY <2>3, <3>2, <3>3 DEF CloseTimer
    <3>6. /\ UNCHANGED <<uiVars, syncVars, stop, envVars>> /\ crash' # "pending_timeout"
      BY <1>17 DEF ExtractPending
    <3>7. \A k \in DOMAIN toXapp : toXapp[k] # op[u]
      BY <3>1, <3>4 DEF Answers
    <3> QED
      BY <3>2, <3>3, <3>4, <3>5, <3>6, <3>7
  <2> QED
    BY <1>17, <2>1, <2>2, <2>3 DEF ExtractPending
<1>18. CASE SignalSync
  BY <1>18 DEF SignalSync
<1>19. CASE PushIndication
  BY <1>19 DEF PushIndication
<1>20. ASSUME NEW p \in PendingEvent, TimerEvent(p) PROVE SupervisionInv'
  BY <1>20 DEF TimerEvent
<1>21. ASSUME NEW p \in PendingEvent, TimerExpires(p) PROVE SupervisionInv'
  BY <1>21 DEF TimerExpires
<1>22. CASE LoopExit
  BY <1>22 DEF LoopExit
<1>23. CASE Dispatch
  BY <1>23 DEF Dispatch
<1>24. CASE IappSetup
  <2>1. PICK m \in Message \ Request : toXapp' = Append(toXapp, m)
    BY <1>24 DEF IappSetup
  <2>2. Answers' = Answers /\ \A k \in Answers : toXapp'[k] = toXapp[k]
    BY <2>1, SocketAppend
  <2>3. \A r \in Request :
          (\E k \in DOMAIN toXapp' : toXapp'[k] = r) <=> (\E k \in DOMAIN toXapp : toXapp[k] = r)
    BY <2>2 DEF Answers
  <2>4. UNCHANGED <<uiVars, syncVars, loopVars, timerVars, stop, crash, reqs, served>>
    BY <1>24 DEF IappSetup
  <2> QED
    BY <2>3, <2>4
<1>25. CASE LoseSetup
  BY <1>25 DEF LoseSetup
<1>26. ASSUME NEW r \in Request, IappAnswer(r) PROVE SupervisionInv'
  BY <1>26 DEF IappAnswer
<1>27. ASSUME NEW i \in ProcIds, Indicate(i) PROVE SupervisionInv'
  <2>1. PICK m \in Message \ Request : toXapp' = Append(toXapp, m)
    BY <1>27 DEF Indicate
  <2>2. Answers' = Answers /\ \A k \in Answers : toXapp'[k] = toXapp[k]
    BY <2>1, SocketAppend
  <2>3. \A r \in Request :
          (\E k \in DOMAIN toXapp' : toXapp'[k] = r) <=> (\E k \in DOMAIN toXapp : toXapp[k] = r)
    BY <2>2 DEF Answers
  <2>4. UNCHANGED <<uiVars, syncVars, loopVars, timerVars, stop, crash, reqs, served>>
    BY <1>27 DEF Indicate
  <2> QED
    BY <2>3, <2>4
<1>28. CASE Ended \/ UNCHANGED vars
  BY <1>28 DEF Ended, vars
<1> QED
  BY <1>1, <1>2, <1>3, <1>4, <1>5, <1>6, <1>7, <1>8, <1>9, <1>10, <1>11, <1>12,
     <1>13, <1>14, <1>15, <1>16, <1>17, <1>18, <1>19, <1>20, <1>21, <1>22,
     <1>23, <1>24, <1>25, <1>26, <1>27, <1>28
  DEF Next, UIStep, LoopHandler, Report, Control

-----------------------------------------------------------------------------
(* What DispatchInv says of the socket outlasts a message at its end, and  *)
(* one that is read at its head.                                           *)
LEMMA DispatchAppend ==
  ASSUME TypeInv, SocketInv, NEW m \in Message, toXapp' = Append(toXapp, m),
         served \subseteq served', m.kind = "INDICATION" => Subscription(m.id) \in served
  PROVE  SocketInv'
<1>1. /\ DOMAIN toXapp' = DOMAIN toXapp \cup {Len(toXapp) + 1}
      /\ \A k \in DOMAIN toXapp : toXapp'[k] = toXapp[k]
      /\ toXapp'[Len(toXapp) + 1] = m
  BY DEF TypeInv, TypeOK
<1> QED
  BY <1>1 DEF SocketInv, Indications, Subscription

LEMMA DispatchTail ==
  ASSUME TypeInv, SocketInv, toXapp # <<>>, toXapp' = Tail(toXapp), served' = served
  PROVE  /\ SocketInv'
         /\ Head(toXapp).kind = "INDICATION" => Subscription(Head(toXapp).id) \in served
<1>1. /\ \A k \in DOMAIN toXapp' : toXapp'[k] = toXapp[k + 1] /\ k + 1 \in DOMAIN toXapp
      /\ Head(toXapp) = toXapp[1] /\ 1 \in DOMAIN toXapp
  BY DEF TypeInv, TypeOK
<1> QED
  BY <1>1 DEF SocketInv, Indications, Subscription

LEMMA DispatchInvInit == Init => DispatchInv
BY DEF Init, DispatchInv, SocketInv, LoopInv, ReportsInv, KindInv, Indications, NoMsg

(* A step that touches neither the socket nor what was served.             *)
LEMMA DispatchFrame ==
  ASSUME TypeInv, DispatchInv, UNCHANGED <<toXapp, served>>,
         loopMsg' \in {loopMsg, NoMsg}
  PROVE  /\ SocketInv' /\ LoopInv'
         /\ actProc \subseteq actProc' => ReportsInv'
BY DEF DispatchInv, SocketInv, LoopInv, ReportsInv, Indications, NoMsg

LEMMA DispatchInvStep ==
  ASSUME OneCaller, TypeInv, OneCallerInv, DispatchInv, [Next]_vars
  PROVE  DispatchInv'
<1> USE BoundsAssumption, Requests, Messages, DispatchFrame
    DEF OneCaller, TypeInv, TypeOK, CallHasRequest, LoopHasMessage,
        DispatchInv, KindInv, Alive, Running, Kinds, Abort, NextEvent,
        uiVars, syncVars, loopVars, timerVars, envVars
<1>1. ASSUME NEW u \in UIs, Connected(u) PROVE DispatchInv'
  BY <1>1 DEF Connected
<1>2. ASSUME NEW u \in UIs, NEW k \in {"SUBSCRIPTION", "CONTROL"},
             StartProcedure(u, k) PROVE DispatchInv'
  BY <1>2 DEF StartProcedure, OneCallerInv, IdInv, ServedInv, Subscription
<1>3. ASSUME NEW u \in UIs, NEW h \in ProcIds, RmReport(u, h) PROVE DispatchInv'
  BY <1>3 DEF RmReport
<1>4. ASSUME NEW u \in UIs, SendRequest(u) PROVE DispatchInv'
  BY <1>4 DEF SendRequest
<1>5. ASSUME NEW u \in UIs, AddPendingEvent(u) PROVE DispatchInv'
  BY <1>5 DEF AddPendingEvent, Supervise
<1>6. ASSUME NEW u \in UIs, EnterWait(u) PROVE DispatchInv'
  BY <1>6 DEF EnterWait, ResetSync
<1>7. ASSUME NEW u \in UIs, SpuriousWakeup(u) PROVE DispatchInv'
  BY <1>7 DEF SpuriousWakeup
<1>8. ASSUME NEW u \in UIs, RecheckFlag(u) PROVE DispatchInv'
  BY <1>8 DEF RecheckFlag, WaitOver
<1>9. ASSUME NEW u \in UIs, WaitTimeout(u) PROVE DispatchInv'
  BY <1>9 DEF WaitTimeout
<1>10. ASSUME NEW u \in UIs, ReturnFromWait(u) PROVE DispatchInv'
  <2>1. /\ pc[u] = "return" /\ pc' \in {[pc EXCEPT ![u] = "idle"], [pc EXCEPT ![u] = "remove"], pc}
        /\ op' \in {op, [op EXCEPT ![u] = NoMsg]}
        /\ pc'[u] = "remove" => op' = op /\ op[u].kind # "SUBSCRIPTION"
        /\ UNCHANGED <<actProc, loopVars, toXapp, served>>
    BY <1>10 DEF ReturnFromWait
  <2>2. KindInv'
    BY <1>10, <2>1 DEF ReturnFromWait, NoMsg
  <2> QED
    BY <2>1, <2>2
<1>11. ASSUME NEW u \in UIs, RmActProc(u) PROVE DispatchInv'
  <2>1. CASE op[u].id \in actProc
    <3>1. /\ pc[u] = "remove" /\ op[u] \in Request
          /\ op' = [op EXCEPT ![u] = NoMsg] /\ pc' = [pc EXCEPT ![u] = "idle"]
          /\ actProc' = actProc \ {op[u].id}
          /\ UNCHANGED <<loopVars, toXapp, served>>
      BY <1>11, <2>1 DEF RmActProc, Unregister
    <3>2. KindInv'
      BY <3>1 DEF NoMsg
    <3>3. ASSUME Subscription(op[u].id) \in served PROVE Deletion(op[u].id) \in served
      <4>1. op[u] \in served
        BY <3>1 DEF OneCallerInv, FlagInv
      <4>2. op[u].kind = "DELETE"
        BY <3>1, <3>3
      <4> QED
        BY <3>1, <4>1, <4>2 DEF Deletion
    <3>4. ReportsInv'
      BY <3>1, <3>3 DEF ReportsInv, Subscription, Deletion
    <3> QED
      BY <3>1, <3>2, <3>4
  <2>2. CASE op[u].id \notin actProc
    BY <1>11, <2>2 DEF RmActProc
  <2> QED
    BY <2>1, <2>2
<1>12. CASE TryStop
  BY <1>12 DEF TryStop
<1>13. CASE FreeXapp
  BY <1>13 DEF FreeXapp
<1>14. CASE StartXapp
  BY <1>14 DEF StartXapp
<1>15. CASE RecvMessage
  <2>1. /\ toXapp # <<>> /\ toXapp' = Tail(toXapp)
        /\ UNCHANGED <<uiVars, actProc, served>>
        /\ loopMsg' \in {loopMsg, Head(toXapp)}
    BY <1>15 DEF RecvMessage
  <2>2. SocketInv' /\ LoopInv'
    BY <2>1, DispatchTail DEF LoopInv
  <2>3. KindInv' /\ ReportsInv'
    BY <2>1 DEF ReportsInv
  <2> QED
    BY <2>2, <2>3
<1>16. CASE FindProcedure
  BY <1>16 DEF FindProcedure
<1>17. CASE ExtractPending
  BY <1>17 DEF ExtractPending
<1>18. CASE SignalSync
  BY <1>18 DEF SignalSync
<1>19. CASE PushIndication
  BY <1>19 DEF PushIndication
<1>20. ASSUME NEW p \in PendingEvent, TimerEvent(p) PROVE DispatchInv'
  BY <1>20 DEF TimerEvent
<1>21. ASSUME NEW p \in PendingEvent, TimerExpires(p) PROVE DispatchInv'
  BY <1>21 DEF TimerExpires
<1>22. CASE LoopExit
  BY <1>22 DEF LoopExit
<1>23. CASE Dispatch
  BY <1>23 DEF Dispatch
<1>24. CASE IappSetup
  <2>1. /\ toXapp' = Append(toXapp, Setup)
        /\ UNCHANGED <<uiVars, actProc, loopVars, served>>
    BY <1>24 DEF IappSetup
  <2>2. SocketInv'
    BY <2>1, DispatchAppend DEF Setup
  <2> QED
    BY <2>1, <2>2 DEF LoopInv, ReportsInv
<1>25. CASE LoseSetup
  BY <1>25 DEF LoseSetup
<1>26. ASSUME NEW r \in Request, IappAnswer(r) PROVE DispatchInv'
  <2>1. /\ toXapp' = Append(toXapp, r)
        /\ UNCHANGED <<uiVars, actProc, loopVars>>
        /\ served' = served \cup {r}
    BY <1>26 DEF IappAnswer
  <2>2. SocketInv'
    BY <2>1, DispatchAppend
  <2>3. PICK u \in UIs : op[u] = r /\ \A v \in UIs : v = u
    BY <1>26 DEF IappAnswer, OneCallerInv, TokenInv, InFlight
  <2>4. KindInv'
    BY <2>1, <2>3 DEF Subscription
  <2>5. r.id \in actProc
    BY <2>3 DEF OneCallerInv, RegInv, NoMsg
  <2>6. ReportsInv'
    BY <2>1, <2>5 DEF ReportsInv, Subscription
  <2> QED
    BY <2>1, <2>2, <2>4, <2>6 DEF LoopInv
<1>27. ASSUME NEW i \in ProcIds, Indicate(i) PROVE DispatchInv'
  <2> DEFINE m == [kind |-> "INDICATION", id |-> i]
  <2>1. /\ toXapp' = Append(toXapp, m) /\ Subscription(i) \in served
        /\ UNCHANGED <<uiVars, actProc, loopVars, served>>
    BY <1>27 DEF Indicate, Reported, Subscription
  <2>2. SocketInv'
    BY <2>1, DispatchAppend
  <2> QED
    BY <2>1, <2>2 DEF LoopInv, ReportsInv
<1>28. CASE Ended \/ UNCHANGED vars
  BY <1>28 DEF Ended, vars
<1> QED
  BY <1>1, <1>2, <1>3, <1>4, <1>5, <1>6, <1>7, <1>8, <1>9, <1>10, <1>11, <1>12,
     <1>13, <1>14, <1>15, <1>16, <1>17, <1>18, <1>19, <1>20, <1>21, <1>22,
     <1>23, <1>24, <1>25, <1>26, <1>27, <1>28
  DEF Next, UIStep, LoopHandler, Report, Control

-----------------------------------------------------------------------------
(* The invariant of one caller, and what follows from it.                  *)
CallerInv == TypeInv /\ OneCallerInv /\ SupervisionInv /\ DispatchInv

LEMMA CallerInvariant == ASSUME OneCaller PROVE Spec => []CallerInv
<1>1. Init => CallerInv
  BY TypeInvInit, OneCallerInvInit, SupervisionInvInit, DispatchInvInit DEF CallerInv
<1>2. CallerInv /\ [Next]_vars => CallerInv'
  BY TypeInvStep, OneCallerInvStep, SupervisionInvStep, DispatchInvStep DEF CallerInv
<1> QED
  BY <1>1, <1>2, PTL DEF Spec

(* OneCallerInv itself: the request or its answer is one token, the flag   *)
(* is set for the call in progress only, ids are fresh.                    *)
THEOREM OneCallerInvariant == ASSUME OneCaller PROVE Spec => []OneCallerInv
BY CallerInvariant, PTL DEF CallerInv

(* The event loop drops an indication only when the network has accepted   *)
(* the deletion of its report: RmActProc comes after the answer.           *)
THEOREM HeldReportsAreFound == ASSUME OneCaller PROVE Spec => []IndicationsFindReports
<1>1. CallerInv => IndicationsFindReports
  BY Messages DEF CallerInv, DispatchInv, LoopInv, ReportsInv, IndicationsFindReports, TypeInv, TypeOK,
     Subscription, Deletion, NoMsg
<1> QED
  BY <1>1, CallerInvariant, PTL

(* A request whose answer has not been handled has its pending event and   *)
(* timer, from add_pending_event_xapp on.                                  *)
THEOREM Supervised == ASSUME OneCaller PROVE Spec => []OutstandingIsSupervised
BY CallerInvariant, PTL DEF CallerInv, SupervisionInv

(* A timer that aborts the process belongs to a request that waits.        *)
THEOREM TimeoutIsDue == ASSUME OneCaller PROVE Spec => []TimeoutMeansOutstanding
BY CallerInvariant, PTL DEF CallerInv, SupervisionInv

-----------------------------------------------------------------------------
(* Refinement: each step of the xApp is a step of the service, under the   *)
(* mapping of ImplementsService, or leaves its variables as they are.      *)

LEMMA ServiceInit == Init => Service!Init
BY DEF Init, Service!Init, Service!NoCall, NoMsg, Running

LEMMA ServiceStep ==
  ASSUME OneCaller, CallerInv, [Next]_vars
  PROVE  [Service!Next]_(Service!vars)
<1> USE BoundsAssumption, Requests, ProcIdsAreNat
    DEF OneCaller, CallerInv, TypeInv, TypeOK, CallHasRequest, Running, Abort, Kinds,
        uiVars, syncVars, loopVars, timerVars, envVars,
        Service!vars, Service!Next, Service!Calls, Service!NoCall, NoMsg
<1>1. ASSUME NEW u \in UIs, Connected(u) PROVE UNCHANGED Service!vars
  BY <1>1 DEF Connected
<1>2. ASSUME NEW u \in UIs, NEW k \in {"SUBSCRIPTION", "CONTROL"},
             StartProcedure(u, k) PROVE Service!Next
  <2> DEFINE r == [kind |-> k, id |-> nextId]
  <2>1. r \in Service!Calls /\ r.kind # "DELETE" /\ r.id = nextId
    BY <1>2 DEF StartProcedure, ProcIds
  <2>2. Service!Begin(u, r)
    BY <1>2, <2>1 DEF StartProcedure, Service!Begin, OneCallerInv, IdInv, ServedInv
  <2> QED
    BY <2>1, <2>2
<1>3. ASSUME NEW u \in UIs, NEW h \in ProcIds, RmReport(u, h) PROVE Service!Next
  <2> DEFINE r == [kind |-> "DELETE", id |-> h]
  <2>1. r \in Service!Calls /\ h \in actProc
    BY <1>3 DEF RmReport, OneCallerInv, RegInv
  <2>2. Service!Begin(u, r)
    BY <1>3, <2>1 DEF RmReport, Service!Begin
  <2> QED
    BY <2>1, <2>2
<1>4. ASSUME NEW u \in UIs,
             \/ SendRequest(u) \/ AddPendingEvent(u) \/ EnterWait(u)
             \/ SpuriousWakeup(u) \/ RecheckFlag(u)
      PROVE  UNCHANGED Service!vars
  BY <1>4 DEF SendRequest, AddPendingEvent, EnterWait, SpuriousWakeup, RecheckFlag
<1>5. ASSUME NEW u \in UIs, WaitTimeout(u) PROVE Service!Next
  BY <1>5 DEF WaitTimeout, Service!Close
<1>6. ASSUME NEW u \in UIs, ReturnFromWait(u) PROVE [Service!Next]_(Service!vars)
  BY <1>6 DEF ReturnFromWait, Service!Return, OneCallerInv, FlagInv
<1>7. ASSUME NEW u \in UIs, RmActProc(u) PROVE Service!Next
  BY <1>7 DEF RmActProc, Service!Return, Service!Close, OneCallerInv, FlagInv,
              DispatchInv, KindInv
<1>8. CASE \/ TryStop \/ StartXapp \/ SignalSync \/ PushIndication \/ LoopExit
           \/ Dispatch \/ IappSetup \/ LoseSetup \/ Ended \/ UNCHANGED vars
  BY <1>8 DEF TryStop, StartXapp, SignalSync, PushIndication, LoopExit, Dispatch,
              IappSetup, LoseSetup, Ended, vars
<1>9. CASE FreeXapp
  BY <1>9 DEF FreeXapp, Service!Close
<1>10. CASE RecvMessage \/ FindProcedure \/ ExtractPending
  BY <1>10 DEF RecvMessage, FindProcedure, ExtractPending, Service!Close
<1>11. ASSUME NEW p \in PendingEvent, TimerEvent(p) \/ TimerExpires(p)
       PROVE  [Service!Next]_(Service!vars)
  BY <1>11 DEF TimerEvent, TimerExpires, Service!Close
<1>12. ASSUME NEW r \in Request, IappAnswer(r) PROVE Service!Next
  <2>1. r \in Service!Calls /\ r \notin served /\ \E u \in UIs : op[u] = r
    BY <1>12 DEF IappAnswer, Request, OneCallerInv, TokenInv, InFlight
  <2>2. Service!Serve(r)
    BY <1>12, <2>1 DEF IappAnswer, Service!Serve
  <2> QED
    BY <2>1, <2>2
<1>13. ASSUME NEW i \in ProcIds, Indicate(i) PROVE UNCHANGED Service!vars
  BY <1>13 DEF Indicate
<1> QED
  BY <1>1, <1>2, <1>3, <1>4, <1>5, <1>6, <1>7, <1>8, <1>9, <1>10, <1>11, <1>12, <1>13
  DEF Next, UIStep, LoopHandler, Report, Control

(* The xApp implements the service: what report, rm_report and control     *)
(* return is the truth, for any number of procedures and indications.      *)
THEOREM Implements == ASSUME OneCaller PROVE Spec => ImplementsService
<1>1. CallerInv /\ [Next]_vars => [Service!Next]_(Service!vars)
  BY ServiceStep
<1> QED
  BY <1>1, ServiceInit, CallerInvariant, PTL DEF Spec, ImplementsService, Service!Spec

=============================================================================
