------------------------------ MODULE E42Xapp ------------------------------
(***************************************************************************)
(* The xApp process of the FlexRIC SDK (src/flexric/flexric-jyd/src/xApp). *)
(*                                                                         *)
(* Three kinds of threads share the process: the application's threads,    *)
(* which make the synchronous SDK calls report, rm_report and control; the *)
(* event loop, which reads the socket to the iApp and the timers of the    *)
(* requests under way; and the worker of the message dispatcher, which     *)
(* runs the application's callbacks.  A call registers a procedure, SENDS  *)
(* the request, then creates the timer that watches it, then blocks on a   *)
(* condition variable; the event loop handles the answer and signals.      *)
(* Every critical section of the code (a mutex taken and released) is one  *)
(* action here, so the actions interleave exactly where the threads may.   *)
(*                                                                         *)
(* The code checks itself with assert(), and a failed one aborts the       *)
(* process: "crash" records which assertion that was.                      *)
(*                                                                         *)
(* The iApp and the E2 nodes are the environment: every request they       *)
(* accept is answered at most once, in any order, or never.                *)
(***************************************************************************)
EXTENDS Integers, Sequences, FiniteSets

CONSTANTS
  UIs,        \* the application's threads that call the SDK
  MaxProc,    \* bound: procedures the registry hands out
  MaxSetup,   \* bound: E42 SETUP-REQUESTs sent
  MaxInd      \* bound: indications in the socket and in the dispatcher queue

ASSUME BoundsAssumption ==
  /\ MaxProc \in Nat
  /\ MaxSetup \in Nat \ {0}
  /\ MaxInd \in Nat

VARIABLES
  pc,         \* where each application thread is
  op,         \* the request each application thread is making
  handles,    \* handles the application holds (report returned, not removed)
  actProc,    \* ids of the registry of active procedures (act_proc)
  nextId,     \* next key of that registry
  pending,    \* pending events, each with its timer
  expired,    \* pending events whose timer has fired and was not consumed
  flagSync,   \* sync_ui: flag_sync
  msgAck,     \* sync_ui: msg_ack
  loopPc,     \* where the event loop is
  loopMsg,    \* the message the event loop handles
  connected,  \* the flag the application's threads wait for at start
  queue,      \* the dispatcher's queue: ids of the indications to deliver
  stop,       \* stop protocol: "run", "token", "stopped", "freed"
  crash,      \* "none", or the assertion that aborted the process
  setupReqs,  \* environment: SETUP-REQUESTs the iApp has not handled
  setupSent,  \* environment: SETUP-REQUESTs sent so far
  reached,    \* environment: the iApp has handled some SETUP-REQUEST
  reqs,       \* environment: requests sent and not answered
  served,     \* environment: requests answered
  toXapp      \* the socket: messages from the iApp, in order

uiVars    == <<pc, op, handles>>
syncVars  == <<flagSync, msgAck>>
loopVars  == <<loopPc, loopMsg, connected>>
timerVars == <<pending, expired>>
envVars   == <<setupReqs, setupSent, reached, reqs, served, toXapp>>
vars == <<uiVars, actProc, nextId, timerVars, syncVars, loopVars, queue,
          stop, crash, envVars>>

Kinds   == {"SUBSCRIPTION", "DELETE", "CONTROL"}
ProcIds == 1..MaxProc
(* A request, the answer to it and the pending event that watches it are   *)
(* all named by the kind of the request and its ric_req_id.                *)
Request == [kind : Kinds, id : ProcIds]
Setup   == [kind |-> "SETUP", id |-> 0]
Message == Request \cup [kind : {"INDICATION"}, id : ProcIds] \cup {Setup}
PendingEvent == Request \cup {Setup}
NoMsg   == [kind |-> "NONE", id |-> 0]

Crashes == {"none", "extract", "no_procedure", "second_setup",
            "pending_timeout", "wait_timeout", "no_ack", "not_registered"}

TypeOK ==
  /\ pc \in [UIs -> {"init", "idle", "send", "pend", "enter", "blocked",
                     "woken", "return", "remove"}]
  /\ op \in [UIs -> Request \cup {NoMsg}]
  /\ handles \subseteq ProcIds
  /\ actProc \subseteq ProcIds
  /\ nextId \in 1..(MaxProc + 1)
  /\ pending \subseteq PendingEvent
  /\ expired \subseteq pending
  /\ flagSync \in BOOLEAN
  /\ msgAck \in BOOLEAN
  /\ loopPc \in {"start", "recv", "find", "extract", "signal", "push",
                 "leave", "exit"}
  /\ loopMsg \in Message \cup {NoMsg}
  /\ connected \in BOOLEAN
  /\ queue \in Seq(ProcIds)
  /\ stop \in {"run", "token", "stopped", "freed"}
  /\ crash \in Crashes
  /\ setupSent \in 0..MaxSetup
  /\ setupReqs \in 0..setupSent
  /\ reached \in BOOLEAN
  /\ reqs \subseteq Request
  /\ served \subseteq Request
  /\ toXapp \in Seq(Message)

Init ==
  /\ pc = [u \in UIs |-> "init"]
  /\ op = [u \in UIs |-> NoMsg]
  /\ handles = {}
  /\ actProc = {}
  /\ nextId = 1
  /\ pending = {}
  /\ expired = {}
  /\ flagSync = FALSE
  /\ msgAck = FALSE
  /\ loopPc = "start"
  /\ loopMsg = NoMsg
  /\ connected = FALSE
  /\ queue = <<>>
  /\ stop = "run"
  /\ crash = "none"
  /\ setupReqs = 0
  /\ setupSent = 0
  /\ reached = FALSE
  /\ reqs = {}
  /\ served = {}
  /\ toXapp = <<>>

Running == crash = "none" /\ stop # "freed"

Abort(why) == crash' = why

(* The event loop reads stop_token between two events only: an event that  *)
(* comes while it is already in epoll_wait is still handled.               *)
NextEvent == IF stop = "run" THEN "recv" ELSE "leave"

-----------------------------------------------------------------------------
(* The application's threads.                                              *)

(* init_xapp_api returns once the event loop has set connected.            *)
Connected(u) ==
  /\ Running
  /\ pc[u] = "init"
  /\ connected
  /\ pc' = [pc EXCEPT ![u] = "idle"]
  /\ UNCHANGED <<op, handles, actProc, nextId, timerVars, syncVars, loopVars,
                 queue, stop, crash, envVars>>

(* report_sm_sync_xapp and control_sm_sync_xapp begin by registering the   *)
(* procedure: its key in the registry is the ric_req_id of the request.    *)
StartProcedure(u, kind) ==
  /\ Running
  /\ stop = "run"
  /\ pc[u] = "idle"
  /\ nextId <= MaxProc
  /\ op' = [op EXCEPT ![u] = [kind |-> kind, id |-> nextId]]
  /\ actProc' = actProc \cup {nextId}
  /\ nextId' = nextId + 1
  /\ pc' = [pc EXCEPT ![u] = "send"]
  /\ UNCHANGED <<handles, timerVars, syncVars, loopVars, queue, stop, crash,
                 envVars>>

Report(u) == StartProcedure(u, "SUBSCRIPTION")

Control(u) == StartProcedure(u, "CONTROL")

(* Mutant: the report leaves the registry before its deletion is sent.     *)
RemoveFirst(u, h) ==
  /\ Running
  /\ stop = "run"
  /\ pc[u] = "idle"
  /\ h \in handles \cap actProc
  /\ op' = [op EXCEPT ![u] = [kind |-> "DELETE", id |-> h]]
  /\ handles' = handles \ {h}
  /\ actProc' = actProc \ {h}
  /\ pc' = [pc EXCEPT ![u] = "send"]
  /\ UNCHANGED <<nextId, timerVars, syncVars, loopVars, queue, stop, crash,
                 envVars>>

(* rm_report_sm_sync_xapp looks its handle up before it sends the request. *)
RmReport(u, h) ==
  /\ Running
  /\ stop = "run"
  /\ pc[u] = "idle"
  /\ h \in handles
  /\ IF h \in actProc
     THEN /\ op' = [op EXCEPT ![u] = [kind |-> "DELETE", id |-> h]]
          /\ handles' = handles \ {h}
          /\ pc' = [pc EXCEPT ![u] = "send"]
          /\ UNCHANGED crash
     ELSE Abort("not_registered") /\ UNCHANGED uiVars
  /\ UNCHANGED <<actProc, nextId, timerVars, syncVars, loopVars, queue, stop,
                 envVars>>

(* The request handlers send the message first ...                         *)
SendRequest(u) ==
  /\ Running
  /\ pc[u] = "send"
  /\ reqs' = reqs \cup {op[u]}
  /\ pc' = [pc EXCEPT ![u] = "pend"]
  /\ UNCHANGED <<op, handles, actProc, nextId, timerVars, syncVars, loopVars,
                 queue, stop, crash, setupReqs, setupSent, reached, served,
                 toXapp>>

(* ... and then create the timer and insert the pending event.             *)
ForgetControl(r) == pending' = IF r.kind = "CONTROL" THEN pending
                               ELSE pending \cup {r}
Supervise(r)     == pending' = pending \cup {r}

AddPendingEvent(u) ==
  /\ Running
  /\ pc[u] = "pend"
  /\ Supervise(op[u])
  /\ pc' = [pc EXCEPT ![u] = "enter"]
  /\ UNCHANGED <<op, handles, actProc, nextId, expired, syncVars, loopVars,
                 queue, stop, crash, envVars>>

(* cond_wait_sync_ui clears both flags under mtx_sync before it waits, and *)
(* waits while flag_sync is false.                                         *)
KeepSync  == UNCHANGED syncVars
ResetSync == flagSync' = FALSE /\ msgAck' = FALSE

EnterWait(u) ==
  /\ Running
  /\ pc[u] = "enter"
  /\ ResetSync
  /\ pc' = [pc EXCEPT ![u] = IF flagSync' THEN "return" ELSE "blocked"]
  /\ UNCHANGED <<op, handles, actProc, nextId, timerVars, loopVars, queue,
                 stop, crash, envVars>>

(* Out of pthread_cond_timedwait: the test of the while loop.              *)
IfNotWhile(flag) == TRUE
WaitOver(flag)   == flag

(* A wait may end without a signal; the loop around it then checks again.  *)
SpuriousWakeup(u) ==
  /\ Running
  /\ pc[u] = "blocked"
  /\ pc' = [pc EXCEPT ![u] = "woken"]
  /\ UNCHANGED <<op, handles, actProc, nextId, timerVars, syncVars, loopVars,
                 queue, stop, crash, envVars>>

RecheckFlag(u) ==
  /\ Running
  /\ pc[u] = "woken"
  /\ pc' = [pc EXCEPT ![u] = IF WaitOver(flagSync) THEN "return" ELSE "blocked"]
  /\ UNCHANGED <<op, handles, actProc, nextId, timerVars, syncVars, loopVars,
                 queue, stop, crash, envVars>>

(* The wait gives up 6 s after it began.  The 5 s timer of the request was *)
(* started before that, so by then it has fired or has been removed.       *)
NoDeadline(u)     == FALSE
DeadlinePassed(u) == op[u] \notin pending \ expired

WaitTimeout(u) ==
  /\ Running
  /\ pc[u] = "blocked"
  /\ DeadlinePassed(u)
  /\ Abort("wait_timeout")
  /\ UNCHANGED <<uiVars, actProc, nextId, timerVars, syncVars, loopVars,
                 queue, stop, envVars>>

(* Out of the wait, msg_ack is read without the mutex.  A report is then   *)
(* complete; the other calls still have to leave the registry.             *)
ReturnFromWait(u) ==
  /\ Running
  /\ pc[u] = "return"
  /\ IF ~msgAck
     THEN Abort("no_ack") /\ UNCHANGED uiVars
     ELSE /\ IF op[u].kind = "SUBSCRIPTION"
             THEN /\ handles' = handles \cup {op[u].id}
                  /\ op' = [op EXCEPT ![u] = NoMsg]
                  /\ pc' = [pc EXCEPT ![u] = "idle"]
             ELSE /\ pc' = [pc EXCEPT ![u] = "remove"]
                  /\ UNCHANGED <<op, handles>>
          /\ UNCHANGED crash
  /\ UNCHANGED <<actProc, nextId, timerVars, syncVars, loopVars, queue, stop,
                 envVars>>

(* rm_act_proc, the last step of rm_report and of control.                 *)
KeepControl(r) == actProc' = IF r.kind = "CONTROL" THEN actProc
                             ELSE actProc \ {r.id}
Unregister(r)  == actProc' = actProc \ {r.id}

RmActProc(u) ==
  /\ Running
  /\ pc[u] = "remove"
  /\ IF op[u].id \in actProc
     THEN /\ Unregister(op[u])
          /\ op' = [op EXCEPT ![u] = NoMsg]
          /\ pc' = [pc EXCEPT ![u] = "idle"]
          /\ UNCHANGED crash
     ELSE Abort("not_registered") /\ UNCHANGED <<actProc, op, pc>>
  /\ UNCHANGED <<handles, nextId, timerVars, syncVars, loopVars, queue, stop,
                 envVars>>

(* try_stop_xapp_api: nothing left to dispatch, so the loop is told to     *)
(* stop.  The application calls it when its other calls have returned.     *)
TryStop ==
  /\ Running
  /\ stop = "run"
  /\ \A u \in UIs : pc[u] = "idle"
  /\ queue = <<>>
  /\ stop' = "token"
  /\ UNCHANGED <<uiVars, actProc, nextId, timerVars, syncVars, loopVars,
                 queue, crash, envVars>>

(* free_e42_xapp after the loop has stopped: the dispatcher's worker is    *)
(* stopped too, whatever its queue still holds.                            *)
FreeXapp ==
  /\ Running
  /\ stop = "stopped"
  /\ stop' = "freed"
  /\ queue' = <<>>
  /\ pending' = {}
  /\ expired' = {}
  /\ UNCHANGED <<uiVars, actProc, nextId, syncVars, loopVars, crash, envVars>>

-----------------------------------------------------------------------------
(* The event loop.                                                         *)

(* start_e42_xapp: the SETUP-REQUEST and its timer, before the loop runs.  *)
StartXapp ==
  /\ Running
  /\ loopPc = "start"
  /\ setupReqs' = 1
  /\ setupSent' = 1
  /\ pending' = pending \cup {Setup}
  /\ loopPc' = "recv"
  /\ UNCHANGED <<uiVars, actProc, nextId, expired, syncVars, loopMsg,
                 connected, queue, stop, crash, reached, reqs, served, toXapp>>

(* Where the handler of a message begins.                                  *)
HandlerEntry(m) == IF m.kind = "SETUP" THEN "extract" ELSE "find"

RecvMessage ==
  /\ Running
  /\ loopPc = "recv"
  /\ toXapp # <<>>
  /\ toXapp' = Tail(toXapp)
  /\ IF Head(toXapp).kind = "SETUP" /\ connected
     THEN Abort("second_setup") /\ UNCHANGED <<loopPc, loopMsg>>
     ELSE /\ loopMsg' = Head(toXapp)
          /\ loopPc' = HandlerEntry(Head(toXapp))
          /\ UNCHANGED crash
  /\ UNCHANGED <<uiVars, actProc, nextId, timerVars, syncVars, connected,
                 queue, stop, setupReqs, setupSent, reached, reqs, served>>

(* find_act_proc: an answer must have its procedure, an indication without *)
(* one is dropped.                                                         *)
FindProcedure ==
  /\ Running
  /\ loopPc = "find"
  /\ IF loopMsg.id \in actProc
     THEN /\ loopPc' = IF loopMsg.kind = "INDICATION" THEN "push" ELSE "extract"
          /\ UNCHANGED <<loopMsg, crash>>
     ELSE IF loopMsg.kind = "INDICATION"
     THEN loopPc' = NextEvent /\ loopMsg' = NoMsg /\ UNCHANGED crash
     ELSE Abort("no_procedure") /\ UNCHANGED <<loopPc, loopMsg>>
  /\ UNCHANGED <<uiVars, actProc, nextId, timerVars, syncVars, connected,
                 queue, stop, envVars>>

(* rm_pending_event_xapp.  The tree of the pending events is ordered by    *)
(* cmp_pending_event, which compares the kind alone: any event of the kind *)
(* of the answer may be the one that is found.                             *)
Matches(p, m) == p.kind = m.kind

(* rm_fd_asio_xapp: the timer goes with its event.                         *)
LeaveTimer(p) == pending' = pending \ {p} /\ UNCHANGED expired
CloseTimer(p) == pending' = pending \ {p} /\ expired' = expired \ {p}

ExtractPending ==
  /\ Running
  /\ loopPc = "extract"
  /\ \/ /\ \E p \in pending : Matches(p, loopMsg) /\ CloseTimer(p)
        /\ IF loopMsg.kind = "SETUP"
           THEN loopPc' = NextEvent /\ loopMsg' = NoMsg /\ connected' = TRUE
           ELSE loopPc' = "signal" /\ UNCHANGED <<loopMsg, connected>>
        /\ UNCHANGED crash
     \/ /\ \A p \in pending : ~Matches(p, loopMsg)
        /\ Abort("extract")
        /\ UNCHANGED <<loopVars, timerVars>>
  /\ UNCHANGED <<uiVars, actProc, nextId, syncVars, queue, stop, envVars>>

(* signal_sync_ui wakes one of the threads that wait, if there is any.     *)
SignalSync ==
  /\ Running
  /\ loopPc = "signal"
  /\ flagSync' = TRUE
  /\ msgAck' = TRUE
  /\ \/ \E u \in UIs : pc[u] = "blocked" /\ pc' = [pc EXCEPT ![u] = "woken"]
     \/ (\A u \in UIs : pc[u] # "blocked") /\ UNCHANGED pc
  /\ loopPc' = NextEvent
  /\ loopMsg' = NoMsg
  /\ UNCHANGED <<op, handles, actProc, nextId, timerVars, connected, queue,
                 stop, crash, envVars>>

(* send_msg_dispatcher, with the procedure found before.                   *)
PushIndication ==
  /\ Running
  /\ loopPc = "push"
  /\ queue' = Append(queue, loopMsg.id)
  /\ loopPc' = NextEvent
  /\ loopMsg' = NoMsg
  /\ UNCHANGED <<uiVars, actProc, nextId, timerVars, syncVars, connected,
                 stop, crash, envVars>>

(* A timer event.  Only the set-up has a retry: the SETUP-REQUEST is sent  *)
(* again and the periodic timer stays; any other timeout aborts.           *)
SkipResend  == UNCHANGED setupReqs /\ setupSent' = setupSent + 1
ResendSetup == setupReqs' = setupReqs + 1 /\ setupSent' = setupSent + 1

TimerEvent(p) ==
  /\ Running
  /\ loopPc = "recv"
  /\ p \in expired
  /\ IF p = Setup
     THEN /\ setupSent < MaxSetup
          /\ ResendSetup
          /\ expired' = expired \ {p}
          /\ loopPc' = NextEvent
          /\ UNCHANGED crash
     ELSE /\ Abort("pending_timeout")
          /\ UNCHANGED <<setupReqs, setupSent, expired, loopPc>>
  /\ UNCHANGED <<uiVars, actProc, nextId, pending, syncVars, loopMsg, connected,
                 queue, stop, reached, reqs, served, toXapp>>

(* stop_token is seen after an event, or when epoll_wait times out (1 s).  *)
LoopExit ==
  /\ Running
  /\ loopPc \in {"recv", "leave"}
  /\ stop = "token"
  /\ stop' = "stopped"
  /\ loopPc' = "exit"
  /\ UNCHANGED <<uiVars, actProc, nextId, timerVars, syncVars, loopMsg,
                 connected, queue, crash, envVars>>

(* The worker of the dispatcher takes the oldest message and runs its      *)
(* callback.                                                               *)
Dispatch ==
  /\ Running
  /\ queue # <<>>
  /\ queue' = Tail(queue)
  /\ UNCHANGED <<uiVars, actProc, nextId, timerVars, syncVars, loopVars, stop,
                 crash, envVars>>

-----------------------------------------------------------------------------
(* The environment: timers, the iApp and the E2 nodes.                     *)

TimerExpires(p) ==
  /\ Running
  /\ p \in pending \ expired
  /\ p = Setup => setupSent < MaxSetup
  /\ expired' = expired \cup {p}
  /\ UNCHANGED <<uiVars, actProc, nextId, pending, syncVars, loopVars, queue,
                 stop, crash, envVars>>

(* The iApp answers every SETUP-REQUEST it reads.  Until one has got to    *)
(* it, a request may find nobody listening.                                *)
IappSetup ==
  /\ Running
  /\ setupReqs > 0
  /\ setupReqs' = setupReqs - 1
  /\ reached' = TRUE
  /\ toXapp' = Append(toXapp, Setup)
  /\ UNCHANGED <<uiVars, actProc, nextId, timerVars, syncVars, loopVars,
                 queue, stop, crash, setupSent, reqs, served>>

LoseSetup ==
  /\ Running
  /\ setupReqs > 0
  /\ ~reached
  /\ setupSent < MaxSetup
  /\ setupReqs' = setupReqs - 1
  /\ UNCHANGED <<uiVars, actProc, nextId, timerVars, syncVars, loopVars,
                 queue, stop, crash, setupSent, reached, reqs, served, toXapp>>

(* Requests are answered in any order: they are for different E2 nodes.    *)
(* The iApp reads its socket in order, a SETUP-REQUEST sent earlier first. *)
IappAnswer(r) ==
  /\ Running
  /\ setupReqs = 0
  /\ r \in reqs
  /\ reqs' = reqs \ {r}
  /\ served' = served \cup {r}
  /\ toXapp' = Append(toXapp, r)
  /\ UNCHANGED <<uiVars, actProc, nextId, timerVars, syncVars, loopVars,
                 queue, stop, crash, setupReqs, setupSent, reached>>

(* The procedures the E2 nodes have reported on.  An indication may come    *)
(* after the answer to the deletion: "Spuriosly can happen", the handler   *)
(* says.                                                                   *)
Reported == {i \in ProcIds : [kind |-> "SUBSCRIPTION", id |-> i] \in served}

Indications == {k \in DOMAIN toXapp : toXapp[k].kind = "INDICATION"}

Indicate(i) ==
  /\ Running
  /\ i \in Reported
  /\ Cardinality(Indications) + Len(queue) < MaxInd
  /\ toXapp' = Append(toXapp, [kind |-> "INDICATION", id |-> i])
  /\ UNCHANGED <<uiVars, actProc, nextId, timerVars, syncVars, loopVars,
                 queue, stop, crash, setupReqs, setupSent, reached, reqs, served>>

-----------------------------------------------------------------------------
(* The process has ended, in an abort or in free_e42_xapp.                 *)
Ended == ~Running /\ UNCHANGED vars

UIStep(u) ==
  \/ Connected(u)
  \/ SendRequest(u)
  \/ AddPendingEvent(u)
  \/ EnterWait(u)
  \/ RecheckFlag(u)
  \/ WaitTimeout(u)
  \/ ReturnFromWait(u)
  \/ RmActProc(u)

LoopHandler ==
  \/ StartXapp
  \/ FindProcedure
  \/ ExtractPending
  \/ SignalSync
  \/ PushIndication
  \/ LoopExit

Next ==
  \/ \E u \in UIs : \/ UIStep(u)
                    \/ Report(u)
                    \/ Control(u)
                    \/ \E h \in ProcIds : RmReport(u, h)
                    \/ SpuriousWakeup(u)
  \/ TryStop
  \/ FreeXapp
  \/ LoopHandler
  \/ RecvMessage
  \/ \E p \in PendingEvent : TimerEvent(p) \/ TimerExpires(p)
  \/ Dispatch
  \/ IappSetup
  \/ LoseSetup
  \/ \E r \in Request : IappAnswer(r)
  \/ \E i \in ProcIds : Indicate(i)
  \/ Ended

Spec == Init /\ [][Next]_vars

(* The threads are scheduled.  The socket and the timers are level-        *)
(* triggered and epoll_wait reports the ready ones in turn, so none of     *)
(* them is passed over for ever; a wait with an absolute deadline ends     *)
(* however often it is woken before.                                       *)
Fairness ==
  /\ \A u \in UIs : WF_vars(UIStep(u)) /\ SF_vars(WaitTimeout(u))
  /\ WF_vars(LoopHandler)
  /\ SF_vars(RecvMessage)
  /\ \A p \in PendingEvent : WF_vars(TimerExpires(p)) /\ SF_vars(TimerEvent(p))
  /\ WF_vars(Dispatch)

FairSpec == Spec /\ Fairness

(* The iApp in good order: it reads the SETUP-REQUESTs that reach it.      *)
PeerSpec == FairSpec /\ WF_vars(IappSetup)

-----------------------------------------------------------------------------
(* Properties.  Those of the calls are about an application with one       *)
(* calling thread, as every xApp of the repository is.                     *)

Alive == crash = "none"

(* Answers meet their calls: no answer comes for a procedure that has left *)
(* the registry (assert at msg_handler_xapp.c:150), no wait ends without   *)
(* an acknowledgement (sync_ui.c:87), and no handle is refused             *)
(* (e42_xapp.c:438).                                                       *)
AnswersMatchCalls == crash \notin {"no_procedure", "no_ack", "not_registered"}

(* report_sm_sync_xapp hands out a handle only when its own subscription   *)
(* was accepted, never on the answer to an earlier call whose flag was     *)
(* left set.                                                               *)
ReturnedReportsAreSubscribed ==
  \A i \in handles : [kind |-> "SUBSCRIPTION", id |-> i] \in served

(* e2ap_handle_indication_xapp drops an indication whose procedure is not  *)
(* in the registry.  The application removes procedures while the loop     *)
(* handles indications, and late ones come; yet none is dropped of a       *)
(* report that the network has not agreed to delete.                       *)
IndicationsFindReports ==
  Alive /\ loopMsg.kind = "INDICATION" =>
    \/ loopMsg.id \in actProc
    \/ [kind |-> "DELETE", id |-> loopMsg.id] \in served

(* Between the send and the answer the request has a timer: it cannot hang *)
(* unobserved once add_pending_event_xapp has run.                         *)
OutstandingIsSupervised ==
  Alive /\ stop # "freed" =>
    \A u \in UIs :
      /\ pc[u] \in {"enter", "blocked", "woken"}
      /\ op[u] \in reqs \/ \E k \in DOMAIN toXapp : toXapp[k] = op[u]
      => op[u] \in pending

(* Only a request whose answer the loop has not handled may abort the      *)
(* process through its timer: closing the timer with its pending event     *)
(* leaves none behind to fire.                                             *)
TimeoutMeansOutstanding ==
  crash = "pending_timeout" =>
    \E u \in UIs : /\ op[u] \in pending
                   /\ pc[u] \in {"enter", "blocked", "woken"}

(* The registry holds the procedures in use and no other: those of the     *)
(* handles and those of the calls under way.                               *)
ProceduresMatch ==
  Alive => actProc = handles \cup {op[u].id : u \in {v \in UIs : op[v] # NoMsg}}

(* A synchronous call does not hang, whatever the network does: it returns *)
(* or the process aborts.                                                  *)
CallsEnd ==
  \A u \in UIs : pc[u] \in {"send", "pend", "enter", "blocked", "woken"}
                 ~> pc[u] = "idle" \/ ~Alive

(* init_xapp_api returns although the first SETUP-REQUESTs may be lost:    *)
(* the timer sends it again.                                               *)
SetupEnds == <>(connected \/ ~Alive)

-----------------------------------------------------------------------------
(* The SDK as its application sees it: in service until it aborts or is    *)
(* freed; a thread is in the call whose request it is making.              *)
Service == INSTANCE XappService WITH
             Callers <- UIs, Procedures <- ProcIds,
             call <- op, handles <- handles, served <- served, open <- Running

(* Every step of the xApp is a step of the service or is invisible to the  *)
(* application: what report, rm_report and control return is the truth.    *)
ImplementsService == Service!Spec

-----------------------------------------------------------------------------
(* What the assertions of the code say cannot happen.                      *)

(* sync_ui.c:82: a wait ends at its deadline only when "No response from   *)
(* the E2 Node received".  Once the loop has handled the answer, pending   *)
(* event removed and flag signalled, the caller does not time out.         *)
NoUnforeseenTimeout ==
  crash = "wait_timeout" /\ loopPc # "signal" =>
    \A u \in UIs : op[u] # NoMsg => op[u] \in pending

(* assoc_rb_tree.c:418, "Trying to extract a key not found in the tree":   *)
(* an answer finds the pending event of its request.                       *)
AnswerFindsPendingEvent == crash # "extract"

(* The callback of a procedure is queued after it was looked up, so that   *)
(* the application may have removed its report in between.                 *)
NoPushAfterRemoval == Alive /\ loopPc = "push" => loopMsg.id \in actProc

(* msg_handler_xapp.c:343: the E42 SETUP-RESPONSE comes once.              *)
OneSetupResponse == crash # "second_setup"

=============================================================================
