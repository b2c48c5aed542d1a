----------------------------- MODULE Handshake -----------------------------
(***************************************************************************)
(* The life of one client session, reduced to the protocol between its two *)
(* coroutines.  net_req_handler reads requests, forwards them and appends  *)
(* them to the list; net_rsp_handler takes the head of the list and copies *)
(* the response back.  They share struct net_handle_cxt, which lives on    *)
(* the STACK of net_req_handler, and wake each other through two event     *)
(* ids: ev_notice_req and ev_notice_rsp.                                   *)
(*                                                                         *)
(* Which connection a coroutine blocks on, and why I/O fails, is left out: *)
(* a coroutine in I/O may stop at any moment ("io") and be resumed at any  *)
(* later one.  Session.tla has all of that and implements this module.     *)
(***************************************************************************)
EXTENDS Naturals, Sequences

CONSTANT MaxReq     \* bound: the requests the client sends

ASSUME MaxReqAssumption == MaxReq \in Nat

VARIABLES
    req,        \* where net_req_handler is
    rsp,        \* where net_rsp_handler is
    queue,      \* the event queue: notices [to, more]; more is (data != NULL)
    armed,      \* the coroutines whose event id has a handler registered
    forwarded,  \* requests appended to the list so far
    answered    \* requests removed from the list so far

vars == <<req, rsp, queue, armed, forwarded, answered>>

(***************************************************************************)
(* "init": first wait for its own event.   "run": it has the processor.    *)
(* "io": paused inside conn_io, connect or DNS code, not on its event.     *)
(* "fin": req has posted the exit notice and waits for rsp's (line 170).   *)
(* "clean": req past that wait, its frame about to go.                     *)
(* "idle": rsp waits for a request (line 225).  "exit": rsp past its loop. *)
(***************************************************************************)
ReqStates == {"init", "run", "io", "fin", "clean", "done"}
RspStates == {"init", "run", "io", "idle", "exit", "done"}
Notices   == [to : {"req", "rsp"}, more : BOOLEAN]

Notice(k, m) == [to |-> k, more |-> m]

\* cxt.req_blocked and cxt.rsp_blocked: waiting on the event, not on I/O.
ReqBlocked == req \in {"init", "fin"}
RspBlocked == rsp \in {"init", "idle"}

ReqRuns == req \in {"run", "clean"}
RspRuns == rsp \in {"run", "exit"}
MainRuns == ~ReqRuns /\ ~RspRuns

Pending == forwarded - answered

\* conn_accept_handler has started both coroutines; each has posted its own
\* first event and yielded on it.
Init == /\ req = "init" /\ rsp = "init"
        /\ queue = <<Notice("req", TRUE), Notice("rsp", TRUE)>>
        /\ armed = {"req", "rsp"}
        /\ forwarded = 0 /\ answered = 0
-----------------------------------------------------------------------------
\* async_resume by conn_event_handler.  In "io" the notice only makes the
\* pending system call be tried again: its value is not looked at.
ResumeReq == CASE req \in {"init", "io"} -> "run"
               [] req = "fin"            -> "clean"
               [] OTHER                  -> req

ResumeRsp(more) == CASE rsp \in {"init", "io"} -> "run"
                     [] rsp = "idle" -> IF more THEN "run" ELSE "exit"
                     [] OTHER -> rsp

EventWork ==
    /\ MainRuns /\ queue # <<>>
    /\ queue' = Tail(queue)
    /\ LET n == Head(queue)
       IN  IF n.to \notin armed THEN UNCHANGED <<req, rsp>>
           ELSE IF n.to = "req" THEN req' = ResumeReq /\ UNCHANGED rsp
           ELSE rsp' = ResumeRsp(n.more) /\ UNCHANGED req
    /\ UNCHANGED <<armed, forwarded, answered>>

\* epoll (or, for req, the DNS notification) resumes a coroutine.
IoWakeReq == /\ MainRuns /\ req = "io" /\ req' = "run"
             /\ UNCHANGED <<rsp, queue, armed, forwarded, answered>>

\* Mutant: rsp's registration was taken over by req, which waits itself.
IoWakeRspLost == /\ MainRuns /\ rsp = "io" /\ req # "io" /\ rsp' = "run"
                 /\ UNCHANGED <<req, queue, armed, forwarded, answered>>

IoWakeRsp == /\ MainRuns /\ rsp = "io" /\ rsp' = "run"
             /\ UNCHANGED <<req, queue, armed, forwarded, answered>>

\* An epoll handler that an earlier notice made obsolete resumes rsp in its
\* wait for a request: with 0 it looks at the list again, with -1 it leaves.
StaleWakeRsp == /\ MainRuns /\ rsp = "idle" /\ rsp' \in {"run", "exit"}
                /\ UNCHANGED <<req, queue, armed, forwarded, answered>>
-----------------------------------------------------------------------------
ReqYields == /\ req = "run" /\ req' = "io"
             /\ UNCHANGED <<rsp, queue, armed, forwarded, answered>>

\* Mutant: the request is listed and rsp is never told.
NeverNotify == queue

\* net_http_req_handler tells rsp only if it waits for a request.
NotifyRsp == IF RspBlocked THEN Append(queue, Notice("rsp", TRUE)) ELSE queue

ForwardHttp == /\ req = "run" /\ forwarded < MaxReq
               /\ forwarded' = forwarded + 1
               /\ queue' = NotifyRsp
               /\ UNCHANGED <<req, rsp, armed, answered>>

\* net_connect_req_handler always does.
ForwardConnect == /\ req = "run" /\ forwarded < MaxReq
                  /\ forwarded' = forwarded + 1
                  /\ queue' = Append(queue, Notice("rsp", TRUE))
                  /\ UNCHANGED <<req, rsp, armed, answered>>

\* Mutant: the exit notice is posted and req goes on reading requests.
ReqDoneEarly == /\ req = "run" /\ Len(queue) < MaxReq + 2
                /\ queue' = Append(queue, Notice("rsp", FALSE))
                /\ UNCHANGED <<req, rsp, armed, forwarded, answered>>

\* Lines 165-170: the exit notice is posted and req waits for rsp to leave.
\* rsp_will_exited, the test at line 167, is never set, so it always waits.
ReqDone == /\ req = "run" /\ req' = "fin"
           /\ queue' = Append(queue, Notice("rsp", FALSE))
           /\ UNCHANGED <<rsp, armed, forwarded, answered>>

\* Lines 174-199: the frame, and the cxt in it, is gone.
ReqClean == /\ req = "clean" /\ req' = "done"
            /\ armed' = armed \ {"req"}
            /\ UNCHANGED <<rsp, queue, forwarded, answered>>
-----------------------------------------------------------------------------
RspYields == /\ rsp = "run" /\ rsp' = "io"
             /\ UNCHANGED <<req, queue, armed, forwarded, answered>>

RspWaits == /\ rsp = "run" /\ Pending = 0 /\ rsp' = "idle"
            /\ UNCHANGED <<req, queue, armed, forwarded, answered>>

\* Mutant: rsp takes a request without looking whether there is one.
AnswerUnlisted == /\ rsp = "run" /\ forwarded > 0 /\ answered <= MaxReq
                  /\ answered' = answered + 1
                  /\ UNCHANGED <<req, rsp, queue, armed, forwarded>>

Answer == /\ rsp = "run" /\ Pending > 0
          /\ answered' = answered + 1
          /\ UNCHANGED <<req, rsp, queue, armed, forwarded>>

\* The client connection is closed: rsp leaves its loop.
RspQuits == /\ rsp = "run" /\ rsp' = "exit"
            /\ UNCHANGED <<req, queue, armed, forwarded, answered>>

\* Mutant: req is told first and rsp goes on to use the cxt.
RspExitStays == /\ rsp = "exit" /\ rsp' = "io"
                /\ queue' = IF ReqBlocked
                            THEN Append(queue, Notice("req", FALSE)) ELSE queue
                /\ UNCHANGED <<req, armed, forwarded, answered>>

\* Lines 256-265: req is told, if it waits on its event.
RspExit == /\ rsp = "exit" /\ rsp' = "done"
           /\ queue' = IF ReqBlocked
                       THEN Append(queue, Notice("req", FALSE)) ELSE queue
           /\ armed' = armed \ {"rsp"}
           /\ UNCHANGED <<req, forwarded, answered>>
-----------------------------------------------------------------------------
MainStep == EventWork \/ IoWakeReq \/ IoWakeRsp \/ StaleWakeRsp
ReqStep  == \/ ReqYields \/ ForwardHttp \/ ForwardConnect \/ ReqDone \/ ReqClean
RspStep  == \/ RspYields \/ RspWaits \/ Answer \/ RspQuits \/ RspExit

Next == MainStep \/ ReqStep \/ RspStep

Spec == Init /\ [][Next]_vars

(***************************************************************************)
(* Fairness.  A coroutine that has the processor gives it back: the code   *)
(* makes no blocking call.  The main loop drains the event queue between   *)
(* two calls of epoll_wait, whose batches are finite, so events cannot be  *)
(* passed over for ever (strong: I/O wakeups interrupt the queue).         *)
(* IoWakeRsp and Answer are the assumption that the peers of an answer are *)
(* alive: they send and receive, so that a response being copied is        *)
(* resumed and some attempt to finish it succeeds.                         *)
(***************************************************************************)
Fairness == /\ WF_vars(ReqStep) /\ WF_vars(RspStep)
            /\ SF_vars(EventWork)
            /\ SF_vars(IoWakeRsp) /\ SF_vars(Answer)

FairSpec == Spec /\ Fairness
-----------------------------------------------------------------------------
(***************************************************************************)
(* Types, and at most one of the two coroutines has the processor.         *)
(***************************************************************************)
TypeOK == /\ req \in ReqStates
          /\ rsp \in RspStates
          /\ queue \in Seq(Notices)
          /\ armed \subseteq {"req", "rsp"}
          /\ forwarded \in 0 .. MaxReq
          /\ answered \in 0 .. forwarded
          /\ ~(ReqRuns /\ RspRuns)

(***************************************************************************)
(* net_rsp_handler keeps a pointer into the stack frame of                 *)
(* net_req_handler: req may not pass its last wait before rsp is over.     *)
(***************************************************************************)
FrameAlive == req \in {"clean", "done"} => rsp = "done"

(***************************************************************************)
(* No lost wakeup: when requests are listed and rsp waits for one, a       *)
(* notice that makes it look at the list is still in the queue.            *)
(***************************************************************************)
NoLostWakeup ==
    (Pending > 0 /\ RspBlocked) =>
        \E i \in 1 .. Len(queue) : queue[i] = Notice("rsp", TRUE)

(***************************************************************************)
(* A notice that asks rsp to leave is never overtaken: once it is in the   *)
(* queue no request notice is queued behind it, and the session forwards   *)
(* nothing more.                                                           *)
(***************************************************************************)
ExitNoticeLast ==
    \A i, j \in 1 .. Len(queue) :
        (queue[i] = Notice("rsp", FALSE) /\ i < j) => queue[j].to = "req"

(***************************************************************************)
(* The inductive invariant behind these: before its first wakeup nothing   *)
(* has happened; a notice for req, once it runs, is rsp's last act; an     *)
(* exit notice for rsp is req's last act; and an event id has a handler    *)
(* exactly as long as its coroutine lives.                                 *)
(***************************************************************************)
FirstEvent == req = "init" => /\ rsp = "init"
                              /\ queue = <<Notice("req", TRUE), Notice("rsp", TRUE)>>
ReqNoticeLast == req # "init" =>
                   \A i \in 1 .. Len(queue) : queue[i].to = "req" => rsp = "done"
ExitMeansFin == (\E i \in 1 .. Len(queue) : queue[i] = Notice("rsp", FALSE))
                   => req \in {"fin", "clean", "done"}
ArmedWhileAlive == /\ "req" \in armed <=> req # "done"
                   /\ "rsp" \in armed <=> rsp # "done"

IInv == /\ TypeOK /\ FirstEvent /\ ReqNoticeLast /\ ExitMeansFin
        /\ ArmedWhileAlive
        /\ FrameAlive /\ NoLostWakeup /\ ExitNoticeLast

(***************************************************************************)
(* Every forwarded request is answered, unless the session itself ends.    *)
(***************************************************************************)
EveryRequestAnswered ==
    \A n \in 1 .. MaxReq :
        (forwarded >= n) ~> (answered >= n \/ rsp = "done")
=============================================================================
