-------------------------- MODULE HandshakeProofs --------------------------
(***************************************************************************)
(* Proofs, for any number of requests, that the frame shared by the two    *)
(* coroutines outlives net_rsp_handler, that no wakeup of net_rsp_handler  *)
(* is lost and that its exit notice comes last.  All follow from the one   *)
(* inductive invariant IInv of Handshake.tla.                              *)
(***************************************************************************)
EXTENDS Handshake, TLAPS, SequenceTheorems

\* The three notices the code posts, told apart by their fields.
LEMMA NoticeFacts ==
  /\ Notice("req", TRUE) \in Notices /\ Notice("req", FALSE) \in Notices
  /\ Notice("rsp", TRUE) \in Notices /\ Notice("rsp", FALSE) \in Notices
  /\ Notice("req", TRUE).to = "req" /\ Notice("req", FALSE).to = "req"
  /\ Notice("rsp", TRUE).to = "rsp" /\ Notice("rsp", FALSE).to = "rsp"
  /\ Notice("rsp", TRUE) # Notice("rsp", FALSE)
  /\ Notice("req", TRUE) # Notice("rsp", FALSE)
  /\ Notice("req", FALSE) # Notice("rsp", FALSE)
  /\ Notice("req", TRUE) # Notice("rsp", TRUE)
  /\ Notice("req", FALSE) # Notice("rsp", TRUE)
<1>1. /\ Notice("req", TRUE) \in Notices /\ Notice("req", FALSE) \in Notices
      /\ Notice("rsp", TRUE) \in Notices /\ Notice("rsp", FALSE) \in Notices
  BY DEF Notice, Notices
<1>2. /\ Notice("req", TRUE).to = "req" /\ Notice("req", FALSE).to = "req"
      /\ Notice("rsp", TRUE).to = "rsp" /\ Notice("rsp", FALSE).to = "rsp"
  BY DEF Notice
<1>3. Notice("rsp", TRUE) # Notice("rsp", FALSE)
  <2>1. Notice("rsp", TRUE).more = TRUE /\ Notice("rsp", FALSE).more = FALSE
    BY DEF Notice
  <2> QED
    BY <2>1
<1> QED
  BY <1>1, <1>2, <1>3

\* What event_work leaves in the queue after it has taken the first event.
LEMMA PopFacts ==
  ASSUME NEW q \in Seq(Notices), q # <<>>
  PROVE  /\ Head(q) \in Notices /\ Head(q) = q[1] /\ 1 \in 1 .. Len(q)
         /\ Tail(q) \in Seq(Notices)
         /\ \A i \in 1 .. Len(Tail(q)) : i + 1 \in 1 .. Len(q) /\ Tail(q)[i] = q[i + 1]
         /\ \A i \in 1 .. Len(q) : i # 1 =>
                i - 1 \in 1 .. Len(Tail(q)) /\ Tail(q)[i - 1] = q[i]
<1>1. /\ Head(q) \in Notices /\ Tail(q) \in Seq(Notices)
      /\ Len(Tail(q)) = Len(q) - 1
      /\ \A i \in 1 .. Len(Tail(q)) : Tail(q)[i] = q[i + 1]
  BY HeadTailProperties
<1>2. Len(q) \in Nat /\ Len(q) # 0 /\ Head(q) = q[1]
  BY EmptySeq
<1> QED
  BY <1>1, <1>2

\* What event_post leaves in the queue.
LEMMA PostFacts ==
  ASSUME NEW q \in Seq(Notices), NEW n \in Notices
  PROVE  /\ Append(q, n) \in Seq(Notices)
         /\ Len(q) \in Nat /\ Len(Append(q, n)) = Len(q) + 1
         /\ \A i \in 1 .. Len(q) : i \in 1 .. Len(Append(q, n)) /\ Append(q, n)[i] = q[i]
         /\ \A i \in 1 .. Len(Append(q, n)) :
                \/ i \in 1 .. Len(q) /\ Append(q, n)[i] = q[i]
                \/ i = Len(q) + 1 /\ Append(q, n)[i] = n
BY AppendProperties

\* The queue conn_accept_handler leaves behind.
LEMMA TwoFacts ==
  ASSUME NEW a \in Notices, NEW b \in Notices
  PROVE  /\ <<a, b>> \in Seq(Notices) /\ Len(<<a, b>>) = 2
         /\ <<a, b>>[1] = a /\ <<a, b>>[2] = b /\ <<a, b>> # <<>>
OBVIOUS

\* Its first event is req's and its second, the last one, is rsp's.
LEMMA FirstQueueFacts ==
  ASSUME queue = <<Notice("req", TRUE), Notice("rsp", TRUE)>>
  PROVE  /\ queue \in Seq(Notices) /\ Len(queue) = 2 /\ queue # <<>>
         /\ queue[1] = Notice("req", TRUE) /\ queue[2] = Notice("rsp", TRUE)
         /\ \A i \in 1 .. Len(queue) : queue[i] # Notice("rsp", FALSE)
<1>1. /\ queue \in Seq(Notices) /\ Len(queue) = 2 /\ queue # <<>>
      /\ queue[1] = Notice("req", TRUE) /\ queue[2] = Notice("rsp", TRUE)
  BY NoticeFacts, TwoFacts, Zenon
<1>2. ASSUME NEW i \in 1 .. Len(queue) PROVE queue[i] # Notice("rsp", FALSE)
  <2>1. i = 1 \/ i = 2
    <3>1. Len(queue) = 2
      BY <1>1
    <3> QED
      BY <3>1
  <2> QED
    BY <1>1, <2>1, NoticeFacts, Zenon
<1> QED
  BY <1>1, <1>2, Zenon

-----------------------------------------------------------------------------
(***************************************************************************)
(* Right after conn_accept_handler has started the two coroutines the      *)
(* invariant holds.                                                        *)
(***************************************************************************)
LEMMA InitIInv == Init => IInv
<1> SUFFICES ASSUME Init PROVE IInv
  OBVIOUS
<1>1. /\ req = "init" /\ rsp = "init" /\ armed = {"req", "rsp"}
      /\ forwarded = 0 /\ answered = 0
  BY DEF Init
<1>2. queue = <<Notice("req", TRUE), Notice("rsp", TRUE)>>
  BY DEF Init
<1>3. queue \in Seq(Notices) /\ \A i \in 1 .. Len(queue) : queue[i] # Notice("rsp", FALSE)
  BY <1>2, FirstQueueFacts, Zenon
<1>4. TypeOK
  BY <1>1, <1>3, MaxReqAssumption DEF TypeOK, ReqStates, RspStates, ReqRuns, RspRuns
<1>5. FirstEvent
  BY <1>1, <1>2, Zenon DEF FirstEvent
<1>6. ReqNoticeLast /\ ArmedWhileAlive /\ FrameAlive
  BY <1>1 DEF ReqNoticeLast, ArmedWhileAlive, FrameAlive
<1>7. ExitMeansFin /\ ExitNoticeLast
  BY <1>3 DEF ExitMeansFin, ExitNoticeLast
<1>8. NoLostWakeup
  BY <1>1 DEF NoLostWakeup, Pending
<1> QED
  BY <1>4, <1>5, <1>6, <1>7, <1>8 DEF IInv

-----------------------------------------------------------------------------
(***************************************************************************)
(* A coroutine that has left its first wait keeps the queue as it is       *)
(* whenever it only blocks, is woken by epoll or ends.  The invariant      *)
(* survives because the conjuncts about the queue mention req and rsp only *)
(* in ways such a step cannot make false.                                  *)
(***************************************************************************)
LEMMA QuietIInv ==
  ASSUME IInv, UNCHANGED queue,
         \/ IoWakeReq \/ IoWakeRsp \/ StaleWakeRsp
         \/ ReqYields \/ ReqClean
         \/ RspYields \/ RspWaits \/ Answer \/ RspQuits
  PROVE  IInv'
<1> USE DEF ReqRuns, RspRuns, MainRuns, Pending
<1>1. req # "init" /\ req' # "init"
  BY DEF IInv, FirstEvent, IoWakeReq, IoWakeRsp, StaleWakeRsp, ReqYields,
         ReqClean, RspYields, RspWaits, Answer, RspQuits
<1>2. FirstEvent'
  BY <1>1 DEF FirstEvent
<1>3. TypeOK /\ ReqNoticeLast /\ ExitMeansFin /\ ArmedWhileAlive /\ FrameAlive
      /\ NoLostWakeup /\ ExitNoticeLast
  BY DEF IInv
<1>4. TypeOK'
  <2>1. /\ req' \in ReqStates /\ rsp' \in RspStates
        /\ armed' \subseteq {"req", "rsp"} /\ ~(ReqRuns /\ RspRuns)'
    BY <1>3
       DEF TypeOK, ReqStates, RspStates, IoWakeReq, IoWakeRsp, StaleWakeRsp,
           ReqYields, ReqClean, RspYields, RspWaits, Answer, RspQuits
  <2>2. /\ forwarded' = forwarded
        /\ answered' = answered \/ (Pending > 0 /\ answered' = answered + 1)
    BY DEF IoWakeReq, IoWakeRsp, StaleWakeRsp, ReqYields, ReqClean,
           RspYields, RspWaits, Answer, RspQuits
  <2>3. forwarded' \in 0 .. MaxReq /\ answered' \in 0 .. forwarded'
    BY <1>3, <2>2, MaxReqAssumption DEF TypeOK
  <2>4. queue' \in Seq(Notices)
    BY <1>3 DEF TypeOK
  <2> QED
    BY <2>1, <2>3, <2>4 DEF TypeOK
<1>5. ReqNoticeLast'
  BY <1>1, <1>3
     DEF ReqNoticeLast, IoWakeReq, IoWakeRsp, StaleWakeRsp,
         ReqYields, ReqClean, RspYields, RspWaits, Answer, RspQuits
<1>6. ExitMeansFin'
  BY <1>3
     DEF ExitMeansFin, IoWakeReq, IoWakeRsp, StaleWakeRsp,
         ReqYields, ReqClean, RspYields, RspWaits, Answer, RspQuits
<1>7. ArmedWhileAlive' /\ FrameAlive'
  BY <1>3
     DEF TypeOK, ArmedWhileAlive, FrameAlive, IoWakeReq, IoWakeRsp, StaleWakeRsp,
         ReqYields, ReqClean, RspYields, RspWaits, Answer, RspQuits
<1>8. NoLostWakeup'
  <2>1. (Pending > 0 /\ RspBlocked)' => (Pending > 0 /\ RspBlocked)
    BY <1>3
       DEF TypeOK, RspBlocked, IoWakeReq, IoWakeRsp, StaleWakeRsp,
           ReqYields, ReqClean, RspYields, RspWaits, Answer, RspQuits
  <2> QED
    BY <1>3, <2>1 DEF NoLostWakeup
<1>9. ExitNoticeLast'
  BY <1>3 DEF ExitNoticeLast
<1> QED
  BY <1>2, <1>4, <1>5, <1>6, <1>7, <1>8, <1>9 DEF IInv

(***************************************************************************)
(* Forwarding a request.  req has the processor, so by ExitMeansFin no     *)
(* exit notice is queued and the new notice overtakes none; it is the      *)
(* witness of NoLostWakeup when rsp is blocked.                            *)
(***************************************************************************)
LEMMA ForwardIInv ==
  ASSUME IInv, ForwardHttp \/ ForwardConnect
  PROVE  IInv'
<1> DEFINE n == Notice("rsp", TRUE)
<1>1. /\ req = "run" /\ req' = "run" /\ rsp' = rsp /\ armed' = armed
      /\ forwarded < MaxReq /\ forwarded' = forwarded + 1 /\ answered' = answered
  BY DEF ForwardHttp, ForwardConnect
<1>2. \/ queue' = Append(queue, n)
      \/ queue' = queue /\ ~RspBlocked
  BY DEF ForwardHttp, ForwardConnect, NotifyRsp
<1>3. TypeOK /\ ReqNoticeLast /\ ExitMeansFin /\ ArmedWhileAlive /\ FrameAlive
  BY DEF IInv
<1>4. n \in Notices /\ n # Notice("rsp", FALSE) /\ n.to = "rsp"
  BY NoticeFacts
<1> HIDE DEF n
<1>5. queue \in Seq(Notices) /\ queue' \in Seq(Notices)
  BY <1>2, <1>3, <1>4, PostFacts DEF TypeOK
<1>6. \A i \in 1 .. Len(queue) : queue[i] # Notice("rsp", FALSE)
  BY <1>1, <1>3 DEF ExitMeansFin
<1>7. \A i \in 1 .. Len(queue') : \/ i \in 1 .. Len(queue) /\ queue'[i] = queue[i]
                                  \/ queue'[i] = n
  BY <1>2, <1>4, <1>5, PostFacts
<1>8. \A i \in 1 .. Len(queue') : queue'[i] # Notice("rsp", FALSE)
  BY <1>4, <1>6, <1>7, Zenon
<1>9. TypeOK'
  BY <1>1, <1>3, <1>5, MaxReqAssumption DEF TypeOK, ReqRuns, RspRuns
<1>10. FirstEvent'
  BY <1>1 DEF FirstEvent
<1>11. ReqNoticeLast'
  BY <1>1, <1>3, <1>4, <1>7 DEF ReqNoticeLast
<1>12. ExitMeansFin' /\ ExitNoticeLast'
  BY <1>8, Zenon DEF ExitMeansFin, ExitNoticeLast
<1>13. ArmedWhileAlive' /\ FrameAlive'
  BY <1>1, <1>3 DEF ArmedWhileAlive, FrameAlive
<1>14. NoLostWakeup'
  <2>1. CASE queue' = Append(queue, n)
    <3>1. Len(queue') \in 1 .. Len(queue') /\ queue'[Len(queue')] = n
      BY <1>4, <1>5, <2>1, PostFacts
    <3> QED
      BY <3>1, Zenon DEF NoLostWakeup, n
  <2>2. CASE queue' = queue /\ ~RspBlocked
    BY <1>1, <2>2 DEF NoLostWakeup, RspBlocked
  <2> QED
    BY <1>2, <2>1, <2>2
<1> QED
  BY <1>9, <1>10, <1>11, <1>12, <1>13, <1>14 DEF IInv

(***************************************************************************)
(* The exit notice.  Nothing follows it, and no other precedes it, since   *)
(* req had the processor; from now on req is in its last wait.             *)
(***************************************************************************)
LEMMA ReqDoneIInv ==
  ASSUME IInv, ReqDone
  PROVE  IInv'
<1> DEFINE n == Notice("rsp", FALSE)
<1>1. /\ req = "run" /\ req' = "fin" /\ rsp' = rsp /\ armed' = armed
      /\ forwarded' = forwarded /\ answered' = answered
  BY DEF ReqDone
<1>2. queue' = Append(queue, n)
  BY DEF ReqDone
<1>3. TypeOK /\ ReqNoticeLast /\ ExitMeansFin /\ ArmedWhileAlive /\ FrameAlive
      /\ NoLostWakeup
  BY DEF IInv
<1>4. n \in Notices /\ n.to = "rsp"
  BY NoticeFacts
<1>5. \A i \in 1 .. Len(queue) : queue[i] # n
  BY <1>1, <1>3 DEF ExitMeansFin
<1> HIDE DEF n
<1>6. queue \in Seq(Notices) /\ queue' \in Seq(Notices)
  BY <1>2, <1>3, <1>4, PostFacts DEF TypeOK
<1>7. /\ Len(queue) \in Nat /\ Len(queue') = Len(queue) + 1
      /\ \A i \in 1 .. Len(queue) : i \in 1 .. Len(queue') /\ queue'[i] = queue[i]
      /\ \A i \in 1 .. Len(queue') : \/ i \in 1 .. Len(queue) /\ queue'[i] = queue[i]
                                     \/ i = Len(queue) + 1 /\ queue'[i] = n
  BY <1>2, <1>4, <1>6, PostFacts
<1>8. TypeOK'
  BY <1>1, <1>3, <1>6 DEF TypeOK, ReqRuns, RspRuns, ReqStates
<1>9. FirstEvent' /\ ExitMeansFin'
  BY <1>1 DEF FirstEvent, ExitMeansFin
<1>10. ReqNoticeLast'
  BY <1>1, <1>3, <1>4, <1>7 DEF ReqNoticeLast
<1>11. ArmedWhileAlive' /\ FrameAlive'
  BY <1>1, <1>3 DEF ArmedWhileAlive, FrameAlive
<1>12. NoLostWakeup'
  BY <1>1, <1>3, <1>7 DEF NoLostWakeup, RspBlocked, Pending
<1>13. ExitNoticeLast'
  <2> SUFFICES ASSUME NEW i \in 1 .. Len(queue'), NEW j \in 1 .. Len(queue'),
                      queue'[i] = n, i < j
               PROVE  FALSE
    BY DEF ExitNoticeLast, n
  <2> QED
    BY <1>5, <1>7
<1> QED
  BY <1>8, <1>9, <1>10, <1>11, <1>12, <1>13 DEF IInv

(***************************************************************************)
(* rsp leaves.  It posts at most a notice for req, which is allowed to     *)
(* stand behind an exit notice, and from here on nobody is blocked on it.  *)
(***************************************************************************)
LEMMA RspExitIInv ==
  ASSUME IInv, RspExit
  PROVE  IInv'
<1> DEFINE n == Notice("req", FALSE)
<1>1. /\ rsp = "exit" /\ rsp' = "done" /\ req' = req /\ armed' = armed \ {"rsp"}
      /\ forwarded' = forwarded /\ answered' = answered
  BY DEF RspExit
<1>2. queue' = queue \/ queue' = Append(queue, n)
  BY DEF RspExit
<1>3. TypeOK /\ FirstEvent /\ ExitMeansFin /\ ArmedWhileAlive /\ ExitNoticeLast
  BY DEF IInv
<1>4. n \in Notices /\ n.to = "req" /\ n # Notice("rsp", FALSE)
  BY NoticeFacts
<1> HIDE DEF n
<1>5. queue \in Seq(Notices) /\ queue' \in Seq(Notices)
  BY <1>2, <1>3, <1>4, PostFacts DEF TypeOK
<1>6. /\ Len(queue) \in Nat
      /\ \A i \in 1 .. Len(queue') : \/ i \in 1 .. Len(queue) /\ queue'[i] = queue[i]
                                     \/ i = Len(queue) + 1 /\ queue'[i] = n
  BY <1>2, <1>4, <1>5, PostFacts
<1>7. TypeOK'
  BY <1>1, <1>3, <1>5 DEF TypeOK, ReqRuns, RspRuns, RspStates
<1>8. FirstEvent'
  BY <1>1, <1>3 DEF FirstEvent
<1>9. ReqNoticeLast' /\ FrameAlive'
  BY <1>1 DEF ReqNoticeLast, FrameAlive
<1>10. ExitMeansFin'
  BY <1>1, <1>3, <1>4, <1>6 DEF ExitMeansFin
<1>11. ArmedWhileAlive'
  BY <1>1, <1>3 DEF ArmedWhileAlive
<1>12. NoLostWakeup'
  BY <1>1 DEF NoLostWakeup, RspBlocked
<1>13. ExitNoticeLast'
  BY <1>3, <1>4, <1>6 DEF ExitNoticeLast
<1> QED
  BY <1>7, <1>8, <1>9, <1>10, <1>11, <1>12, <1>13 DEF IInv

(***************************************************************************)
(* Taking an event out of the queue: the heart of the argument.            *)
(*  - Nobody listens to it: its coroutine is over, so rsp does not wait    *)
(*    for it.                                                              *)
(*  - It is req's first event: the queue was the initial one.              *)
(*  - It is a later event of req: rsp posted it and is over, so req may    *)
(*    pass its last wait and drop the frame.                               *)
(*  - It is rsp's: rsp leaves its wait and is blocked no more.             *)
(***************************************************************************)
LEMMA EventWorkIInv ==
  ASSUME IInv, EventWork
  PROVE  IInv'
<1> DEFINE h == Head(queue)
<1>1. TypeOK /\ FirstEvent /\ ReqNoticeLast /\ ExitMeansFin /\ ArmedWhileAlive
      /\ FrameAlive /\ NoLostWakeup /\ ExitNoticeLast
  BY DEF IInv
<1>2. /\ MainRuns /\ queue # <<>> /\ queue' = Tail(queue) /\ armed' = armed
      /\ forwarded' = forwarded /\ answered' = answered
  BY DEF EventWork
<1>3. \/ h.to \notin armed /\ req' = req /\ rsp' = rsp
      \/ h.to \in armed /\ h.to = "req" /\ req' = ResumeReq /\ rsp' = rsp
      \/ h.to \in armed /\ h.to # "req" /\ rsp' = ResumeRsp(h.more) /\ req' = req
  BY DEF EventWork
<1>4. /\ queue \in Seq(Notices) /\ h \in Notices /\ h = queue[1]
      /\ 1 \in 1 .. Len(queue) /\ queue' \in Seq(Notices)
      /\ \A i \in 1 .. Len(queue') : i + 1 \in 1 .. Len(queue) /\ queue'[i] = queue[i + 1]
      /\ \A i \in 1 .. Len(queue) : i # 1 =>
             i - 1 \in 1 .. Len(queue') /\ queue'[i - 1] = queue[i]
  BY <1>1, <1>2, PopFacts DEF TypeOK
<1>5. h.to \in {"req", "rsp"}
  BY <1>4 DEF Notices
<1> HIDE DEF h
<1>6. req = "init" => /\ h.to = "req" /\ rsp = "init" /\ Len(queue) = 2
                      /\ queue[2] = Notice("rsp", TRUE)
                      /\ \A i \in 1 .. Len(queue) : queue[i] # Notice("rsp", FALSE)
  BY <1>1, <1>4, FirstQueueFacts, NoticeFacts, Zenon DEF FirstEvent
<1>7. \* The queue got shorter: its order is the old one.
      /\ ExitNoticeLast'
      /\ (\E i \in 1 .. Len(queue') : queue'[i] = Notice("rsp", FALSE))
            => \E i \in 1 .. Len(queue) : queue[i] = Notice("rsp", FALSE)
      /\ (\E i \in 1 .. Len(queue') : queue'[i].to = "req")
            => \E i \in 1 .. Len(queue) : queue[i].to = "req"
  <2>1. ExitNoticeLast'
    <3> SUFFICES ASSUME NEW i \in 1 .. Len(queue'), NEW j \in 1 .. Len(queue'),
                        queue'[i] = Notice("rsp", FALSE), i < j
                 PROVE  queue'[j].to = "req"
      BY DEF ExitNoticeLast
    <3>1. /\ i + 1 \in 1 .. Len(queue) /\ queue'[i] = queue[i + 1]
          /\ j + 1 \in 1 .. Len(queue) /\ queue'[j] = queue[j + 1]
      BY <1>4, Zenon
    <3>2. i + 1 < j + 1
      OBVIOUS
    <3> QED
      BY <1>1, <3>1, <3>2, Zenon DEF ExitNoticeLast
  <2> QED
    BY <1>4, <2>1, Zenon
<1>8. CASE h.to \notin armed /\ req' = req /\ rsp' = rsp
  <2>1. req # "init"
    BY <1>1, <1>5, <1>6, <1>8 DEF ArmedWhileAlive
  <2>2. TypeOK'
    BY <1>1, <1>2, <1>4, <1>8 DEF TypeOK, ReqRuns, RspRuns
  <2>3. FirstEvent' /\ ArmedWhileAlive' /\ FrameAlive'
    BY <1>1, <1>2, <1>8, <2>1 DEF FirstEvent, ArmedWhileAlive, FrameAlive
  <2>4. ReqNoticeLast' /\ ExitMeansFin'
    BY <1>1, <1>7, <1>8, <2>1 DEF ReqNoticeLast, ExitMeansFin
  <2>5. NoLostWakeup'
    <3> SUFFICES ASSUME Pending > 0, RspBlocked
                 PROVE  \E i \in 1 .. Len(queue') : queue'[i] = Notice("rsp", TRUE)
      BY <1>2, <1>8 DEF NoLostWakeup, Pending, RspBlocked
    <3>1. h.to # "rsp"
      BY <1>1, <1>8 DEF ArmedWhileAlive, RspBlocked
    <3>2. PICK i \in 1 .. Len(queue) : queue[i] = Notice("rsp", TRUE)
      BY <1>1 DEF NoLostWakeup
    <3>3. i # 1
      BY <1>4, <3>1, <3>2, NoticeFacts
    <3> QED
      BY <1>4, <3>2, <3>3
  <2> QED
    BY <1>7, <2>2, <2>3, <2>4, <2>5 DEF IInv
<1>9. CASE h.to = "req" /\ req' = ResumeReq /\ rsp' = rsp /\ req = "init"
  <2>1. req' = "run" /\ rsp' = "init"
    BY <1>6, <1>9 DEF ResumeReq
  <2>2. Len(queue) = 2 /\ queue[2] = Notice("rsp", TRUE)
    BY <1>6, <1>9
  <2>3. \A i \in 1 .. Len(queue') : queue'[i] # Notice("rsp", FALSE)
    BY <1>6, <1>7, <1>9
  <2>4. \A i \in 1 .. Len(queue') : queue'[i] = Notice("rsp", TRUE)
    <3> SUFFICES ASSUME NEW i \in 1 .. Len(queue')
                 PROVE  queue'[i] = Notice("rsp", TRUE)
      OBVIOUS
    <3>1. i + 1 = 2 /\ queue'[i] = queue[i + 1]
      BY <1>4, <2>2
    <3> QED
      BY <2>2, <3>1
  <2>5. TypeOK'
    BY <1>1, <1>2, <1>4, <2>1
       DEF TypeOK, ReqRuns, RspRuns, ReqStates, RspStates
  <2>6. FirstEvent' /\ ArmedWhileAlive' /\ FrameAlive'
    BY <1>1, <1>2, <1>9, <2>1 DEF FirstEvent, ArmedWhileAlive, FrameAlive
  <2>7. ReqNoticeLast'
    <3>1. \A i \in 1 .. Len(queue') : queue'[i].to = "rsp"
      BY <2>4, NoticeFacts, Zenon
    <3> QED
      BY <3>1 DEF ReqNoticeLast
  <2>8. ExitMeansFin'
    BY <2>3, Zenon DEF ExitMeansFin
  <2>9. NoLostWakeup'
    <3>1. 1 \in 1 .. Len(queue')
      BY <1>4, <2>2
    <3> QED
      BY <2>4, <3>1 DEF NoLostWakeup
  <2> QED
    BY <1>7, <2>5, <2>6, <2>7, <2>8, <2>9 DEF IInv
<1>10. CASE h.to = "req" /\ req' = ResumeReq /\ rsp' = rsp /\ req # "init"
  <2>1. rsp = "done" /\ rsp' = "done"
    BY <1>1, <1>4, <1>10 DEF ReqNoticeLast
  <2>2. /\ req \in {"io", "fin", "done"} /\ req' # "init" /\ req' \in ReqStates
        /\ req = "fin" => req' = "clean"
        /\ req = "done" => req' = "done"
        /\ req # "done" => req' # "done"
    BY <1>1, <1>2, <1>10 DEF TypeOK, ResumeReq, ReqStates, MainRuns, ReqRuns
  <2>3. TypeOK'
    BY <1>1, <1>2, <1>4, <2>1, <2>2 DEF TypeOK, ReqRuns, RspRuns
  <2>4. FirstEvent' /\ ArmedWhileAlive' /\ FrameAlive' /\ ReqNoticeLast'
    BY <1>1, <1>2, <2>1, <2>2
       DEF FirstEvent, ArmedWhileAlive, FrameAlive, ReqNoticeLast
  <2>5. ExitMeansFin'
    BY <1>1, <1>7, <2>2 DEF ExitMeansFin
  <2>6. NoLostWakeup'
    BY <2>1 DEF NoLostWakeup, RspBlocked
  <2> QED
    BY <1>7, <2>3, <2>4, <2>5, <2>6 DEF IInv
<1>11. CASE h.to \in armed /\ h.to # "req" /\ rsp' = ResumeRsp(h.more) /\ req' = req
  <2>1. req # "init" /\ h.to = "rsp"
    BY <1>5, <1>6, <1>11
  <2>2. rsp \in {"init", "io", "idle"} /\ rsp' \in {"run", "exit"}
    BY <1>1, <1>2, <1>11, <2>1
       DEF TypeOK, ArmedWhileAlive, MainRuns, RspRuns, RspStates, ResumeRsp
  <2>3. TypeOK'
    BY <1>1, <1>2, <1>4, <1>11, <2>2 DEF TypeOK, MainRuns, ReqRuns, RspRuns, RspStates
  <2>4. FirstEvent' /\ ArmedWhileAlive' /\ FrameAlive'
    BY <1>1, <1>2, <1>11, <2>1, <2>2 DEF FirstEvent, ArmedWhileAlive, FrameAlive
  <2>5. ReqNoticeLast'
    BY <1>1, <1>7, <2>1, <2>2 DEF ReqNoticeLast
  <2>6. ExitMeansFin'
    BY <1>1, <1>7, <1>11 DEF ExitMeansFin
  <2>7. NoLostWakeup'
    BY <2>2 DEF NoLostWakeup, RspBlocked
  <2> QED
    BY <1>7, <2>3, <2>4, <2>5, <2>6, <2>7 DEF IInv
<1> QED
  BY <1>3, <1>8, <1>9, <1>10, <1>11

(***************************************************************************)
(* Every step of the session, stuttering included, preserves IInv.         *)
(***************************************************************************)
LEMMA NextIInv == IInv /\ [Next]_vars => IInv'
<1> SUFFICES ASSUME IInv, [Next]_vars PROVE IInv'
  OBVIOUS
<1>1. CASE EventWork
  BY <1>1, EventWorkIInv
<1>2. CASE IoWakeReq \/ IoWakeRsp \/ StaleWakeRsp
  <2>1. UNCHANGED queue
    BY <1>2 DEF IoWakeReq, IoWakeRsp, StaleWakeRsp
  <2> QED
    BY <1>2, <2>1, QuietIInv
<1>3. CASE ReqYields \/ ReqClean
  <2>1. UNCHANGED queue
    BY <1>3 DEF ReqYields, ReqClean
  <2> QED
    BY <1>3, <2>1, QuietIInv
<1>4. CASE RspYields \/ RspWaits \/ Answer \/ RspQuits
  <2>1. UNCHANGED queue
    BY <1>4 DEF RspYields, RspWaits, Answer, RspQuits
  <2> QED
    BY <1>4, <2>1, QuietIInv
<1>5. CASE ForwardHttp \/ ForwardConnect
  BY <1>5, ForwardIInv
<1>6. CASE ReqDone
  BY <1>6, ReqDoneIInv
<1>7. CASE RspExit
  BY <1>7, RspExitIInv
<1>8. CASE UNCHANGED vars
  <2>1. /\ req' = req /\ rsp' = rsp /\ queue' = queue /\ armed' = armed
        /\ forwarded' = forwarded /\ answered' = answered
    BY <1>8 DEF vars
  <2> QED
    BY <2>1
       DEF IInv, TypeOK, FirstEvent, ReqNoticeLast, ExitMeansFin, ArmedWhileAlive,
           FrameAlive, NoLostWakeup, ExitNoticeLast, Pending, ReqRuns, RspRuns, RspBlocked
<1> QED
  BY <1>1, <1>2, <1>3, <1>4, <1>5, <1>6, <1>7, <1>8
     DEF Next, MainStep, ReqStep, RspStep

\* Hence it holds throughout a session.
LEMMA AlwaysIInv == Spec => []IInv
<1> QED
  BY InitIInv, NextIInv, PTL DEF Spec

-----------------------------------------------------------------------------
(***************************************************************************)
(* The states of net_req_handler, net_rsp_handler and the queue between    *)
(* them are the ones listed, and the two never have the processor at once. *)
(***************************************************************************)
THEOREM Typing == Spec => []TypeOK
<1>1. IInv => TypeOK
  BY DEF IInv
<1> QED
  BY <1>1, AlwaysIInv, PTL

(***************************************************************************)
(* net_req_handler never passes the wait of line 170, and so never drops   *)
(* the frame that holds the cxt, before net_rsp_handler is over.           *)
(***************************************************************************)
THEOREM CxtOutlivesRsp == Spec => []FrameAlive
<1>1. IInv => FrameAlive
  BY DEF IInv
<1> QED
  BY <1>1, AlwaysIInv, PTL

(***************************************************************************)
(* Whenever requests are listed and net_rsp_handler waits for one, the     *)
(* notice that wakes it is queued: testing rsp_blocked before posting      *)
(* (net_http.c:147) loses no wakeup.                                       *)
(***************************************************************************)
THEOREM WakeupsAreKept == Spec => []NoLostWakeup
<1>1. IInv => NoLostWakeup
  BY DEF IInv
<1> QED
  BY <1>1, AlwaysIInv, PTL

(***************************************************************************)
(* The NULL notice net_req_handler posts at line 168 is the last notice    *)
(* net_rsp_handler ever gets.                                              *)
(***************************************************************************)
THEOREM ExitComesLast == Spec => []ExitNoticeLast
<1>1. IInv => ExitNoticeLast
  BY DEF IInv
<1> QED
  BY <1>1, AlwaysIInv, PTL
=============================================================================
