--------------------------- MODULE SessionProofs ---------------------------
(***************************************************************************)
(* Proofs, for any worlds, servers and number of requests, that a session  *)
(* keeps its types and implements the protocol of Handshake.tla, so that   *)
(* the theorems of HandshakeProofs.tla hold of the detailed session.       *)
(***************************************************************************)
EXTENDS SessionInvariant

\* Handshake's own invariant is kept by the steps the session maps to.
LEMMA HandshakeStep == HP!IInv /\ [HP!Next]_(HP!vars) => HP!IInv'
<1>1. MaxReq \in Nat
  BY SessionAssumption
<1> QED
  BY <1>1, HP!NextIInv

\* Handshake.tla sees no step when nothing it maps changes.
LEMMA HandshakeStutter ==
  ASSUME UNCHANGED <<ReqState, RspState, Notices(queue), armed \ {"dns"}, forwarded, answered>>
  PROVE  UNCHANGED HP!vars
BY DEF HP!vars

\* A step of coroutine k from one label to another.
LEMMA PcFacts ==
  ASSUME Control, NEW k \in Coros, NEW l \in ReqLabels \cup RspLabels,
         pc' = [pc EXCEPT ![k] = l]
  PROVE  /\ pc' \in [Coros -> ReqLabels \cup RspLabels]
         /\ pc'[k] = l /\ \A j \in Coros : j # k => pc'[j] = pc[j]
BY DEF Control

\* No handler comes: the places that hold one for k do not grow.
LEMMA SitesFewer ==
  ASSUME Fewer(net, net'), UNCHANGED <<agenda, doomed>>, NEW k \in Coros
  PROVE  Sites(k)' \subseteq Sites(k)
BY NoNone DEF Sites, Fewer

\* The flags of the context stay as they are; and so does its list.
CxtFlags ==
    /\ cxt' = [list |-> cxt'.list, pool |-> cxt'.pool,
               req_blocked |-> cxt'.req_blocked, rsp_blocked |-> cxt'.rsp_blocked,
               req_will_exit |-> cxt'.req_will_exit, rsp_will_exited |-> cxt'.rsp_will_exited]
    /\ cxt'.pool \in [Eps -> Servers \cup {None}]
    /\ cxt'.list \in Seq(Requests)
    /\ cxt'.req_blocked = cxt.req_blocked /\ cxt'.rsp_blocked = cxt.rsp_blocked
    /\ cxt'.rsp_will_exited = cxt.rsp_will_exited

CxtLike == CxtFlags /\ cxt'.list = cxt.list

\* What Handshake.tla sees of a step in which req goes on.
LEMMA ReqGoes ==
  ASSUME IInv, run = "req", pc["req"] # "clean",
         NEW l \in ReqLabels \ (Paused \cup {"clean"}), Goto("req", l),
         UNCHANGED <<env, queue, batch, agenda, forwarded, answered>>,
         "dns" \notin armed', armed' \ {"dns"} = armed \ {"dns"},
         NetOk(net', exiting), Fewer(net, net'), CxtLike, Numbers', Serving'
  PROVE  Own' /\ UNCHANGED HP!vars
<1>1. /\ Control /\ Loop /\ ReqNotice /\ CxtOk /\ Handlers
  BY DEF IInv, Own
<1>2. /\ pc' \in [Coros -> ReqLabels \cup RspLabels] /\ pc'["req"] = l
      /\ pc'["rsp"] = pc["rsp"] /\ run' = "req" /\ again' = FALSE
      /\ pc["req"] \notin Paused
  BY <1>1, PcFacts DEF Goto, Control, Coros
<1>3. Control'
  BY <1>1, <1>2 DEF Control, env, Coros
<1>4. Loop'
  BY <1>1, <1>2 DEF Loop, env, Paused
<1>5. ReqNotice'
  BY <1>1, <1>2 DEF ReqNotice, Paused, EventWaits
<1>6. CxtOk'
  BY <1>1, <1>2 DEF CxtOk, CxtFlags, CxtLike, Paused, EventWaits
<1>7. Handlers'
  <2>1. Sites("req")' \subseteq Sites("req") /\ Sites("rsp")' \subseteq Sites("rsp")
    BY SitesFewer DEF env, Coros
  <2> QED
    BY <1>1, <1>2, <2>1 DEF Handlers
<1>8. UNCHANGED HP!vars
  <2>1. ReqState = "run" /\ ReqState' = "run"
    BY <1>2 DEF ReqState, Paused, EventWaits
  <2>2. RspState' = RspState
    BY <1>2 DEF RspState
  <2> QED
    BY <2>1, <2>2, HandshakeStutter
<1>9. NetOk(net, exiting)'
  BY DEF env
<1> QED
  BY <1>3, <1>4, <1>5, <1>6, <1>7, <1>8, <1>9 DEF Own

\* One in which req gives the processor back without waiting for a notice.
LEMMA ReqStops ==
  ASSUME IInv, run = "req", pc["req"] # "clean",
         NEW l \in ReqLabels \ (EventWaits \cup {"clean", "done"}),
         pc' = [pc EXCEPT !["req"] = l], run' = "main", again' = FALSE,
         UNCHANGED <<env, queue, batch, agenda, forwarded, answered>>,
         armed' \subseteq {"req", "rsp", "dns"}, "dns" \in armed' => l = "dns_wait",
         armed' \ {"dns"} = armed \ {"dns"},
         NEW c, NEW dir, NetOk(net', exiting), Waits(net, net', c, dir, "req"),
         l = "dns_wait" => Fewer(net, net'), CxtLike, Numbers', Serving'
  PROVE  Own' /\ HP!ReqYields
<1>1. /\ Control /\ Loop /\ ReqNotice /\ CxtOk /\ Handlers
  BY DEF IInv, Own
<1>2. /\ pc' \in [Coros -> ReqLabels \cup RspLabels] /\ pc'["req"] = l
      /\ pc'["rsp"] = pc["rsp"] /\ pc["req"] \notin Paused
  BY <1>1, PcFacts DEF Control, Coros
<1>3. Control'
  BY <1>1, <1>2 DEF Control, env, Coros
<1>4. Loop'
  BY <1>1, <1>2 DEF Loop, env
<1>5. ReqNotice'
  BY <1>1, <1>2 DEF ReqNotice, Paused, EventWaits
<1>6. CxtOk'
  BY <1>1, <1>2 DEF CxtOk, CxtFlags, CxtLike, Paused, EventWaits
<1>7. Handlers'
  <2>1. Sites("req") = {}
    BY <1>1 DEF Handlers
  <2>2. Sites("req")' \subseteq {<<dir, c>>}
    BY <2>1 DEF Sites, Waits, env
  <2>3. Sites("rsp")' \subseteq Sites("rsp")
    BY DEF Sites, Waits, env
  <2>4. l = "dns_wait" => Sites("req")' = {}
    BY <2>1, SitesFewer DEF Coros, env
  <2>5. l \notin {"init", "fin", "done"}
    BY DEF EventWaits
  <2> QED
    BY <1>1, <1>2, <2>2, <2>3, <2>4, <2>5 DEF Handlers
<1>8. HP!ReqYields
  <2>1. ReqState = "run" /\ ReqState' = "io"
    BY <1>2 DEF ReqState, Paused, EventWaits
  <2>2. RspState' = RspState
    BY <1>2 DEF RspState
  <2> QED
    BY <2>1, <2>2 DEF HP!ReqYields
<1>9. NetOk(net, exiting)'
  BY DEF env
<1> QED
  BY <1>3, <1>4, <1>5, <1>6, <1>7, <1>8, <1>9 DEF Own

\* Nothing that Numbers speaks of changes, or only where rsp is.
LEMMA NumbersKept ==
  ASSUME Numbers, UNCHANGED <<env, cur, at, forwarded, answered>>, cxt'.list = cxt.list,
         pc'["req"] = pc["req"], pc'["rsp"] \in Busy => cxt.list # <<>>
  PROVE  Numbers'
BY DEF Numbers, env, Hosts

\* The endpoint req connects to.
LEMMA EpType ==
  ASSUME Control, Numbers, pc["req"] \in Unlisted, at <= Len(Addrs[cur.host])
  PROVE  Ep \in Eps
<1>1. cur.host \in Hosts
  BY DEF Numbers
<1>2. Addrs[cur.host] \in Seq(Eps)
  BY <1>1, SessionAssumption DEF Control, World, Addrs, Hosts
<1>3. at \in 1 .. Len(Addrs[cur.host])
  BY <1>2 DEF Numbers
<1> QED
  BY <1>2, <1>3, ElementOfSeq DEF Ep

\* The pool of the context loses at most entries.
PoolKept == \A e \in Eps : cxt'.pool[e] \in {cxt.pool[e], None}

\* A server being connected to stays so when req stays where it is.
LEMMA ServingKept ==
  ASSUME Control, Numbers, Serving, UNCHANGED <<env, cur, at, srv>>, PoolKept,
         NEW S, Keeps(net, net', S), pc["req"] \in Attempt \ {"connect"} => srv \notin S,
         pc'["req"] = pc["req"]
  PROVE  Serving'
<1>1. /\ UNCHANGED <<world, exiting>> /\ Ep' = Ep /\ Addrs' = Addrs /\ EpOf' = EpOf
  BY DEF env, Ep, Addrs, EpOf
<1>2. pc["req"] \in Attempt => cxt'.pool[Ep] = None
  BY EpType DEF PoolKept, Serving, Attempt, Unlisted
<1>3. pc["req"] \in Attempt \ {"connect"} => Closed(srv)' /\ (srv \in net'.reg \/ exiting)
  BY DEF Serving, Keeps, Closed, Conns
<1> QED
  BY <1>1, <1>2, <1>3 DEF Serving

\* req waits in an I/O operation.
LEMMA ReqTryIo ==
  ASSUME IInv, run = "req", pc["req"] \notin {"clean", "dns_final"}, UNCHANGED env,
         NEW c \in Conns, NEW dir \in {"read", "write"}, conn_try_io("req", c, dir)
  PROVE  Own' /\ HP!ReqYields
<1>1. /\ Control /\ Loop /\ CxtOk /\ NetOk(net, exiting) /\ Numbers /\ Serving
  BY DEF IInv, Own
<1>2. /\ UNCHANGED <<pc, queue, armed, batch, agenda, cxt, cur, at, srv, forwarded, answered>>
      /\ run' = "main" /\ again' = FALSE /\ net' = net_pull_set_handler(net, c, dir, "req")
  BY DEF conn_try_io, loop, look, hist
<1>3. NetOk(net', exiting) /\ Keeps(net, net', {}) /\ Waits(net, net', c, dir, "req")
  BY <1>1, <1>2, HandlerFacts DEF Control, Coros
<1>4. Numbers'
  BY <1>1, <1>2, NumbersKept DEF Numbers
<1>5. Serving'
  BY <1>1, <1>2, <1>3, ServingKept DEF PoolKept
<1>6. CxtLike
  BY <1>1, <1>2 DEF CxtOk, CxtFlags, CxtLike
<1>7. /\ pc["req"] \in ReqLabels \ (Paused \cup {"clean"}) /\ pc' = [pc EXCEPT !["req"] = pc["req"]]
      /\ "dns" \notin armed /\ armed \subseteq {"req", "rsp", "dns"}
  BY <1>1, <1>2 DEF Control, Coros, Loop, Paused
<1> QED
  BY <1>2, <1>3, <1>4, <1>5, <1>6, <1>7, ReqStops DEF Paused

\* A step in which rsp goes on.
LEMMA RspGoes ==
  ASSUME IInv, run = "rsp", pc["rsp"] # "exit", NEW l \in RspLabels \ Paused, Goto("rsp", l),
         UNCHANGED <<env, queue, armed, batch, agenda>>,
         NetOk(net', exiting), Fewer(net, net'), CxtFlags, Numbers', Serving'
  PROVE  /\ Own' /\ ReqState' = ReqState
         /\ RspState = "run" /\ RspState' = IF l = "exit" THEN "exit" ELSE "run"
<1>1. /\ Control /\ Loop /\ ReqNotice /\ CxtOk /\ Handlers
  BY DEF IInv, Own
<1>2. /\ pc' \in [Coros -> ReqLabels \cup RspLabels] /\ pc'["rsp"] = l
      /\ pc'["req"] = pc["req"] /\ run' = "rsp" /\ again' = FALSE
      /\ pc["rsp"] \notin Paused
  BY <1>1, PcFacts DEF Goto, Control, Coros
<1>3. Control'
  BY <1>1, <1>2 DEF Control, env, Coros
<1>4. Loop'
  BY <1>1, <1>2 DEF Loop, env
<1>5. ReqNotice'
  BY <1>1, <1>2 DEF ReqNotice, Paused, EventWaits
<1>6. CxtOk'
  BY <1>1, <1>2 DEF CxtOk, CxtFlags, Paused, EventWaits
<1>7. Handlers'
  <2>1. Sites("req")' \subseteq Sites("req") /\ Sites("rsp")' \subseteq Sites("rsp")
    BY SitesFewer DEF env, Coros
  <2> QED
    BY <1>1, <1>2, <2>1 DEF Handlers, Paused, EventWaits
<1>8. RspState = "run" /\ RspState' = IF l = "exit" THEN "exit" ELSE "run"
  BY <1>2 DEF RspState, Paused, EventWaits
<1>9. ReqState' = ReqState
  BY <1>1, <1>2 DEF ReqState, Control
<1>10. NetOk(net, exiting)'
  BY DEF env
<1> QED
  BY <1>3, <1>4, <1>5, <1>6, <1>7, <1>8, <1>9, <1>10 DEF Own

\* rsp goes on and answers nothing: Handshake.tla sees no step.
LEMMA RspQuiet ==
  ASSUME IInv, run = "rsp", pc["rsp"] # "exit",
         NEW l \in RspLabels \ (Paused \cup {"exit"}), Goto("rsp", l),
         UNCHANGED <<env, queue, armed, batch, agenda, cxt, cur, at, srv, forwarded, answered>>,
         l \in Busy => cxt.list # <<>>,
         NEW S, NetStep(net, net', S, exiting), pc["req"] \in Attempt \ {"connect"} => srv \notin S
  PROVE  Own' /\ UNCHANGED HP!vars
<1>1. /\ Control /\ CxtOk /\ Numbers /\ Serving
  BY DEF IInv, Own
<1>2. /\ pc'["rsp"] = l /\ pc'["req"] = pc["req"]
  BY <1>1, PcFacts DEF Goto, Coros
<1>3. NetOk(net', exiting) /\ Fewer(net, net') /\ Keeps(net, net', S)
  BY DEF NetStep
<1>4. Numbers'
  BY <1>1, <1>2, NumbersKept
<1>5. Serving'
  BY <1>1, <1>2, <1>3, ServingKept DEF PoolKept
<1>6. CxtFlags
  BY <1>1 DEF CxtOk, CxtFlags
<1>7. Own' /\ RspState' = RspState /\ ReqState' = ReqState
  BY <1>3, <1>4, <1>5, <1>6, RspGoes
<1> QED
  BY <1>7, HandshakeStutter

\* rsp waits in an I/O operation.
LEMMA RspTryIo ==
  ASSUME IInv, run = "rsp", pc["rsp"] # "exit", UNCHANGED env,
         NEW c \in Conns, NEW dir \in {"read", "write"}, conn_try_io("rsp", c, dir)
  PROVE  Own' /\ HP!RspYields
<1>1. /\ Control /\ Loop /\ ReqNotice /\ CxtOk /\ NetOk(net, exiting) /\ Numbers /\ Serving
      /\ Handlers
  BY DEF IInv, Own
<1>2. /\ UNCHANGED <<pc, queue, armed, batch, agenda, cxt, cur, at, srv, forwarded, answered>>
      /\ run' = "main" /\ again' = FALSE /\ net' = net_pull_set_handler(net, c, dir, "rsp")
  BY DEF conn_try_io, loop, look, hist
<1>3. NetOk(net', exiting) /\ Keeps(net, net', {}) /\ Waits(net, net', c, dir, "rsp")
  BY <1>1, <1>2, HandlerFacts DEF Control, Coros
<1>4. Numbers'
  BY <1>1, <1>2, NumbersKept DEF Numbers
<1>5. Serving'
  BY <1>1, <1>2, <1>3, ServingKept DEF PoolKept
<1>6. pc["rsp"] \notin Paused /\ pc["req"] # "clean"
  BY <1>1 DEF Control, Coros
<1>7. Control' /\ Loop' /\ ReqNotice' /\ CxtOk'
  <2>1. Control'
    BY <1>1, <1>2, <1>6 DEF Control, env, Coros
  <2>2. Loop'
    BY <1>1, <1>2 DEF Loop, env
  <2>3. ReqNotice' /\ CxtOk'
    BY <1>1, <1>2 DEF ReqNotice, CxtOk
  <2> QED
    BY <2>1, <2>2, <2>3
<1>8. Handlers'
  <2>1. Sites("req")' \subseteq Sites("req")
    BY <1>2, <1>3 DEF Sites, Waits, env
  <2> QED
    BY <1>1, <1>2, <1>6, <2>1 DEF Handlers, Paused, EventWaits
<1>9. HP!RspYields
  <2>1. RspState = "run" /\ RspState' = "io"
    BY <1>2, <1>6 DEF RspState, Paused, EventWaits
  <2>2. ReqState' = ReqState
    BY <1>1, <1>2 DEF ReqState
  <2> QED
    BY <1>2, <2>1, <2>2 DEF HP!RspYields
<1>10. NetOk(net, exiting)'
  BY <1>3 DEF env
<1> QED
  BY <1>4, <1>5, <1>7, <1>8, <1>9, <1>10 DEF Own

\* The invariant is kept and Handshake.tla sees one of its steps or none.
Sim == Own' /\ [HP!Next]_(HP!vars)

\* A step that Handshake.tla does not see.
LEMMA SimQuiet == Own' /\ UNCHANGED HP!vars => Sim
BY DEF Sim

\* A step in which a coroutine waits for I/O.
LEMMA SimIo == Own' /\ (HP!ReqYields \/ HP!RspYields) => Sim
BY DEF Sim, HP!Next, HP!ReqStep, HP!RspStep

\* Only while it looks a name up does req have an event id for the resolver.
LEMMA DnsOff ==
  ASSUME IInv, run = "req", pc["req"] # "dns_final"
  PROVE  "dns" \notin armed
BY DEF IInv, Own, Control, Loop, Paused, Coros

\* A step of req that begins no connection.
LEMMA ReqQuiet ==
  ASSUME IInv, run = "req", pc["req"] # "clean",
         NEW l \in ReqLabels \ (Paused \cup Attempt \cup {"clean"}), Goto("req", l),
         UNCHANGED <<env, queue, batch, agenda, cur, forwarded, answered>>,
         "dns" \notin armed', armed' \ {"dns"} = armed \ {"dns"},
         NetOk(net', exiting), Fewer(net, net'), CxtLike,
         at' \in Nat \ {0}, srv' \in Servers \cup {None}, l \in Using => srv' \in Servers,
         l \in Unlisted => pc["req"] \in Unlisted
  PROVE  Sim
<1>1. /\ Control /\ Numbers
  BY DEF IInv, Own
<1>2. /\ pc'["req"] = l /\ pc'["rsp"] = pc["rsp"] /\ pc["req"] # "done"
  BY <1>1, PcFacts DEF Goto, Coros, Control, Paused
<1>3. Numbers'
  BY <1>1, <1>2 DEF Numbers, env, Hosts, Paused, CxtLike
<1>4. Serving'
  BY <1>2 DEF Serving
<1> QED
  BY <1>3, <1>4, ReqGoes, SimQuiet

\* The same where only the network may change.
LEMMA ReqNetOnly ==
  ASSUME IInv, run = "req", pc["req"] \notin {"clean", "dns_final"}, UNCHANGED env,
         NEW l \in ReqLabels \ (Paused \cup Attempt \cup {"clean"}), Goto("req", l),
         UNCHANGED <<loop, cxt, look, forwarded, answered>>,
         NEW S, NetStep(net, net', S, exiting),
         srv' \in {srv, None}, l \in Using => srv' = srv /\ pc["req"] \in Using,
         l \in Unlisted => pc["req"] \in Unlisted
  PROVE  Sim
<1>1. /\ Numbers /\ CxtOk /\ Serving /\ "dns" \notin armed
  BY DnsOff DEF IInv, Own
<1>2. CxtLike
  BY <1>1 DEF CxtOk, CxtLike, CxtFlags, loop
<1>3. at' \in Nat \ {0} /\ srv' \in Servers \cup {None} /\ (l \in Using => srv' \in Servers)
  BY <1>1 DEF Numbers, Serving, look
<1>4. NetOk(net', exiting) /\ Fewer(net, net')
  BY DEF NetStep
<1> QED
  BY <1>1, <1>2, <1>3, <1>4, ReqQuiet DEF loop, look

\* What coroutines do I/O on, and the connections they may close.
LEMMA ConnTypes ==
  ASSUME IInv
  PROVE  /\ Client \in Conns /\ Servers \subseteq Conns /\ exiting \in BOOLEAN
         /\ NetOk(net, exiting) /\ NetStep(net, net, {}, exiting)
         /\ pc["req"] \in Using => srv \in Conns
         /\ cxt.list # <<>> => /\ Oldest \in Requests /\ Oldest.srv \in Conns
                               /\ Oldest.srv \in Servers
<1>1. /\ Client \in Conns /\ Servers \subseteq Conns /\ exiting \in BOOLEAN
      /\ NetOk(net, exiting)
  BY DEF Conns, IInv, Own, Control
<1>2. pc["req"] \in Using => srv \in Conns
  BY <1>1 DEF IInv, Own, Serving
<1>3. ASSUME cxt.list # <<>> PROVE Oldest \in Requests
  BY <1>3, HeadTailProperties DEF IInv, Own, CxtOk, Oldest
<1>4. Oldest \in Requests => Oldest.srv \in Servers
  BY DEF Requests
<1> QED
  BY <1>1, <1>2, <1>3, <1>4, SameNet

\* Replies written by req.
LEMMA ReqReplies ==
  ASSUME IInv, UNCHANGED env, run = "req", pc["req"] \notin {"clean", "dns_final"},
         NEW id, NEW l \in {"finish", "release"}, NEW last, ReplyTo("req", id, l, last)
  PROVE  Sim
<1>0. l \in ReqLabels \ (Paused \cup Attempt \cup {"clean"}) /\ l \notin Using /\ l \notin Unlisted
  BY DEF ReqLabels, Paused, EventWaits, Attempt, Using, Unlisted
<1>1. CASE conn_try_io("req", Client, "write")
  BY <1>1, ReqTryIo, ConnTypes, SimIo
<1>2. ASSUME net' \in {net, conn_close(net, Client)}, Goto("req", l),
             UNCHANGED <<loop, cxt, look, srv, forwarded, answered>>
      PROVE  Sim
  <2>1. NetStep(net, net', {}, exiting)
    BY <1>2, ConnTypes, CloseFacts
  <2> QED
    BY <1>0, <1>2, <2>1, ReqNetOnly
<1> QED
  BY <1>1, <1>2 DEF ReplyTo, hist
-----------------------------------------------------------------------------
(***************************************************************************)
(* The steps of net_req_handler.                                           *)
(***************************************************************************)
\* Reading a request.
LEMMA ReqFetches ==
  ASSUME IInv, UNCHANGED env, req_top \/ req_fetch \/ net_bad_request
  PROVE  Sim
<1>1. CASE req_top
  <2>1. PICK l \in {"finish", "fetch"} : Goto("req", l)
    BY <1>1 DEF req_top
  <2>2. l \in ReqLabels \ (Paused \cup Attempt \cup {"clean"}) /\ l \notin Using /\ l \notin Unlisted
    BY DEF ReqLabels, Paused, EventWaits, Attempt, Using, Unlisted
  <2> QED
    BY <1>1, <2>1, <2>2, ConnTypes, ReqNetOnly DEF req_top, At, Runs, hist
<1>2. CASE req_fetch
  <2>0. run = "req" /\ pc["req"] = "fetch"
    BY <1>2 DEF req_fetch, At, Runs
  <2>1. CASE conn_try_io("req", Client, "read")
    BY <2>0, <2>1, ReqTryIo, ConnTypes, SimIo
  <2>2. ASSUME net' = conn_close(net, Client), Goto("req", "finish"),
               UNCHANGED <<loop, cxt, look, srv, forwarded, answered>>
        PROVE  Sim
    <3>1. NetStep(net, net', {}, exiting)
      BY <2>2, ConnTypes, CloseFacts
    <3>2. "finish" \in ReqLabels \ (Paused \cup Attempt \cup {"clean"})
          /\ "finish" \notin Using /\ "finish" \notin Unlisted
      BY DEF ReqLabels, Paused, EventWaits, Attempt, Using, Unlisted
    <3> QED
      BY <2>0, <2>2, <3>1, <3>2, ReqNetOnly
  <2>3. ASSUME cur.id < world.reqs, NEW kind \in Kinds, NEW host \in Hosts,
               cur' = [id |-> cur.id + 1, kind |-> kind, host |-> host],
               NEW l \in {"lookup", "bad_request"}, Goto("req", l),
               UNCHANGED <<net, loop, cxt, at, srv, forwarded, answered>>
        PROVE  Sim
    <3>1. /\ Control /\ Numbers /\ Serving /\ CxtOk /\ "dns" \notin armed
      BY <2>0, DnsOff DEF IInv, Own
    <3>2. /\ pc'["req"] = l /\ pc'["rsp"] = pc["rsp"]
          /\ l \in ReqLabels \ (Paused \cup {"clean"}) /\ l \notin Using /\ l \notin Attempt
      BY <2>3, <3>1, PcFacts DEF Goto, Coros, ReqLabels, Paused, EventWaits, Using, Attempt
    <3>3. world.reqs \in Nat /\ Kinds \subseteq {"http", "connect"}
      BY <3>1, SessionAssumption DEF Control, World, Kinds
    <3>4. Numbers'
      BY <2>0, <2>3, <3>1, <3>2, <3>3 DEF Numbers, env, Hosts
    <3>5. Serving'
      BY <2>3, <3>1, <3>2 DEF Serving
    <3>6. CxtLike
      BY <2>3, <3>1 DEF CxtOk, CxtLike, CxtFlags
    <3>7. NetOk(net', exiting) /\ Fewer(net, net')
      BY <2>3, ConnTypes DEF NetStep
    <3> QED
      BY <2>0, <2>3, <3>1, <3>2, <3>4, <3>5, <3>6, <3>7, ReqGoes, SimQuiet DEF loop
  <2> QED
    BY <1>2, <2>1, <2>2, <2>3 DEF req_fetch, hist
<1>3. CASE net_bad_request
  <2>1. run = "req" /\ pc["req"] = "bad_request" /\ ReplyTo("req", cur.id, "finish", TRUE)
    BY <1>3 DEF net_bad_request, At, Runs
  <2> QED
    BY <2>1, ReqReplies
<1> QED
  BY <1>1, <1>2, <1>3

\* Looking its host up.
LEMMA ReqLooksUp ==
  ASSUME IInv, UNCHANGED env, net_dns_lookup_a \/ dns_final
  PROVE  Sim
<1>0. /\ Control /\ Numbers /\ Serving /\ CxtOk /\ Loop
  BY DEF IInv, Own
<1>1. CASE net_dns_lookup_a
  <2>1. /\ run = "req" /\ pc["req"] = "lookup" /\ at' = 1 /\ "dns" \notin armed
        /\ UNCHANGED <<net, queue, batch, agenda, cxt, cur, srv, forwarded, answered>>
    BY <1>1, DnsOff DEF net_dns_lookup_a, At, Runs, hist
  <2>2. CxtLike /\ NetOk(net', exiting) /\ Fewer(net, net')
    <3>1. CxtLike
      BY <1>0, <2>1 DEF CxtOk, CxtLike, CxtFlags
    <3> QED
      BY <2>1, <3>1, ConnTypes DEF NetStep
  <2>3. ASSUME NEW l \in {"try", "bad_gateway"}, Goto("req", l), UNCHANGED armed
        PROVE  Sim
    <3>1. /\ l \in ReqLabels \ (Paused \cup Attempt \cup {"clean"}) /\ l \notin Using
          /\ pc["req"] \in Unlisted
      BY <2>1 DEF ReqLabels, Paused, EventWaits, Attempt, Using, Unlisted
    <3>2. at' \in Nat \ {0} /\ srv' \in Servers \cup {None}
      BY <1>0, <2>1 DEF Serving
    <3> QED
      BY <2>1, <2>2, <2>3, <3>1, <3>2, ReqQuiet
  <2>4. ASSUME armed' = armed \cup {"dns"}, pc' = [pc EXCEPT !["req"] = "dns_wait"],
               run' = "main", again' = FALSE
        PROVE  Sim
    <3>1. /\ pc'["req"] = "dns_wait" /\ pc'["rsp"] = pc["rsp"]
          /\ "dns_wait" \in ReqLabels \ (EventWaits \cup {"clean", "done"})
      BY <1>0, <2>4, PcFacts DEF Coros, ReqLabels, EventWaits
    <3>2. Numbers'
      BY <1>0, <2>1, <3>1 DEF Numbers, env, Hosts, Unlisted
    <3>3. Serving'
      BY <1>0, <2>1, <3>1 DEF Serving, Using, Attempt
    <3>4. Waits(net, net', Client, "read", "req")
      BY <2>1 DEF Waits
    <3>5. armed' \subseteq {"req", "rsp", "dns"} /\ armed' \ {"dns"} = armed \ {"dns"}
      BY <1>0, <2>4 DEF Loop
    <3> QED
      BY <2>1, <2>2, <2>4, <3>1, <3>2, <3>3, <3>4, <3>5, ReqStops, SimIo
  <2> QED
    BY <1>1, <2>3, <2>4 DEF net_dns_lookup_a
<1>2. CASE dns_final
  <2>1. /\ run = "req" /\ pc["req"] = "dns_final" /\ armed' = armed \ {"dns"}
        /\ UNCHANGED <<net, queue, batch, agenda, cxt, cur, at, srv, forwarded, answered>>
    BY <1>2 DEF dns_final, At, Runs, hist
  <2>2. PICK l \in {"try", "bad_gateway"} : Goto("req", l)
    BY <1>2 DEF dns_final
  <2>3. CxtLike /\ NetOk(net', exiting) /\ Fewer(net, net')
    <3>1. CxtLike
      BY <1>0, <2>1 DEF CxtOk, CxtLike, CxtFlags
    <3> QED
      BY <2>1, <3>1, ConnTypes DEF NetStep
  <2>4. /\ l \in ReqLabels \ (Paused \cup Attempt \cup {"clean"}) /\ l \notin Using
        /\ pc["req"] \in Unlisted
    BY <2>1 DEF ReqLabels, Paused, EventWaits, Attempt, Using, Unlisted
  <2>5. /\ at' \in Nat \ {0} /\ srv' \in Servers \cup {None}
        /\ "dns" \notin armed' /\ armed' \ {"dns"} = armed \ {"dns"}
    BY <1>0, <2>1 DEF Serving, Numbers
  <2> QED
    BY <2>1, <2>2, <2>3, <2>4, <2>5, ReqQuiet
<1> QED
  BY <1>1, <1>2

\* An entry of the pool is set.
LEMMA PoolSet ==
  ASSUME CxtOk, NEW e \in Eps, NEW v \in Servers \cup {None}, cxt' = [cxt EXCEPT !.pool[e] = v]
  PROVE  CxtLike /\ cxt'.pool[e] = v
<1>1. /\ cxt' = [list |-> cxt.list, pool |-> [cxt.pool EXCEPT ![e] = v],
                 req_blocked |-> cxt.req_blocked, rsp_blocked |-> cxt.rsp_blocked,
                 req_will_exit |-> cxt.req_will_exit, rsp_will_exited |-> cxt.rsp_will_exited]
  BY DEF CxtOk
<1>2. [cxt.pool EXCEPT ![e] = v] \in [Eps -> Servers \cup {None}]
  BY DEF CxtOk
<1>3. [cxt.pool EXCEPT ![e] = v][e] = v
  BY DEF CxtOk
<1> QED
  BY <1>1, <1>2, <1>3 DEF CxtLike, CxtFlags, CxtOk

\* Once it has a server req uses it.
LEMMA AfterConnectType ==
  /\ AfterConnect \in ReqLabels \ (Paused \cup Attempt \cup {"clean"})
  /\ AfterConnect \in Using
BY DEF AfterConnect, ReqLabels, Paused, EventWaits, Attempt, Using

\* Choosing a server: the pooled connection of the next address, or a new one.
LEMMA ReqTries ==
  ASSUME IInv, UNCHANGED env, try_address
  PROVE  Sim
<1>0. /\ Control /\ Numbers /\ Serving /\ CxtOk /\ "dns" \notin armed
      /\ run = "req" /\ pc["req"] = "try" /\ pc["req"] \in Unlisted
      /\ UNCHANGED <<loop, look, forwarded, answered>>
  BY DnsOff DEF IInv, Own, try_address, At, Runs, hist, Unlisted
<1>1. CASE Goto("req", "bad_gateway") /\ UNCHANGED <<net, cxt, srv>>
  <2>1. "bad_gateway" \in ReqLabels \ (Paused \cup Attempt \cup {"clean"})
        /\ "bad_gateway" \notin Using /\ "bad_gateway" \notin Unlisted
    BY DEF ReqLabels, Paused, EventWaits, Attempt, Using, Unlisted
  <2> QED
    BY <1>0, <1>1, <2>1, ConnTypes, ReqNetOnly
<1>2. ASSUME at <= Len(Addrs[cur.host]), CxtLike, cxt'.pool[Ep] = None, UNCHANGED srv,
             NetOk(net', exiting), Fewer(net, net'), Goto("req", "connect")
      PROVE  Sim
  <2>1. /\ pc'["req"] = "connect" /\ pc'["rsp"] = pc["rsp"]
        /\ "connect" \in ReqLabels \ (Paused \cup {"clean"})
    BY <1>0, <1>2, PcFacts DEF Goto, Coros, ReqLabels, Paused, EventWaits
  <2>2. Numbers'
    BY <1>0, <1>2, <2>1 DEF Numbers, env, Hosts, look, CxtLike
  <2>3. Serving'
    <3>1. Ep' = Ep /\ Addrs' = Addrs /\ UNCHANGED <<at, cur>>
      BY <1>0 DEF Ep, Addrs, look, env
    <3> QED
      BY <1>0, <1>2, <2>1, <3>1 DEF Serving, Using, Attempt
  <2> QED
    BY <1>0, <1>2, <2>1, <2>2, <2>3, ReqGoes, SimQuiet DEF loop
<1>3. ASSUME at <= Len(Addrs[cur.host]), NEW s, s = cxt.pool[Ep], s # None, Closed(s),
             cxt' = [cxt EXCEPT !.pool[Ep] = None], net' = mem_decref(net, s),
             Goto("req", "connect"), UNCHANGED srv
      PROVE  Sim
  <2>1. Ep \in Eps
    BY <1>0, <1>3, EpType
  <2>2. CxtLike /\ cxt'.pool[Ep] = None
    BY <1>0, <1>3, <2>1, PoolSet
  <2>3. s \in Conns
    BY <1>0, <1>3, <2>1 DEF CxtOk, Conns
  <2>4. NetStep(net, net', {s}, exiting)
    BY <1>3, <2>3, ConnTypes, DecrefFacts
  <2> QED
    BY <1>2, <1>3, <2>2, <2>4 DEF NetStep
<1>4. ASSUME at <= Len(Addrs[cur.host]), NEW s, s = cxt.pool[Ep], s # None,
             net' = mem_incref(net, s), srv' = s, Goto("req", AfterConnect), UNCHANGED cxt
      PROVE  Sim
  <2>1. Ep \in Eps
    BY <1>0, <1>4, EpType
  <2>2. s \in Servers /\ s \in Conns
    BY <1>0, <1>4, <2>1 DEF CxtOk, Conns
  <2>3. NetStep(net, net', {}, exiting)
    BY <1>4, <2>2, ConnTypes, IncrefFacts
  <2>4. CxtLike
    BY <1>0, <1>4 DEF CxtOk, CxtLike, CxtFlags
  <2>5. at' \in Nat \ {0} /\ srv' \in Servers
    BY <1>0, <1>4, <2>2 DEF Numbers, look
  <2> QED
    BY <1>0, <1>4, <2>3, <2>4, <2>5, AfterConnectType, ReqQuiet DEF NetStep, loop, look
<1>5. CASE at <= Len(Addrs[cur.host]) /\ cxt.pool[Ep] = None /\ Goto("req", "connect")
           /\ UNCHANGED <<net, cxt, srv>>
  <2>1. CxtLike
    BY <1>0, <1>5 DEF CxtOk, CxtLike, CxtFlags
  <2> QED
    BY <1>2, <1>5, <2>1, ConnTypes DEF NetStep
<1>6. Len(Addrs[cur.host]) \in Nat /\ at \in Nat
  <2>1. cur.host \in Hosts
    BY <1>0 DEF Numbers
  <2>2. Addrs[cur.host] \in Seq(Eps)
    BY <1>0, <2>1, SessionAssumption DEF Control, World, Addrs, Hosts
  <2> QED
    BY <1>0, <2>2 DEF Numbers
<1> QED
  BY <1>1, <1>3, <1>4, <1>5, <1>6 DEF try_address

\* Connecting, at once or after a wait.
LEMMA ReqConnects ==
  ASSUME IInv, UNCHANGED env, conn_get_by_endpoint \/ connected \/ conn_failed
  PROVE  Sim
<1>0. /\ Control /\ Numbers /\ Serving /\ CxtOk /\ exiting \in BOOLEAN /\ NetOk(net, exiting)
  BY DEF IInv, Own, Control
<1>1. /\ run = "req" /\ pc["req"] \in Attempt /\ pc["req"] \in Unlisted
      /\ pc["req"] \notin {"clean", "dns_final"} /\ "dns" \notin armed
      /\ UNCHANGED <<loop, cur, forwarded, answered>>
  BY DnsOff DEF conn_get_by_endpoint, connected, conn_failed, At, Runs, hist, look,
                Attempt, Unlisted
<1>2. Ep \in Eps /\ at \in Nat \ {0} /\ at + 1 \in Nat \ {0}
  BY <1>0, <1>1, EpType DEF Serving, Numbers
<1>3. ASSUME NEW s \in Servers, srv' = s, cxt' = [cxt EXCEPT !.pool[Ep] = s], UNCHANGED at,
             NetOk(net', exiting), Fewer(net, net'), Goto("req", AfterConnect)
      PROVE  Sim
  <2>1. CxtLike
    BY <1>0, <1>2, <1>3, PoolSet
  <2> QED
    BY <1>1, <1>2, <1>3, <2>1, AfterConnectType, ReqQuiet DEF loop
<1>4. ASSUME NetOk(net', exiting), Fewer(net, net'), at' = at + 1, Goto("req", "try"),
             UNCHANGED cxt, srv' \in {srv, None}
      PROVE  Sim
  <2>1. CxtLike
    BY <1>0, <1>4 DEF CxtOk, CxtLike, CxtFlags
  <2>2. "try" \in ReqLabels \ (Paused \cup Attempt \cup {"clean"}) /\ "try" \notin Using
    BY DEF ReqLabels, Paused, EventWaits, Attempt, Using
  <2>3. srv' \in Servers \cup {None}
    BY <1>0, <1>4 DEF Serving
  <2> QED
    BY <1>1, <1>2, <1>4, <2>1, <2>2, <2>3, ReqQuiet DEF loop
<1>5. ASSUME NEW s \in Fresh(Ep), srv' = s, pc["req"] = "connect", UNCHANGED at,
             \/ /\ net' = Established(Opened(s), s)
                /\ cxt' = [cxt EXCEPT !.pool[Ep] = s]
                /\ Goto("req", AfterConnect)
             \/ /\ net' = net_pull_set_handler(Opened(s), s, "read", "req")
                /\ pc' = [pc EXCEPT !["req"] = "conn_wait"]
                /\ run' = "main" /\ again' = FALSE
                /\ UNCHANGED cxt
      PROVE  Sim
  <2>1. PICK n : n = Opened(s)
    OBVIOUS
  <2>2. /\ NetOk(n, exiting) /\ Fewer(net, n) /\ Keeps(net, n, {})
        /\ s \in n.reg /\ n.stat[s] = "closed" /\ n.hr = net.hr /\ n.hw = net.hw
    BY <1>0, <2>1, OpenedFacts
  <2>3. s \in Servers /\ s \in Conns /\ EpOf[s] = Ep
    BY DEF Fresh, Conns
  <2>4. CASE /\ net' = Established(n, s)
             /\ cxt' = [cxt EXCEPT !.pool[Ep] = s]
             /\ Goto("req", AfterConnect)
    <3>1. NetOk(net', exiting) /\ Fewer(n, net')
      BY <1>0, <2>2, <2>3, <2>4, EstablishedFacts
    <3>2. Fewer(net, net')
      BY <2>2, <3>1 DEF Fewer
    <3> QED
      BY <1>3, <1>5, <2>3, <2>4, <3>1, <3>2
  <2>5. CASE /\ net' = net_pull_set_handler(n, s, "read", "req")
             /\ pc' = [pc EXCEPT !["req"] = "conn_wait"]
             /\ run' = "main" /\ again' = FALSE
             /\ UNCHANGED cxt
    <3>1. NetOk(net', exiting) /\ Keeps(n, net', {}) /\ Waits(n, net', s, "read", "req")
      BY <1>0, <2>2, <2>3, <2>5, HandlerFacts DEF Coros
    <3>2. Waits(net, net', s, "read", "req")
      BY <2>2, <3>1 DEF Waits
    <3>3. net'.stat[s] = "closed" /\ s \in net'.reg
      BY <2>2, <2>3, <3>1 DEF Keeps
    <3>4. CxtLike
      BY <1>0, <2>5 DEF CxtOk, CxtLike, CxtFlags
    <3>5. /\ pc'["req"] = "conn_wait" /\ pc'["rsp"] = pc["rsp"]
          /\ "conn_wait" \in ReqLabels \ (EventWaits \cup {"clean", "done"})
      BY <1>0, <2>5, PcFacts DEF Coros, ReqLabels, EventWaits
    <3>6. Numbers'
      BY <1>0, <1>1, <1>5, <2>5, <3>5 DEF Numbers, env, Hosts
    <3>7. Serving'
      <4>1. Ep' = Ep /\ Addrs' = Addrs /\ EpOf' = EpOf
        BY <1>1, <1>5 DEF Ep, Addrs, EpOf, env
      <4> QED
        BY <1>0, <1>1, <1>5, <2>3, <2>5, <3>3, <3>5, <4>1 DEF Serving, Using, Closed
    <3>8. armed \subseteq {"req", "rsp", "dns"}
      BY DEF IInv, Own, Loop
    <3> QED
      BY <1>1, <2>5, <3>1, <3>2, <3>4, <3>5, <3>6, <3>7, <3>8, ReqStops, SimIo DEF loop
  <2> QED
    BY <1>5, <2>1, <2>4, <2>5
<1>6. CASE conn_get_by_endpoint
  <2>1. ASSUME at' = at + 1, Goto("req", "try"), UNCHANGED <<net, down, cxt, srv>>
        PROVE  Sim
    BY <1>4, <2>1, ConnTypes DEF NetStep
  <2> QED
    BY <1>5, <1>6, <2>1 DEF conn_get_by_endpoint, At
<1>7. CASE connected
  <2>1. srv \in Servers /\ srv \in Conns /\ (srv \in net.reg \/ exiting)
    BY <1>0, <1>7 DEF connected, At, Serving, Attempt, Conns
  <2>2. NetOk(net', exiting) /\ Fewer(net, net')
    BY <1>0, <1>7, <2>1, EstablishedFacts DEF connected
  <2> QED
    BY <1>3, <1>7, <2>1, <2>2 DEF connected, look
<1>8. CASE conn_failed
  <2>1. srv \in Conns /\ net.stat[srv] = "closed"
    BY <1>0, <1>8 DEF conn_failed, At, Serving, Attempt, Conns, Closed
  <2>2. net' = [net_pull_del(net, srv) EXCEPT !.ref[srv] = 0]
    BY <1>8 DEF conn_failed
  <2>3. NetOk(net', exiting) /\ Fewer(net, net')
    BY <1>0, <2>1, <2>2, FailedFacts
  <2> QED
    BY <1>4, <1>8, <2>3 DEF conn_failed
<1> QED
  BY <1>6, <1>7, <1>8

\* What a notice is.
LEMMA EventTypes ==
  /\ [to |-> "rsp", more |-> TRUE] \in Events /\ [to |-> "rsp", more |-> FALSE] \in Events
  /\ [to |-> "req", more |-> TRUE] \in Events /\ [to |-> "req", more |-> FALSE] \in Events
  /\ [to |-> "dns", more |-> FALSE] \in Events
  /\ \A e \in Events : e.to \in {"req", "rsp", "dns"} /\ e.more \in BOOLEAN
BY DEF Events

\* A request joins the list, and rsp is told in any case or if it waits.
LEMMA ReqEnlists ==
  ASSUME IInv, UNCHANGED env, run = "req", pc["req"] \in {"forward", "enlist"},
         NEW notify \in {TRUE, cxt.rsp_blocked}, Enlist(notify),
         NEW l \in {"copy_read", "connect_ok"}, Goto("req", l),
         UNCHANGED <<armed, batch, agenda, look, srv, answered>>
  PROVE  Sim
<1>0. /\ Control /\ Loop /\ ReqNotice /\ NetOk(net, exiting) /\ CxtOk /\ Numbers /\ Serving
      /\ Handlers /\ "dns" \notin armed
  BY DnsOff DEF IInv, Own
<1>1. /\ pc' \in [Coros -> ReqLabels \cup RspLabels] /\ pc'["req"] = l
      /\ pc'["rsp"] = pc["rsp"] /\ run' = "req" /\ again' = FALSE
      /\ pc["req"] \in Unlisted /\ pc["req"] \in Using /\ pc["req"] \notin {"init", "fin", "done"}
      /\ l \in ReqLabels \ (Paused \cup Unlisted \cup Attempt \cup {"clean"})
  BY <1>0, PcFacts DEF Goto, Control, Coros, ReqLabels, Paused, EventWaits, Unlisted, Using, Attempt
<1>2. srv \in Servers /\ srv \in Conns
  BY <1>0, <1>1 DEF Serving, Conns
<1>3. NetStep(net, net', {}, exiting)
  BY <1>2, ConnTypes, IncrefFacts DEF Enlist
<1>4. /\ cxt'.list = Append(cxt.list, Listed) /\ cxt'.pool = cxt.pool
      /\ cxt' = [list |-> cxt'.list, pool |-> cxt'.pool,
                 req_blocked |-> cxt'.req_blocked, rsp_blocked |-> cxt'.rsp_blocked,
                 req_will_exit |-> cxt'.req_will_exit, rsp_will_exited |-> cxt'.rsp_will_exited]
      /\ cxt'.req_blocked = cxt.req_blocked /\ cxt'.rsp_blocked = cxt.rsp_blocked
      /\ cxt'.rsp_will_exited = cxt.rsp_will_exited
  BY <1>0 DEF Enlist, CxtOk
<1>5. Listed \in Requests
  BY <1>0, <1>2 DEF Listed, Requests, Numbers
<1>6. /\ cxt'.list \in Seq(Requests) /\ Len(cxt'.list) = Len(cxt.list) + 1
      /\ Len(cxt.list) \in Nat /\ cxt'.list # <<>>
  <2>1. /\ cxt'.list \in Seq(Requests) /\ Len(cxt'.list) = Len(cxt.list) + 1
        /\ Len(cxt.list) \in Nat
    BY <1>0, <1>4, <1>5, AppendProperties DEF CxtOk
  <2> QED
    BY <2>1, EmptySeq
<1>7. CxtOk'
  BY <1>0, <1>1, <1>4, <1>6 DEF CxtOk, Paused, EventWaits
<1>8. forwarded' = forwarded + 1 /\ forwarded < cur.id /\ world.reqs \in 0 .. MaxReq
      /\ forwarded \in Nat /\ cur.id \in Nat /\ forwarded < MaxReq
  <2>1. world.reqs \in 0 .. MaxReq /\ MaxReq \in Nat
    BY <1>0, SessionAssumption DEF Control, World
  <2>2. forwarded' = forwarded + 1 /\ forwarded < cur.id /\ forwarded \in Nat
        /\ cur.id \in 0 .. world.reqs
    BY <1>0, <1>1 DEF Enlist, Numbers
  <2> QED
    BY <2>1, <2>2
<1>9. Numbers'
  <2>1. /\ UNCHANGED <<world, cur, at, answered>> /\ Hosts' = Hosts
        /\ pc'["req"] \notin Unlisted /\ pc'["req"] # "done" /\ pc["req"] # "done"
    BY <1>1 DEF env, look, Hosts, Paused
  <2>2. forwarded = answered + Len(cxt.list) /\ answered \in Nat
    BY <1>0, <2>1 DEF Numbers
  <2>3. forwarded' = answered + Len(cxt'.list) /\ forwarded' \in 0 .. cur.id
    <3>1. PICK n \in Nat : n = Len(cxt.list)
      BY <1>6
    <3>2. Len(cxt'.list) = n + 1
      BY <1>6, <3>1
    <3>3. forwarded = answered + n /\ answered \in Nat
      BY <2>2, <3>1
    <3>4. /\ forwarded' = forwarded + 1 /\ forwarded < cur.id
          /\ forwarded \in Nat /\ cur.id \in Nat
      BY <1>8
    <3> QED
      BY <3>2, <3>3, <3>4
  <2>4. /\ cur = [id |-> cur.id, kind |-> cur.kind, host |-> cur.host]
        /\ cur.id \in 0 .. world.reqs /\ cur.kind \in {"http", "connect"}
        /\ cur.id > 0 => cur.host \in Hosts
        /\ at \in Nat \ {0}
    BY <1>0 DEF Numbers
  <2> QED
    BY <1>6, <2>1, <2>2, <2>3, <2>4 DEF Numbers
<1>10. Serving'
  BY <1>0, <1>1, <1>2 DEF Serving
<1>11. Control'
  BY <1>0, <1>1 DEF Control, env, Coros
<1>12. Handlers'
  <2>1. Sites("req")' \subseteq Sites("req") /\ Sites("rsp")' \subseteq Sites("rsp")
    BY <1>3, SitesFewer DEF env, Coros, NetStep
  <2> QED
    BY <1>0, <1>1, <2>1 DEF Handlers
<1>13. \A i \in 1 .. Len(queue) : queue[i].to # "req"
  BY <1>0, <1>1 DEF ReqNotice
<1>14. notify = TRUE \/ notify = FALSE
  <2>1. CASE pc["rsp"] \in {"init", "idle"}
    BY <1>0, <2>1 DEF CxtOk
  <2>2. CASE pc["rsp"] \notin {"init", "idle"}
    BY <1>0, <2>2 DEF CxtOk
  <2> QED
    BY <2>1, <2>2
<1>15. ReqState = "run" /\ ReqState' = "run" /\ RspState' = RspState
  BY <1>1 DEF ReqState, RspState, Paused, EventWaits
<1>16. HP!RspBlocked <=> cxt.rsp_blocked = TRUE
  BY <1>0 DEF HP!RspBlocked, RspState, CxtOk
<1>17. CASE notify = TRUE
  <2>0. PICK e : e = [to |-> "rsp", more |-> TRUE]
    OBVIOUS
  <2>1. queue' = Append(queue, e)
    BY <1>17, <2>0 DEF Enlist
  <2>2. e.to = "rsp" /\ e \in Events /\ e = HP!Notice("rsp", TRUE)
    BY <2>0, EventTypes DEF HP!Notice
  <2>3. Posted(queue, e, queue') /\ Notices(queue') = Append(Notices(queue), e)
    BY <1>0, <2>1, <2>2, NoticesPost DEF Loop
  <2>4. Loop'
    BY <1>0, <1>1, <2>3 DEF Loop, env, Posted
  <2>5. \A i \in 1 .. Len(queue') : queue'[i].to # "req"
    <3>1. \A i \in 1 .. Len(queue') : (i \in 1 .. Len(queue) /\ queue'[i] = queue[i]) \/ queue'[i] = e
      BY <2>3, PostedAt
    <3>2. e.to # "req"
      BY <2>2
    <3> QED
      BY <1>13, <3>1, <3>2
  <2>6. ReqNotice'
    BY <2>5 DEF ReqNotice
  <2>7. HP!ForwardConnect
    BY <1>8, <1>15, <2>2, <2>3 DEF HP!ForwardConnect
  <2>8. Own'
    BY <1>3, <1>7, <1>9, <1>10, <1>11, <1>12, <2>4, <2>6 DEF Own, NetStep, env
  <2> QED
    BY <2>7, <2>8 DEF Sim, HP!Next, HP!ReqStep
<1>18. CASE notify = FALSE
  <2>1. queue' = queue
    BY <1>18 DEF Enlist
  <2>2. Loop' /\ ReqNotice'
    BY <1>0, <1>1, <1>13, <2>1 DEF Loop, env, ReqNotice
  <2>3. ~HP!RspBlocked
    BY <1>16, <1>18
  <2>4. HP!ForwardHttp
    BY <1>8, <1>15, <2>1, <2>3 DEF HP!ForwardHttp, HP!NotifyRsp
  <2>5. Own'
    BY <1>3, <1>7, <1>9, <1>10, <1>11, <1>12, <2>2 DEF Own, NetStep, env
  <2> QED
    BY <2>4, <2>5 DEF Sim, HP!Next, HP!ReqStep
<1> QED
  BY <1>14, <1>17, <1>18

\* Forwarding a request.
LEMMA ReqForwards ==
  ASSUME IInv, UNCHANGED env, forward_http \/ enlist_connect \/ connect_ok
  PROVE  Sim
<1>1. CASE forward_http
  <2>0. run = "req" /\ pc["req"] = "forward" /\ srv \in Conns
    BY <1>1, ConnTypes DEF forward_http, At, Runs, Using
  <2>1. CASE conn_try_io("req", srv, "write")
    BY <2>0, <2>1, ReqTryIo, SimIo
  <2>2. CASE /\ Enlist(cxt.rsp_blocked) /\ Goto("req", "copy_read")
             /\ UNCHANGED <<armed, batch, agenda, look, srv, answered>>
    BY <2>0, <2>2, ReqEnlists
  <2>3. CASE /\ net' = mem_decref(conn_close(net, srv), srv)
             /\ srv' = None /\ Goto("req", "lookup")
             /\ UNCHANGED <<loop, cxt, look, hist>>
    <3>1. PICK n : n = conn_close(net, srv)
      OBVIOUS
    <3>2. NetStep(net, n, {}, exiting) /\ NetOk(n, exiting)
      BY <2>0, <3>1, ConnTypes, CloseFacts DEF NetStep
    <3>3. NetStep(n, net', {srv}, exiting)
      BY <2>0, <2>3, <3>1, <3>2, ConnTypes, DecrefFacts
    <3>4. NetStep(net, net', {} \cup {srv}, exiting)
      BY <3>2, <3>3, TwoSteps
    <3>5. /\ "lookup" \in ReqLabels \ (Paused \cup Attempt \cup {"clean"})
          /\ "lookup" \notin Using /\ "forward" \in Unlisted
      BY DEF ReqLabels, Paused, EventWaits, Attempt, Using, Unlisted
    <3> QED
      BY <2>0, <2>3, <3>4, <3>5, ReqNetOnly DEF hist
  <2> QED
    BY <1>1, <2>1, <2>2, <2>3 DEF forward_http
<1>2. CASE enlist_connect
  <2>1. /\ run = "req" /\ pc["req"] = "enlist" /\ Enlist(TRUE) /\ Goto("req", "connect_ok")
        /\ UNCHANGED <<armed, batch, agenda, look, srv, answered>>
    BY <1>2 DEF enlist_connect, At, Runs
  <2> QED
    BY <2>1, ReqEnlists
<1>3. CASE connect_ok
  <2>0. run = "req" /\ pc["req"] = "connect_ok" /\ pc["req"] \in Using
    BY <1>3 DEF connect_ok, At, Runs, Using
  <2>1. CASE conn_try_io("req", Client, "write")
    BY <2>0, <2>1, ConnTypes, ReqTryIo, SimIo
  <2>2. ASSUME net' \in {net, conn_close(net, Client)}, NEW l \in {"copy_read", "release"},
               Goto("req", l), UNCHANGED <<loop, cxt, look, srv, forwarded, answered>>
        PROVE  Sim
    <3>1. NetStep(net, net', {}, exiting)
      BY <2>2, ConnTypes, CloseFacts
    <3>2. l \in ReqLabels \ (Paused \cup Attempt \cup {"clean"}) /\ l \notin Unlisted
      BY DEF ReqLabels, Paused, EventWaits, Attempt, Unlisted
    <3> QED
      BY <2>0, <2>2, <3>1, <3>2, ReqNetOnly
  <2> QED
    BY <1>3, <2>1, <2>2 DEF connect_ok, hist
<1> QED
  BY <1>1, <1>2, <1>3

\* Copying a body, or a tunnel.
LEMMA ReqCopies ==
  ASSUME IInv, UNCHANGED env,
         conn_copy_read("req") \/ conn_copy_write("req") \/ CopyEnds("req")
  PROVE  Sim
<1>0. /\ run = "req" /\ pc["req"] \in {"copy_read", "copy_write"} /\ pc["req"] \in Using
      /\ Source("req") = Client /\ Target("req") = srv /\ Client \in Conns /\ srv \in Conns
  BY ConnTypes DEF conn_copy_read, conn_copy_write, CopyEnds, At, Runs, Using, Source, Target
<1>1. ASSUME NEW c \in Conns, NEW dir \in {"read", "write"}, conn_try_io("req", c, dir)
      PROVE  Sim
  BY <1>0, <1>1, ReqTryIo, SimIo
<1>2. ASSUME NEW c \in Conns, net' \in {net, conn_close(net, c)},
             NEW l \in {"copy_read", "copy_write", "copy_failed", "copied"}, Goto("req", l),
             UNCHANGED <<loop, cxt, look, srv, forwarded, answered>>
      PROVE  Sim
  <2>1. NetStep(net, net', {}, exiting)
    BY <1>2, ConnTypes, CloseFacts
  <2>2. l \in ReqLabels \ (Paused \cup Attempt \cup {"clean"}) /\ l \notin Unlisted
    BY DEF ReqLabels, Paused, EventWaits, Attempt, Unlisted
  <2> QED
    BY <1>0, <1>2, <2>1, <2>2, ReqNetOnly
<1>3. CASE conn_copy_read("req")
  BY <1>0, <1>1, <1>2, <1>3 DEF conn_copy_read, hist
<1>4. CASE conn_copy_write("req")
  BY <1>0, <1>1, <1>2, <1>4 DEF conn_copy_write, hist
<1>5. CASE CopyEnds("req")
  BY <1>0, <1>2, <1>5 DEF CopyEnds, hist
<1> QED
  BY <1>3, <1>4, <1>5

\* The end of a request.
LEMMA ReqEndsRequest ==
  ASSUME IInv, UNCHANGED env, req_copied \/ req_copy_failed \/ req_bad_gateway \/ release
  PROVE  Sim
<1>0. /\ run = "req" /\ pc["req"] \in {"copied", "copy_failed", "bad_gateway", "release"}
  BY DEF req_copied, req_copy_failed, req_bad_gateway, release, At, Runs
<1>1. ASSUME net' = net \/ (srv \in Servers /\ net' = mem_decref(net, srv)),
             NEW l \in {"top", "bad_gateway", "release", "finish"}, Goto("req", l),
             srv' \in {srv, None}, UNCHANGED <<loop, cxt, look, forwarded, answered>>
      PROVE  Sim
  <2>1. NetStep(net, net', {srv}, exiting)
    <3>1. CASE net' = net
      BY <3>1, ConnTypes DEF NetStep, Keeps
    <3>2. CASE srv \in Servers /\ net' = mem_decref(net, srv)
      BY <3>2, ConnTypes, DecrefFacts
    <3> QED
      BY <1>1, <3>1, <3>2
  <2>2. l \in ReqLabels \ (Paused \cup Attempt \cup {"clean"}) /\ l \notin Unlisted /\ l \notin Using
    BY DEF ReqLabels, Paused, EventWaits, Attempt, Unlisted, Using
  <2> QED
    BY <1>0, <1>1, <2>1, <2>2, ReqNetOnly
<1>2. srv \in Servers \cup {None} /\ (pc["req"] = "copied" => srv \in Servers)
  BY DEF IInv, Own, Serving, Using
<1>3. CASE req_copied
  BY <1>1, <1>2, <1>3 DEF req_copied, At, hist
<1>4. CASE req_copy_failed
  BY <1>1, <1>4 DEF req_copy_failed, hist
<1>5. CASE req_bad_gateway
  BY <1>0, <1>5, ReqReplies DEF req_bad_gateway
<1>6. CASE release
  BY <1>1, <1>2, <1>6 DEF release, hist
<1> QED
  BY <1>3, <1>4, <1>5, <1>6

\* req tells rsp to leave and waits for it.
LEMMA ReqFinishes ==
  ASSUME IInv, UNCHANGED env, req_finish
  PROVE  Sim
<1>0. /\ Control /\ Loop /\ ReqNotice /\ NetOk(net, exiting) /\ CxtOk /\ Numbers /\ Serving
      /\ Handlers /\ run = "req" /\ pc["req"] = "finish" /\ "dns" \notin armed
  BY DnsOff DEF IInv, Own, req_finish, At, Runs
<1>1. PICK e : e = [to |-> "rsp", more |-> FALSE]
  OBVIOUS
<1>2. /\ cxt' = [cxt EXCEPT !.req_will_exit = TRUE, !.req_blocked = TRUE]
      /\ queue' = Append(queue, e) /\ pc' = [pc EXCEPT !["req"] = "fin"]
      /\ run' = "main" /\ again' = FALSE
      /\ UNCHANGED <<net, armed, batch, agenda, cur, at, srv, forwarded, answered>>
  BY <1>0, <1>1 DEF req_finish, CxtOk, look, hist
<1>3. /\ pc' \in [Coros -> ReqLabels \cup RspLabels] /\ pc'["req"] = "fin"
      /\ pc'["rsp"] = pc["rsp"] /\ "fin" \in ReqLabels
  BY <1>0, <1>2, PcFacts DEF Coros, ReqLabels
<1>4. /\ cxt'.list = cxt.list /\ cxt'.pool = cxt.pool /\ cxt'.req_blocked = TRUE
      /\ cxt'.rsp_blocked = cxt.rsp_blocked /\ cxt'.rsp_will_exited = cxt.rsp_will_exited
      /\ cxt' = [list |-> cxt'.list, pool |-> cxt'.pool,
                 req_blocked |-> cxt'.req_blocked, rsp_blocked |-> cxt'.rsp_blocked,
                 req_will_exit |-> cxt'.req_will_exit, rsp_will_exited |-> cxt'.rsp_will_exited]
  BY <1>0, <1>2 DEF CxtOk
<1>5. e.to = "rsp" /\ e.to # "req" /\ e \in Events /\ e = HP!Notice("rsp", FALSE)
  BY <1>1, EventTypes DEF HP!Notice
<1>6. Posted(queue, e, queue') /\ Notices(queue') = Append(Notices(queue), e)
  BY <1>0, <1>2, <1>5, NoticesPost DEF Loop
<1>7. Control'
  BY <1>0, <1>2, <1>3 DEF Control, env, Coros
<1>8. Loop'
  BY <1>0, <1>2, <1>6 DEF Loop, env, Posted
<1>9. ReqNotice'
  <2>1. \A i \in 1 .. Len(queue') : (i \in 1 .. Len(queue) /\ queue'[i] = queue[i]) \/ queue'[i] = e
    BY <1>6, PostedAt
  <2>2. \A i \in 1 .. Len(queue) : queue[i].to # "req"
    BY <1>0 DEF ReqNotice
  <2>3. e.to # "req"
    BY <1>5
  <2>4. \A i \in 1 .. Len(queue') : queue'[i].to # "req"
    BY <2>1, <2>2, <2>3
  <2> QED
    BY <2>4 DEF ReqNotice
<1>10. CxtOk'
  BY <1>0, <1>3, <1>4 DEF CxtOk
<1>11. Numbers'
  BY <1>0, <1>2, <1>3, <1>4 DEF Numbers, env, Hosts, Unlisted
<1>12. Serving'
  BY <1>0, <1>2, <1>3 DEF Serving, Using, Attempt
<1>13. Handlers'
  <2>1. Sites("req")' = Sites("req") /\ Sites("rsp")' = Sites("rsp")
    BY <1>2 DEF Sites, env
  <2> QED
    BY <1>0, <1>3, <2>1 DEF Handlers
<1>14. HP!ReqDone
  <2>1. ReqState = "run" /\ ReqState' = "fin" /\ RspState' = RspState
    BY <1>0, <1>2, <1>3 DEF ReqState, RspState
  <2> QED
    BY <1>2, <1>5, <1>6, <2>1 DEF HP!ReqDone
<1>15. NetOk(net, exiting)'
  BY <1>0, <1>2 DEF env
<1> QED
  BY <1>7, <1>8, <1>9, <1>10, <1>11, <1>12, <1>13, <1>14, <1>15
     DEF Own, Sim, HP!Next, HP!ReqStep

\* What req gives back at its end is counted.
LEMMA DropsType ==
  ASSUME IInv
  PROVE  [c \in Conns |-> Drops(c)] \in [Conns -> Nat]
<1> SUFFICES ASSUME NEW c \in Conns PROVE Drops(c) \in Nat
  OBVIOUS
<1>1. Cardinality({e \in Eps : cxt.pool[e] = c}) \in Nat
  <2>1. IsFiniteSet({e \in Eps : cxt.pool[e] = c})
    BY SessionAssumption, FS_Subset
  <2> QED
    BY <2>1, FS_CardinalityType
<1>2. Cardinality({i \in DOMAIN cxt.list : cxt.list[i].srv = c}) \in Nat
  <2>1. cxt.list \in Seq(Requests)
    BY DEF IInv, Own, CxtOk
  <2>2. DOMAIN cxt.list = 1 .. Len(cxt.list) /\ Len(cxt.list) \in Int
    BY <2>1
  <2>3. IsFiniteSet(DOMAIN cxt.list)
    BY <2>2, FS_Interval
  <2>4. IsFiniteSet({i \in DOMAIN cxt.list : cxt.list[i].srv = c})
    BY <2>3, FS_Subset
  <2> QED
    BY <2>4, FS_CardinalityType
<1> QED
  BY <1>1, <1>2 DEF Drops

\* The frame of req goes; rsp has ended before.
LEMMA ReqCleans ==
  ASSUME IInv, UNCHANGED env, req_clean
  PROVE  Sim
<1>0. /\ Control /\ Loop /\ ReqNotice /\ NetOk(net, exiting) /\ CxtOk /\ Numbers /\ Serving
      /\ Handlers /\ run = "req" /\ pc["req"] = "clean" /\ "dns" \notin armed
  BY DnsOff DEF IInv, Own, req_clean, At, Runs
<1>1. pc["rsp"] = "done"
  <2>1. ReqState = "clean" /\ HP!FrameAlive
    BY <1>0 DEF ReqState, IInv, HP!IInv
  <2>2. RspState = "done"
    BY <2>1 DEF HP!FrameAlive
  <2> QED
    BY <2>2 DEF RspState
<1>2. /\ cxt' = [cxt EXCEPT !.pool = [e \in Eps |-> None], !.list = <<>>]
      /\ armed' = armed \ {"req"} /\ pc' = [pc EXCEPT !["req"] = "done"]
      /\ run' = "main" /\ again' = FALSE
      /\ UNCHANGED <<queue, batch, agenda, cur, at, srv, forwarded, answered>>
  BY DEF req_clean, look, hist
<1>3. /\ pc' \in [Coros -> ReqLabels \cup RspLabels] /\ pc'["req"] = "done"
      /\ pc'["rsp"] = "done" /\ "done" \in ReqLabels
  BY <1>0, <1>1, <1>2, PcFacts DEF Coros, ReqLabels
<1>4. /\ cxt'.list = <<>> /\ cxt'.pool = [e \in Eps |-> None]
      /\ cxt'.req_blocked = cxt.req_blocked
      /\ cxt'.rsp_blocked = cxt.rsp_blocked /\ cxt'.rsp_will_exited = cxt.rsp_will_exited
      /\ cxt' = [list |-> cxt'.list, pool |-> cxt'.pool,
                 req_blocked |-> cxt'.req_blocked, rsp_blocked |-> cxt'.rsp_blocked,
                 req_will_exit |-> cxt'.req_will_exit, rsp_will_exited |-> cxt'.rsp_will_exited]
  BY <1>0, <1>2 DEF CxtOk
<1>5. NetOk(net', exiting) /\ Fewer(net, net')
  <2>1. PICK drops : drops = [c \in Conns |-> Drops(c)]
    OBVIOUS
  <2>2. PICK S : S = {s \in Pooled : ~Closed(s)}
    OBVIOUS
  <2>3. drops \in [Conns -> Nat] /\ S \in SUBSET Conns
    BY <2>1, <2>2, DropsType DEF Pooled, Conns
  <2>4. net' = DropAll(net, S, drops)
    BY <2>1, <2>2 DEF req_clean
  <2> QED
    BY <2>3, <2>4, ConnTypes, DropAllFacts
<1>6. Control'
  BY <1>0, <1>1, <1>2, <1>3 DEF Control, env, Coros
<1>7. Loop'
  BY <1>0, <1>2 DEF Loop, env
<1>8. ReqNotice'
  BY <1>0, <1>2 DEF ReqNotice
<1>9. CxtOk'
  <2>1. cxt'.list \in Seq(Requests) /\ cxt'.pool \in [Eps -> Servers \cup {None}]
    BY <1>4
  <2> QED
    BY <1>0, <1>1, <1>3, <1>4, <2>1 DEF CxtOk
<1>10. Numbers'
  <2>1. answered <= forwarded
    <3>1. Len(cxt.list) \in Nat
      BY <1>0 DEF CxtOk
    <3> QED
      BY <1>0, <3>1 DEF Numbers
  <2> QED
    BY <1>0, <1>2, <1>3, <1>4, <2>1 DEF Numbers, env, Hosts, Unlisted, Busy
<1>11. Serving'
  BY <1>0, <1>2, <1>3 DEF Serving, Using, Attempt
<1>12. Handlers'
  <2>1. Sites("req")' \subseteq Sites("req")
    BY <1>2, <1>5, SitesFewer DEF Coros, env
  <2> QED
    BY <1>0, <1>3, <2>1 DEF Handlers
<1>13. HP!ReqClean
  <2>1. ReqState = "clean" /\ ReqState' = "done" /\ RspState = "done" /\ RspState' = "done"
    BY <1>0, <1>1, <1>3 DEF ReqState, RspState
  <2>2. (armed \ {"dns"})' = (armed \ {"dns"}) \ {"req"}
    BY <1>2
  <2> QED
    BY <1>2, <2>1, <2>2 DEF HP!ReqClean
<1>14. NetOk(net, exiting)'
  BY <1>5 DEF env
<1> QED
  BY <1>6, <1>7, <1>8, <1>9, <1>10, <1>11, <1>12, <1>13, <1>14
     DEF Own, Sim, HP!Next, HP!ReqStep
-----------------------------------------------------------------------------
(***************************************************************************)
(* The steps of net_rsp_handler.                                           *)
(***************************************************************************)
\* While rsp lives the frame of req does: the list is what is pending.
LEMMA RspAlive ==
  ASSUME IInv, pc["rsp"] # "done"
  PROVE  /\ pc["req"] \notin {"clean", "done"} /\ Len(cxt.list) \in Nat
         /\ forwarded = answered + Len(cxt.list) /\ HP!Pending = Len(cxt.list)
         /\ forwarded \in Nat /\ answered \in Nat
<1>1. HP!FrameAlive /\ RspState # "done"
  BY DEF IInv, HP!IInv, RspState
<1>2. pc["req"] \notin {"clean", "done"}
  BY <1>1 DEF HP!FrameAlive, ReqState
<1>3. Len(cxt.list) \in Nat
  BY DEF IInv, Own, CxtOk
<1>4. forwarded = answered + Len(cxt.list) /\ forwarded \in Nat /\ answered \in Nat
  BY <1>2 DEF IInv, Own, Numbers
<1> QED
  BY <1>2, <1>3, <1>4 DEF HP!Pending

\* Only the network changes, and it gains no handler.
LEMMA NetOnly ==
  ASSUME IInv, UNCHANGED <<env, pc, run, again, loop, cxt, cur, at, srv, forwarded, answered>>,
         NetStep(net, net', {}, exiting)
  PROVE  Sim
<1>1. /\ Control /\ Loop /\ ReqNotice /\ CxtOk /\ Numbers /\ Serving /\ Handlers
  BY DEF IInv, Own
<1>2. Control' /\ Loop' /\ ReqNotice' /\ CxtOk'
  BY <1>1 DEF Control, Loop, ReqNotice, CxtOk, loop, env
<1>3. Numbers'
  BY <1>1, NumbersKept DEF Numbers
<1>4. Serving'
  BY <1>1, ServingKept DEF PoolKept, NetStep
<1>5. Handlers'
  <2>1. Sites("req")' \subseteq Sites("req") /\ Sites("rsp")' \subseteq Sites("rsp")
    BY SitesFewer DEF env, Coros, NetStep, loop
  <2> QED
    BY <1>1, <2>1 DEF Handlers
<1>6. UNCHANGED HP!vars
  <2>1. ReqState' = ReqState /\ RspState' = RspState
    BY DEF ReqState, RspState
  <2> QED
    BY <2>1, HandshakeStutter DEF loop
<1> QED
  BY <1>2, <1>3, <1>4, <1>5, <1>6, SimQuiet DEF Own, NetStep, env

\* The top of its loop.
LEMMA RspTops ==
  ASSUME IInv, UNCHANGED env, rsp_top
  PROVE  Sim
<1>0. /\ Control /\ Loop /\ ReqNotice /\ NetOk(net, exiting) /\ CxtOk /\ Numbers /\ Serving
      /\ Handlers /\ run = "rsp" /\ pc["rsp"] = "top"
      /\ UNCHANGED <<queue, armed, batch, agenda, cur, at, srv, forwarded, answered>>
  BY DEF IInv, Own, rsp_top, At, Runs, loop, look, hist
<1>1. CASE Goto("rsp", "exit") /\ UNCHANGED <<cxt, net>>
  <2>1. /\ "exit" \in RspLabels \ Paused /\ "exit" \notin Busy
        /\ pc'["rsp"] = "exit" /\ pc'["req"] = pc["req"]
    BY <1>0, <1>1, PcFacts DEF Goto, Coros, RspLabels, Paused, EventWaits, Busy
  <2>2. Numbers'
    BY <1>0, <1>1, <2>1, NumbersKept
  <2>3. NetStep(net, net', {}, exiting)
    BY <1>1, ConnTypes
  <2>4. Serving'
    BY <1>0, <1>1, <2>1, <2>3, ServingKept DEF PoolKept, NetStep
  <2>5. CxtFlags
    BY <1>0, <1>1 DEF CxtFlags, CxtOk
  <2>6. Own' /\ ReqState' = ReqState /\ RspState = "run" /\ RspState' = "exit"
    BY <1>0, <1>1, <2>1, <2>2, <2>3, <2>4, <2>5, RspGoes DEF NetStep
  <2>7. HP!RspQuits
    BY <1>0, <2>6 DEF HP!RspQuits
  <2> QED
    BY <2>6, <2>7 DEF Sim, HP!Next, HP!RspStep
<1>2. CASE /\ cxt.list = <<>> /\ cxt' = [cxt EXCEPT !.rsp_blocked = TRUE]
           /\ pc' = [pc EXCEPT !["rsp"] = "idle"]
           /\ run' = "main" /\ again' = FALSE /\ UNCHANGED net
  <2>1. /\ pc' \in [Coros -> ReqLabels \cup RspLabels] /\ pc'["rsp"] = "idle"
        /\ pc'["req"] = pc["req"] /\ "idle" \in RspLabels /\ pc["req"] # "clean"
    BY <1>0, <1>2, PcFacts DEF Coros, RspLabels, Control
  <2>2. /\ cxt'.list = cxt.list /\ cxt'.pool = cxt.pool /\ cxt'.req_blocked = cxt.req_blocked
        /\ cxt'.rsp_blocked = TRUE /\ cxt'.rsp_will_exited = cxt.rsp_will_exited
        /\ cxt' = [list |-> cxt'.list, pool |-> cxt'.pool,
                   req_blocked |-> cxt'.req_blocked, rsp_blocked |-> cxt'.rsp_blocked,
                   req_will_exit |-> cxt'.req_will_exit,
                   rsp_will_exited |-> cxt'.rsp_will_exited]
    BY <1>0, <1>2 DEF CxtOk
  <2>3. Control'
    BY <1>0, <1>2, <2>1 DEF Control, env, Coros
  <2>4. Loop'
    BY <1>0, <1>2, <2>1 DEF Loop, env
  <2>5. ReqNotice'
    BY <1>0, <2>1 DEF ReqNotice
  <2>6. CxtOk'
    BY <1>0, <2>1, <2>2 DEF CxtOk
  <2>7. Numbers'
    BY <1>0, <2>1, <2>2, NumbersKept DEF Busy
  <2>8. Serving'
    BY <1>0, <1>2, <2>1, <2>2, ConnTypes, ServingKept DEF PoolKept, NetStep
  <2>9. Handlers'
    <3>1. Sites("req")' = Sites("req")
      BY <1>0, <1>2 DEF Sites, env
    <3> QED
      BY <1>0, <1>2, <2>1, <3>1 DEF Handlers
  <2>10. HP!RspWaits
    <3>1. HP!Pending = 0
      BY <1>0, <1>2, RspAlive, EmptySeq
    <3>2. RspState = "run" /\ RspState' = "idle" /\ ReqState' = ReqState
      BY <1>0, <1>2, <2>1 DEF RspState, ReqState
    <3> QED
      BY <1>0, <3>1, <3>2 DEF HP!RspWaits
  <2>11. NetOk(net, exiting)'
    BY <1>0, <1>2 DEF env
  <2> QED
    BY <2>3, <2>4, <2>5, <2>6, <2>7, <2>8, <2>9, <2>10, <2>11 DEF Own, Sim, HP!Next, HP!RspStep
<1>3. CASE net' = [net EXCEPT !.fault = "freed"] /\ UNCHANGED <<pc, run, again, cxt>>
  BY <1>0, <1>3, ConnTypes, FaultFacts, NetOnly DEF loop
<1>4. ASSUME NEW l \in {"fetch", "copy_read"}, Goto("rsp", l), cxt.list # <<>>,
             UNCHANGED <<cxt, net>>
      PROVE  Sim
  <2>1. l \in RspLabels \ (Paused \cup {"exit"})
    BY DEF RspLabels, Paused, EventWaits
  <2> QED
    BY <1>0, <1>4, <2>1, ConnTypes, RspQuiet, SimQuiet
<1> QED
  BY <1>1, <1>2, <1>3, <1>4 DEF rsp_top, NextRequest

\* rsp goes on with the request it works on.
LEMMA RspMoves ==
  ASSUME IInv, UNCHANGED env, run = "rsp", pc["rsp"] \in Busy, NEW l \in Busy, Goto("rsp", l),
         UNCHANGED <<loop, cxt, look, srv, forwarded, answered>>,
         NetStep(net, net', {}, exiting)
  PROVE  Sim
<1>1. cxt.list # <<>> /\ pc["rsp"] # "exit"
  BY DEF IInv, Own, Numbers, Busy
<1>2. l \in RspLabels \ (Paused \cup {"exit"})
  BY DEF Busy, RspLabels, Paused, EventWaits
<1> QED
  BY <1>1, <1>2, RspQuiet, SimQuiet DEF loop, look

\* The same with a connection closed or not.
LEMMA RspCloses ==
  ASSUME IInv, UNCHANGED env, run = "rsp", pc["rsp"] \in Busy, NEW l \in Busy, Goto("rsp", l),
         UNCHANGED <<loop, cxt, look, srv, forwarded, answered>>,
         NEW c \in Conns, net' \in {net, conn_close(net, c)}
  PROVE  Sim
<1>1. NetStep(net, net', {}, exiting)
  BY ConnTypes, CloseFacts
<1> QED
  BY <1>1, RspMoves

\* Replies written by rsp.
LEMMA RspReplies ==
  ASSUME IInv, UNCHANGED env, run = "rsp", pc["rsp"] \in Busy,
         NEW id, NEW l \in Busy, NEW last, ReplyTo("rsp", id, l, last)
  PROVE  Sim
<1>0. pc["rsp"] # "exit" /\ Client \in Conns
  BY ConnTypes DEF Busy
<1>1. CASE conn_try_io("rsp", Client, "write")
  BY <1>0, <1>1, RspTryIo, SimIo
<1>2. ASSUME net' \in {net, conn_close(net, Client)}, Goto("rsp", l),
             UNCHANGED <<loop, cxt, look, srv, forwarded, answered>>
      PROVE  Sim
  BY <1>0, <1>2, RspCloses
<1> QED
  BY <1>1, <1>2 DEF ReplyTo, hist

\* Reading a response and passing its header on.
LEMMA RspFetches ==
  ASSUME IInv, UNCHANGED env, rsp_fetch \/ rsp_bad_gateway \/ rsp_header \/ rsp_framing
  PROVE  Sim
<1>0. /\ Client \in Conns /\ (pc["rsp"] \in Busy => Oldest.srv \in Conns)
      /\ NetStep(net, net, {}, exiting)
  BY ConnTypes DEF IInv, Own, Numbers
<1>1. CASE rsp_fetch
  <2>0. run = "rsp" /\ pc["rsp"] = "fetch" /\ pc["rsp"] \in Busy /\ pc["rsp"] # "exit"
    BY <1>1 DEF rsp_fetch, At, Runs, Busy
  <2>1. CASE conn_try_io("rsp", Oldest.srv, "read")
    BY <1>0, <2>0, <2>1, RspTryIo, SimIo
  <2>2. ASSUME NEW l \in {"header", "bad_gateway"}, Goto("rsp", l),
               net' \in {net, conn_close(net, Oldest.srv)},
               UNCHANGED <<loop, cxt, look, srv, forwarded, answered>>
        PROVE  Sim
    <3>1. l \in Busy
      BY DEF Busy
    <3> QED
      BY <1>0, <2>0, <2>2, <3>1, RspCloses
  <2> QED
    BY <1>1, <2>1, <2>2 DEF rsp_fetch, hist
<1>2. CASE rsp_bad_gateway
  <2>1. /\ run = "rsp" /\ pc["rsp"] \in Busy /\ "post" \in Busy
        /\ ReplyTo("rsp", Oldest.id, "post", FALSE)
    BY <1>2 DEF rsp_bad_gateway, At, Runs, Busy
  <2> QED
    BY <2>1, RspReplies
<1>3. CASE rsp_header
  <2>1. /\ run = "rsp" /\ pc["rsp"] \in Busy /\ "framing" \in Busy
        /\ ReplyTo("rsp", Oldest.id, "framing", FALSE)
    BY <1>3 DEF rsp_header, At, Runs, Busy
  <2> QED
    BY <2>1, RspReplies
<1>4. CASE rsp_framing
  <2>1. /\ run = "rsp" /\ pc["rsp"] \in Busy
        /\ UNCHANGED <<net, loop, cxt, look, srv, forwarded, answered>>
    BY <1>4 DEF rsp_framing, At, Runs, Busy, hist
  <2>2. Goto("rsp", "copy_read") /\ "copy_read" \in Busy
    BY <1>4 DEF rsp_framing, Busy
  <2> QED
    BY <1>0, <2>1, <2>2, RspMoves
<1> QED
  BY <1>1, <1>2, <1>3, <1>4

\* Copying its body.
LEMMA RspCopies ==
  ASSUME IInv, UNCHANGED env,
         conn_copy_read("rsp") \/ conn_copy_write("rsp") \/ CopyEnds("rsp") \/ rsp_copy_over
  PROVE  Sim
<1>0. /\ Client \in Conns /\ (pc["rsp"] \in Busy => Oldest.srv \in Conns)
      /\ NetStep(net, net, {}, exiting) /\ exiting \in BOOLEAN
      /\ Source("rsp") = Oldest.srv /\ Target("rsp") = Client
  BY ConnTypes DEF IInv, Own, Numbers, Source, Target, Oldest
<1>1. CASE conn_copy_read("rsp")
  <2>0. run = "rsp" /\ pc["rsp"] \in Busy /\ pc["rsp"] # "exit"
    BY <1>1 DEF conn_copy_read, At, Runs, Busy
  <2>1. CASE conn_try_io("rsp", Oldest.srv, "read")
    BY <1>0, <2>0, <2>1, RspTryIo, SimIo
  <2>2. ASSUME NEW l \in {"copy_write", "copy_failed"}, Goto("rsp", l),
               net' \in {net, conn_close(net, Oldest.srv)},
               UNCHANGED <<loop, cxt, look, srv, forwarded, answered>>
        PROVE  Sim
    <3>1. l \in Busy
      BY DEF Busy
    <3> QED
      BY <1>0, <2>0, <2>2, <3>1, RspCloses
  <2> QED
    BY <1>0, <1>1, <2>1, <2>2 DEF conn_copy_read, hist
<1>2. CASE conn_copy_write("rsp")
  <2>0. run = "rsp" /\ pc["rsp"] \in Busy /\ pc["rsp"] # "exit"
    BY <1>2 DEF conn_copy_write, At, Runs, Busy
  <2>1. CASE conn_try_io("rsp", Client, "write")
    BY <1>0, <2>0, <2>1, RspTryIo, SimIo
  <2>2. ASSUME NEW l \in {"copy_read", "copy_failed"}, Goto("rsp", l),
               net' \in {net, conn_close(net, Client)},
               UNCHANGED <<loop, cxt, look, srv, forwarded, answered>>
        PROVE  Sim
    <3>1. l \in Busy
      BY DEF Busy
    <3> QED
      BY <1>0, <2>0, <2>2, <3>1, RspCloses
  <2> QED
    BY <1>0, <1>2, <2>1, <2>2 DEF conn_copy_write, hist
<1>3. CASE CopyEnds("rsp")
  <2>1. /\ run = "rsp" /\ pc["rsp"] \in Busy
        /\ UNCHANGED <<net, loop, cxt, look, srv, forwarded, answered>>
    BY <1>3 DEF CopyEnds, At, Runs, Busy, hist
  <2>2. PICK l \in {"copied", "copy_failed"} : Goto("rsp", l)
    BY <1>3 DEF CopyEnds
  <2>3. l \in Busy
    BY DEF Busy
  <2> QED
    BY <1>0, <2>1, <2>2, <2>3, RspMoves
<1>4. CASE rsp_copy_over
  <2>1. /\ run = "rsp" /\ pc["rsp"] \in Busy
        /\ UNCHANGED <<loop, cxt, look, srv, forwarded, answered>>
    BY <1>4 DEF rsp_copy_over, Runs, Busy, hist
  <2>l. PICK l \in {"post", "continue"} : Goto("rsp", l)
    BY <1>4 DEF rsp_copy_over
  <2>b. l \in Busy
    BY DEF Busy
  <2>2. PICK n : n = conn_close(net, Client)
    OBVIOUS
  <2>3. net' = net \/ net' = conn_close(n, Oldest.srv)
    BY <1>4, <2>2 DEF rsp_copy_over
  <2>4. NetStep(net, n, {}, exiting) /\ NetOk(n, exiting)
    BY <1>0, <2>2, ConnTypes, CloseFacts DEF NetStep
  <2>5. net' = conn_close(n, Oldest.srv) => NetStep(n, net', {}, exiting)
    BY <1>0, <2>1, <2>4, CloseFacts
  <2>6. net' = conn_close(n, Oldest.srv) => NetStep(net, net', {} \cup {}, exiting)
    BY <2>4, <2>5, TwoSteps
  <2>7. NetStep(net, net', {}, exiting)
    <3>1. {} \cup {} = {}
      OBVIOUS
    <3> QED
      BY <1>0, <2>3, <2>6, <3>1
  <2> QED
    BY <2>1, <2>l, <2>b, <2>7, RspMoves
<1> QED
  BY <1>1, <1>2, <1>3, <1>4

\* A server connection leads to an endpoint.
LEMMA EpOfType ==
  ASSUME Control, NEW s \in Servers
  PROVE  EpOf[s] \in Eps
BY SessionAssumption DEF Control, World, EpOf

\* The end of a request: its server is given back and the list goes on.
LEMMA RspPosts ==
  ASSUME IInv, UNCHANGED env, rsp_post
  PROVE  Sim
<1>0. /\ Control /\ CxtOk /\ Numbers /\ Serving /\ NetOk(net, exiting) /\ exiting \in BOOLEAN
      /\ run = "rsp" /\ pc["rsp"] \in {"post", "continue"} /\ pc["rsp"] \in Busy
      /\ UNCHANGED <<loop, look, srv, forwarded>>
  BY DEF IInv, Own, Control, rsp_post, Runs, Busy
<1>1. PICK s : s = Oldest.srv
  OBVIOUS
<1>2. cxt.list # <<>> /\ s \in Servers /\ s \in Conns
  BY <1>0, <1>1, ConnTypes DEF Numbers
<1>3. PICK e : e = EpOf[s]
  OBVIOUS
<1>4. e \in Eps
  BY <1>0, <1>2, <1>3, EpOfType
<1>5. "top" \in RspLabels \ (Paused \cup {"exit"}) /\ "top" \notin Busy
  BY DEF RspLabels, Paused, EventWaits, Busy
<1>6. CASE net' = [net EXCEPT !.fault = "null"] /\ UNCHANGED <<pc, run, again, cxt, answered>>
  BY <1>0, <1>6, ConnTypes, FaultFacts, NetOnly DEF look
<1>7. CASE Goto("rsp", "top") /\ UNCHANGED <<net, cxt, answered>>
  BY <1>0, <1>5, <1>7, ConnTypes, RspQuiet, SimQuiet DEF loop, look
<1>8. ASSUME Closed(s) => cxt.pool[e] # None,
             net' = IF Closed(s) THEN Forget(net, s) ELSE mem_decref(net, s),
             NEW v, v = IF Closed(s) THEN None ELSE cxt.pool[e],
             cxt' = [cxt EXCEPT !.list = Tail(cxt.list), !.pool[e] = v],
             answered' = answered + 1, Goto("rsp", "top")
      PROVE  Sim
  <2>1. /\ cxt'.list = Tail(cxt.list) /\ cxt'.pool = [cxt.pool EXCEPT ![e] = v]
        /\ cxt' = [list |-> cxt'.list, pool |-> cxt'.pool,
                   req_blocked |-> cxt'.req_blocked, rsp_blocked |-> cxt'.rsp_blocked,
                   req_will_exit |-> cxt'.req_will_exit,
                   rsp_will_exited |-> cxt'.rsp_will_exited]
        /\ cxt'.req_blocked = cxt.req_blocked /\ cxt'.rsp_blocked = cxt.rsp_blocked
        /\ cxt'.rsp_will_exited = cxt.rsp_will_exited
    BY <1>0, <1>8 DEF CxtOk
  <2>2. PoolKept /\ cxt'.pool \in [Eps -> Servers \cup {None}]
    BY <1>0, <1>4, <1>8, <2>1 DEF PoolKept, CxtOk
  <2>3. cxt'.list \in Seq(Requests) /\ Len(cxt'.list) = Len(cxt.list) - 1 /\ Len(cxt.list) > 0
    BY <1>0, <1>2, <2>1, HeadTailProperties, EmptySeq DEF CxtOk
  <2>4. CxtFlags
    BY <2>1, <2>2, <2>3 DEF CxtFlags
  <2>5. NetStep(net, net', {s}, exiting)
    <3>1. PICK n : n = mem_decref(net, s)
      OBVIOUS
    <3>2. NetStep(net, n, {s}, exiting) /\ NetOk(n, exiting)
      BY <1>0, <1>2, <3>1, DecrefFacts DEF NetStep
    <3>3. CASE Closed(s)
      <4>1. net' = mem_decref(n, s)
        BY <1>8, <3>1, <3>3 DEF Forget
      <4>2. NetStep(n, net', {s}, exiting)
        BY <1>0, <1>2, <3>2, <4>1, DecrefFacts
      <4>3. NetStep(net, net', {s} \cup {s}, exiting)
        BY <3>2, <4>2, TwoSteps
      <4>4. {s} \cup {s} = {s}
        OBVIOUS
      <4> QED
        BY <4>3, <4>4
    <3> QED
      BY <1>8, <3>1, <3>2, <3>3
  <2>6. /\ pc'["rsp"] = "top" /\ pc'["req"] = pc["req"]
    BY <1>0, <1>5, <1>8, PcFacts DEF Goto, Coros
  <2>7. /\ pc["req"] \notin {"clean", "done"} /\ Len(cxt.list) \in Nat
        /\ forwarded = answered + Len(cxt.list) /\ HP!Pending = Len(cxt.list)
        /\ forwarded \in Nat /\ answered \in Nat
    BY <1>0, RspAlive
  <2>8. forwarded' = answered' + Len(cxt'.list) /\ answered' \in Nat
    BY <1>0, <1>8, <2>3, <2>7
  <2>9. Numbers'
    BY <1>0, <1>5, <2>6, <2>7, <2>8 DEF Numbers, look, env, Hosts
  <2>10. pc["req"] \in Attempt \ {"connect"} => srv \notin {s}
    BY <1>0, <1>3, <1>8 DEF Serving
  <2>11. Serving'
    BY <1>0, <2>2, <2>5, <2>6, <2>10, ServingKept DEF NetStep, look
  <2>12. Own' /\ ReqState' = ReqState /\ RspState = "run" /\ RspState' = "run"
    BY <1>0, <1>5, <1>8, <2>4, <2>5, <2>9, <2>11, RspGoes DEF NetStep, loop
  <2>13. HP!Pending > 0
    BY <2>3, <2>7
  <2>14. HP!Answer
    BY <1>0, <1>8, <2>12, <2>13 DEF HP!Answer, loop
  <2> QED
    BY <2>12, <2>14 DEF Sim, HP!Next, HP!RspStep
<1> QED
  <2>1. CASE Closed(s) /\ cxt.pool[e] = None
    BY <1>1, <1>3, <1>6, <2>1 DEF rsp_post
  <2>2. CASE ~Closed(s) /\ pc["rsp"] = "continue"
    BY <1>1, <1>3, <1>7, <2>2 DEF rsp_post
  <2>3. CASE ~(Closed(s) /\ cxt.pool[e] = None) /\ ~(~Closed(s) /\ pc["rsp"] = "continue")
    <3>1. PICK v : v = IF Closed(s) THEN None ELSE cxt.pool[e]
      OBVIOUS
    <3>2. /\ net' = IF Closed(s) THEN Forget(net, s) ELSE mem_decref(net, s)
          /\ cxt' = [cxt EXCEPT !.list = Tail(cxt.list),
                                !.pool[e] = IF Closed(s) THEN None ELSE cxt.pool[e]]
          /\ answered' = answered + 1
          /\ Goto("rsp", "top")
      BY <1>1, <1>3, <2>3 DEF rsp_post
    <3>3. cxt' = [cxt EXCEPT !.list = Tail(cxt.list), !.pool[e] = v]
      BY <3>1, <3>2
    <3> QED
      BY <1>8, <2>3, <3>1, <3>2, <3>3
  <2> QED
    BY <2>1, <2>2, <2>3

\* Its last step: req is told if it waits.
LEMMA RspExits ==
  ASSUME IInv, UNCHANGED env, rsp_exit
  PROVE  Sim
<1>0. /\ Control /\ Loop /\ ReqNotice /\ CxtOk /\ Numbers /\ Serving /\ Handlers
      /\ NetOk(net, exiting) /\ exiting \in BOOLEAN
      /\ run = "rsp" /\ pc["rsp"] = "exit" /\ pc["req"] \in ReqLabels \ {"clean"}
      /\ UNCHANGED <<batch, agenda, cur, at, srv, forwarded, answered>>
  BY DEF IInv, Own, Control, rsp_exit, At, Runs, look, hist
<1>1. /\ armed' = armed \ {"rsp"} /\ net' = mem_decref(net, Client)
      /\ run' = "main" /\ again' = FALSE
      /\ cxt' = [cxt EXCEPT !.req_will_exit = TRUE]
      /\ queue' = IF cxt.req_blocked THEN Append(queue, [to |-> "req", more |-> FALSE])
                  ELSE queue
  BY DEF rsp_exit
<1>2. /\ pc' \in [Coros -> ReqLabels \cup RspLabels]
      /\ pc'["rsp"] = "done" /\ pc'["req"] = pc["req"] /\ "done" \in RspLabels
  BY <1>0, PcFacts DEF rsp_exit, Coros, RspLabels
<1>3. /\ cxt'.list = cxt.list /\ cxt'.pool = cxt.pool /\ cxt'.req_blocked = cxt.req_blocked
      /\ cxt'.rsp_blocked = cxt.rsp_blocked /\ cxt'.rsp_will_exited = cxt.rsp_will_exited
      /\ cxt' = [list |-> cxt'.list, pool |-> cxt'.pool,
                 req_blocked |-> cxt'.req_blocked, rsp_blocked |-> cxt'.rsp_blocked,
                 req_will_exit |-> cxt'.req_will_exit,
                 rsp_will_exited |-> cxt'.rsp_will_exited]
  BY <1>0, <1>1 DEF CxtOk
<1>4. NetStep(net, net', {Client}, exiting)
  BY <1>0, <1>1, DecrefFacts DEF Conns
<1>5. PICK e : e = [to |-> "req", more |-> FALSE]
  OBVIOUS
<1>6. e \in Events /\ e.to = "req" /\ e = HP!Notice("req", FALSE)
  BY <1>5 DEF Events, HP!Notice
<1>7. HP!FirstEvent /\ RspState = "exit" /\ RspState' = "done" /\ ReqState' = ReqState
  BY <1>0, <1>1, <1>2 DEF IInv, HP!IInv, RspState, ReqState
<1>8. pc["req"] # "init"
  BY <1>7 DEF HP!FirstEvent, ReqState
<1>9. cxt.req_blocked <=> pc["req"] = "fin"
  BY <1>0, <1>8 DEF CxtOk
<1>10. queue \in Seq(Events) /\ OneDns(queue)
  BY <1>0 DEF Loop
<1>11. cxt.req_blocked => Posted(queue, e, queue') /\ Notices(queue') = Append(Notices(queue), e)
  BY <1>1, <1>5, <1>6, <1>10, NoticesPost
<1>12. ~cxt.req_blocked => queue' = queue
  BY <1>1
<1>13. Control'
  BY <1>0, <1>1, <1>2 DEF Control, env, Coros
<1>14. Loop'
  <2>1. queue' \in Seq(Events) /\ OneDns(queue')
    BY <1>10, <1>11, <1>12 DEF Posted
  <2> QED
    BY <1>0, <1>1, <1>2, <2>1 DEF Loop, env
<1>15. ReqNotice'
  <2>1. \A i \in 1 .. Len(queue) : queue[i].to # "req"
    BY <1>0, <1>8 DEF ReqNotice
  <2>2. CASE ~cxt.req_blocked
    BY <1>12, <2>1, <2>2 DEF ReqNotice
  <2>3. CASE cxt.req_blocked
    <3>1. Posted(queue, e, queue')
      BY <1>11, <2>3
    <3>2. \A i \in 1 .. Len(queue') : queue'[i].to = "req" => i = Len(queue) + 1
      BY <2>1, <3>1 DEF Posted
    <3> QED
      BY <1>2, <1>9, <2>3, <3>2 DEF ReqNotice
  <2> QED
    BY <2>2, <2>3
<1>16. CxtOk'
  BY <1>0, <1>2, <1>3 DEF CxtOk
<1>17. Numbers'
  BY <1>0, <1>2, <1>3, NumbersKept DEF Busy
<1>18. Serving'
  <2>1. pc["req"] \in Attempt \ {"connect"} => srv \notin {Client}
    BY <1>0, SessionAssumption DEF Serving
  <2> QED
    BY <1>0, <1>2, <1>3, <1>4, <2>1, ServingKept DEF NetStep, PoolKept
<1>19. Handlers'
  <2>1. Sites("req")' \subseteq Sites("req")
    BY <1>0, <1>4, SitesFewer DEF NetStep, env, Coros
  <2> QED
    BY <1>0, <1>1, <1>2, <2>1 DEF Handlers
<1>20. HP!RspExit
  <2>1. HP!ReqBlocked = cxt.req_blocked
    BY <1>0 DEF HP!ReqBlocked, CxtOk, ReqState
  <2>2. (armed \ {"dns"})' = (armed \ {"dns"}) \ {"rsp"}
    BY <1>1
  <2>3. Notices(queue)' = IF HP!ReqBlocked THEN Append(Notices(queue), HP!Notice("req", FALSE))
                          ELSE Notices(queue)
    BY <1>6, <1>11, <1>12, <2>1
  <2> QED
    BY <1>0, <1>7, <2>2, <2>3 DEF HP!RspExit
<1>21. NetOk(net, exiting)'
  BY <1>4 DEF NetStep, env
<1> QED
  BY <1>13, <1>14, <1>15, <1>16, <1>17, <1>18, <1>19, <1>20, <1>21
     DEF Own, Sim, HP!Next, HP!RspStep
-----------------------------------------------------------------------------
(***************************************************************************)
(* The steps of the main loop.                                             *)
(***************************************************************************)
\* Where a resumed coroutine goes on.
LEMMA ResumedLabels ==
  ASSUME Control, run = "main", NEW k \in Coros, pc[k] # "done", NEW ret
  PROVE  /\ k = "req" => Resumed(k, ret) \in ReqLabels \ Paused
         /\ k = "rsp" => Resumed(k, ret) \in RspLabels \ Paused
         /\ k = "req" => /\ pc[k] \in Unlisted <=> Resumed(k, ret) \in Unlisted
                         /\ pc[k] \in Using <=> Resumed(k, ret) \in Using
                         /\ pc[k] \in Attempt <=> Resumed(k, ret) \in Attempt
                         /\ Resumed(k, ret) = "connect" => pc[k] = "connect"
         /\ k = "rsp" => (Resumed(k, ret) \in Busy => pc[k] \in Busy)
         /\ pc[k] # "clean" /\ pc[k] # "exit"
<1>1. /\ pc[k] \in (IF k = "req" THEN ReqLabels ELSE RspLabels) \ {"clean", "exit", "done"}
  BY DEF Control, Coros, ReqLabels, RspLabels
<1>2. CASE k = "req"
  <2>1. pc[k] \in ReqLabels \ {"clean", "done"}
    BY <1>1, <1>2
  <2>2. CASE pc[k] \in {"init", "fin", "dns_wait", "conn_wait"}
    BY <1>2, <2>2 DEF Resumed, ReqLabels, Paused, EventWaits, Unlisted, Using, Attempt
  <2>3. CASE pc[k] \notin {"init", "fin", "dns_wait", "conn_wait"}
    <3>1. pc[k] \notin Paused /\ Resumed(k, ret) = pc[k]
      BY <2>1, <2>3 DEF Resumed, ReqLabels, Paused, EventWaits
    <3> QED
      BY <1>1, <1>2, <2>1, <3>1
  <2> QED
    BY <2>2, <2>3
<1>3. CASE k = "rsp"
  <2>1. pc[k] \in RspLabels \ {"exit", "done"}
    BY <1>1, <1>3
  <2>2. CASE pc[k] \in {"init", "idle"}
    BY <1>3, <2>2 DEF Resumed, RspLabels, Paused, EventWaits, Busy
  <2>3. CASE pc[k] \notin {"init", "idle"}
    <3>1. pc[k] \notin Paused /\ Resumed(k, ret) = pc[k]
      BY <2>1, <2>3 DEF Resumed, RspLabels, Paused, EventWaits
    <3> QED
      BY <1>1, <1>3, <2>1, <3>1
  <2> QED
    BY <2>2, <2>3
<1> QED
  BY <1>2, <1>3 DEF Coros

\* The main loop resumes a coroutine that is alive.
LEMMA ResumeFacts ==
  ASSUME IInv, UNCHANGED env, run = "main", NEW k \in Coros, pc[k] # "done",
         NEW ret \in {-1, 0, 1}, async_resume(k, ret, net),
         UNCHANGED <<cur, at, srv, forwarded, answered>>
  PROVE  /\ Control' /\ CxtOk' /\ Numbers' /\ Serving' /\ NetOk(net, exiting)'
         /\ run' = k /\ net' = net /\ HP!MainRuns
         /\ pc'[k] = Resumed(k, ret) /\ \A j \in Coros : j # k => pc'[j] = pc[j]
         /\ k = "req" => RspState' = RspState /\ ReqState' = HP!ResumeReq
         /\ k = "rsp" => ReqState' = ReqState /\ RspState' = HP!ResumeRsp(ret = 0)
<1>0. /\ Control /\ CxtOk /\ Numbers /\ Serving /\ NetOk(net, exiting)
  BY DEF IInv, Own
<1>1. /\ pc' = [pc EXCEPT ![k] = Resumed(k, ret)] /\ run' = k /\ net' = net
      /\ again' = (pc[k] = Resumed(k, ret))
      /\ cxt' = IF pc[k] \notin EventWaits THEN cxt
                ELSE IF k = "req" THEN [cxt EXCEPT !.req_blocked = FALSE]
                ELSE [cxt EXCEPT !.rsp_blocked = FALSE]
  BY DEF async_resume
<1>2. PICK l : l = Resumed(k, ret)
  OBVIOUS
<1>3. /\ k = "req" => l \in ReqLabels \ Paused
      /\ k = "rsp" => l \in RspLabels \ Paused
      /\ k = "req" => /\ pc[k] \in Unlisted <=> l \in Unlisted
                      /\ pc[k] \in Using <=> l \in Using
                      /\ pc[k] \in Attempt <=> l \in Attempt
                      /\ l = "connect" => pc[k] = "connect"
      /\ k = "rsp" => (l \in Busy => pc[k] \in Busy)
      /\ pc[k] # "clean" /\ pc[k] # "exit"
  BY <1>0, <1>2, ResumedLabels
<1>4. /\ pc' \in [Coros -> ReqLabels \cup RspLabels] /\ pc'[k] = l
      /\ \A j \in Coros : j # k => pc'[j] = pc[j]
      /\ "req" \in Coros /\ "rsp" \in Coros
  <2>1. l \in ReqLabels \cup RspLabels
    BY <1>3 DEF Coros
  <2> QED
    BY <1>0, <1>1, <1>2, <2>1, PcFacts DEF Coros
<1>5. Control'
  <2>1. pc'["req"] \in ReqLabels /\ pc'["rsp"] \in RspLabels
    BY <1>0, <1>3, <1>4 DEF Control, Coros
  <2>2. run' \in Coros /\ pc'[run'] \notin Paused
    BY <1>1, <1>3, <1>4 DEF Coros
  <2>3. /\ pc'["req"] = "clean" => run' = "req"
        /\ pc'["rsp"] = "exit" => run' = "rsp"
    BY <1>0, <1>1, <1>4 DEF Control
  <2>4. again' \in BOOLEAN
    BY <1>1
  <2> QED
    BY <1>0, <1>4, <2>1, <2>2, <2>3, <2>4 DEF Control, env
<1>6. /\ cxt'.list = cxt.list /\ cxt'.pool = cxt.pool
      /\ cxt'.rsp_will_exited = cxt.rsp_will_exited
      /\ cxt' = [list |-> cxt'.list, pool |-> cxt'.pool,
                 req_blocked |-> cxt'.req_blocked, rsp_blocked |-> cxt'.rsp_blocked,
                 req_will_exit |-> cxt'.req_will_exit,
                 rsp_will_exited |-> cxt'.rsp_will_exited]
      /\ cxt'.req_blocked = IF k = "req" /\ pc[k] \in EventWaits THEN FALSE ELSE cxt.req_blocked
      /\ cxt'.rsp_blocked = IF k = "rsp" /\ pc[k] \in EventWaits THEN FALSE ELSE cxt.rsp_blocked
  <2>1. CASE pc[k] \notin EventWaits
    BY <1>0, <1>1, <2>1 DEF CxtOk
  <2>2. CASE pc[k] \in EventWaits /\ k = "req"
    BY <1>0, <1>1, <2>2 DEF CxtOk
  <2>3. CASE pc[k] \in EventWaits /\ k = "rsp"
    BY <1>0, <1>1, <2>3 DEF CxtOk
  <2> QED
    BY <2>1, <2>2, <2>3 DEF Coros
<1>7. CxtOk'
  <2>1. cxt'.req_blocked = (pc'["req"] \in {"init", "fin"})
    <3>1. CASE k = "req"
      <4>1. ~(pc'["req"] \in {"init", "fin"})
        BY <1>3, <1>4, <3>1 DEF Paused, EventWaits
      <4>2. CASE pc["req"] \in EventWaits
        <5>1. cxt'.req_blocked = FALSE
          BY <1>6, <3>1, <4>2
        <5>2. (pc'["req"] \in {"init", "fin"}) = FALSE
          BY <4>1
        <5> QED
          BY <5>1, <5>2
      <4>3. CASE pc["req"] \notin EventWaits
        <5>1. ~(pc["req"] \in {"init", "fin"}) /\ cxt'.req_blocked = cxt.req_blocked
          BY <1>6, <3>1, <4>3 DEF EventWaits
        <5> QED
          BY <1>0, <4>1, <5>1 DEF CxtOk
      <4> QED
        BY <4>2, <4>3
    <3>2. CASE k # "req"
      BY <1>0, <1>4, <1>6, <3>2 DEF CxtOk
    <3> QED
      BY <3>1, <3>2
  <2>2. cxt'.rsp_blocked = (pc'["rsp"] \in {"init", "idle"})
    <3>1. CASE k = "rsp"
      <4>1. ~(pc'["rsp"] \in {"init", "idle"})
        BY <1>3, <1>4, <3>1 DEF Paused, EventWaits
      <4>2. CASE pc["rsp"] \in EventWaits
        <5>1. cxt'.rsp_blocked = FALSE
          BY <1>6, <3>1, <4>2
        <5>2. (pc'["rsp"] \in {"init", "idle"}) = FALSE
          BY <4>1
        <5> QED
          BY <5>1, <5>2
      <4>3. CASE pc["rsp"] \notin EventWaits
        <5>1. ~(pc["rsp"] \in {"init", "idle"}) /\ cxt'.rsp_blocked = cxt.rsp_blocked
          BY <1>6, <3>1, <4>3 DEF EventWaits
        <5> QED
          BY <1>0, <4>1, <5>1 DEF CxtOk
      <4> QED
        BY <4>2, <4>3
    <3>2. CASE k # "rsp"
      BY <1>0, <1>4, <1>6, <3>2 DEF CxtOk
    <3> QED
      BY <3>1, <3>2
  <2> QED
    BY <1>0, <1>6, <2>1, <2>2 DEF CxtOk
<1>8. Numbers'
  <2>1. /\ pc'["req"] \in Unlisted => pc["req"] \in Unlisted
        /\ pc'["req"] = "done" <=> pc["req"] = "done"
        /\ pc'["rsp"] \in Busy => pc["rsp"] \in Busy
    BY <1>3, <1>4 DEF Coros, Paused
  <2> QED
    BY <1>0, <1>6, <2>1 DEF Numbers, env, Hosts
<1>9. Serving'
  <2>1. /\ pc'["req"] \in Using => pc["req"] \in Using
        /\ pc'["req"] \in Attempt <=> pc["req"] \in Attempt
    BY <1>3, <1>4 DEF Coros
  <2>2. /\ Ep' = Ep /\ Addrs' = Addrs /\ EpOf' = EpOf
        /\ UNCHANGED exiting /\ cxt'.pool = cxt.pool
    BY <1>6 DEF env, Ep, Addrs, EpOf
  <2>3. pc'["req"] \in Attempt \ {"connect"} => pc["req"] \in Attempt \ {"connect"}
    <3>1. k = "req" /\ pc[k] = "connect" => l = "connect"
      BY <1>2 DEF Resumed
    <3> QED
      BY <1>3, <1>4, <3>1 DEF Coros
  <2> QED
    BY <1>0, <1>1, <2>1, <2>2, <2>3 DEF Serving, Closed
<1>10. HP!MainRuns
  BY <1>0 DEF HP!MainRuns, HP!ReqRuns, HP!RspRuns, ReqState, RspState, Control
<1>11. ASSUME k = "req" PROVE RspState' = RspState /\ ReqState' = HP!ResumeReq
  <2>1. RspState' = RspState
    BY <1>1, <1>4, <1>11 DEF RspState
  <2>2. CASE pc["req"] = "init"
    BY <1>1, <1>2, <1>4, <1>11, <2>1, <2>2 DEF Resumed, ReqState, HP!ResumeReq
  <2>3. CASE pc["req"] = "fin"
    BY <1>1, <1>2, <1>4, <1>11, <2>1, <2>3 DEF Resumed, ReqState, HP!ResumeReq
  <2>4. CASE pc["req"] \notin {"init", "fin"}
    <3>1. ReqState = "io"
      BY <1>3, <1>11, <2>4 DEF ReqState
    <3>2. l \notin {"init", "fin", "clean", "done"}
      BY <1>2, <1>3, <1>11, <2>4 DEF Resumed, Paused, EventWaits
    <3> QED
      BY <1>1, <1>4, <1>11, <2>1, <3>1, <3>2 DEF ReqState, HP!ResumeReq
  <2> QED
    BY <2>1, <2>2, <2>3, <2>4
<1>12. ASSUME k = "rsp" PROVE ReqState' = ReqState /\ RspState' = HP!ResumeRsp(ret = 0)
  <2>1. ReqState' = ReqState
    BY <1>1, <1>4, <1>12 DEF ReqState
  <2>2. CASE pc["rsp"] = "init"
    BY <1>1, <1>2, <1>4, <1>12, <2>1, <2>2 DEF Resumed, RspState, HP!ResumeRsp
  <2>3. CASE pc["rsp"] = "idle"
    BY <1>1, <1>2, <1>4, <1>12, <2>1, <2>3 DEF Resumed, RspState, HP!ResumeRsp
  <2>4. CASE pc["rsp"] \notin {"init", "idle"}
    <3>1. RspState = "io"
      BY <1>3, <1>12, <2>4 DEF RspState
    <3>2. l \notin {"init", "idle", "exit", "done"}
      <4>1. pc["rsp"] \in RspLabels
        BY <1>0 DEF Control
      <4> QED
        BY <1>2, <1>3, <1>12, <2>4, <4>1 DEF Resumed, Paused, EventWaits, RspLabels
    <3> QED
      BY <1>1, <1>4, <1>12, <2>1, <3>1, <3>2 DEF RspState, HP!ResumeRsp
  <2> QED
    BY <2>2, <2>3, <2>4
<1>13. NetOk(net, exiting)'
  BY <1>0, <1>1 DEF env
<1> QED
  BY <1>1, <1>2, <1>4, <1>5, <1>7, <1>8, <1>9, <1>10, <1>11, <1>12, <1>13

\* The first event is gone.
LEMMA NoticePopped ==
  ASSUME ReqNotice, Popped(queue, queue'),
         \/ pc'["req"] = pc["req"] /\ (pc["rsp"] = "done" => pc'["rsp"] = "done")
         \/ queue[1].to = "req"
         \/ pc["req"] \notin {"init", "fin"}
  PROVE  ReqNotice'
<1>0. Len(queue) \in Nat /\ Len(queue) >= 1
  BY DEF Popped
<1>1. \A i \in 1 .. Len(queue') : i + 1 \in 1 .. Len(queue) /\ queue'[i] = queue[i + 1]
  BY PoppedAt
<1>2. CASE pc'["req"] = pc["req"] /\ (pc["rsp"] = "done" => pc'["rsp"] = "done")
  <2> SUFFICES ASSUME NEW i \in 1 .. Len(queue'), queue'[i].to = "req"
               PROVE  /\ pc'["req"] \in {"init", "fin"}
                      /\ pc'["req"] = "fin" => pc'["rsp"] = "done"
                      /\ \A j \in 1 .. Len(queue') : queue'[j].to = "req" => i = j
    BY DEF ReqNotice
  <2>1. /\ pc["req"] \in {"init", "fin"}
        /\ pc["req"] = "fin" => pc["rsp"] = "done"
        /\ \A j \in 1 .. Len(queue) : queue[j].to = "req" => i + 1 = j
    BY <1>1 DEF ReqNotice
  <2>2. ASSUME NEW j \in 1 .. Len(queue'), queue'[j].to = "req" PROVE i = j
    <3>1. i + 1 = j + 1
      BY <1>1, <2>1, <2>2
    <3> QED
      BY <3>1
  <2> QED
    BY <1>2, <2>1, <2>2
<1>3. ASSUME NEW i \in 1 .. Len(queue'), queue'[i].to = "req", queue[1].to = "req"
      PROVE  FALSE
  <2>1. i + 1 \in 1 .. Len(queue) /\ queue[i + 1].to = "req" /\ 1 \in 1 .. Len(queue)
    BY <1>0, <1>1, <1>3
  <2>2. 1 = i + 1
    BY <1>3, <2>1 DEF ReqNotice
  <2> QED
    BY <2>2
<1>4. ASSUME NEW i \in 1 .. Len(queue'), queue'[i].to = "req", pc["req"] \notin {"init", "fin"}
      PROVE  FALSE
  <2>1. i + 1 \in 1 .. Len(queue) /\ queue[i + 1].to = "req"
    BY <1>1, <1>4
  <2> QED
    BY <1>4, <2>1 DEF ReqNotice
<1> QED
  BY <1>2, <1>3, <1>4 DEF ReqNotice

\* An event is handled.
LEMMA MainEvents ==
  ASSUME IInv, UNCHANGED env, event_work
  PROVE  Sim
<1>0. /\ Control /\ Loop /\ ReqNotice /\ CxtOk /\ Numbers /\ Serving /\ Handlers
      /\ NetOk(net, exiting) /\ run = "main" /\ queue # <<>> /\ queue' = Tail(queue)
      /\ UNCHANGED <<armed, batch, agenda, cur, at, srv, forwarded, answered>>
  BY DEF IInv, Own, event_work, MainTurn, Runs, look, hist
<1>1. queue \in Seq(Events) /\ OneDns(queue)
  BY <1>0 DEF Loop
<1>2. /\ Popped(queue, queue')
      /\ queue[1].to = "dns" => Notices(queue') = Notices(queue)
      /\ queue[1].to # "dns" => /\ Notices(queue) # <<>> /\ Head(Notices(queue)) = queue[1]
                                /\ Tail(Notices(queue)) = Notices(queue')
  BY <1>0, <1>1, NoticesPop
<1>3. PICK e : e = queue[1]
  OBVIOUS
<1>4. Head(queue) = e /\ e \in Events /\ e.to \in {"req", "rsp", "dns"} /\ e.more \in BOOLEAN
  BY <1>2, <1>3 DEF Popped, Events
<1>5. queue' \in Seq(Events) /\ OneDns(queue')
  BY <1>2 DEF Popped
<1>6. HP!MainRuns
  BY <1>0 DEF HP!MainRuns, HP!ReqRuns, HP!RspRuns, ReqState, RspState, Control
<1>7. CASE e.to \notin armed
  <2>1. UNCHANGED <<pc, run, again, cxt, net>>
    BY <1>4, <1>7 DEF event_work
  <2>2. Control' /\ CxtOk'
    BY <1>0, <2>1 DEF Control, CxtOk, env
  <2>3. Loop'
    BY <1>0, <1>5, <2>1 DEF Loop, env
  <2>4. ReqNotice'
    BY <1>0, <1>2, <2>1, NoticePopped
  <2>5. Numbers'
    BY <1>0, <2>1, NumbersKept DEF Numbers
  <2>6. Serving'
    BY <1>0, <2>1, ConnTypes, ServingKept DEF PoolKept, NetStep
  <2>7. Handlers'
    <3>1. Sites("req")' = Sites("req") /\ Sites("rsp")' = Sites("rsp")
      BY <1>0, <2>1 DEF Sites, env
    <3> QED
      BY <1>0, <2>1, <3>1 DEF Handlers
  <2>8. Own'
    BY <1>0, <2>1, <2>2, <2>3, <2>4, <2>5, <2>6, <2>7 DEF Own, env
  <2>9. ReqState' = ReqState /\ RspState' = RspState
    BY <2>1 DEF ReqState, RspState
  <2>10. CASE e.to = "dns"
    <3>1. UNCHANGED HP!vars
      BY <1>0, <1>2, <1>3, <2>9, <2>10, HandshakeStutter
    <3> QED
      BY <2>8, <3>1, SimQuiet
  <2>11. CASE e.to # "dns"
    <3>1. HP!EventWork
      BY <1>0, <1>2, <1>3, <1>6, <1>7, <2>9, <2>11 DEF HP!EventWork
    <3> QED
      BY <2>8, <3>1 DEF Sim, HP!Next, HP!MainStep
  <2> QED
    BY <2>10, <2>11
<1>8. CASE e.to \in armed
  <2>1. PICK k : k = Owner(e.to)
    OBVIOUS
  <2>2. PICK ret : ret = IF e.more THEN 0 ELSE 1
    OBVIOUS
  <2>3. k \in Coros /\ ret \in {-1, 0, 1} /\ (ret = 0) = e.more /\ (k = "rsp" <=> e.to = "rsp")
    BY <1>4, <2>1, <2>2 DEF Owner, Coros
  <2>4. async_resume(k, ret, net)
    BY <1>4, <1>8, <2>1, <2>2 DEF event_work
  <2>5. HP!ArmedWhileAlive
    BY DEF IInv, HP!IInv
  <2>6. e.to = "dns" => pc["req"] = "dns_wait"
    BY <1>0, <1>8 DEF Loop
  <2>7. pc[k] # "done"
    <3>1. CASE e.to = "dns"
      BY <1>4, <2>1, <2>6, <3>1 DEF Owner
    <3>2. CASE e.to = "req"
      BY <1>8, <2>1, <2>5, <3>2 DEF Owner, HP!ArmedWhileAlive, ReqState
    <3>3. CASE e.to = "rsp"
      BY <1>8, <2>1, <2>5, <3>3 DEF Owner, HP!ArmedWhileAlive, RspState
    <3> QED
      BY <1>4, <3>1, <3>2, <3>3
  <2>8. /\ Control' /\ CxtOk' /\ Numbers' /\ Serving' /\ NetOk(net, exiting)'
        /\ run' = k /\ net' = net
        /\ pc'[k] = Resumed(k, ret) /\ \A j \in Coros : j # k => pc'[j] = pc[j]
        /\ k = "req" => RspState' = RspState /\ ReqState' = HP!ResumeReq
        /\ k = "rsp" => ReqState' = ReqState /\ RspState' = HP!ResumeRsp(ret = 0)
    BY <1>0, <2>3, <2>4, <2>7, ResumeFacts
  <2>9. /\ e.to = "req" => pc["req"] \in {"init", "fin"}
        /\ k = "req" => pc["req"] \in {"init", "fin", "dns_wait"}
    <3>1. 1 \in 1 .. Len(queue)
      BY <1>2 DEF Popped
    <3>2. e.to = "req" => pc["req"] \in {"init", "fin"}
      BY <1>0, <1>3, <3>1 DEF ReqNotice
    <3> QED
      BY <1>4, <2>3, <2>6, <3>2
  <2>10. Loop'
    <3>1. "dns" \in armed => \/ pc'["req"] = "dns_wait"
                             \/ pc'["req"] = "dns_final" /\ run' = "req"
      <4>1. "dns" \in armed => pc["req"] = "dns_wait"
        BY <1>0 DEF Loop
      <4>2. k = "req" /\ pc["req"] = "dns_wait" => pc'["req"] = "dns_final"
        BY <2>8 DEF Resumed
      <4>3. k = "rsp" => pc'["req"] = pc["req"]
        BY <2>8 DEF Coros
      <4> QED
        BY <2>3, <2>8, <4>1, <4>2, <4>3 DEF Coros
    <3> QED
      BY <1>0, <1>5, <3>1 DEF Loop, env
  <2>11. ReqNotice'
    <3>1. CASE k = "rsp"
      BY <1>0, <1>2, <2>3, <2>7, <2>8, <3>1, NoticePopped DEF Coros
    <3>2. CASE e.to = "req"
      BY <1>0, <1>2, <1>3, <3>2, NoticePopped
    <3>3. CASE e.to = "dns"
      <4>1. pc["req"] \notin {"init", "fin"}
        BY <2>6, <3>3
      <4> QED
        BY <1>0, <1>2, <4>1, NoticePopped
    <3> QED
      BY <1>4, <2>3, <3>1, <3>2, <3>3
  <2>12. Handlers'
    <3>1. Sites("req")' = Sites("req") /\ Sites("rsp")' = Sites("rsp")
      BY <1>0, <2>8 DEF Sites, env
    <3>2. CASE k = "req"
      <4>1. Sites("req") = {}
        BY <1>0, <2>9, <3>2 DEF Handlers
      <4> QED
        BY <1>0, <2>8, <3>1, <3>2, <4>1 DEF Handlers, Coros
    <3>3. CASE k = "rsp"
      <4>1. pc'["rsp"] # "init"
        BY <2>8, <3>3 DEF Control, Paused, EventWaits, Coros
      <4> QED
        BY <1>0, <2>8, <3>1, <3>3, <4>1 DEF Handlers, Coros
    <3> QED
      BY <2>3, <3>2, <3>3 DEF Coros
  <2>13. Own'
    BY <2>8, <2>10, <2>11, <2>12 DEF Own
  <2>14. CASE e.to = "dns"
    <3>1. ReqState = "io" /\ ReqState' = "run" /\ RspState' = RspState
      BY <1>0, <1>4, <2>3, <2>6, <2>8, <2>14 DEF ReqState, HP!ResumeReq, Coros
    <3>2. HP!IoWakeReq
      BY <1>0, <1>2, <1>3, <1>6, <2>14, <3>1 DEF HP!IoWakeReq
    <3> QED
      BY <2>13, <3>2 DEF Sim, HP!Next, HP!MainStep
  <2>15. CASE e.to # "dns"
    <3>1. e.to \in armed \ {"dns"} /\ Head(Notices(queue)) = e
      BY <1>2, <1>3, <1>8, <2>15
    <3>2. IF e.to = "req" THEN ReqState' = HP!ResumeReq /\ RspState' = RspState
          ELSE RspState' = HP!ResumeRsp(e.more) /\ ReqState' = ReqState
      BY <1>4, <2>3, <2>8, <2>15 DEF Coros
    <3>3. HP!EventWork
      BY <1>0, <1>2, <1>3, <1>6, <2>15, <3>1, <3>2 DEF HP!EventWork
    <3> QED
      BY <2>13, <3>3 DEF Sim, HP!Next, HP!MainStep
  <2> QED
    BY <2>14, <2>15
<1> QED
  BY <1>7, <1>8

\* What epoll_wait reports, what the resolver posts and what a peer does do not show.
LEMMA MainQuiet ==
  ASSUME IInv, UNCHANGED env,
         epoll_wait \/ dns_notify_handler \/ \E c \in Conns : PeerCloses(c)
  PROVE  Sim
<1>0. /\ Control /\ Loop /\ ReqNotice /\ CxtOk /\ Numbers /\ Serving /\ Handlers
      /\ NetOk(net, exiting) /\ NetStep(net, net, {}, exiting)
  BY ConnTypes DEF IInv, Own
<1>1. UNCHANGED <<pc, run, again, net, armed, agenda, cxt, cur, at, srv, forwarded, answered>>
  BY DEF epoll_wait, dns_notify_handler, PeerCloses, loop, look, hist
<1>2. Control' /\ CxtOk'
  BY <1>0, <1>1 DEF Control, CxtOk, env
<1>3. Numbers'
  BY <1>0, <1>1, NumbersKept DEF Numbers
<1>4. Serving'
  BY <1>0, <1>1, ServingKept DEF PoolKept, NetStep
<1>5. Handlers'
  <2>1. Sites("req")' = Sites("req") /\ Sites("rsp")' = Sites("rsp")
    BY <1>1 DEF Sites, env
  <2> QED
    BY <1>0, <1>1, <2>1 DEF Handlers
<1>6. ReqState' = ReqState /\ RspState' = RspState
  BY <1>1 DEF ReqState, RspState
<1>7. NetOk(net, exiting)'
  BY <1>0, <1>1 DEF env
<1>8. ASSUME Loop', ReqNotice', Notices(queue') = Notices(queue)
      PROVE  Sim
  <2>1. UNCHANGED HP!vars
    BY <1>1, <1>6, <1>8, HandshakeStutter
  <2> QED
    BY <1>2, <1>3, <1>4, <1>5, <1>7, <1>8, <2>1, SimQuiet DEF Own
<1>9. CASE UNCHANGED queue /\ batch' \subseteq [c : Conns, err : BOOLEAN]
  <2>1. Loop'
    BY <1>0, <1>1, <1>9 DEF Loop, env
  <2>2. ReqNotice'
    BY <1>0, <1>1, <1>9 DEF ReqNotice
  <2> QED
    BY <1>8, <1>9, <2>1, <2>2
<1>10. CASE epoll_wait
  <2>1. net.reg \subseteq Conns
    BY <1>0 DEF NetOk, NetTypes
  <2>2. PICK S \in SUBSET net.reg : batch' = {[c |-> c, err |-> c \in down] : c \in S}
    BY <1>10 DEF epoll_wait
  <2>3. ASSUME NEW b \in batch' PROVE b \in [c : Conns, err : BOOLEAN]
    <3>1. PICK c \in S : b = [c |-> c, err |-> c \in down]
      BY <2>2, <2>3
    <3>2. c \in Conns /\ (c \in down) \in BOOLEAN
      BY <2>1
    <3> QED
      BY <3>1, <3>2
  <2> QED
    BY <1>9, <1>10, <2>3 DEF epoll_wait
<1>11. CASE dns_notify_handler
  <2>1. PICK e : e = [to |-> "dns", more |-> FALSE]
    OBVIOUS
  <2>2. e \in Events /\ e.to = "dns"
    BY <2>1 DEF Events
  <2>3. /\ queue' = Append(queue, e) /\ UNCHANGED batch
        /\ \A i \in 1 .. Len(queue) : queue[i].to # "dns"
    BY <1>11, <2>1 DEF dns_notify_handler
  <2>4. queue \in Seq(Events)
    BY <1>0 DEF Loop
  <2>5. Posted(queue, e, queue') /\ Notices(queue') = Notices(queue)
    BY <2>2, <2>3, <2>4, NoticesResolver
  <2>6. \A i \in 1 .. Len(queue') : \/ i \in 1 .. Len(queue) /\ queue'[i] = queue[i]
                                    \/ queue'[i] = e
    BY <2>5, PostedAt
  <2>7. Loop'
    <3>1. queue' \in Seq(Events) /\ OneDns(queue')
      BY <2>5 DEF Posted
    <3> QED
      BY <1>0, <1>1, <2>3, <3>1 DEF Loop, env
  <2>8. ReqNotice'
    <3>1. \A i \in 1 .. Len(queue') : queue'[i].to = "req" =>
             i \in 1 .. Len(queue) /\ queue[i].to = "req"
      BY <2>2, <2>6
    <3> QED
      BY <1>0, <1>1, <3>1 DEF ReqNotice
  <2> QED
    BY <1>8, <2>5, <2>7, <2>8
<1>12. CASE \E c \in Conns : PeerCloses(c)
  BY <1>0, <1>9, <1>12 DEF PeerCloses, loop, Loop
<1> QED
  BY <1>10, <1>11, <1>12

\* The first call of the agenda is gone.
LEMMA SitesPopped ==
  ASSUME agenda \in Seq(Calls), agenda # <<>>, agenda' = Tail(agenda), UNCHANGED doomed,
         Fewer(net, net'), NEW k \in Coros
  PROVE  /\ agenda' \in Seq(Calls) /\ Head(agenda) \in Calls
         /\ Head(agenda).k = k => <<"call", 1>> \in Sites(k)
         /\ \A x \in Sites(k)' : x \notin Sites(k) \/ x = <<"call", 1>> =>
                \E i \in 1 .. Len(agenda) - 1 : x = <<"call", i>> /\ <<"call", i + 1>> \in Sites(k)
         /\ \A i : <<"call", i>> \in Sites(k)' => <<"call", i + 1>> \in Sites(k) /\ i \in Nat
<1>1. /\ agenda' \in Seq(Calls) /\ Len(agenda') = Len(agenda) - 1 /\ Head(agenda) \in Calls
      /\ \A i \in 1 .. Len(agenda') : agenda'[i] = agenda[i + 1]
  BY HeadTailProperties
<1>2. Len(agenda) \in Nat /\ Len(agenda) >= 1 /\ Head(agenda) = agenda[1]
  BY EmptySeq
<1>3. Head(agenda).k = k => <<"call", 1>> \in Sites(k)
  BY <1>2 DEF Sites
<1>4. ASSUME NEW i, <<"call", i>> \in Sites(k)'
      PROVE  i \in 1 .. Len(agenda) - 1 /\ <<"call", i + 1>> \in Sites(k) /\ i \in Nat
  <2>1. i \in 1 .. Len(agenda') /\ agenda'[i].k = k
    BY <1>4 DEF Sites
  <2>2. i + 1 \in 1 .. Len(agenda) /\ agenda[i + 1].k = k /\ i \in 1 .. Len(agenda) - 1
    BY <1>1, <1>2, <2>1
  <2> QED
    BY <2>2 DEF Sites
<1>5. ASSUME NEW x \in Sites(k)', x \notin Sites(k) \/ x = <<"call", 1>>
      PROVE  \E i : x = <<"call", i>>
  BY <1>5, NoNone DEF Sites, Fewer
<1> QED
  BY <1>1, <1>3, <1>4, <1>5

\* So req, if the call was its own, is registered nowhere else; otherwise as before.
LEMMA CallTaken ==
  ASSUME Handlers, agenda \in Seq(Calls), agenda # <<>>, agenda' = Tail(agenda),
         UNCHANGED doomed, Fewer(net, net')
  PROVE  /\ Head(agenda).k = "req" => Sites("req")' = {}
         /\ \A x, y \in Sites("req")' : x = y
         /\ Sites("req")' # {} => Sites("req") # {}
         /\ Sites("rsp") = {} => Sites("rsp")' = {}
<1>0. "req" \in Coros /\ "rsp" \in Coros
  BY DEF Coros
<1>1. /\ Head(agenda).k = "req" => <<"call", 1>> \in Sites("req")
      /\ \A x \in Sites("req")' : x \notin Sites("req") \/ x = <<"call", 1>> =>
             \E i \in 1 .. Len(agenda) - 1 :
                 x = <<"call", i>> /\ <<"call", i + 1>> \in Sites("req")
      /\ \A i : <<"call", i>> \in Sites("req")' =>
             <<"call", i + 1>> \in Sites("req") /\ i \in Nat
  BY <1>0, SitesPopped
<1>2. \A x \in Sites("rsp")' : x \notin Sites("rsp") \/ x = <<"call", 1>> =>
          \E i \in 1 .. Len(agenda) - 1 : x = <<"call", i>> /\ <<"call", i + 1>> \in Sites("rsp")
  BY <1>0, SitesPopped
<1>3. \A x, y \in Sites("req") : x = y
  BY DEF Handlers
<1>4. ASSUME Head(agenda).k = "req", NEW x \in Sites("req")' PROVE FALSE
  <2>1. x = <<"call", 1>> \/ x \notin Sites("req")
    BY <1>1, <1>3, <1>4
  <2>2. PICK i \in 1 .. Len(agenda) - 1 : <<"call", i + 1>> \in Sites("req")
    BY <1>1, <2>1
  <2>3. <<"call", i + 1>> = <<"call", 1>>
    BY <1>1, <1>3, <1>4, <2>2
  <2>4. i + 1 = 1
    BY <2>3
  <2> QED
    BY <2>4
<1>5. ASSUME NEW x \in Sites("req")', NEW y \in Sites("req")' PROVE x = y
  <2>1. CASE \E i : x = <<"call", i>>
    <3>1. PICK i : x = <<"call", i>>
      BY <2>1
    <3>2. <<"call", i + 1>> \in Sites("req") /\ i \in Nat
      BY <1>1, <3>1
    <3>3. PICK j : y = <<"call", j>>
      <4>1. y \in Sites("req") => y = <<"call", i + 1>>
        BY <1>3, <3>2
      <4> QED
        BY <1>1, <4>1
    <3>4. <<"call", j + 1>> \in Sites("req") /\ j \in Nat
      BY <1>1, <3>3
    <3>5. <<"call", i + 1>> = <<"call", j + 1>>
      BY <1>3, <3>2, <3>4
    <3>6. i + 1 = j + 1
      BY <3>5
    <3>7. i = j
      BY <3>2, <3>4, <3>6
    <3> QED
      BY <3>1, <3>3, <3>7
  <2>2. CASE ~\E i : x = <<"call", i>>
    <3>1. x \in Sites("req")
      BY <1>1, <2>2
    <3>2. y \in Sites("req")
      <4> SUFFICES ASSUME y \notin Sites("req") PROVE FALSE
        OBVIOUS
      <4>1. PICK j : <<"call", j + 1>> \in Sites("req")
        BY <1>1
      <4>2. x = <<"call", j + 1>>
        BY <1>3, <3>1, <4>1
      <4> QED
        BY <2>2, <4>2
    <3> QED
      BY <1>3, <3>1, <3>2
  <2> QED
    BY <2>1, <2>2
<1>6. Sites("req")' # {} => Sites("req") # {}
  BY <1>1
<1>7. Sites("rsp") = {} => Sites("rsp")' = {}
  BY <1>2
<1> QED
  BY <1>4, <1>5, <1>6, <1>7

\* A handler of net_pull is called.
LEMMA MainCalls ==
  ASSUME IInv, UNCHANGED env, conn_epoll_handler
  PROVE  Sim
<1>0. /\ Control /\ Loop /\ ReqNotice /\ CxtOk /\ Numbers /\ Serving /\ Handlers
      /\ NetOk(net, exiting) /\ exiting \in BOOLEAN
      /\ run = "main" /\ agenda # <<>> /\ agenda' = Tail(agenda)
      /\ UNCHANGED <<queue, armed, batch, cur, at, srv, forwarded, answered>>
  BY DEF IInv, Own, Control, conn_epoll_handler, Runs, look, hist
<1>1. PICK k : k = Head(agenda).k
  OBVIOUS
<1>2. PICK ret : ret = IF Head(agenda).err THEN -1 ELSE 0
  OBVIOUS
<1>3. async_resume(k, ret, net) /\ ret \in {-1, 0, 1}
  BY <1>1, <1>2 DEF conn_epoll_handler
<1>4. agenda \in Seq(Calls) /\ UNCHANGED <<world, exiting, doomed>>
  BY <1>0 DEF Loop, env
<1>5. /\ agenda' \in Seq(Calls) /\ Head(agenda) \in Calls
  BY <1>0, <1>4, HeadTailProperties
<1>6. k \in Coros
  BY <1>1, <1>5 DEF Calls
<1>7. ASSUME Fewer(net, net')
      PROVE  /\ k = "req" => Sites("req")' = {}
             /\ \A x, y \in Sites("req")' : x = y
             /\ Sites("req")' # {} => Sites("req") # {}
             /\ Sites("rsp") = {} => Sites("rsp")' = {}
  BY <1>0, <1>1, <1>4, <1>7, CallTaken
<1>8. <<"call", 1>> \in Sites(k)
  <2>1. Len(agenda) \in Nat /\ Len(agenda) >= 1 /\ Head(agenda) = agenda[1]
    BY <1>0, <1>4, EmptySeq
  <2> QED
    BY <1>1, <2>1 DEF Sites
<1>9. /\ k = "req" => pc["req"] \notin {"init", "fin", "dns_wait", "done"}
      /\ k = "rsp" => pc["rsp"] # "init"
  BY <1>0, <1>8 DEF Handlers
<1>10. CASE pc[k] = "done"
  <2>1. net' = [net EXCEPT !.fault = "freed"] /\ UNCHANGED <<pc, run, again, cxt>>
    BY <1>3, <1>10 DEF async_resume
  <2>2. NetStep(net, net', {}, exiting)
    BY <1>0, <2>1, FaultFacts
  <2>3. Control' /\ CxtOk'
    BY <1>0, <1>4, <2>1 DEF Control, CxtOk
  <2>4. Loop'
    BY <1>0, <1>4, <1>5, <2>1 DEF Loop
  <2>5. ReqNotice'
    BY <1>0, <2>1 DEF ReqNotice
  <2>6. Numbers'
    BY <1>0, <2>1, NumbersKept DEF Numbers
  <2>7. Serving'
    BY <1>0, <2>1, <2>2, ServingKept DEF PoolKept, NetStep
  <2>8. Handlers'
    BY <1>0, <1>7, <2>1, <2>2 DEF Handlers, NetStep
  <2>9. UNCHANGED HP!vars
    <3>1. ReqState' = ReqState /\ RspState' = RspState
      BY <2>1 DEF ReqState, RspState
    <3> QED
      BY <1>0, <3>1, HandshakeStutter
  <2>10. NetOk(net, exiting)'
    BY <1>4, <2>2 DEF NetStep
  <2> QED
    BY <2>3, <2>4, <2>5, <2>6, <2>7, <2>8, <2>9, <2>10, SimQuiet DEF Own
<1>11. CASE pc[k] # "done"
  <2>1. /\ Control' /\ CxtOk' /\ Numbers' /\ Serving' /\ NetOk(net, exiting)'
        /\ run' = k /\ net' = net /\ HP!MainRuns
        /\ pc'[k] = Resumed(k, ret) /\ \A j \in Coros : j # k => pc'[j] = pc[j]
        /\ k = "req" => RspState' = RspState /\ ReqState' = HP!ResumeReq
        /\ k = "rsp" => ReqState' = ReqState /\ RspState' = HP!ResumeRsp(ret = 0)
    BY <1>0, <1>3, <1>6, <1>11, ResumeFacts
  <2>2. Fewer(net, net')
    BY <2>1 DEF Fewer
  <2>3. Loop'
    <3>1. "dns" \in armed => pc["req"] = "dns_wait"
      BY <1>0 DEF Loop
    <3>2. "dns" \in armed => pc'["req"] = "dns_wait"
      BY <1>6, <1>9, <2>1, <3>1 DEF Coros
    <3> QED
      BY <1>0, <1>4, <1>5, <3>2 DEF Loop
  <2>4. ReqNotice'
    <3>1. CASE k = "req"
      <4>1. \A i \in 1 .. Len(queue) : queue[i].to # "req"
        BY <1>0, <1>9, <3>1 DEF ReqNotice
      <4> QED
        BY <1>0, <4>1 DEF ReqNotice
    <3>2. CASE k = "rsp"
      <4>1. pc'["req"] = pc["req"] /\ pc["rsp"] # "done"
        BY <1>11, <2>1, <3>2 DEF Coros
      <4> QED
        BY <1>0, <4>1 DEF ReqNotice
    <3> QED
      BY <1>6, <3>1, <3>2 DEF Coros
  <2>5. Handlers'
    <3>1. CASE k = "req"
      <4>1. pc'["rsp"] = pc["rsp"]
        BY <2>1, <3>1 DEF Coros
      <4> QED
        BY <1>0, <1>7, <2>2, <3>1, <4>1 DEF Handlers
    <3>2. CASE k = "rsp"
      <4>1. pc'["req"] = pc["req"] /\ run' # "req"
        BY <2>1, <3>2 DEF Coros
      <4>2. pc'["rsp"] # "init"
        BY <2>1, <3>2 DEF Control, Paused, EventWaits, Coros
      <4> QED
        BY <1>0, <1>7, <2>2, <4>1, <4>2 DEF Handlers
    <3> QED
      BY <1>6, <3>1, <3>2 DEF Coros
  <2>6. Own'
    BY <2>1, <2>3, <2>4, <2>5 DEF Own
  <2>7. CASE k = "req"
    <3>1. ReqState = "io"
      BY <1>0, <1>9, <2>7 DEF ReqState, Control
    <3>2. ReqState' = "run" /\ RspState' = RspState
      BY <2>1, <2>7, <3>1 DEF HP!ResumeReq
    <3>3. HP!IoWakeReq
      BY <1>0, <2>1, <3>1, <3>2 DEF HP!IoWakeReq
    <3> QED
      BY <2>6, <3>3 DEF Sim, HP!Next, HP!MainStep
  <2>8. CASE k = "rsp" /\ pc["rsp"] = "idle"
    <3>1. RspState = "idle"
      BY <2>8 DEF RspState
    <3>2. RspState' \in {"run", "exit"} /\ ReqState' = ReqState
      BY <2>1, <2>8, <3>1 DEF HP!ResumeRsp
    <3>3. HP!StaleWakeRsp
      BY <1>0, <2>1, <3>1, <3>2 DEF HP!StaleWakeRsp
    <3> QED
      BY <2>6, <3>3 DEF Sim, HP!Next, HP!MainStep
  <2>9. CASE k = "rsp" /\ pc["rsp"] # "idle"
    <3>1. RspState = "io"
      BY <1>0, <1>9, <1>11, <2>9 DEF RspState, Control
    <3>2. RspState' = "run" /\ ReqState' = ReqState
      BY <2>1, <2>9, <3>1 DEF HP!ResumeRsp
    <3>3. HP!IoWakeRsp
      BY <1>0, <2>1, <3>1, <3>2 DEF HP!IoWakeRsp
    <3> QED
      BY <2>6, <3>3 DEF Sim, HP!Next, HP!MainStep
  <2> QED
    BY <1>6, <2>7, <2>8, <2>9 DEF Coros
<1> QED
  BY <1>10, <1>11

\* The calls of a read handler a and a write handler b.
CallsOf(a, b, s) == /\ s \in Seq(Calls)
                    /\ \A i \in 1 .. Len(s) : s[i].k \in {a, b} \ {None}
                    /\ a # b => \A i, j \in 1 .. Len(s) : s[i].k = s[j].k => i = j

\* net_pull_work and net_pull_done call the read handler, then the write handler.
LEMMA TwoCalls ==
  ASSUME NEW a \in Coros \cup {None}, NEW b \in Coros \cup {None}, NEW err \in BOOLEAN,
         NEW s, s = Call(a, err) \o Call(b, err)
  PROVE  CallsOf(a, b, s)
<1>1. PICK x : x = [k |-> a, err |-> err]
  OBVIOUS
<1>2. PICK y : y = [k |-> b, err |-> err]
  OBVIOUS
<1>3. /\ a # None => x \in Calls /\ x.k = a
      /\ b # None => y \in Calls /\ y.k = b
  BY <1>1, <1>2 DEF Calls
<1>0. ASSUME NEW z \in Calls PROVE <<z>> \in Seq(Calls) /\ Len(<<z>>) = 1 /\ <<z>>[1] = z
  OBVIOUS
<1>4. CASE a = None /\ b = None
  <2>1. s = <<>>
    BY <1>4 DEF Call
  <2> QED
    BY <2>1 DEF CallsOf
<1>5. CASE a # None /\ b = None
  <2>1. s = <<x>>
    BY <1>1, <1>5 DEF Call
  <2>2. s \in Seq(Calls) /\ Len(s) = 1 /\ s[1] = x
    BY <1>0, <1>3, <1>5, <2>1
  <2> QED
    BY <1>3, <1>5, <2>2 DEF CallsOf
<1>6. CASE a = None /\ b # None
  <2>1. s = <<y>>
    BY <1>2, <1>6 DEF Call
  <2>2. s \in Seq(Calls) /\ Len(s) = 1 /\ s[1] = y
    BY <1>0, <1>3, <1>6, <2>1
  <2> QED
    BY <1>3, <1>6, <2>2 DEF CallsOf
<1>7. CASE a # None /\ b # None
  <2>1. s = <<x>> \o <<y>>
    BY <1>1, <1>2, <1>7 DEF Call
  <2>2. s \in Seq(Calls) /\ Len(s) = 2 /\ s[1] = x /\ s[2] = y
    BY <1>3, <1>7, <2>1
  <2> QED
    BY <1>3, <1>7, <2>2 DEF CallsOf
<1> QED
  BY <1>4, <1>5, <1>6, <1>7

\* The handlers at r and w, a and b, are taken out; the others stay.
Moved(a, b, r, w) ==
    /\ r # w
    /\ \A k \in Coros : (a = k => r \in Sites(k)) /\ (b = k => w \in Sites(k))
    /\ \A k \in Coros : \A x \in Sites(k)' :
           (\E i : x = <<"call", i>>) \/ (\E o \in Sites(k) : o # r /\ o # w)
    /\ \A x, y \in Sites("req")' :
           (\E i : x = <<"call", i>>) \/ (\E i : y = <<"call", i>>) \/ x = y

\* They are about to be called.
LEMMA HandlersMoved ==
  ASSUME Handlers, UNCHANGED <<pc, run>>, NEW a, NEW b, CallsOf(a, b, agenda'),
         NEW r, NEW w, Moved(a, b, r, w)
  PROVE  Handlers'
<1> USE DEF Moved
<1>0. "req" \in Coros /\ "rsp" \in Coros
  BY DEF Coros
<1>1. ASSUME NEW k \in Coros, NEW i, <<"call", i>> \in Sites(k)'
      PROVE  /\ i \in 1 .. Len(agenda') /\ agenda'[i].k = k
             /\ k \in {a, b} /\ Sites(k) # {}
  <2>1. i \in 1 .. Len(agenda') /\ agenda'[i].k = k
    BY <1>1 DEF Sites
  <2>2. k \in {a, b}
    BY <2>1 DEF CallsOf
  <2> QED
    BY <2>1, <2>2
<1>2. \A k \in Coros : Sites(k)' # {} => Sites(k) # {}
  BY <1>1
<1>3. \A x, y \in Sites("req") : x = y
  BY DEF Handlers
<1>4. ASSUME NEW x \in Sites("req")', NEW y \in Sites("req")', NEW i, x = <<"call", i>>
      PROVE  x = y
  <2>1. i \in 1 .. Len(agenda') /\ agenda'[i].k = "req" /\ "req" \in {a, b}
    BY <1>0, <1>1, <1>4
  <2>2. ~\E o \in Sites("req") : o # r /\ o # w
    BY <1>0, <1>3, <2>1
  <2>3. PICK j : y = <<"call", j>>
    BY <1>0, <2>2
  <2>4. j \in 1 .. Len(agenda') /\ agenda'[j].k = "req"
    BY <1>0, <1>1, <2>3
  <2>5. a # b
    BY <1>0, <1>3, <2>1
  <2>6. i = j
    BY <2>1, <2>4, <2>5 DEF CallsOf
  <2> QED
    BY <1>4, <2>3, <2>6
<1>5. \A x, y \in Sites("req")' : x = y
  BY <1>4
<1> QED
  BY <1>0, <1>2, <1>5 DEF Handlers

\* An epoll event is taken up: its handlers are taken out.
LEMMA MainTakes ==
  ASSUME IInv, UNCHANGED env, net_pull_work
  PROVE  Sim
<1>0. /\ Control /\ Loop /\ ReqNotice /\ CxtOk /\ Numbers /\ Serving /\ Handlers
      /\ NetOk(net, exiting) /\ agenda = <<>>
      /\ UNCHANGED <<pc, run, again, queue, armed, cxt, cur, at, srv, forwarded, answered,
                     world, exiting, doomed>>
  BY DEF IInv, Own, net_pull_work, MainTurn, look, hist, env
<1>1. PICK e \in batch :
          /\ batch' = batch \ {e}
          /\ IF e.c \notin net.reg THEN UNCHANGED <<net, agenda>>
             ELSE /\ net' = [net EXCEPT !.hr[e.c] = None, !.hw[e.c] = None,
                                        !.stat[e.c] = IF e.err THEN "closed" ELSE @]
                  /\ agenda' = Call(net.hr[e.c], e.err) \o Call(net.hw[e.c], e.err)
  BY DEF net_pull_work
<1>2. PICK c : c = e.c
  OBVIOUS
<1>3. c \in Conns /\ e.err \in BOOLEAN /\ batch' \subseteq [c : Conns, err : BOOLEAN]
  BY <1>0, <1>1, <1>2 DEF Loop
<1>4. Control' /\ CxtOk' /\ ReqNotice'
  BY <1>0 DEF Control, CxtOk, ReqNotice
<1>5. Numbers'
  BY <1>0, NumbersKept DEF Numbers
<1>6. ReqState' = ReqState /\ RspState' = RspState
  BY <1>0 DEF ReqState, RspState
<1>7. UNCHANGED HP!vars
  BY <1>0, <1>6, HandshakeStutter
<1>8. ASSUME agenda' \in Seq(Calls), Handlers', NetStep(net, net', {}, exiting)
      PROVE  Sim
  <2>1. Loop'
    BY <1>0, <1>3, <1>8 DEF Loop
  <2>2. Serving'
    BY <1>0, <1>8, ServingKept DEF PoolKept, NetStep
  <2>3. NetOk(net, exiting)'
    BY <1>0, <1>8 DEF NetStep
  <2> QED
    BY <1>4, <1>5, <1>7, <1>8, <2>1, <2>2, <2>3, SimQuiet DEF Own
<1>9. CASE c \notin net.reg
  <2>1. UNCHANGED <<net, agenda>>
    BY <1>1, <1>2, <1>9
  <2>2. Sites("req")' = Sites("req") /\ Sites("rsp")' = Sites("rsp")
    BY <1>0, <2>1 DEF Sites
  <2>3. Handlers'
    BY <1>0, <2>2 DEF Handlers
  <2>4. agenda' \in Seq(Calls)
    BY <1>0, <2>1 DEF Loop
  <2> QED
    BY <1>8, <2>1, <2>3, <2>4, ConnTypes
<1>10. CASE c \in net.reg
  <2>1. PICK a : a = net.hr[c]
    OBVIOUS
  <2>2. PICK b : b = net.hw[c]
    OBVIOUS
  <2>3. a \in Coros \cup {None} /\ b \in Coros \cup {None}
    BY <1>0, <1>3, <2>1, <2>2 DEF NetOk, NetTypes
  <2>4. agenda' = Call(a, e.err) \o Call(b, e.err)
    BY <1>1, <1>2, <1>10, <2>1, <2>2
  <2>5. CallsOf(a, b, agenda')
    BY <1>3, <2>3, <2>4, TwoCalls
  <2>6. /\ NetShape(net') /\ net'.fd = net.fd /\ net'.reg = net.reg /\ net'.ref = net.ref
        /\ net'.hr = [net.hr EXCEPT ![c] = None] /\ net'.hw = [net.hw EXCEPT ![c] = None]
        /\ \/ net'.stat = [net.stat EXCEPT ![c] = "closed"]
           \/ net'.stat = [net.stat EXCEPT ![c] = net.stat[c]]
    <3>1. NetShape(net)
      BY <1>0 DEF NetOk, NetTypes
    <3>2. net' = [net EXCEPT !.hr[c] = None, !.hw[c] = None,
                             !.stat[c] = IF e.err THEN "closed" ELSE net.stat[c]]
      BY <1>1, <1>2, <1>10
    <3>3. PICK v : v = IF e.err THEN "closed" ELSE net.stat[c]
      OBVIOUS
    <3>4. /\ NetShape(net') /\ net'.fd = net.fd /\ net'.reg = net.reg /\ net'.ref = net.ref
          /\ net'.hr = [net.hr EXCEPT ![c] = None] /\ net'.hw = [net.hw EXCEPT ![c] = None]
          /\ net'.stat = [net.stat EXCEPT ![c] = v]
      BY <3>1, <3>2, <3>3 DEF NetShape
    <3> QED
      BY <3>3, <3>4
  <2>7. NetStep(net, net', {}, exiting)
    <3>1. NetTypes(net')
      BY <1>0, <1>3, <2>6 DEF NetTypes, NetOk
    <3>2. NetOpen(net', exiting)
      <4>1. ASSUME NEW d \in Conns
            PROVE  /\ net'.stat[d] # "closed" => net.stat[d] # "closed"
                   /\ net.hr[d] = None => net'.hr[d] = None
                   /\ net.hw[d] = None => net'.hw[d] = None
        BY <1>0, <1>3, <2>6 DEF NetTypes, NetOk
      <4> QED
        BY <1>0, <2>6, <4>1 DEF NetOk, NetOpen
    <3>3. Fewer(net, net') /\ Keeps(net, net', {})
      BY <1>0, <1>3, <2>6 DEF NetTypes, NetOk, Fewer, Keeps
    <3> QED
      BY <3>1, <3>2, <3>3 DEF NetStep, NetOk
  <2>8. Handlers'
    <3>1. PICK r : r = <<"read", c>>
      OBVIOUS
    <3>2. PICK w : w = <<"write", c>>
      OBVIOUS
    <3>3. r # w
      BY <3>1, <3>2
    <3>4. ASSUME NEW k \in Coros PROVE (a = k => r \in Sites(k)) /\ (b = k => w \in Sites(k))
      BY <1>3, <2>1, <2>2, <3>1, <3>2 DEF Sites
    <3>5. ASSUME NEW k \in Coros, NEW x \in Sites(k)', ~\E i : x = <<"call", i>>
          PROVE  x \in Sites(k) /\ x # r /\ x # w
      <4>1. k # None /\ net.hr \in [Conns -> Coros \cup {None}]
            /\ net.hw \in [Conns -> Coros \cup {None}]
        BY <1>0, NoNone DEF NetOk, NetTypes
      <4>2. CASE \E d \in Conns : x = <<"read", d>> /\ net'.hr[d] = k
        <5>1. PICK d \in Conns : x = <<"read", d>> /\ net'.hr[d] = k
          BY <4>2
        <5>2. d # c /\ net.hr[d] = k
          BY <1>3, <2>6, <4>1, <5>1
        <5> QED
          BY <3>1, <3>2, <5>1, <5>2 DEF Sites
      <4>3. CASE \E d \in Conns : x = <<"write", d>> /\ net'.hw[d] = k
        <5>1. PICK d \in Conns : x = <<"write", d>> /\ net'.hw[d] = k
          BY <4>3
        <5>2. d # c /\ net.hw[d] = k
          BY <1>3, <2>6, <4>1, <5>1
        <5> QED
          BY <3>1, <3>2, <5>1, <5>2 DEF Sites
      <4>4. CASE \E i \in 1 .. Len(doomed) : \/ x = <<"dread", i>> /\ doomed[i].hr = k
                                             \/ x = <<"dwrite", i>> /\ doomed[i].hw = k
        BY <3>1, <3>2, <4>4 DEF Sites
      <4> QED
        BY <1>0, <3>5, <4>2, <4>3, <4>4 DEF Sites
    <3>6. \A x, y \in Sites("req") : x = y
      BY <1>0 DEF Handlers
    <3>7. "req" \in Coros
      BY DEF Coros
    <3>8. \A k \in Coros : \A x \in Sites(k)' :
             (\E i : x = <<"call", i>>) \/ (\E o \in Sites(k) : o # r /\ o # w)
      BY <3>5
    <3>9. \A x, y \in Sites("req")' :
             (\E i : x = <<"call", i>>) \/ (\E i : y = <<"call", i>>) \/ x = y
      BY <3>5, <3>6, <3>7
    <3> QED
      <4>1. Moved(a, b, r, w)
        BY <3>3, <3>4, <3>8, <3>9 DEF Moved
      <4> QED
        BY <1>0, <2>5, <4>1, HandlersMoved
  <2>9. agenda' \in Seq(Calls)
    BY <2>5 DEF CallsOf
  <2> QED
    BY <1>8, <2>7, <2>8, <2>9
<1> QED
  BY <1>9, <1>10
-----------------------------------------------------------------------------
(***************************************************************************)
(* The end of the process.                                                 *)
(***************************************************************************)
\* A step of net_pull_done: no coroutine runs and no notice is posted.
LEMMA Stopping ==
  ASSUME IInv, exiting' = TRUE, NetOk(net', TRUE), agenda' \in Seq(Calls),
         doomed' \in Seq(Entries), Handlers',
         \A d \in Conns : net.stat[d] = "closed" => net'.stat[d] = "closed",
         UNCHANGED <<world, pc, run, again, queue, armed, batch, cxt, cur, at, srv,
                     forwarded, answered>>
  PROVE  Sim
<1>0. /\ Control /\ Loop /\ ReqNotice /\ CxtOk /\ Numbers /\ Serving
  BY DEF IInv, Own
<1>1. Control' /\ CxtOk' /\ ReqNotice'
  BY <1>0 DEF Control, CxtOk, ReqNotice
<1>2. Loop'
  BY <1>0 DEF Loop
<1>3. Numbers'
  BY <1>0 DEF Numbers, Hosts
<1>4. Serving'
  <2>1. /\ Ep' = Ep /\ Addrs' = Addrs /\ EpOf' = EpOf
    BY DEF Ep, Addrs, EpOf
  <2>2. pc["req"] \in Attempt \ {"connect"} => Closed(srv)'
    BY <1>0 DEF Serving, Closed, Conns
  <2> QED
    BY <1>0, <2>1, <2>2 DEF Serving
<1>5. ReqState' = ReqState /\ RspState' = RspState
  BY DEF ReqState, RspState
<1>6. UNCHANGED HP!vars
  BY <1>5, HandshakeStutter
<1>7. NetOk(net, exiting)'
  OBVIOUS
<1> QED
  BY <1>1, <1>2, <1>3, <1>4, <1>6, <1>7, SimQuiet DEF Own

\* n connections, each of them once.
Ordered(order, n) == /\ n \in Nat /\ \A i \in 1 .. n : order[i] \in Conns
                     /\ \A i, j \in 1 .. n : order[i] = order[j] => i = j

\* The table of net_pull in the order of its entries.
LEMMA OrderFacts ==
  ASSUME NEW S \in SUBSET Conns, NEW servers \in SetToSeqs(S \ {Client}),
         NEW order, order = IF Client \in S THEN <<Client>> \o servers ELSE servers
  PROVE  Ordered(order, Cardinality(S))
<1>0. SUFFICES /\ Cardinality(S) \in Nat
               /\ \A i \in 1 .. Cardinality(S) : order[i] \in Conns
               /\ \A i, j \in 1 .. Cardinality(S) : order[i] = order[j] => i = j
  BY DEF Ordered
<1>1. IsFiniteSet(Conns)
  BY SessionAssumption, FS_AddElement DEF Conns
<1>2. IsFiniteSet(S) /\ Cardinality(S) \in Nat
  BY <1>1, FS_Subset, FS_CardinalityType
<1>3. Cardinality(S \ {Client}) = IF Client \in S THEN Cardinality(S) - 1 ELSE Cardinality(S)
  BY <1>2, FS_RemoveElement
<1>4. PICK n : n = Cardinality(S \ {Client})
  OBVIOUS
<1>5. n \in Nat
  BY <1>2, <1>4, FS_RemoveElement, FS_CardinalityType
<1>6. /\ servers \in [1 .. n -> S \ {Client}]
      /\ \A i, j \in 1 .. n : i # j => servers[i] # servers[j]
  BY <1>4 DEF SetToSeqs
<1>7. CASE Client \notin S
  <2>1. order = servers /\ n = Cardinality(S)
    BY <1>3, <1>4, <1>7
  <2> QED
    BY <1>2, <1>6, <2>1
<1>8. CASE Client \in S
  <2>1. n = Cardinality(S) - 1
    BY <1>3, <1>4, <1>8
  <2>2. servers \in Seq(Conns) /\ Len(servers) = n
    <3>1. servers \in [1 .. n -> Conns]
      BY <1>6
    <3> QED
      BY <1>5, <3>1
  <2>3. <<Client>> \in Seq(Conns) /\ Len(<<Client>>) = 1 /\ <<Client>>[1] = Client
    BY DEF Conns
  <2>4. order = <<Client>> \o servers
    BY <1>8
  <2>5. \A i \in 1 .. 1 + n : order[i] = IF i <= 1 THEN Client ELSE servers[i - 1]
    BY <1>5, <2>2, <2>3, <2>4, ConcatProperties
  <2>6. Cardinality(S) = 1 + n
    BY <1>2, <1>5, <2>1
  <2>7. ASSUME NEW i \in 1 .. 1 + n
        PROVE  /\ i = 1 => order[i] = Client
               /\ i # 1 => i - 1 \in 1 .. n /\ order[i] = servers[i - 1]
    <3>1. i <= 1 <=> i = 1
      BY <1>5
    <3>2. i # 1 => i - 1 \in 1 .. n
      BY <1>5
    <3>3. order[i] = IF i <= 1 THEN Client ELSE servers[i - 1]
      BY <2>5
    <3> QED
      BY <3>1, <3>2, <3>3
  <2>8. \A i \in 1 .. 1 + n : order[i] \in Conns
    BY <1>6, <2>7 DEF Conns
  <2>9. ASSUME NEW i \in 1 .. 1 + n, NEW j \in 1 .. 1 + n, order[i] = order[j] PROVE i = j
    <3>0. \A m \in 1 .. n : servers[m] # Client
      BY <1>6
    <3>1. CASE i = 1 \/ j = 1
      <4>1. /\ i = 1 => order[i] = Client
            /\ i # 1 => order[i] # Client
        BY <2>7, <3>0
      <4>2. /\ j = 1 => order[j] = Client
            /\ j # 1 => order[j] # Client
        BY <2>7, <3>0
      <4> QED
        BY <2>9, <3>1, <4>1, <4>2
    <3>2. CASE i # 1 /\ j # 1
      <4>1. /\ i - 1 \in 1 .. n /\ j - 1 \in 1 .. n
            /\ servers[i - 1] = servers[j - 1]
        BY <2>7, <2>9, <3>2
      <4>2. i - 1 = j - 1
        BY <1>6, <4>1
      <4> QED
        BY <1>5, <4>2
    <3> QED
      BY <3>1, <3>2
  <2> QED
    BY <1>2, <2>6, <2>8, <2>9
<1> QED
  BY <1>7, <1>8

\* proxy_done closes the descriptors and keeps the handlers to call.
LEMMA StopBegins ==
  ASSUME IInv, proxy_done
  PROVE  Sim
<1>0. /\ Control /\ Loop /\ Handlers /\ NetOk(net, exiting)
      /\ agenda = <<>> /\ ~exiting /\ exiting' = TRUE /\ run = "main"
      /\ UNCHANGED <<world, pc, run, again, queue, armed, batch, agenda, cxt, cur, at, srv,
                     forwarded, answered>>
  BY DEF IInv, Own, proxy_done, MainTurn, Runs, loop, look, hist
<1>1. PICK servers \in SetToSeqs(net.reg \ {Client}) :
          doomed' = [i \in 1 .. Cardinality(net.reg) |->
                        Doomed((IF Client \in net.reg THEN <<Client>> \o servers ELSE servers)[i])]
  BY DEF proxy_done
<1>2. PICK order : order = IF Client \in net.reg THEN <<Client>> \o servers ELSE servers
  OBVIOUS
<1>3. PICK n : n = Cardinality(net.reg)
  OBVIOUS
<1>4. net.reg \in SUBSET Conns
  BY <1>0 DEF NetOk, NetTypes
<1>5. /\ n \in Nat /\ \A i \in 1 .. n : order[i] \in Conns
      /\ \A i, j \in 1 .. n : order[i] = order[j] => i = j
  <2>1. Ordered(order, n)
    BY <1>2, <1>3, <1>4, OrderFacts
  <2> QED
    BY <2>1 DEF Ordered
<1>6. doomed' = [i \in 1 .. n |-> Doomed(order[i])]
  BY <1>1, <1>2, <1>3
<1>7. \A i \in 1 .. n : /\ doomed'[i] \in Entries
                        /\ doomed'[i].hr = net.hr[order[i]] /\ doomed'[i].hw = net.hw[order[i]]
  <2>1. \A c \in Conns : net.hr[c] \in Coros \cup {None} /\ net.hw[c] \in Coros \cup {None}
    BY <1>0 DEF NetOk, NetTypes
  <2> QED
    BY <1>5, <1>6, <2>1 DEF Doomed, Entries
<1>8. doomed' \in Seq(Entries) /\ Len(doomed') = n
  <2>1. doomed' \in [1 .. n -> Entries]
    BY <1>6, <1>7
  <2> QED
    BY <1>5, <2>1
<1>9. /\ NetShape(net') /\ net'.stat = net.stat /\ net'.fd = net.fd \ net.reg /\ net'.reg = {}
      /\ net'.hr = [c \in Conns |-> None] /\ net'.hw = [c \in Conns |-> None]
      /\ net'.ref = net.ref
  BY <1>0 DEF proxy_done, NetOk, NetTypes, NetShape
<1>10. NetOk(net', TRUE)
  <2>1. NetTypes(net')
    BY <1>0, <1>9 DEF NetOk, NetTypes
  <2> QED
    BY <1>0, <1>9, <2>1 DEF NetOk, NetOpen
<1>11. doomed = <<>>
  BY <1>0 DEF Loop
<1>12. Handlers'
  <2>1. ASSUME NEW k \in Coros, NEW x \in Sites(k)'
        PROVE  \E i \in 1 .. n : \/ x = <<"dread", i>> /\ <<"read", order[i]>> \in Sites(k)
                                 \/ x = <<"dwrite", i>> /\ <<"write", order[i]>> \in Sites(k)
    <3>1. \A c \in Conns : net'.hr[c] # k /\ net'.hw[c] # k
      BY <1>9, NoNone
    <3>2. Len(agenda') = 0
      BY <1>0
    <3>3. PICK i \in 1 .. n : \/ x = <<"dread", i>> /\ doomed'[i].hr = k
                              \/ x = <<"dwrite", i>> /\ doomed'[i].hw = k
      BY <1>8, <2>1, <3>1, <3>2 DEF Sites
    <3> QED
      BY <1>5, <1>7, <3>3 DEF Sites
  <2>2. \A x, y \in Sites("req") : x = y
    BY <1>0 DEF Handlers
  <2>3. "req" \in Coros /\ "rsp" \in Coros
    BY DEF Coros
  <2>4. ASSUME NEW x \in Sites("req")', NEW y \in Sites("req")' PROVE x = y
    <3>1. PICK i \in 1 .. n : \/ x = <<"dread", i>> /\ <<"read", order[i]>> \in Sites("req")
                              \/ x = <<"dwrite", i>> /\ <<"write", order[i]>> \in Sites("req")
      BY <2>1, <2>3
    <3>2. PICK j \in 1 .. n : \/ y = <<"dread", j>> /\ <<"read", order[j]>> \in Sites("req")
                              \/ y = <<"dwrite", j>> /\ <<"write", order[j]>> \in Sites("req")
      BY <2>1, <2>3, <2>4
    <3>3. CASE x = <<"dread", i>> /\ <<"read", order[i]>> \in Sites("req")
      <4>1. y = <<"dread", j>> /\ <<"read", order[i]>> = <<"read", order[j]>>
        BY <2>2, <3>2, <3>3
      <4>2. order[i] = order[j]
        BY <4>1
      <4> QED
        BY <1>5, <3>3, <4>1, <4>2
    <3>4. CASE x = <<"dwrite", i>> /\ <<"write", order[i]>> \in Sites("req")
      <4>1. y = <<"dwrite", j>> /\ <<"write", order[i]>> = <<"write", order[j]>>
        BY <2>2, <3>2, <3>4
      <4>2. order[i] = order[j]
        BY <4>1
      <4> QED
        BY <1>5, <3>4, <4>1, <4>2
    <3> QED
      BY <3>1, <3>3, <3>4
  <2>5. /\ Sites("req")' # {} => Sites("req") # {}
        /\ Sites("rsp") = {} => Sites("rsp")' = {}
    BY <2>1, <2>3
  <2> QED
    BY <1>0, <2>4, <2>5 DEF Handlers
<1>13. agenda' \in Seq(Calls)
  BY <1>0 DEF Loop
<1>14. \A d \in Conns : net.stat[d] = "closed" => net'.stat[d] = "closed"
  BY <1>9
<1> QED
  BY <1>0, <1>8, <1>10, <1>12, <1>13, <1>14, Stopping

\* One entry is told.
LEMMA StopTells ==
  ASSUME IInv, net_pull_done
  PROVE  Sim
<1>0. /\ Control /\ Loop /\ Handlers /\ NetOk(net, exiting) /\ exiting \in BOOLEAN
      /\ doomed # <<>> /\ doomed' = Tail(doomed)
      /\ UNCHANGED <<world, exiting, pc, run, again, queue, armed, batch, cxt, cur, at, srv,
                     forwarded, answered>>
  BY DEF IInv, Own, Control, net_pull_done, look, hist
<1>1. exiting = TRUE /\ doomed \in Seq(Entries)
  BY <1>0 DEF Loop
<1>2. PICK d : d = Head(doomed)
  OBVIOUS
<1>3. /\ d \in Entries /\ doomed' \in Seq(Entries) /\ Len(doomed') = Len(doomed) - 1
      /\ \A i \in 1 .. Len(doomed') : doomed'[i] = doomed[i + 1]
  BY <1>0, <1>1, <1>2, HeadTailProperties
<1>4. Len(doomed) \in Nat /\ Len(doomed) >= 1 /\ d = doomed[1]
  BY <1>0, <1>1, <1>2, EmptySeq
<1>5. /\ d.c \in Conns /\ d.hr \in Coros \cup {None} /\ d.hw \in Coros \cup {None}
  BY <1>3 DEF Entries
<1>6. /\ net' = [net EXCEPT !.fault = "freed"] \/ net' = [net EXCEPT !.stat[d.c] = "closed"]
      /\ agenda' = Call(d.hr, TRUE) \o Call(d.hw, TRUE)
  BY <1>2 DEF net_pull_done, Waiting
<1>7. NetStep(net, net', {}, exiting)
  <2>1. CASE net' = [net EXCEPT !.fault = "freed"]
    BY <1>0, <2>1, FaultFacts
  <2>2. CASE net' = [net EXCEPT !.stat[d.c] = "closed"]
    <3>1. SetIs(net, net', [net.stat EXCEPT ![d.c] = "closed"], net.hr, net.hw, net.ref)
      BY <1>0, <2>2, SetFields DEF NetOk, NetTypes
    <3>2. NetTypes(net')
      BY <1>0, <1>5, <3>1 DEF NetTypes, NetOk, SetIs
    <3> QED
      BY <1>0, <1>5, <3>1, <3>2 DEF NetTypes, NetOk, NetOpen, Fewer, Keeps, SetIs, NetStep
  <2> QED
    BY <1>6, <2>1, <2>2
<1>8. CallsOf(d.hr, d.hw, agenda')
  BY <1>5, <1>6, TwoCalls
<1>9. Handlers'
  <2>1. PICK r : r = <<"dread", 1>>
    OBVIOUS
  <2>2. PICK w : w = <<"dwrite", 1>>
    OBVIOUS
  <2>3. r # w
    BY <2>1, <2>2
  <2>4. ASSUME NEW k \in Coros PROVE (d.hr = k => r \in Sites(k)) /\ (d.hw = k => w \in Sites(k))
    BY <1>4, <2>1, <2>2 DEF Sites
  <2>5. ASSUME NEW k \in Coros, NEW x \in Sites(k)'
        PROVE  \/ \E i : x = <<"call", i>>
               \/ x \in Sites(k) /\ \E c \in Conns : x = <<"read", c>> \/ x = <<"write", c>>
               \/ \E i \in Nat, t \in {"dread", "dwrite"} :
                      i >= 1 /\ x = <<t, i>> /\ <<t, i + 1>> \in Sites(k)
    <3>1. k # None
      BY NoNone
    <3>2. ASSUME NEW c \in Conns, \/ x = <<"read", c>> /\ net'.hr[c] = k
                                  \/ x = <<"write", c>> /\ net'.hw[c] = k
          PROVE  x \in Sites(k)
      BY <1>7, <3>1, <3>2 DEF NetStep, Fewer, Sites
    <3>3. ASSUME NEW i \in 1 .. Len(doomed'), x = <<"dread", i>>, doomed'[i].hr = k
          PROVE  i \in Nat /\ i >= 1 /\ <<"dread", i + 1>> \in Sites(k)
      <4>1. i + 1 \in 1 .. Len(doomed) /\ doomed[i + 1].hr = k
        BY <1>3, <1>4, <3>3
      <4> QED
        BY <4>1 DEF Sites
    <3>4. ASSUME NEW i \in 1 .. Len(doomed'), x = <<"dwrite", i>>, doomed'[i].hw = k
          PROVE  i \in Nat /\ i >= 1 /\ <<"dwrite", i + 1>> \in Sites(k)
      <4>1. i + 1 \in 1 .. Len(doomed) /\ doomed[i + 1].hw = k
        BY <1>3, <1>4, <3>4
      <4> QED
        BY <4>1 DEF Sites
    <3>5. \/ \E c \in Conns : \/ x = <<"read", c>> /\ net'.hr[c] = k
                              \/ x = <<"write", c>> /\ net'.hw[c] = k
          \/ \E i : x = <<"call", i>>
          \/ \E i \in 1 .. Len(doomed') : x = <<"dread", i>> /\ doomed'[i].hr = k
          \/ \E i \in 1 .. Len(doomed') : x = <<"dwrite", i>> /\ doomed'[i].hw = k
      BY <2>5 DEF Sites
    <3> QED
      BY <3>2, <3>3, <3>4, <3>5
  <2>6. ASSUME NEW k \in Coros, NEW x \in Sites(k)'
        PROVE  (\E i : x = <<"call", i>>) \/ (\E o \in Sites(k) : o # r /\ o # w)
    <3>1. CASE x \in Sites(k) /\ \E c \in Conns : x = <<"read", c>> \/ x = <<"write", c>>
      BY <2>1, <2>2, <3>1
    <3>2. CASE \E i \in Nat, t \in {"dread", "dwrite"} :
                   i >= 1 /\ x = <<t, i>> /\ <<t, i + 1>> \in Sites(k)
      <4>1. PICK i \in Nat, t \in {"dread", "dwrite"} :
                   i >= 1 /\ x = <<t, i>> /\ <<t, i + 1>> \in Sites(k)
        BY <3>2
      <4>2. <<t, i + 1>> # r /\ <<t, i + 1>> # w
        <5>1. i + 1 # 1
          BY <4>1
        <5> QED
          BY <2>1, <2>2, <5>1
      <4> QED
        BY <4>1, <4>2
    <3> QED
      BY <2>5, <2>6, <3>1, <3>2
  <2>7. \A x, y \in Sites("req") : x = y
    BY <1>0 DEF Handlers
  <2>8. ASSUME NEW x \in Sites("req")', NEW y \in Sites("req")'
        PROVE  (\E i : x = <<"call", i>>) \/ (\E i : y = <<"call", i>>) \/ x = y
    <3> SUFFICES ASSUME ~\E i : x = <<"call", i>>, ~\E i : y = <<"call", i>> PROVE x = y
      OBVIOUS
    <3>0. "req" \in Coros
      BY DEF Coros
    <3>1. \/ x \in Sites("req") /\ \E c \in Conns : x = <<"read", c>> \/ x = <<"write", c>>
          \/ \E i \in Nat, t \in {"dread", "dwrite"} :
                 i >= 1 /\ x = <<t, i>> /\ <<t, i + 1>> \in Sites("req")
      BY <2>5, <3>0
    <3>2. \/ y \in Sites("req") /\ \E c \in Conns : y = <<"read", c>> \/ y = <<"write", c>>
          \/ \E i \in Nat, t \in {"dread", "dwrite"} :
                 i >= 1 /\ y = <<t, i>> /\ <<t, i + 1>> \in Sites("req")
      BY <2>5, <2>8, <3>0
    <3>3. CASE x \in Sites("req") /\ y \in Sites("req")
      BY <2>7, <3>3
    <3>4. ASSUME NEW z, z \in Sites("req"), NEW c, z = <<"read", c>> \/ z = <<"write", c>>,
                 NEW i, NEW t \in {"dread", "dwrite"}, <<t, i>> \in Sites("req")
          PROVE  FALSE
      <4>1. z = <<t, i>>
        BY <2>7, <3>4
      <4> QED
        BY <3>4, <4>1
    <3>5. ASSUME NEW i \in Nat, NEW t \in {"dread", "dwrite"}, x = <<t, i>>,
                 <<t, i + 1>> \in Sites("req"),
                 NEW j \in Nat, NEW u \in {"dread", "dwrite"}, y = <<u, j>>,
                 <<u, j + 1>> \in Sites("req")
          PROVE  x = y
      <4>1. <<t, i + 1>> = <<u, j + 1>>
        BY <2>7, <3>5
      <4>2. t = u /\ i + 1 = j + 1
        BY <4>1
      <4>3. i = j
        BY <4>2
      <4> QED
        BY <3>5, <4>2, <4>3
    <3> QED
      BY <3>1, <3>2, <3>3, <3>4, <3>5
  <2>9. Moved(d.hr, d.hw, r, w)
    BY <2>3, <2>4, <2>6, <2>8 DEF Moved
  <2> QED
    BY <1>0, <1>8, <2>9, HandlersMoved
<1>10. /\ NetOk(net', TRUE) /\ agenda' \in Seq(Calls) /\ exiting' = TRUE
       /\ \A c \in Conns : net.stat[c] = "closed" => net'.stat[c] = "closed"
  BY <1>0, <1>1, <1>7, <1>8 DEF NetStep, Keeps, CallsOf
<1> QED
  BY <1>0, <1>3, <1>9, <1>10, Stopping
-----------------------------------------------------------------------------
(***************************************************************************)
(* The session.                                                            *)
(***************************************************************************)
\* When conn_accept_handler returns the invariant holds, and Handshake.tla begins.
LEMMA InitSession == Init => Own /\ HP!Init
<1> SUFFICES ASSUME Init PROVE Own /\ HP!Init
  OBVIOUS
<1>0. "req" \in Coros /\ "rsp" \in Coros /\ None \notin Coros
  BY NoNone DEF Coros
<1>1. /\ pc = [k \in Coros |-> "init"] /\ run = "main" /\ again = FALSE /\ exiting = FALSE
      /\ doomed = <<>> /\ batch = {} /\ agenda = <<>> /\ armed = {"req", "rsp"}
      /\ world \in Worlds /\ at = 1 /\ srv = None /\ forwarded = 0 /\ answered = 0
      /\ cur = [id |-> 0, kind |-> "http", host |-> None]
  BY DEF Init
<1>2. pc["req"] = "init" /\ pc["rsp"] = "init"
  BY <1>0, <1>1
<1>3. Control
  <2>1. "init" \in ReqLabels /\ "init" \in RspLabels
    BY DEF ReqLabels, RspLabels
  <2>2. run \notin Coros
    BY <1>1 DEF Coros
  <2> QED
    BY <1>1, <1>2, <2>1, <2>2 DEF Control
<1>4. PICK a : a = [to |-> "req", more |-> TRUE]
  OBVIOUS
<1>5. PICK b : b = [to |-> "rsp", more |-> TRUE]
  OBVIOUS
<1>6. a \in Events /\ b \in Events /\ a.to = "req" /\ b.to = "rsp"
  BY <1>4, <1>5 DEF Events
<1>7. queue = <<a, b>>
  BY <1>4, <1>5 DEF Init
<1>8. queue \in Seq(Events) /\ Len(queue) = 2 /\ queue[1] = a /\ queue[2] = b
  BY <1>6, <1>7
<1>9. \A i \in 1 .. Len(queue) : queue[i].to # "dns" /\ (queue[i].to = "req" => i = 1)
  BY <1>6, <1>8
<1>10. Loop
  <2>1. OneDns(queue)
    BY <1>9 DEF OneDns
  <2>2. agenda \in Seq(Calls) /\ doomed \in Seq(Entries)
    BY <1>1
  <2> QED
    BY <1>1, <1>2, <1>8, <2>1, <2>2 DEF Loop
<1>11. ReqNotice
  BY <1>2, <1>9 DEF ReqNotice
<1>12. /\ NetShape(net) /\ net.fd = {Client} /\ net.reg = {Client}
       /\ net.stat = [c \in Conns |-> IF c = Client THEN "open" ELSE "closed"]
       /\ net.hr = [c \in Conns |-> None] /\ net.hw = [c \in Conns |-> None]
       /\ net.ref = [c \in Conns |-> IF c = Client THEN 2 ELSE 0]
  BY DEF Init, NetShape
<1>13. NetOk(net, exiting)
  <2>1. NetTypes(net)
    BY <1>12 DEF NetTypes, Conns
  <2> QED
    BY <1>12, <2>1 DEF NetOk, NetOpen
<1>14. /\ cxt.list = <<>> /\ cxt.pool = [e \in Eps |-> None] /\ cxt.req_blocked = TRUE
       /\ cxt.rsp_blocked = TRUE /\ cxt.rsp_will_exited = FALSE
       /\ cxt = [list |-> cxt.list, pool |-> cxt.pool,
                 req_blocked |-> cxt.req_blocked, rsp_blocked |-> cxt.rsp_blocked,
                 req_will_exit |-> cxt.req_will_exit, rsp_will_exited |-> cxt.rsp_will_exited]
  BY DEF Init, NewCxt
<1>15. CxtOk
  <2>1. /\ (pc["req"] \in {"init", "fin"}) = TRUE
        /\ (pc["rsp"] \in {"init", "idle"}) = TRUE
    BY <1>2
  <2>2. cxt.list \in Seq(Requests) /\ cxt.pool \in [Eps -> Servers \cup {None}]
    BY <1>14
  <2>3. /\ cxt.req_blocked = (pc["req"] \in {"init", "fin"})
        /\ cxt.rsp_blocked = (pc["rsp"] \in {"init", "idle"})
    BY <1>14, <2>1
  <2> QED
    BY <1>14, <2>2, <2>3 DEF CxtOk
<1>16. Numbers
  <2>1. world.reqs \in Nat
    BY <1>1, SessionAssumption DEF World
  <2>2. Len(cxt.list) = 0
    BY <1>14
  <2> QED
    BY <1>1, <1>2, <2>1, <2>2 DEF Numbers, Unlisted, Busy
<1>17. Serving
  BY <1>1, <1>2 DEF Serving, Using, Attempt
<1>18. Handlers
  <2>1. Len(agenda) = 0 /\ Len(doomed) = 0
    BY <1>1
  <2>2. \A k \in Coros : Sites(k) = {}
    BY <1>0, <1>12, <2>1 DEF Sites
  <2> QED
    BY <1>0, <2>2 DEF Handlers
<1>19. HP!Init
  <2>1. Notices(queue) = queue
    BY <1>9, NoticesWithout
  <2>2. queue = <<HP!Notice("req", TRUE), HP!Notice("rsp", TRUE)>>
    BY <1>4, <1>5, <1>7 DEF HP!Notice
  <2>3. ReqState = "init" /\ RspState = "init" /\ armed \ {"dns"} = {"req", "rsp"}
    BY <1>1, <1>2 DEF ReqState, RspState
  <2> QED
    BY <1>1, <2>1, <2>2, <2>3 DEF HP!Init
<1> QED
  BY <1>3, <1>10, <1>11, <1>13, <1>15, <1>16, <1>17, <1>18, <1>19 DEF Own

\* Every step keeps it, and is a step of Handshake.tla or none.
LEMMA NextSession ==
  ASSUME IInv, [Next]_vars
  PROVE  Sim
<1>1. CASE UNCHANGED vars
  BY <1>1, ConnTypes, NetOnly DEF vars, look, hist
<1>2. ASSUME ReqHandler, UNCHANGED env PROVE Sim
  BY <1>2, ReqFetches, ReqLooksUp, ReqTries, ReqConnects, ReqForwards, ReqCopies,
     ReqEndsRequest, ReqFinishes, ReqCleans DEF ReqHandler
<1>3. ASSUME RspHandler, UNCHANGED env PROVE Sim
  BY <1>3, RspTops, RspFetches, RspCopies, RspPosts, RspExits DEF RspHandler
<1>4. ASSUME MainLoop \/ \E c \in Conns : PeerCloses(c), UNCHANGED env PROVE Sim
  BY <1>4, MainEvents, MainQuiet, MainCalls, MainTakes DEF MainLoop
<1> QED
  BY <1>1, <1>2, <1>3, <1>4, StopBegins, StopTells DEF Next, Step

\* The inductive invariant.
LEMMA AlwaysIInv == Spec => []IInv
<1>1. Init => IInv
  <2>1. MaxReq \in Nat
    BY SessionAssumption
  <2>2. HP!Init => HP!IInv
    BY <2>1, HP!InitIInv
  <2> QED
    BY <2>2, InitSession DEF IInv
<1>2. IInv /\ [Next]_vars => IInv'
  BY NextSession, HandshakeStep DEF IInv, Sim
<1> QED
  BY <1>1, <1>2, PTL DEF Spec

(***************************************************************************)
(* TypeOK for every session: in particular a coroutine has the processor   *)
(* only where it is not paused (async.c), a connection that is not closed  *)
(* has a reference and is polled until the process exits (conn.c, mem.c,   *)
(* net_pull.c), and no more requests are listed than the client sent.      *)
(***************************************************************************)
THEOREM SessionTypes == Spec => []TypeOK
<1>1. IInv => TypeOK
  <2> SUFFICES ASSUME IInv PROVE TypeOK
    OBVIOUS
  <2>0. Control /\ Loop /\ NetOk(net, exiting) /\ CxtOk /\ Numbers /\ Serving
    BY DEF IInv, Own
  <2>1. run # "main" => pc[run] \notin EventWaits \cup {"dns_wait", "conn_wait", "done"}
    BY <2>0 DEF Control, Paused
  <2>2. /\ net.reg \subseteq net.fd
        /\ \A c \in Conns : ~Closed(c) => (c \in net.reg \/ exiting) /\ net.ref[c] > 0
        /\ \A c \in Conns : c \notin net.reg => net.hr[c] = None /\ net.hw[c] = None
    BY <2>0 DEF NetOk, NetTypes, NetOpen, Closed
  <2>3. answered + Len(cxt.list) <= MaxReq
    <3>1. /\ world.reqs \in Nat /\ world.reqs <= MaxReq /\ MaxReq \in Nat
      BY <2>0, SessionAssumption DEF Control, World
    <3>2. /\ forwarded \in Nat /\ forwarded <= world.reqs /\ answered \in Nat
          /\ pc["req"] # "done" => forwarded = answered + Len(cxt.list)
          /\ pc["req"] = "done" => answered <= forwarded /\ cxt.list = <<>>
      BY <2>0, <3>1 DEF Numbers
    <3>3. Len(cxt.list) \in Nat /\ (cxt.list = <<>> => Len(cxt.list) = 0)
      BY <2>0 DEF CxtOk
    <3> QED
      BY <3>1, <3>2, <3>3
  <2>4. /\ pc["req"] \in ReqLabels /\ pc["rsp"] \in RspLabels
        /\ run \in {"main", "req", "rsp"} /\ again \in BOOLEAN
        /\ armed \subseteq {"req", "rsp", "dns"} /\ srv \in Servers \cup {None}
    BY <2>0 DEF Control, Loop, Serving, Coros
  <2> QED
    BY <2>1, <2>2, <2>3, <2>4 DEF TypeOK
<1> QED
  BY <1>1, AlwaysIInv, PTL

(***************************************************************************)
(* Every session, with its connections, its resolver, its epoll batches,   *)
(* its peers and the end of the process, implements the protocol of        *)
(* Handshake.tla: what net_handle.c:98-267 does to the notices, the list   *)
(* and the two coroutines is a step of that protocol or does not show.     *)
(***************************************************************************)
THEOREM SessionImplementsHandshake == Spec => ImplementsHandshake
<1>1. Init => Handshake1!Init
  BY InitSession DEF HP!Init, HP!Notice, Handshake1!Init, Handshake1!Notice
<1>2. IInv /\ [Next]_vars => [Handshake1!Next]_(Handshake1!vars)
  <2>1. [HP!Next]_(HP!vars) => [Handshake1!Next]_(Handshake1!vars)
    <3>1. HP!EventWork <=> Handshake1!EventWork
      BY DEF HP!EventWork, Handshake1!EventWork, HP!ResumeReq, Handshake1!ResumeReq,
         HP!ResumeRsp, Handshake1!ResumeRsp, HP!MainRuns, Handshake1!MainRuns, HP!ReqRuns,
         Handshake1!ReqRuns, HP!RspRuns, Handshake1!RspRuns
    <3>2. /\ HP!IoWakeReq <=> Handshake1!IoWakeReq
          /\ HP!IoWakeRsp <=> Handshake1!IoWakeRsp
          /\ HP!StaleWakeRsp <=> Handshake1!StaleWakeRsp
      BY DEF HP!IoWakeReq, Handshake1!IoWakeReq, HP!IoWakeRsp, Handshake1!IoWakeRsp,
         HP!StaleWakeRsp, Handshake1!StaleWakeRsp, HP!MainRuns, Handshake1!MainRuns,
         HP!ReqRuns, Handshake1!ReqRuns, HP!RspRuns, Handshake1!RspRuns
    <3>3. HP!ReqStep <=> Handshake1!ReqStep
      BY DEF HP!ReqStep, Handshake1!ReqStep, HP!ReqYields, Handshake1!ReqYields,
         HP!ForwardHttp, Handshake1!ForwardHttp, HP!ForwardConnect,
         Handshake1!ForwardConnect, HP!ReqDone, Handshake1!ReqDone, HP!ReqClean,
         Handshake1!ReqClean, HP!NotifyRsp, Handshake1!NotifyRsp, HP!RspBlocked,
         Handshake1!RspBlocked, HP!Notice, Handshake1!Notice
    <3>4. HP!RspStep <=> Handshake1!RspStep
      BY DEF HP!RspStep, Handshake1!RspStep, HP!RspYields, Handshake1!RspYields,
         HP!RspWaits, Handshake1!RspWaits, HP!Answer, Handshake1!Answer, HP!RspQuits,
         Handshake1!RspQuits, HP!RspExit, Handshake1!RspExit, HP!ReqBlocked,
         Handshake1!ReqBlocked, HP!Pending, Handshake1!Pending, HP!Notice,
         Handshake1!Notice
    <3> QED
      BY <3>1, <3>2, <3>3, <3>4
         DEF HP!Next, HP!vars, Handshake1!Next, Handshake1!vars, HP!MainStep, Handshake1!MainStep
  <2> QED
    BY <2>1, NextSession DEF Sim
<1> QED
  BY <1>1, <1>2, AlwaysIInv, PTL DEF Spec, ImplementsHandshake, Handshake1!Spec

(***************************************************************************)
(* With that the theorems about the protocol are theorems about the        *)
(* session.  The context that rsp points to is on req's stack              *)
(* (net_handle.c:95): req gets past its last wait when rsp has ended.      *)
(***************************************************************************)
THEOREM SessionKeepsFrame ==
  Spec => [](pc["req"] \in {"clean", "done"} => pc["rsp"] = "done")
<1>1. IInv => (pc["req"] \in {"clean", "done"} => pc["rsp"] = "done")
  <2> SUFFICES ASSUME IInv, pc["req"] \in {"clean", "done"} PROVE pc["rsp"] = "done"
    OBVIOUS
  <2>1. HP!FrameAlive
    BY DEF IInv, HP!IInv
  <2>2. ReqState \in {"clean", "done"}
    BY DEF ReqState
  <2>3. RspState = "done"
    BY <2>1, <2>2 DEF HP!FrameAlive
  <2> QED
    BY <2>3 DEF RspState
<1> QED
  BY <1>1, AlwaysIInv, PTL

(***************************************************************************)
(* An rsp that waits for a request (net_handle.c:225) while one is listed  *)
(* will be resumed: the notice of net_http.c:147 is in the queue and its   *)
(* handler is still registered.                                            *)
(***************************************************************************)
THEOREM SessionWakesRsp ==
  Spec => [](pc["rsp"] = "idle" /\ cxt.list # <<>> => Wakeable("rsp"))
<1>1. IInv => (pc["rsp"] = "idle" /\ cxt.list # <<>> => Wakeable("rsp"))
  <2> SUFFICES ASSUME IInv, pc["rsp"] = "idle", cxt.list # <<>> PROVE Wakeable("rsp")
    OBVIOUS
  <2>0. Loop /\ CxtOk /\ Numbers /\ HP!NoLostWakeup /\ HP!ArmedWhileAlive
    BY DEF IInv, Own, HP!IInv
  <2>1. forwarded - answered > 0
    <3>1. Len(cxt.list) \in Nat /\ Len(cxt.list) # 0
      BY <2>0, EmptySeq DEF CxtOk
    <3>2. answered \in Nat /\ forwarded = answered + Len(cxt.list)
      BY <2>0 DEF Numbers
    <3> QED
      BY <3>1, <3>2
  <2>2. RspState = "idle"
    BY DEF RspState
  <2>3. PICK i \in 1 .. Len(Notices(queue)) : Notices(queue)[i] = HP!Notice("rsp", TRUE)
    BY <2>0, <2>1, <2>2 DEF HP!NoLostWakeup, HP!Pending, HP!RspBlocked
  <2>4. PICK j \in 1 .. Len(queue) : queue[j].to = "rsp"
    <3>1. Notices(queue)[i].to = "rsp"
      BY <2>3 DEF HP!Notice
    <3>2. CASE Notices(queue) = queue
      BY <3>1, <3>2
    <3>3. CASE \E d \in 1 .. Len(queue) : Notices(queue) = RemoveAt(queue, d)
      <4>1. PICK d \in 1 .. Len(queue) : Notices(queue) = RemoveAt(queue, d)
        BY <3>3
      <4>2. Without(queue, d, Notices(queue)) /\ Len(queue) \in Nat
        BY <2>0, <4>1, RemoveFacts DEF Loop
      <4>3. i \in 1 .. d - 1 \/ i \in d .. Len(queue) - 1
        BY <4>1, <4>2 DEF Without
      <4>4. Notices(queue)[i] = queue[i] \/ Notices(queue)[i] = queue[i + 1]
        BY <4>2, <4>3 DEF Without
      <4>5. i \in 1 .. Len(queue) /\ i + 1 \in 1 .. Len(queue)
        BY <4>1, <4>2 DEF Without
      <4> QED
        BY <3>1, <4>4, <4>5
    <3> QED
      BY <2>0, <3>2, <3>3, NoticesIs DEF Loop
  <2>5. "rsp" \in armed
    BY <2>0, <2>2 DEF HP!ArmedWhileAlive
  <2>6. j \in DOMAIN queue
    BY <2>0, <2>4 DEF Loop
  <2> QED
    BY <2>4, <2>5, <2>6 DEF Wakeable, Owner
<1> QED
  BY <1>1, AlwaysIInv, PTL

(***************************************************************************)
(* What README.md:55 claims of every call stack is true of req's.          *)
(***************************************************************************)
THEOREM ReqBlockedOnce == Spec => []ReqBlocksOnce
<1>1. IInv => ReqBlocksOnce
  <2> SUFFICES ASSUME IInv PROVE Cardinality(BlockPoints("req")) <= 1
    BY DEF ReqBlocksOnce
  <2>1. \A x, y \in Sites("req") : x = y
    BY DEF IInv, Own, Handlers
  <2>2. \A x, y \in BlockPoints("req") : x = y
    <3> SUFFICES ASSUME NEW x \in BlockPoints("req"), NEW y \in BlockPoints("req")
                 PROVE  x = y
      OBVIOUS
    <3>1. ASSUME NEW z \in BlockPoints("req")
          PROVE  z = <<z[1], z[2]>> /\ <<z[2], z[1]>> \in Sites("req")
      BY <3>1 DEF BlockPoints, Sites
    <3>2. <<x[2], x[1]>> = <<y[2], y[1]>>
      BY <2>1, <3>1
    <3> QED
      BY <3>1, <3>2
  <2>3. CASE BlockPoints("req") = {}
    BY <2>3, FS_EmptySet
  <2>4. CASE BlockPoints("req") # {}
    <3>1. PICK x : BlockPoints("req") = {x}
      BY <2>2, <2>4
    <3>2. Cardinality({x}) = 1
      BY FS_Singleton
    <3>3. Cardinality(BlockPoints("req")) = 1
      BY <3>1, <3>2
    <3> QED
      BY <3>3
  <2> QED
    BY <2>3, <2>4
<1> QED
  BY <1>1, AlwaysIInv, PTL

(***************************************************************************)
(* Nothing resumes req once async.c:25 has freed its stack.                *)
(***************************************************************************)
THEOREM ReqNeverResumedLate == Spec => []ReqGone
<1>1. IInv => ReqGone
  <2> SUFFICES ASSUME IInv, pc["req"] = "done" PROVE ~Wakeable("req")
    BY DEF ReqGone
  <2>0. Control /\ Loop /\ ReqNotice /\ Handlers
    BY DEF IInv, Own
  <2>1. run # "req"
    BY <2>0 DEF Control, Paused, Coros
  <2>2. Sites("req") = {}
    BY <2>0 DEF Handlers
  <2>3. \A c \in Conns : net.hr[c] # "req" /\ net.hw[c] # "req"
    BY <2>2 DEF Sites
  <2>4. \A i \in DOMAIN agenda : agenda[i].k # "req"
    <3>1. DOMAIN agenda = 1 .. Len(agenda)
      BY <2>0 DEF Loop
    <3> QED
      BY <2>2, <3>1 DEF Sites
  <2>5. "dns" \notin armed
    BY <2>0 DEF Loop
  <2>6. ASSUME NEW i \in DOMAIN queue PROVE ~(queue[i].to \in armed /\ Owner(queue[i].to) = "req")
    <3>1. i \in 1 .. Len(queue) /\ queue[i] \in Events
      BY <2>0, <2>6 DEF Loop
    <3>2. queue[i].to \in {"req", "rsp", "dns"}
      BY <3>1 DEF Events
    <3>3. queue[i].to # "req"
      BY <2>0, <3>1 DEF ReqNotice
    <3> QED
      BY <2>5, <3>2, <3>3 DEF Owner
  <2> QED
    BY <2>1, <2>3, <2>4, <2>5, <2>6 DEF Wakeable
<1> QED
  BY <1>1, AlwaysIInv, PTL
=============================================================================
