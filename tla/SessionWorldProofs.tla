------------------------- MODULE SessionWorldProofs -------------------------
(***************************************************************************)
(* Proofs of what a session keeps as long as certain things do not go      *)
(* wrong: the properties of Session.tla that speak of Faults.  Each part   *)
(* rests on an invariant of its own and on those before it:                *)
(*    General     in every world                                           *)
(*    Tidy        where no connection attempt fails                        *)
(*    Stay        where servers stay                                       *)
(*    Quiet       where nobody closes an established connection            *)
(*    Plain       where only the client goes away                          *)
(*    Sorted      in every world; InTurn where nothing goes wrong          *)
(*    Registered  where nothing goes wrong, until the process exits        *)
(*    Told        where nothing goes wrong, from then on                   *)
(*    Unpolled    in every world, until the process exits                  *)
(*    Recalled    where only the client goes away                          *)
(* Quiet, Plain and Recalled too are about the time before the exit.       *)
(***************************************************************************)
EXTENDS SessionProofs

(***************************************************************************)
(* What the operations of Network.tla do to the one connection they are    *)
(* given.                                                                  *)
(***************************************************************************)
\* m differs from n at c only.
Elsewhere(n, m, c) ==
    \A d \in Conns \ {c} : /\ m.stat[d] = n.stat[d] /\ m.ref[d] = n.ref[d]
                           /\ m.hr[d] = n.hr[d] /\ m.hw[d] = n.hw[d]
                           /\ d \in m.reg <=> d \in n.reg
                           /\ d \in m.fd <=> d \in n.fd

\* m differs from n in reference counts only.
RefsOnly(n, m) == /\ m.stat = n.stat /\ m.fd = n.fd /\ m.reg = n.reg
                  /\ m.hr = n.hr /\ m.hw = n.hw /\ m.fault = n.fault

\* Nothing is opened, a descriptor leaves the table of net_pull when it is closed,
\* what stays there keeps a reference, and only k gets a handler.
Tame(n, m, k) == /\ \A c \in Conns : n.stat[c] = "closed" => m.stat[c] = "closed"
                 /\ m.fd \subseteq n.fd /\ m.reg \subseteq n.reg
                 /\ \A c \in m.fd : c \in n.reg => c \in m.reg
                 /\ \A c \in m.reg : n.ref[c] > 0 => m.ref[c] > 0
                 /\ \A c \in Conns : m.hr[c] \in {n.hr[c], None, k} /\ m.hw[c] \in {n.hw[c], None, k}

\* A tame step after another is one.
LEMMA TameTwice ==
  ASSUME NEW n, NEW m, NEW p, NEW k, Tame(n, m, k), Tame(m, p, k)
  PROVE  Tame(n, p, k)
BY DEF Tame

\* conn_close shuts a connection that is not closed.
LEMMA CloseAt ==
  ASSUME NEW n, NetTypes(n), NEW c \in Conns, NEW m, m = conn_close(n, c), NEW k
  PROVE  /\ Elsewhere(n, m, c) /\ m.ref = n.ref /\ m.fault = n.fault /\ Tame(n, m, k)
         /\ m.stat[c] = "closed" /\ (n.stat[c] = "closed" => m = n)
<1>1. CASE n.stat[c] = "closed"
  <2>1. m = n
    BY <1>1 DEF conn_close
  <2> QED
    BY <1>1, <2>1 DEF Elsewhere, Tame
<1>2. CASE n.stat[c] # "closed"
  <2>1. ShutIs(n, m, c)
    BY <1>2, ShutFields DEF conn_close, NetTypes
  <2> QED
    BY <1>2, <2>1 DEF ShutIs, Elsewhere, Tame, NetTypes
<1> QED
  BY <1>1, <1>2

\* mem_incref adds a reference.
LEMMA IncrefAt ==
  ASSUME NEW n, NetTypes(n), NEW c \in Conns, NEW m, m = mem_incref(n, c), NEW k
  PROVE  /\ RefsOnly(n, m) /\ m.ref = [n.ref EXCEPT ![c] = n.ref[c] + 1] /\ Tame(n, m, k)
<1>1. m = [n EXCEPT !.ref[c] = n.ref[c] + 1] /\ n.ref[c] \in Nat
  BY DEF mem_incref, NetTypes
<1>2. RefsOnly(n, m) /\ m.ref = [n.ref EXCEPT ![c] = n.ref[c] + 1]
  BY <1>1 DEF NetTypes, NetShape, RefsOnly
<1> QED
  BY <1>1, <1>2 DEF RefsOnly, Tame, NetTypes

\* mem_decref takes one away; the last one shuts the connection.
LEMMA DecrefAt ==
  ASSUME NEW n, NetTypes(n), NEW c \in Conns, NEW m, m = mem_decref(n, c), NEW k
  PROVE  /\ Elsewhere(n, m, c) /\ Tame(n, m, k)
         /\ n.stat[c] = "closed" => m.stat[c] = "closed"
         /\ n.ref[c] > 0 => m.ref = [n.ref EXCEPT ![c] = n.ref[c] - 1] /\ m.fault = n.fault
         /\ n.ref[c] > 1 => RefsOnly(n, m)
         /\ n.ref[c] = 1 => c \notin m.reg /\ c \notin m.fd
<1>0. n.ref[c] \in Nat
  BY DEF NetTypes
<1>1. CASE n.ref[c] = 0
  <2>1. m = [n EXCEPT !.fault = "freed"]
    BY <1>1 DEF mem_decref
  <2>2. m.stat = n.stat /\ m.fd = n.fd /\ m.reg = n.reg /\ m.hr = n.hr /\ m.hw = n.hw /\ m.ref = n.ref
    BY <2>1 DEF NetTypes, NetShape
  <2> QED
    BY <1>1, <2>2 DEF Elsewhere, Tame
<1>2. CASE n.ref[c] = 1
  <2>1. PICK s : s = Shut(n, c)
    OBVIOUS
  <2>2. m = [s EXCEPT !.ref[c] = 0]
    BY <1>2, <2>1 DEF mem_decref, conn_done, conn_close
  <2>3. ShutIs(n, s, c)
    BY <2>1, ShutFields DEF NetTypes
  <2>4. RefsOnly(s, m) /\ m.ref = [n.ref EXCEPT ![c] = 0]
    BY <2>2, <2>3 DEF ShutIs, NetShape, RefsOnly
  <2>5. /\ m.stat = [n.stat EXCEPT ![c] = "closed"] /\ m.fd = n.fd \ {c} /\ m.reg = n.reg \ {c}
        /\ m.hr = [n.hr EXCEPT ![c] = None] /\ m.hw = [n.hw EXCEPT ![c] = None]
        /\ m.fault = n.fault
    BY <2>3, <2>4 DEF ShutIs, RefsOnly
  <2>6. Elsewhere(n, m, c) /\ m.stat[c] = "closed"
    BY <2>4, <2>5 DEF Elsewhere, NetTypes
  <2>7. Tame(n, m, k)
    BY <2>4, <2>5 DEF Tame, NetTypes
  <2> QED
    BY <1>2, <2>4, <2>5, <2>6, <2>7
<1>3. CASE n.ref[c] > 1
  <2>1. m = [n EXCEPT !.ref[c] = n.ref[c] - 1]
    BY <1>3 DEF mem_decref
  <2>2. RefsOnly(n, m) /\ m.ref = [n.ref EXCEPT ![c] = n.ref[c] - 1]
    BY <2>1 DEF NetTypes, NetShape, RefsOnly
  <2>3. Elsewhere(n, m, c)
    BY <2>2 DEF Elsewhere, RefsOnly, NetTypes
  <2>4. Tame(n, m, k)
    BY <1>0, <1>3, <2>2 DEF Tame, RefsOnly, NetTypes
  <2> QED
    BY <1>3, <2>2, <2>3, <2>4 DEF RefsOnly
<1> QED
  BY <1>0, <1>1, <1>2, <1>3

\* A connection is made: it is marked open and gets the pool's reference.
LEMMA EstablishedAt ==
  ASSUME NEW n, NetTypes(n), NEW s \in Conns, NEW m, m = Established(n, s)
  PROVE  /\ m.stat = [n.stat EXCEPT ![s] = "open"] /\ m.fd = n.fd /\ m.reg = n.reg
         /\ m.hr = n.hr /\ m.hw = n.hw /\ m.ref = [n.ref EXCEPT ![s] = n.ref[s] + 1]
         /\ m.fault = n.fault
<1>1. PICK p : p = [n EXCEPT !.stat[s] = "open"]
  OBVIOUS
<1>2. /\ NetShape(p) /\ p.stat = [n.stat EXCEPT ![s] = "open"] /\ p.fd = n.fd /\ p.reg = n.reg
      /\ p.hr = n.hr /\ p.hw = n.hw /\ p.ref = n.ref /\ p.fault = n.fault
  BY <1>1 DEF NetTypes, NetShape
<1>3. m = [p EXCEPT !.ref[s] = p.ref[s] + 1]
  BY <1>1 DEF Established, mem_incref
<1>4. RefsOnly(p, m) /\ m.ref = [n.ref EXCEPT ![s] = n.ref[s] + 1]
  BY <1>2, <1>3 DEF NetShape, RefsOnly
<1> QED
  BY <1>2, <1>4 DEF RefsOnly

\* A new connection has a descriptor that net_pull knows, and one reference.
LEMMA OpenedAt ==
  ASSUME NetTypes(net), NEW s \in Conns, NEW m, m = Opened(s)
  PROVE  /\ NetShape(m) /\ m.stat = net.stat /\ m.fd = net.fd \cup {s} /\ m.reg = net.reg \cup {s}
         /\ m.hr = net.hr /\ m.hw = net.hw /\ m.ref = [net.ref EXCEPT ![s] = 1]
         /\ m.fault = net.fault /\ NetTypes(m)
<1>1. /\ NetShape(m) /\ m.stat = net.stat /\ m.fd = net.fd \cup {s} /\ m.reg = net.reg \cup {s}
      /\ m.hr = net.hr /\ m.hw = net.hw /\ m.ref = [net.ref EXCEPT ![s] = 1]
      /\ m.fault = net.fault
  BY DEF NetTypes, NetShape, Opened
<1> QED
  BY <1>1 DEF NetTypes

\* m differs from n in handlers only.
HandlersOnly(n, m) == /\ m.stat = n.stat /\ m.fd = n.fd /\ m.reg = n.reg
                      /\ m.ref = n.ref /\ m.fault = n.fault

\* net_pull_set_handler puts k into the slot of a connection it knows.
LEMMA HandlerAt ==
  ASSUME NEW n, NetTypes(n), NEW c \in Conns, NEW dir \in {"read", "write"},
         NEW k \in Coros, NEW m, m = net_pull_set_handler(n, c, dir, k)
  PROVE  /\ HandlersOnly(n, m) /\ Tame(n, m, k) /\ Waits(n, m, c, dir, k)
         /\ c \in n.reg => m.hr = IF dir = "read" THEN [n.hr EXCEPT ![c] = k] ELSE n.hr
         /\ c \in n.reg => m.hw = IF dir = "write" THEN [n.hw EXCEPT ![c] = k] ELSE n.hw
<1>1. CASE c \notin n.reg
  <2>1. m = n
    BY <1>1 DEF net_pull_set_handler
  <2> QED
    BY <1>1, <2>1 DEF HandlersOnly, Tame, Waits
<1>2. CASE c \in n.reg /\ dir = "read"
  <2>1. m = [n EXCEPT !.hr[c] = k]
    BY <1>2 DEF net_pull_set_handler
  <2>2. HandlersOnly(n, m) /\ m.hr = [n.hr EXCEPT ![c] = k] /\ m.hw = n.hw
    BY <2>1 DEF NetTypes, NetShape, HandlersOnly
  <2> QED
    BY <1>2, <2>2 DEF HandlersOnly, Tame, Waits, NetTypes
<1>3. CASE c \in n.reg /\ dir = "write"
  <2>1. m = [n EXCEPT !.hw[c] = k]
    BY <1>3 DEF net_pull_set_handler
  <2>2. HandlersOnly(n, m) /\ m.hr = n.hr /\ m.hw = [n.hw EXCEPT ![c] = k]
    BY <2>1 DEF NetTypes, NetShape, HandlersOnly
  <2> QED
    BY <1>3, <2>2 DEF HandlersOnly, Tame, Waits, NetTypes
<1> QED
  BY <1>1, <1>2, <1>3

-----------------------------------------------------------------------------
(***************************************************************************)
(* In every world.                                                         *)
(***************************************************************************)
\* The labels between which a coroutine does not yield.
ReqStraight == {"top", "lookup", "dns_final", "try", "connect", "connected", "conn_failed",
                "enlist", "copied", "copy_failed", "release", "finish", "clean"}
RspStraight == {"top", "framing", "copied", "copy_failed", "post", "continue", "exit"}

Straight == /\ pc["req"] \in ReqStraight => run = "req"
            /\ pc["rsp"] \in RspStraight => run = "rsp"

\* req has a server in its hands.
Holding == (Attempt \ {"connect"}) \cup Using \cup {"copy_failed", "bad_gateway", "release"}

\* An attempt is not begun or completed once the process exits; the handlers called
\* then are told of an error.
Leaving == /\ pc["req"] \in {"connect", "connected"} => ~exiting
           /\ batch # {} => ~exiting
           /\ exiting => \A i \in 1 .. Len(agenda) : agenda[i].err

\* An error epoll reports is the end of a stream; req waits for the connection it is
\* making, which it does nowhere else.
Reports == /\ \A b \in batch : b.err => b.c \in down
           /\ pc["req"] = "conn_wait" =>
                  \A c \in Conns : (net.hr[c] = "req" => c = srv) /\ net.hw[c] # "req"

\* net_pull knows no connection that has been freed.
Held == \A c \in net.reg : net.ref[c] > 0

General == /\ Straight /\ Leaving /\ Reports /\ Held
           /\ srv # None => pc["req"] \in Holding

\* A step of req or rsp, as far as the other one and the main loop see it.
ReqTurn == /\ run = "req" /\ UNCHANGED <<env, batch, agenda>> /\ pc'["rsp"] = pc["rsp"]
           /\ run' = "req" \/ (run' = "main" /\ pc'["req"] \notin ReqStraight)
           /\ down' \subseteq down /\ \A b \in batch : b.c \in down => b.c \in down'
RspTurn == /\ run = "rsp" /\ UNCHANGED <<env, batch, agenda, down, look, srv>>
           /\ pc'["req"] = pc["req"]
           /\ run' = "rsp" \/ (run' = "main" /\ pc'["rsp"] \notin RspStraight)

\* req goes on at label l, or waits where it is.
LEMMA ReqGoto ==
  ASSUME Control, run = "req", NEW l \in ReqLabels, Goto("req", l),
         UNCHANGED <<env, batch, agenda, down>>
  PROVE  ReqTurn /\ pc'["req"] = l
BY PcFacts DEF Goto, ReqTurn, Coros

\* The same, where it waits.
LEMMA ReqWaitsIo ==
  ASSUME Control, run = "req", pc["req"] \notin ReqStraight, UNCHANGED env,
         NEW c, NEW dir, conn_try_io("req", c, dir)
  PROVE  ReqTurn /\ pc' = pc /\ run' = "main" /\ UNCHANGED <<srv, cxt, look, loop, hist>>
BY DEF conn_try_io, ReqTurn, loop

\* rsp goes on at label l.
LEMMA RspGoto ==
  ASSUME Control, run = "rsp", NEW l \in RspLabels, Goto("rsp", l),
         UNCHANGED <<env, batch, agenda, down, look, srv>>
  PROVE  RspTurn /\ pc'["rsp"] = l
BY PcFacts DEF Goto, RspTurn, Coros

\* The same, where it waits.
LEMMA RspWaitsIo ==
  ASSUME Control, run = "rsp", pc["rsp"] \notin RspStraight, UNCHANGED env,
         NEW c, NEW dir, conn_try_io("rsp", c, dir)
  PROVE  RspTurn /\ pc' = pc /\ run' = "main" /\ UNCHANGED <<cxt, loop, hist>>
BY DEF conn_try_io, RspTurn, loop

\* Where req can go from a label, in one step.
ReqEdge(l, m) ==
    \/ l = m /\ l \notin ReqStraight
    \/ l = "top" /\ m \in {"finish", "fetch"}
    \/ l = "fetch" /\ m \in {"finish", "lookup", "bad_request"}
    \/ l = "bad_request" /\ m = "finish"
    \/ l = "lookup" /\ m \in {"try", "dns_wait", "bad_gateway"}
    \/ l = "dns_final" /\ m \in {"try", "bad_gateway"}
    \/ l = "try" /\ m \in {"bad_gateway", "connect", "forward", "enlist"}
    \/ l = "connect" /\ m \in {"try", "conn_wait", "forward", "enlist"}
    \/ l = "connected" /\ m \in {"forward", "enlist"}
    \/ l = "conn_failed" /\ m = "try"
    \/ l = "forward" /\ m \in {"copy_read", "lookup"}
    \/ l = "enlist" /\ m = "connect_ok"
    \/ l = "connect_ok" /\ m \in {"copy_read", "release"}
    \/ l = "copy_read" /\ m \in {"copy_write", "copied", "copy_failed"}
    \/ l = "copy_write" /\ m \in {"copy_read", "copy_failed"}
    \/ l = "copied" /\ m = "top"
    \/ l = "copy_failed" /\ m \in {"bad_gateway", "release"}
    \/ l = "bad_gateway" /\ m = "release"
    \/ l = "release" /\ m = "finish"
    \/ l = "finish" /\ m \in {"fin", "clean"}
    \/ l = "clean" /\ m = "done"

\* What becomes of the server in req's hands.
SrvFlow == /\ srv' \in {srv, None} \/ pc'["req"] \in {"forward", "enlist", "conn_wait"}
           /\ \/ pc["req"] \in {"conn_failed", "copied", "release"}
              \/ pc["req"] = "forward" /\ pc'["req"] = "lookup"
              => srv' = None

ReqFlow == /\ ReqTurn /\ ReqEdge(pc["req"], pc'["req"]) /\ SrvFlow
           /\ pc'["req"] = "connect" => ~exiting

\* Steps of req that give the server it has in its hands back, or keep it.
LEMMA ReqFlowPlain ==
  ASSUME Control, run = "req", NEW l \in ReqLabels, Goto("req", l),
         UNCHANGED <<env, batch, agenda, down>>, ReqEdge(pc["req"], l), l # "connect",
         srv' = None \/ (srv' = srv /\ pc["req"] \notin {"conn_failed", "copied", "release"}
                         /\ ~(pc["req"] = "forward" /\ l = "lookup"))
  PROVE  ReqFlow
<1>1. ReqTurn /\ pc'["req"] = l
  BY ReqGoto
<1> QED
  BY <1>1 DEF ReqFlow, SrvFlow

\* A wait for I/O.
LEMMA ReqFlowIo ==
  ASSUME Control, run = "req",
         pc["req"] \in {"fetch", "bad_request", "forward", "connect_ok", "copy_read",
                        "copy_write", "bad_gateway"},
         UNCHANGED env, NEW c, NEW dir, conn_try_io("req", c, dir)
  PROVE  ReqFlow
<1>1. pc["req"] \notin ReqStraight
  BY DEF ReqStraight
<1>2. ReqTurn /\ pc' = pc /\ srv' = srv
  BY <1>1, ReqWaitsIo
<1> QED
  BY <1>1, <1>2 DEF ReqFlow, SrvFlow, ReqEdge

\* Every step of req follows an edge.
LEMMA ReqFlows ==
  ASSUME IInv, UNCHANGED env, ReqHandler
  PROVE  ReqFlow
<1>0. Control
  BY DEF IInv, Own
<1>l. {"finish", "fetch", "lookup", "bad_request", "try", "bad_gateway", "forward", "enlist",
       "copy_read", "connect_ok", "release", "copy_write", "copied", "copy_failed", "top",
       "connect", "conn_wait", "clean", "fin", "done", "dns_wait"} \subseteq ReqLabels
  BY DEF ReqLabels
<1>1. ASSUME NEW l0, At("req", l0), NEW l \in ReqLabels, Goto("req", l),
             UNCHANGED <<batch, agenda, down>>, ReqEdge(l0, l), l # "connect",
             srv' = None \/ (srv' = srv /\ l0 \notin {"conn_failed", "copied", "release"}
                             /\ ~(l0 = "forward" /\ l = "lookup"))
      PROVE  ReqFlow
  BY <1>0, <1>1, ReqFlowPlain DEF At, Runs
<1>2. ASSUME NEW l0, At("req", l0),
             l0 \in {"fetch", "bad_request", "forward", "connect_ok", "copy_read",
                        "copy_write", "bad_gateway"},
             NEW c, NEW dir, conn_try_io("req", c, dir)
      PROVE  ReqFlow
  BY <1>0, <1>2, ReqFlowIo DEF At, Runs
<1>3. CASE req_top
  <2>1. PICK l \in {"finish", "fetch"} : Goto("req", l)
    BY <1>3 DEF req_top
  <2> QED
    BY <1>1, <1>l, <1>3, <2>1 DEF req_top, loop, ReqEdge
<1>4. CASE req_fetch
  BY <1>1, <1>2, <1>l, <1>4 DEF req_fetch, loop, ReqEdge
<1>5. ASSUME NEW id, NEW l0 \in {"bad_request", "bad_gateway"}, NEW last, At("req", l0),
             NEW l \in {"finish", "release"}, ReplyTo("req", id, l, last), ReqEdge(l0, l)
      PROVE  ReqFlow
  BY <1>1, <1>2, <1>l, <1>5 DEF ReplyTo, loop
<1>6. CASE net_bad_request \/ req_bad_gateway
  BY <1>5, <1>6 DEF net_bad_request, req_bad_gateway, ReqEdge
<1>7. CASE net_dns_lookup_a
  <2>1. CASE pc' = [pc EXCEPT !["req"] = "dns_wait"] /\ run' = "main"
    <3>1. pc'["req"] = "dns_wait" /\ pc'["rsp"] = pc["rsp"]
      BY <1>0, <1>l, <2>1, PcFacts DEF Coros
    <3> QED
      BY <1>7, <2>1, <3>1 DEF net_dns_lookup_a, At, Runs, ReqFlow, ReqTurn, ReqEdge, SrvFlow, ReqStraight
  <2>2. CASE \E l \in {"try", "bad_gateway"} : Goto("req", l)
    BY <1>1, <1>l, <1>7, <2>2 DEF net_dns_lookup_a, ReqEdge
  <2> QED
    BY <1>7, <2>1, <2>2 DEF net_dns_lookup_a
<1>8. CASE dns_final
  BY <1>1, <1>l, <1>8 DEF dns_final, ReqEdge
<1>9. CASE try_address
  <2>0. run = "req" /\ pc["req"] = "try" /\ UNCHANGED <<down, loop>>
    BY <1>9 DEF try_address, At, Runs
  <2>1. PICK l \in {"bad_gateway", "connect", "forward", "enlist"} :
            Goto("req", l) /\ (l = "connect" => ~exiting) /\ (srv' = srv \/ l \in {"forward", "enlist"})
    BY <1>9 DEF try_address, AfterConnect
  <2>2. ReqTurn /\ pc'["req"] = l
    BY <1>0, <1>l, <2>0, <2>1, ReqGoto DEF loop
  <2> QED
    BY <2>0, <2>1, <2>2 DEF ReqFlow, SrvFlow, ReqEdge
<1>10. CASE conn_get_by_endpoint
  <2>0. run = "req" /\ pc["req"] = "connect" /\ UNCHANGED loop
    BY <1>10 DEF conn_get_by_endpoint, At, Runs
  <2>1. /\ down' \subseteq down /\ \A b \in batch : b.c \in down => b.c \in down'
    BY <1>10 DEF conn_get_by_endpoint, Fresh
  <2>2. \/ Goto("req", "try") /\ srv' = srv
        \/ \E l \in {"forward", "enlist"} : Goto("req", l)
        \/ pc' = [pc EXCEPT !["req"] = "conn_wait"] /\ run' = "main"
    BY <1>10 DEF conn_get_by_endpoint, AfterConnect
  <2>3. PICK l \in {"try", "forward", "enlist", "conn_wait"} :
            /\ pc' = [pc EXCEPT !["req"] = l] /\ (l = "try" => srv' = srv)
            /\ run' = IF l = "conn_wait" THEN "main" ELSE "req"
    BY <2>2 DEF Goto
  <2>4. pc'["req"] = l /\ pc'["rsp"] = pc["rsp"]
    BY <1>0, <1>l, <2>3, PcFacts DEF Coros
  <2>5. ReqTurn
    BY <2>0, <2>1, <2>3, <2>4 DEF ReqTurn, loop, ReqStraight
  <2> QED
    BY <2>0, <2>3, <2>4, <2>5 DEF ReqFlow, SrvFlow, ReqEdge
<1>11. CASE connected
  BY <1>1, <1>l, <1>11 DEF connected, AfterConnect, loop, ReqEdge
<1>12. CASE conn_failed
  BY <1>1, <1>l, <1>12 DEF conn_failed, loop, ReqEdge
<1>13. CASE forward_http
  BY <1>1, <1>2, <1>l, <1>13 DEF forward_http, loop, ReqEdge
<1>14. CASE enlist_connect
  BY <1>1, <1>l, <1>14 DEF enlist_connect, ReqEdge
<1>15. CASE connect_ok
  BY <1>1, <1>2, <1>l, <1>15 DEF connect_ok, loop, ReqEdge
<1>16. CASE conn_copy_read("req")
  BY <1>1, <1>2, <1>l, <1>16 DEF conn_copy_read, loop, ReqEdge
<1>17. CASE conn_copy_write("req")
  BY <1>1, <1>2, <1>l, <1>17 DEF conn_copy_write, loop, ReqEdge
<1>18. CASE CopyEnds("req")
  BY <1>1, <1>l, <1>18 DEF CopyEnds, loop, ReqEdge
<1>19. CASE req_copied \/ req_copy_failed \/ release
  <2>1. CASE req_copied
    BY <1>1, <1>l, <2>1 DEF req_copied, loop, ReqEdge
  <2>2. CASE req_copy_failed
    BY <1>1, <1>l, <2>2 DEF req_copy_failed, loop, ReqEdge
  <2>3. CASE release
    BY <1>1, <1>l, <2>3 DEF release, loop, ReqEdge
  <2> QED
    BY <1>19, <2>1, <2>2, <2>3
<1>20. CASE req_finish
  <2>1. CASE Goto("req", "clean")
    BY <1>1, <1>l, <1>20, <2>1 DEF req_finish, ReqEdge
  <2>2. CASE pc' = [pc EXCEPT !["req"] = "fin"] /\ run' = "main"
    <3>1. pc'["req"] = "fin" /\ pc'["rsp"] = pc["rsp"]
      BY <1>0, <1>l, <2>2, PcFacts DEF Coros
    <3> QED
      BY <1>20, <2>2, <3>1 DEF req_finish, At, Runs, ReqFlow, ReqTurn, ReqEdge, SrvFlow, ReqStraight
  <2> QED
    BY <1>20, <2>1, <2>2 DEF req_finish
<1>21. CASE req_clean
  <2>1. pc'["req"] = "done" /\ pc'["rsp"] = pc["rsp"]
    BY <1>0, <1>l, <1>21, PcFacts DEF req_clean, Coros
  <2> QED
    BY <1>21, <2>1 DEF req_clean, At, Runs, ReqFlow, ReqTurn, ReqEdge, SrvFlow, ReqStraight
<1> QED
  BY <1>3, <1>4, <1>6, <1>7, <1>8, <1>9, <1>10, <1>11, <1>12, <1>13, <1>14, <1>15, <1>16,
     <1>17, <1>18, <1>19, <1>20, <1>21 DEF ReqHandler

\* Where rsp can go from a label; it stays where it is to wait, or for ever after an
\* invalid access.
RspEdge(l, m) ==
    \/ l = m
    \/ l = "top" /\ m \in {"exit", "idle", "fetch", "copy_read"}
    \/ l = "fetch" /\ m \in {"header", "bad_gateway"}
    \/ l = "bad_gateway" /\ m = "post"
    \/ l = "header" /\ m = "framing"
    \/ l = "framing" /\ m = "copy_read"
    \/ l = "copy_read" /\ m \in {"copy_write", "copied", "copy_failed"}
    \/ l = "copy_write" /\ m \in {"copy_read", "copy_failed"}
    \/ l \in {"copied", "copy_failed"} /\ m = "post"
    \/ l = "copied" /\ m = "continue"
    \/ l \in {"post", "continue"} /\ m = "top"
    \/ l = "exit" /\ m = "done"

RspFlow == RspTurn /\ RspEdge(pc["rsp"], pc'["rsp"])

\* Every step of rsp follows an edge.
LEMMA RspFlows ==
  ASSUME IInv, UNCHANGED env, RspHandler
  PROVE  RspFlow
<1>0. Control
  BY DEF IInv, Own
<1>l. {"exit", "idle", "fetch", "copy_read", "header", "bad_gateway", "post", "framing",
       "continue", "copy_write", "copied", "copy_failed", "top", "done"} \subseteq RspLabels
  BY DEF RspLabels
<1>1. ASSUME run = "rsp", NEW l \in RspLabels, Goto("rsp", l),
             UNCHANGED <<batch, agenda, down, look, srv>>, RspEdge(pc["rsp"], l)
      PROVE  RspFlow
  BY <1>0, <1>1, RspGoto DEF RspFlow
<1>2. ASSUME NEW l0, At("rsp", l0),
             l0 \in {"fetch", "bad_gateway", "header", "copy_read", "copy_write"},
             NEW c, NEW dir, conn_try_io("rsp", c, dir)
      PROVE  RspFlow
  <2>1. run = "rsp" /\ pc["rsp"] \notin RspStraight
    BY <1>2 DEF At, Runs, RspStraight
  <2>2. RspTurn /\ pc' = pc
    BY <1>0, <1>2, <2>1, RspWaitsIo
  <2> QED
    BY <2>2 DEF RspFlow, RspEdge
<1>3. CASE rsp_top
  <2>0. run = "rsp" /\ pc["rsp"] = "top" /\ UNCHANGED <<down, loop, look, srv>>
    BY <1>3 DEF rsp_top, At, Runs
  <2>1. CASE \E l \in {"exit", "fetch", "copy_read"} : Goto("rsp", l)
    BY <1>1, <1>l, <2>0, <2>1 DEF RspEdge, loop
  <2>2. CASE pc' = [pc EXCEPT !["rsp"] = "idle"] /\ run' = "main"
    <3>1. pc'["rsp"] = "idle" /\ pc'["req"] = pc["req"]
      BY <1>0, <1>l, <2>2, PcFacts DEF Coros
    <3> QED
      BY <2>0, <2>2, <3>1 DEF RspFlow, RspTurn, RspEdge, RspStraight, loop
  <2>3. CASE UNCHANGED <<pc, run>>
    BY <2>0, <2>3 DEF RspFlow, RspTurn, RspEdge, loop
  <2> QED
    BY <1>3, <2>1, <2>2, <2>3 DEF rsp_top, NextRequest
<1>4. CASE rsp_fetch
  BY <1>1, <1>2, <1>l, <1>4 DEF rsp_fetch, loop, RspEdge, At, Runs
<1>5. ASSUME NEW id, NEW l0 \in {"header", "bad_gateway"}, NEW last, At("rsp", l0),
             NEW l \in {"post", "framing"}, ReplyTo("rsp", id, l, last), RspEdge(l0, l)
      PROVE  RspFlow
  BY <1>1, <1>2, <1>l, <1>5 DEF ReplyTo, loop, At, Runs
<1>6. CASE rsp_bad_gateway \/ rsp_header
  BY <1>5, <1>6 DEF rsp_bad_gateway, rsp_header, RspEdge
<1>7. CASE rsp_framing
  BY <1>1, <1>l, <1>7 DEF rsp_framing, loop, RspEdge, At, Runs
<1>8. CASE conn_copy_read("rsp")
  BY <1>1, <1>2, <1>l, <1>8 DEF conn_copy_read, loop, RspEdge, At, Runs
<1>9. CASE conn_copy_write("rsp")
  BY <1>1, <1>2, <1>l, <1>9 DEF conn_copy_write, loop, RspEdge, At, Runs
<1>10. CASE CopyEnds("rsp")
  BY <1>1, <1>l, <1>10 DEF CopyEnds, loop, RspEdge, At, Runs
<1>11. CASE rsp_copy_over
  BY <1>1, <1>l, <1>11 DEF rsp_copy_over, loop, RspEdge, Runs
<1>12. CASE rsp_post
  <2>0. run = "rsp" /\ pc["rsp"] \in {"post", "continue"} /\ UNCHANGED <<down, loop, look, srv>>
    BY <1>12 DEF rsp_post, Runs
  <2>1. UNCHANGED <<pc, run>> \/ Goto("rsp", "top")
    BY <1>12 DEF rsp_post
  <2>2. CASE UNCHANGED <<pc, run>>
    BY <2>0, <2>2 DEF RspFlow, RspTurn, RspEdge, loop
  <2>3. CASE Goto("rsp", "top")
    BY <1>1, <1>l, <2>0, <2>3 DEF RspEdge, loop
  <2> QED
    BY <2>1, <2>2, <2>3
<1>13. CASE rsp_exit
  <2>1. pc'["rsp"] = "done" /\ pc'["req"] = pc["req"]
    BY <1>0, <1>l, <1>13, PcFacts DEF rsp_exit, Coros
  <2> QED
    BY <1>13, <2>1 DEF rsp_exit, At, Runs, RspFlow, RspTurn, RspEdge, RspStraight
<1> QED
  BY <1>3, <1>4, <1>6, <1>7, <1>8, <1>9, <1>10, <1>11, <1>12, <1>13 DEF RspHandler

\* What the steps of the coroutines do to the connections, but for those that open a
\* connection or drop one that failed.
LEMMA ReqTame ==
  ASSUME IInv, UNCHANGED env, ReqHandler, ~conn_get_by_endpoint, ~connected, ~conn_failed
  PROVE  Tame(net, net', "req")
<1>0. NetTypes(net) /\ Client \in Conns /\ Tame(net, net, "req")
  BY ConnTypes DEF NetOk, Tame
<1>1. ASSUME NEW c \in Conns, net' = conn_close(net, c) PROVE Tame(net, net', "req")
  BY <1>0, <1>1, CloseAt
<1>2. ASSUME NEW c \in Conns, NEW dir \in {"read", "write"}, conn_try_io("req", c, dir)
      PROVE  Tame(net, net', "req")
  <2>1. net' = net_pull_set_handler(net, c, dir, "req")
    BY <1>2 DEF conn_try_io
  <2> QED
    BY <1>0, <2>1, HandlerAt DEF Coros
<1>3. ASSUME NEW c \in Conns, net' = mem_decref(net, c) PROVE Tame(net, net', "req")
  BY <1>0, <1>3, DecrefAt
<1>4. ASSUME NEW c \in Conns, net' = mem_incref(net, c) PROVE Tame(net, net', "req")
  BY <1>0, <1>4, IncrefAt
<1>5. pc["req"] \in Using => srv \in Conns
  BY ConnTypes
<1>6. CASE req_top \/ net_dns_lookup_a \/ dns_final \/ CopyEnds("req") \/ req_copy_failed \/ req_finish
  BY <1>0, <1>6 DEF req_top, net_dns_lookup_a, dns_final, CopyEnds, req_copy_failed, req_finish
<1>7. CASE req_fetch
  BY <1>0, <1>1, <1>2, <1>7 DEF req_fetch
<1>8. CASE net_bad_request \/ req_bad_gateway
  BY <1>0, <1>1, <1>2, <1>8 DEF net_bad_request, req_bad_gateway, ReplyTo
<1>9. CASE try_address
  <2>1. CASE net' = net
    BY <1>0, <2>1
  <2>2. CASE at <= Len(Addrs[cur.host]) /\ cxt.pool[Ep] # None
    <3>1. Ep \in Eps
      BY <1>9, <2>2, EpType DEF IInv, Own, try_address, At, Runs, Unlisted
    <3>2. cxt.pool[Ep] \in Conns
      BY <2>2, <3>1, ConnTypes DEF IInv, Own, CxtOk
    <3> QED
      BY <1>0, <1>3, <1>4, <1>9, <3>2 DEF try_address
  <2>3. (at > Len(Addrs[cur.host])) \/ at <= Len(Addrs[cur.host])
    <3>1. Addrs[cur.host] \in Seq(Eps)
      BY <1>9, SessionAssumption
         DEF IInv, Own, Control, Numbers, Unlisted, try_address, At, Runs, World, Addrs, Hosts
    <3>2. Len(Addrs[cur.host]) \in Nat /\ at \in Nat
      BY <3>1 DEF IInv, Own, Numbers
    <3> QED
      BY <3>2
  <2> QED
    BY <1>9, <2>1, <2>2, <2>3 DEF try_address
<1>11. CASE forward_http
  <2>0. srv \in Conns
    BY <1>5, <1>11 DEF forward_http, At, Using
  <2>1. CASE net' = mem_decref(conn_close(net, srv), srv)
    <3>1. PICK m : m = conn_close(net, srv)
      OBVIOUS
    <3>2. NetStep(net, m, {}, exiting) /\ NetTypes(m)
      BY <2>0, <3>1, ConnTypes, CloseFacts DEF NetStep, NetOk
    <3>3. Tame(net, m, "req") /\ Tame(m, net', "req")
      BY <1>0, <2>0, <2>1, <3>1, <3>2, CloseAt, DecrefAt
    <3> QED
      BY <3>3, TameTwice
  <2> QED
    BY <1>2, <1>4, <1>11, <2>0, <2>1 DEF forward_http, Enlist
<1>12. CASE enlist_connect
  BY <1>4, <1>5, <1>12 DEF enlist_connect, Enlist, At, Using
<1>13. CASE connect_ok
  BY <1>0, <1>1, <1>2, <1>13 DEF connect_ok
<1>14. CASE conn_copy_read("req")
  BY <1>0, <1>1, <1>2, <1>14 DEF conn_copy_read, Source
<1>15. CASE conn_copy_write("req")
  BY <1>0, <1>1, <1>2, <1>5, <1>15 DEF conn_copy_write, Target, At, Using
<1>16. CASE req_copied
  BY <1>3, <1>5, <1>16 DEF req_copied, At, Using
<1>17. CASE release
  <2>1. srv \in Conns \cup {None}
    BY ConnTypes DEF IInv, Own, Serving
  <2> QED
    BY <1>0, <1>3, <1>17, <2>1 DEF release
<1>18. CASE req_clean
  <2>1. PICK S, drops : S = {s \in Pooled : ~Closed(s)} /\ drops = [c \in Conns |-> Drops(c)]
    OBVIOUS
  <2>2. PICK shut : shut = S \cup LastRef(net, drops)
    OBVIOUS
  <2>3. /\ net'.fd = net.fd \ shut /\ net'.reg = net.reg \ shut
        /\ net'.ref = [c \in Conns |-> IF net.ref[c] < drops[c] THEN 0 ELSE net.ref[c] - drops[c]]
    BY <1>18, <2>1, <2>2 DEF req_clean, DropAll
  <2>4. \A c \in Conns : drops[c] \in Nat /\ net.ref[c] \in Nat
    BY <1>0, <2>1, DropsType DEF IInv, Own, NetTypes
  <2>5. ASSUME NEW c \in net'.reg, net.ref[c] > 0 PROVE net'.ref[c] > 0
    <3>1. c \in Conns /\ c \notin shut
      BY <1>0, <2>3, <2>5 DEF NetTypes
    <3>2. net.ref[c] \notin 1 .. drops[c]
      BY <2>1, <2>2, <3>1 DEF LastRef
    <3> QED
      BY <2>3, <2>4, <2>5, <3>1, <3>2
  <2>6. Fewer(net, net')
    BY <1>18, <2>1, ConnTypes, DropsType, DropAllFacts DEF req_clean, Pooled
  <2>7. net'.stat = [c \in Conns |-> IF c \in shut THEN "closed" ELSE net.stat[c]]
    BY <1>18, <2>1, <2>2 DEF req_clean, DropAll
  <2> QED
    BY <2>3, <2>5, <2>6, <2>7 DEF Tame, Fewer
<1> QED
  BY <1>6, <1>7, <1>8, <1>9, <1>11, <1>12, <1>13, <1>14, <1>15, <1>16, <1>17, <1>18
     DEF ReqHandler

\* The same of rsp, all of whose steps are tame.
LEMMA RspTame ==
  ASSUME IInv, UNCHANGED env, RspHandler
  PROVE  Tame(net, net', "rsp")
<1>0. NetTypes(net) /\ Client \in Conns /\ Tame(net, net, "rsp")
  BY ConnTypes DEF NetOk, Tame
<1>1. ASSUME NEW c \in Conns, net' = conn_close(net, c) PROVE Tame(net, net', "rsp")
  BY <1>0, <1>1, CloseAt
<1>2. ASSUME NEW c \in Conns, NEW dir \in {"read", "write"}, conn_try_io("rsp", c, dir)
      PROVE  Tame(net, net', "rsp")
  <2>1. net' = net_pull_set_handler(net, c, dir, "rsp")
    BY <1>2 DEF conn_try_io
  <2> QED
    BY <1>0, <2>1, HandlerAt DEF Coros
<1>3. ASSUME NEW c \in Conns, net' = mem_decref(net, c) PROVE Tame(net, net', "rsp")
  BY <1>0, <1>3, DecrefAt
<1>4. ASSUME NEW v, net' = [net EXCEPT !.fault = v] PROVE Tame(net, net', "rsp")
  <2>1. SetIs(net, net', net.stat, net.hr, net.hw, net.ref)
    BY <1>0, <1>4, SetFields DEF NetTypes
  <2> QED
    BY <2>1 DEF SetIs, Tame
<1>5. pc["rsp"] \in Busy => Oldest.srv \in Conns
  BY ConnTypes DEF IInv, Own, Numbers
<1>6. CASE rsp_top
  BY <1>0, <1>4, <1>6 DEF rsp_top, NextRequest
<1>7. CASE rsp_fetch
  BY <1>0, <1>1, <1>2, <1>5, <1>7 DEF rsp_fetch, At, Busy
<1>8. CASE rsp_bad_gateway \/ rsp_header
  BY <1>0, <1>1, <1>2, <1>8 DEF rsp_bad_gateway, rsp_header, ReplyTo
<1>9. CASE rsp_framing \/ CopyEnds("rsp")
  BY <1>0, <1>9 DEF rsp_framing, CopyEnds
<1>10. CASE conn_copy_read("rsp")
  BY <1>0, <1>1, <1>2, <1>5, <1>10 DEF conn_copy_read, Source, Oldest, At, Busy
<1>11. CASE conn_copy_write("rsp")
  BY <1>0, <1>1, <1>2, <1>11 DEF conn_copy_write, Target
<1>12. CASE rsp_copy_over
  <2>1. CASE net' = net
    BY <1>0, <2>1
  <2>2. CASE net' = conn_close(conn_close(net, Client), Oldest.srv)
    <3>0. Oldest.srv \in Conns
      BY <1>5, <1>12 DEF rsp_copy_over, Busy
    <3>1. PICK m : m = conn_close(net, Client)
      OBVIOUS
    <3>2. NetTypes(m) /\ Tame(net, m, "rsp")
      BY <1>0, <3>1, ConnTypes, CloseFacts, CloseAt DEF NetStep, NetOk
    <3>3. Tame(m, net', "rsp")
      BY <2>2, <3>0, <3>1, <3>2, CloseAt
    <3> QED
      BY <3>2, <3>3, TameTwice
  <2> QED
    BY <1>12, <2>1, <2>2 DEF rsp_copy_over
<1>13. CASE rsp_post
  <2>0. Oldest.srv \in Conns
    BY <1>5, <1>13 DEF rsp_post, Busy
  <2>1. CASE net' = mem_decref(mem_decref(net, Oldest.srv), Oldest.srv)
    <3>1. PICK m : m = mem_decref(net, Oldest.srv)
      OBVIOUS
    <3>2. NetTypes(m) /\ Tame(net, m, "rsp")
      BY <1>0, <2>0, <3>1, ConnTypes, DecrefFacts, DecrefAt DEF NetStep, NetOk
    <3>3. Tame(m, net', "rsp")
      BY <2>0, <2>1, <3>1, <3>2, DecrefAt
    <3> QED
      BY <3>2, <3>3, TameTwice
  <2> QED
    BY <1>0, <1>3, <1>4, <1>13, <2>0, <2>1 DEF rsp_post, Forget
<1>14. CASE rsp_exit
  BY <1>0, <1>3, <1>14 DEF rsp_exit
<1> QED
  BY <1>6, <1>7, <1>8, <1>9, <1>10, <1>11, <1>12, <1>13, <1>14 DEF RspHandler

\* s calls the handlers a and b, and nobody else, with the error err.
Called(a, b, err, s) ==
    /\ \A i \in 1 .. Len(s) : s[i].k \in {a, b} \ {None} /\ s[i].err = err
    /\ \A k \in {a, b} \ {None} : \E i \in 1 .. Len(s) : s[i].k = k

\* The calls net_pull_work and net_pull_done make.
LEMMA CalledBoth ==
  ASSUME NEW a \in Coros \cup {None}, NEW b \in Coros \cup {None}, NEW err \in BOOLEAN,
         NEW s, s = Call(a, err) \o Call(b, err)
  PROVE  Called(a, b, err, s)
<1>1. PICK x : x = [k |-> a, err |-> err]
  OBVIOUS
<1>2. PICK y : y = [k |-> b, err |-> err]
  OBVIOUS
<1>3. x.k = a /\ x.err = err /\ y.k = b /\ y.err = err
  BY <1>1, <1>2
<1>4. CASE a = None /\ b = None
  <2>1. s = <<>>
    BY <1>4 DEF Call
  <2> QED
    BY <1>4, <2>1 DEF Called
<1>5. CASE a # None /\ b = None
  <2>1. s = <<x>>
    BY <1>1, <1>5 DEF Call
  <2>2. Len(s) = 1 /\ s[1] = x
    BY <2>1
  <2> QED
    BY <1>3, <1>5, <2>2 DEF Called
<1>6. CASE a = None /\ b # None
  <2>1. s = <<y>>
    BY <1>2, <1>6 DEF Call
  <2>2. Len(s) = 1 /\ s[1] = y
    BY <2>1
  <2> QED
    BY <1>3, <1>6, <2>2 DEF Called
<1>7. CASE a # None /\ b # None
  <2>1. s = <<x>> \o <<y>>
    BY <1>1, <1>2, <1>7 DEF Call
  <2>2. Len(s) = 2 /\ s[1] = x /\ s[2] = y
    BY <2>1
  <2> QED
    BY <1>3, <1>7, <2>2 DEF Called
<1> QED
  BY <1>4, <1>5, <1>6, <1>7

\* The main loop resumes k, which is alive, with ret.
Wakes(k, ret) == /\ run' = k /\ pc[k] # "done" /\ pc'[k] = Resumed(k, ret)
                 /\ \A j \in Coros \ {k} : pc'[j] = pc[j]
                 /\ net' = net /\ cxt'.list = cxt.list /\ cxt'.pool = cxt.pool

\* An event is taken from the queue: it is dropped or resumes its owner.
EventTaken ==
    /\ run = "main" /\ agenda = <<>> /\ batch = {} /\ doomed = <<>> /\ Popped(queue, queue')
    /\ UNCHANGED <<env, mode, down, armed, batch, agenda, look, srv, hist>>
    /\ \/ queue[1].to \notin armed /\ UNCHANGED <<pc, run, again, cxt, net>>
       \/ /\ queue[1].to \in armed
          /\ Wakes(Owner(queue[1].to), IF queue[1].more THEN 0 ELSE 1)
          /\ queue[1].to = "req" => pc["req"] \in {"init", "fin"}
          /\ queue[1].to = "dns" => pc["req"] = "dns_wait"

\* event_work is EventTaken.
LEMMA EventsTaken ==
  ASSUME IInv, UNCHANGED env, event_work
  PROVE  EventTaken
<1>0. /\ Control /\ Loop /\ ReqNotice /\ CxtOk /\ queue # <<>> /\ queue' = Tail(queue)
      /\ run = "main" /\ agenda = <<>> /\ batch = {} /\ doomed = <<>>
      /\ UNCHANGED <<env, mode, down, armed, batch, agenda, look, srv, hist>>
  BY DEF IInv, Own, event_work, MainTurn, Runs
<1>1. Popped(queue, queue')
  BY <1>0, NoticesPop DEF Loop
<1>2. PICK e : e = queue[1]
  OBVIOUS
<1>3. Head(queue) = e /\ e \in Events /\ e.to \in {"req", "rsp", "dns"} /\ 1 \in 1 .. Len(queue)
  BY <1>1, <1>2 DEF Popped, Events
<1>4. CASE e.to \notin armed
  BY <1>0, <1>1, <1>2, <1>3, <1>4 DEF event_work, EventTaken
<1>5. CASE e.to \in armed
  <2>1. PICK k : k = Owner(e.to)
    OBVIOUS
  <2>2. PICK ret : ret = IF e.more THEN 0 ELSE 1
    OBVIOUS
  <2>3. async_resume(k, ret, net) /\ k \in Coros /\ ret \in {-1, 0, 1}
    BY <1>3, <1>5, <2>1, <2>2 DEF event_work, Owner, Coros
  <2>4. HP!ArmedWhileAlive
    BY DEF IInv, HP!IInv
  <2>5. /\ e.to = "dns" => pc["req"] = "dns_wait"
        /\ e.to = "req" => pc["req"] \in {"init", "fin"}
    BY <1>0, <1>2, <1>3, <1>5 DEF Loop, ReqNotice
  <2>6. pc[k] # "done"
    <3>1. CASE e.to = "rsp"
      BY <1>5, <2>1, <2>4, <3>1 DEF Owner, HP!ArmedWhileAlive, RspState
    <3> QED
      BY <1>3, <2>1, <2>5, <3>1 DEF Owner
  <2>7. /\ run' = k /\ net' = net /\ pc'[k] = Resumed(k, ret)
        /\ \A j \in Coros : j # k => pc'[j] = pc[j]
    BY <1>0, <2>3, <2>6, ResumeFacts DEF look, hist
  <2>8. cxt'.list = cxt.list /\ cxt'.pool = cxt.pool
    <3>1. \/ cxt' = cxt \/ cxt' = [cxt EXCEPT !.req_blocked = FALSE]
          \/ cxt' = [cxt EXCEPT !.rsp_blocked = FALSE]
      BY <2>3, <2>6 DEF async_resume
    <3> QED
      BY <1>0, <3>1 DEF CxtOk
  <2>9. Wakes(k, ret)
    BY <2>6, <2>7, <2>8 DEF Wakes
  <2> QED
    BY <1>0, <1>1, <1>2, <1>5, <2>1, <2>2, <2>5, <2>9 DEF EventTaken
<1> QED
  BY <1>4, <1>5

\* An invalid access is recorded at most.
FaultOnly(n, m) == /\ m.stat = n.stat /\ m.fd = n.fd /\ m.reg = n.reg
                   /\ m.hr = n.hr /\ m.hw = n.hw /\ m.ref = n.ref

\* A handler of an epoll event is called: its coroutine is resumed, or has ended, which
\* only rsp can have done.
CallMade ==
    /\ run = "main" /\ agenda # <<>> /\ Len(agenda) \in Nat /\ Len(agenda) >= 1
    /\ agenda[1] \in Calls /\ Len(agenda') = Len(agenda) - 1
    /\ \A i \in 1 .. Len(agenda') : i + 1 \in 1 .. Len(agenda) /\ agenda'[i] = agenda[i + 1]
    /\ UNCHANGED <<env, mode, down, queue, armed, batch, look, srv, hist>>
    /\ \/ /\ agenda[1].k = "rsp" /\ pc["rsp"] = "done" /\ UNCHANGED <<pc, run, again, cxt>>
          /\ FaultOnly(net, net')
       \/ /\ Wakes(agenda[1].k, IF agenda[1].err THEN -1 ELSE 0)
          /\ agenda[1].k = "req" => pc["req"] \notin {"init", "fin", "dns_wait", "done"}

\* conn_epoll_handler is CallMade.
LEMMA CallsMade ==
  ASSUME IInv, UNCHANGED env, conn_epoll_handler
  PROVE  CallMade
<1>0. /\ Control /\ Loop /\ Handlers /\ CxtOk /\ NetTypes(net) /\ agenda # <<>> /\ agenda' = Tail(agenda)
      /\ run = "main" /\ UNCHANGED <<env, mode, down, queue, armed, batch, look, srv, hist>>
  BY DEF IInv, Own, NetOk, conn_epoll_handler, Runs
<1>1. agenda \in Seq(Calls)
  BY <1>0 DEF Loop
<1>2. /\ Head(agenda) \in Calls /\ Len(agenda') = Len(agenda) - 1
      /\ \A i \in 1 .. Len(agenda') : agenda'[i] = agenda[i + 1]
  BY <1>0, <1>1, HeadTailProperties
<1>3. Len(agenda) \in Nat /\ Len(agenda) >= 1 /\ Head(agenda) = agenda[1]
  BY <1>0, <1>1, EmptySeq
<1>4. \A i \in 1 .. Len(agenda') : i + 1 \in 1 .. Len(agenda)
  BY <1>2, <1>3
<1>5. PICK k : k = agenda[1].k
  OBVIOUS
<1>6. PICK ret : ret = IF agenda[1].err THEN -1 ELSE 0
  OBVIOUS
<1>7. async_resume(k, ret, net) /\ k \in Coros /\ ret \in {-1, 0, 1}
  BY <1>2, <1>3, <1>5, <1>6 DEF conn_epoll_handler, Calls
<1>8. k = "req" => pc["req"] \notin {"init", "fin", "dns_wait", "done"}
  <2>1. ASSUME agenda[1].k = "req" PROVE Sites("req") # {}
    <3>1. 1 \in {j \in 1 .. Len(agenda) : agenda[j].k = "req"}
      BY <1>3, <2>1
    <3>2. <<"call", 1>> \in Sites("req")
      BY <3>1 DEF Sites
    <3> QED
      BY <3>2
  <2> QED
    BY <1>0, <1>5, <2>1 DEF Handlers
<1>9. CASE pc[k] = "done"
  <2>1. UNCHANGED <<pc, run, again, cxt>> /\ net' = [net EXCEPT !.fault = "freed"] /\ k = "rsp"
    BY <1>7, <1>8, <1>9 DEF async_resume, Coros
  <2>2. FaultOnly(net, net')
    BY <1>0, <2>1 DEF NetTypes, NetShape, FaultOnly
  <2>3. agenda[1].k = "rsp" /\ pc["rsp"] = "done"
    BY <1>5, <1>9, <2>1
  <2> QED
    BY <1>0, <1>2, <1>3, <1>4, <2>1, <2>2, <2>3 DEF CallMade
<1>10. CASE pc[k] # "done"
  <2>1. /\ run' = k /\ net' = net /\ pc'[k] = Resumed(k, ret)
        /\ \A j \in Coros : j # k => pc'[j] = pc[j]
    BY <1>0, <1>7, <1>10, ResumeFacts DEF look, hist
  <2>2. cxt'.list = cxt.list /\ cxt'.pool = cxt.pool
    <3>1. \/ cxt' = cxt \/ cxt' = [cxt EXCEPT !.req_blocked = FALSE]
          \/ cxt' = [cxt EXCEPT !.rsp_blocked = FALSE]
      BY <1>7, <1>10 DEF async_resume
    <3> QED
      BY <1>0, <3>1 DEF CxtOk
  <2>3. Wakes(k, ret)
    BY <1>10, <2>1, <2>2 DEF Wakes
  <2> QED
    BY <1>0, <1>2, <1>3, <1>4, <1>5, <1>6, <1>8, <2>3 DEF CallMade
<1> QED
  BY <1>9, <1>10

\* What epoll reported of e is taken up.
Handled(e) ==
    /\ run = "main" /\ agenda = <<>> /\ batch' = batch \ {e}
    /\ e \in batch /\ e.c \in Conns /\ e.err \in BOOLEAN
    /\ UNCHANGED <<env, pc, mode, run, again, down, queue, armed, cxt, look, srv, hist>>
    /\ \/ e.c \notin net.reg /\ UNCHANGED <<net, agenda>>
       \/ /\ e.c \in net.reg /\ net'.fd = net.fd /\ net'.reg = net.reg /\ net'.ref = net.ref
          /\ net'.fault = net.fault
          /\ net'.hr = [net.hr EXCEPT ![e.c] = None] /\ net'.hw = [net.hw EXCEPT ![e.c] = None]
          /\ net'.stat = [net.stat EXCEPT ![e.c] = IF e.err THEN "closed" ELSE net.stat[e.c]]
          /\ Called(net.hr[e.c], net.hw[e.c], e.err, agenda')

\* net_pull_work is Handled, of something in the batch.
LEMMA EntriesHandled ==
  ASSUME IInv, UNCHANGED env, net_pull_work
  PROVE  \E e \in batch : Handled(e)
<1>0. /\ Loop /\ NetTypes(net) /\ agenda = <<>> /\ run = "main"
      /\ UNCHANGED <<env, pc, mode, run, again, down, queue, armed, cxt, look, srv, hist>>
  BY DEF IInv, Own, NetOk, net_pull_work, MainTurn, Runs
<1>1. PICK e \in batch :
          /\ batch' = batch \ {e}
          /\ IF e.c \notin net.reg THEN UNCHANGED <<net, agenda>>
             ELSE /\ net' = [net EXCEPT !.hr[e.c] = None, !.hw[e.c] = None,
                                        !.stat[e.c] = IF e.err THEN "closed" ELSE @]
                  /\ agenda' = Call(net.hr[e.c], e.err) \o Call(net.hw[e.c], e.err)
  BY DEF net_pull_work
<1>2. e.c \in Conns /\ e.err \in BOOLEAN
  BY <1>0, <1>1 DEF Loop
<1>3. CASE e.c \notin net.reg
  BY <1>0, <1>1, <1>2, <1>3 DEF Handled
<1>4. CASE e.c \in net.reg
  <2>1. net.hr[e.c] \in Coros \cup {None} /\ net.hw[e.c] \in Coros \cup {None}
    BY <1>0, <1>2 DEF NetTypes
  <2>2. Called(net.hr[e.c], net.hw[e.c], e.err, agenda')
    BY <1>1, <1>2, <1>4, <2>1, CalledBoth
  <2>3. /\ net'.fd = net.fd /\ net'.reg = net.reg /\ net'.ref = net.ref
        /\ net'.fault = net.fault
        /\ net'.hr = [net.hr EXCEPT ![e.c] = None] /\ net'.hw = [net.hw EXCEPT ![e.c] = None]
        /\ net'.stat = [net.stat EXCEPT ![e.c] = IF e.err THEN "closed" ELSE net.stat[e.c]]
    BY <1>0, <1>1, <1>4 DEF NetTypes, NetShape
  <2> QED
    BY <1>0, <1>1, <1>2, <1>4, <2>2, <2>3 DEF Handled
<1> QED
  BY <1>3, <1>4

\* epoll reports on connections net_pull knows, once on each; an error is the end of
\* a stream.
Polled ==
    /\ run = "main" /\ agenda = <<>> /\ batch = {} /\ queue = <<>> /\ ~exiting
    /\ UNCHANGED <<env, pc, mode, run, again, net, down, queue, armed, agenda, cxt, look, srv, hist>>
    /\ \A b \in batch' : b.c \in net.reg /\ b.err = (b.c \in down)
    /\ \A b, d \in batch' : b.c = d.c => b = d

\* What epoll_wait returns.
LEMMA EpollPolls ==
  ASSUME UNCHANGED env, epoll_wait
  PROVE  Polled
<1>1. PICK S \in SUBSET net.reg : batch' = {[c |-> c, err |-> c \in down] : c \in S}
  BY DEF epoll_wait
<1>2. \A b \in batch' : b.c \in S /\ b = [c |-> b.c, err |-> b.c \in down]
  BY <1>1
<1> QED
  BY <1>2 DEF epoll_wait, MainTurn, Runs, Polled

\* proxy_done: every entry of the table is kept to be told, and the table emptied.
StopBegun ==
    /\ run = "main" /\ agenda = <<>> /\ batch = {} /\ queue = <<>> /\ ~exiting /\ exiting' = TRUE
    /\ "shutdown" \in Faults
    /\ UNCHANGED <<world, pc, mode, run, again, down, loop, cxt, look, srv, hist>>
    /\ net'.stat = net.stat /\ net'.fd = net.fd \ net.reg /\ net'.reg = {}
    /\ net'.ref = net.ref /\ net'.fault = net.fault
    /\ net'.hr = [c \in Conns |-> None] /\ net'.hw = [c \in Conns |-> None]

\* This is all of proxy_done that matters here.
LEMMA StopsBegin ==
  ASSUME IInv, proxy_done
  PROVE  StopBegun
<1>1. NetShape(net)
  BY DEF IInv, Own, NetOk, NetTypes
<1>2. /\ net'.stat = net.stat /\ net'.fd = net.fd \ net.reg /\ net'.reg = {}
      /\ net'.ref = net.ref /\ net'.fault = net.fault
      /\ net'.hr = [c \in Conns |-> None] /\ net'.hw = [c \in Conns |-> None]
  BY <1>1 DEF proxy_done, NetShape
<1> QED
  BY <1>2 DEF proxy_done, MainTurn, Runs, StopBegun

\* net_pull_done: one of them is told.
StopTold ==
    /\ run = "main" /\ agenda = <<>> /\ exiting /\ exiting' = exiting
    /\ doomed # <<>> /\ doomed \in Seq(Entries) /\ doomed' = Tail(doomed)
    /\ UNCHANGED <<world, pc, mode, run, again, down, queue, armed, batch, cxt, look, srv, hist>>
    /\ net'.fd = net.fd /\ net'.reg = net.reg /\ net'.ref = net.ref
    /\ net'.hr = net.hr /\ net'.hw = net.hw
    /\ \A c \in Conns : net'.stat[c] \in {net.stat[c], "closed"}
    /\ Called(Head(doomed).hr, Head(doomed).hw, TRUE, agenda')

\* This is all of a step of net_pull_done that matters here.
LEMMA StopsTell ==
  ASSUME IInv, net_pull_done
  PROVE  StopTold
<1>0. /\ NetTypes(net) /\ Loop /\ Control /\ run = "main" /\ agenda = <<>> /\ doomed # <<>>
      /\ doomed' = Tail(doomed)
      /\ UNCHANGED <<world, exiting, pc, mode, run, again, down, queue, armed, batch, cxt, look,
                     srv, hist>>
  BY DEF IInv, Own, NetOk, net_pull_done, MainTurn, Runs
<1>1. exiting /\ doomed \in Seq(Entries)
  BY <1>0 DEF Loop, Control
<1>2. PICK d : d = Head(doomed)
  OBVIOUS
<1>3. d \in Entries
  BY <1>0, <1>1, <1>2, HeadTailProperties
<1>4. /\ d.c \in Conns /\ d.hr \in Coros \cup {None} /\ d.hw \in Coros \cup {None}
  BY <1>3 DEF Entries
<1>5. /\ net' = [net EXCEPT !.fault = "freed"] \/ net' = [net EXCEPT !.stat[d.c] = "closed"]
      /\ agenda' = Call(d.hr, TRUE) \o Call(d.hw, TRUE)
  BY <1>2 DEF net_pull_done, Waiting
<1>6. Called(d.hr, d.hw, TRUE, agenda')
  BY <1>4, <1>5, CalledBoth
<1>7. /\ net'.fd = net.fd /\ net'.reg = net.reg /\ net'.ref = net.ref
      /\ net'.hr = net.hr /\ net'.hw = net.hw
      /\ net'.stat = net.stat \/ net'.stat = [net.stat EXCEPT ![d.c] = "closed"]
  BY <1>0, <1>5 DEF NetTypes, NetShape
<1>8. \A c \in Conns : net'.stat[c] \in {net.stat[c], "closed"}
  BY <1>0, <1>7 DEF NetTypes
<1> QED
  BY <1>0, <1>1, <1>2, <1>6, <1>7, <1>8 DEF StopTold

\* Where the actions of req are taken, and those of rsp.
LEMMA ReqAt ==
  /\ req_top => pc["req"] = "top"
  /\ req_fetch => pc["req"] = "fetch"
  /\ net_bad_request => pc["req"] = "bad_request"
  /\ net_dns_lookup_a => pc["req"] = "lookup"
  /\ dns_final => pc["req"] = "dns_final"
  /\ try_address => pc["req"] = "try"
  /\ conn_get_by_endpoint => pc["req"] = "connect"
  /\ connected => pc["req"] = "connected"
  /\ conn_failed => pc["req"] = "conn_failed"
  /\ forward_http => pc["req"] = "forward"
  /\ enlist_connect => pc["req"] = "enlist"
  /\ connect_ok => pc["req"] = "connect_ok"
  /\ conn_copy_read("req") \/ CopyEnds("req") => pc["req"] = "copy_read"
  /\ conn_copy_write("req") => pc["req"] = "copy_write"
  /\ req_copied => pc["req"] = "copied"
  /\ req_copy_failed => pc["req"] = "copy_failed"
  /\ req_bad_gateway => pc["req"] = "bad_gateway"
  /\ release => pc["req"] = "release"
  /\ req_finish => pc["req"] = "finish"
  /\ req_clean => pc["req"] = "clean"
BY DEF req_top, req_fetch, net_bad_request, net_dns_lookup_a, dns_final, try_address,
       conn_get_by_endpoint, connected, conn_failed, forward_http, enlist_connect, connect_ok,
       conn_copy_read, CopyEnds, conn_copy_write, req_copied, req_copy_failed, req_bad_gateway,
       release, req_finish, req_clean, At

\* rsp.
LEMMA RspAt ==
  /\ rsp_top => pc["rsp"] = "top"
  /\ rsp_fetch => pc["rsp"] = "fetch"
  /\ rsp_bad_gateway => pc["rsp"] = "bad_gateway"
  /\ rsp_header => pc["rsp"] = "header"
  /\ rsp_framing => pc["rsp"] = "framing"
  /\ conn_copy_read("rsp") \/ CopyEnds("rsp") => pc["rsp"] = "copy_read"
  /\ conn_copy_write("rsp") => pc["rsp"] = "copy_write"
  /\ rsp_copy_over => pc["rsp"] \in {"copied", "copy_failed"}
  /\ rsp_post => pc["rsp"] \in {"post", "continue"}
  /\ rsp_exit => pc["rsp"] = "exit"
BY DEF rsp_top, rsp_fetch, rsp_bad_gateway, rsp_header, rsp_framing, conn_copy_read, CopyEnds,
       conn_copy_write, rsp_copy_over, rsp_post, rsp_exit, At

\* A connection is begun: it is made at once, or req waits for it; or nothing is begun.
Begun(s) ==
    /\ s \in Servers /\ EpOf[s] = Ep /\ net.ref[s] = 0 /\ s \notin net.fd
    /\ \A b \in batch : b.c # s
    /\ srv' = s /\ down' = down \ {s} /\ at' = at
    /\ net'.fd = net.fd \cup {s} /\ net'.reg = net.reg \cup {s} /\ net'.fault = net.fault
    /\ net'.hw = net.hw
Made(s) == /\ net'.stat = [net.stat EXCEPT ![s] = "open"] /\ net'.hr = net.hr
           /\ net'.ref = [net.ref EXCEPT ![s] = 2]
           /\ cxt' = [cxt EXCEPT !.pool[Ep] = s] /\ Goto("req", AfterConnect)
Awaited(s) == /\ net'.stat = net.stat /\ net'.hr = [net.hr EXCEPT ![s] = "req"]
               /\ net'.ref = [net.ref EXCEPT ![s] = 1]
               /\ cxt' = cxt /\ pc' = [pc EXCEPT !["req"] = "conn_wait"] /\ run' = "main"
NotBegun == /\ "connect_fail" \in Faults /\ at' = at + 1 /\ Goto("req", "try")
            /\ UNCHANGED <<net, down, cxt, srv>>

\* conn_get_by_endpoint makes a connection, waits for one, or cannot begin.
LEMMA Connects ==
  ASSUME IInv, conn_get_by_endpoint
  PROVE  \/ \E s \in Servers : Begun(s) /\ (Made(s) \/ Awaited(s))
         \/ NotBegun
<1>0. NetTypes(net)
  BY DEF IInv, Own, NetOk
<1>1. CASE NotBegun
  BY <1>1
<1>2. ASSUME NEW s \in Fresh(Ep), srv' = s, down' = down \ {s}, at' = at,
             \/ /\ net' = Established(Opened(s), s)
                /\ cxt' = [cxt EXCEPT !.pool[Ep] = s]
                /\ Goto("req", AfterConnect)
             \/ /\ net' = net_pull_set_handler(Opened(s), s, "read", "req")
                /\ pc' = [pc EXCEPT !["req"] = "conn_wait"]
                /\ run' = "main" /\ cxt' = cxt
      PROVE  \E t \in Servers : Begun(t) /\ (Made(t) \/ Awaited(t))
  <2>1. /\ s \in Servers /\ s \in Conns /\ EpOf[s] = Ep /\ net.ref[s] = 0 /\ s \notin net.fd
        /\ \A b \in batch : b.c # s
    BY <1>2 DEF Fresh, Conns
  <2>2. PICK m : m = Opened(s)
    OBVIOUS
  <2>3. /\ m.stat = net.stat /\ m.fd = net.fd \cup {s} /\ m.reg = net.reg \cup {s}
        /\ m.hr = net.hr /\ m.hw = net.hw /\ m.ref = [net.ref EXCEPT ![s] = 1]
        /\ m.fault = net.fault /\ NetTypes(m)
    BY <1>0, <2>1, <2>2, OpenedAt
  <2>4. CASE net' = Established(m, s) /\ cxt' = [cxt EXCEPT !.pool[Ep] = s]
             /\ Goto("req", AfterConnect)
    <3>1. /\ net'.stat = [m.stat EXCEPT ![s] = "open"] /\ net'.fd = m.fd /\ net'.reg = m.reg
          /\ net'.hr = m.hr /\ net'.hw = m.hw /\ net'.ref = [m.ref EXCEPT ![s] = m.ref[s] + 1]
          /\ net'.fault = m.fault
      BY <2>1, <2>3, <2>4, EstablishedAt
    <3>2. net.ref \in [Conns -> Nat]
      BY <1>0 DEF NetTypes
    <3>3. net'.ref = [net.ref EXCEPT ![s] = 2]
      BY <2>1, <2>3, <3>1, <3>2
    <3>4. Begun(s) /\ Made(s)
      BY <1>2, <2>1, <2>3, <2>4, <3>1, <3>3 DEF Begun, Made
    <3> QED
      BY <2>1, <3>4
  <2>5. CASE /\ net' = net_pull_set_handler(m, s, "read", "req") /\ cxt' = cxt
             /\ pc' = [pc EXCEPT !["req"] = "conn_wait"] /\ run' = "main"
    <3>1. s \in m.reg
      BY <2>3
    <3>d. "read" \in {"read", "write"} /\ "req" \in Coros
      BY DEF Coros
    <3>e. /\ HandlersOnly(m, net')
          /\ s \in m.reg => net'.hr = IF "read" = "read" THEN [m.hr EXCEPT ![s] = "req"] ELSE m.hr
          /\ s \in m.reg => net'.hw = IF "read" = "write" THEN [m.hw EXCEPT ![s] = "req"] ELSE m.hw
      BY <2>1, <2>3, <2>5, <3>d, HandlerAt
    <3>2. HandlersOnly(m, net') /\ net'.hr = [m.hr EXCEPT ![s] = "req"] /\ net'.hw = m.hw
      BY <3>1, <3>e
    <3>3. Begun(s) /\ Awaited(s)
      BY <1>2, <2>1, <2>3, <2>5, <3>2 DEF Begun, Awaited, HandlersOnly
    <3> QED
      BY <2>1, <3>3
  <2> QED
    BY <1>2, <2>2, <2>4, <2>5
<1> QED
  BY <1>1, <1>2 DEF conn_get_by_endpoint, NotBegun

\* The connection req waited for is made.
Completed == /\ srv \in Servers /\ srv' = srv /\ Goto("req", AfterConnect)
             /\ UNCHANGED <<down, look>> /\ cxt' = [cxt EXCEPT !.pool[Ep] = srv]
             /\ net'.stat = [net.stat EXCEPT ![srv] = "open"] /\ net'.fd = net.fd
             /\ net'.reg = net.reg /\ net'.hr = net.hr /\ net'.hw = net.hw
             /\ net'.ref = [net.ref EXCEPT ![srv] = net.ref[srv] + 1] /\ net'.fault = net.fault

\* What connected does.
LEMMA Completes ==
  ASSUME IInv, connected
  PROVE  Completed
<1>1. srv \in Servers /\ srv \in Conns /\ NetTypes(net)
  BY DEF connected, At, IInv, Own, Serving, Attempt, NetOk, Conns
<1> QED
  BY <1>1, EstablishedAt DEF Completed, connected

\* A connection that failed is forgotten, but its descriptor stays open.
Forgotten == /\ srv \in Servers /\ srv' = None /\ at' = at + 1 /\ Goto("req", "try")
             /\ UNCHANGED <<down, cxt>>
             /\ net'.stat = net.stat /\ net'.fd = net.fd /\ net'.reg = net.reg \ {srv}
             /\ net'.hr = [net.hr EXCEPT ![srv] = None] /\ net'.hw = [net.hw EXCEPT ![srv] = None]
             /\ net'.ref = [net.ref EXCEPT ![srv] = 0] /\ net'.fault = net.fault

\* conn_failed is Forgotten.
LEMMA Forgets ==
  ASSUME IInv, conn_failed
  PROVE  Forgotten
<1>1. srv \in Servers /\ NetShape(net)
  BY DEF conn_failed, At, IInv, Own, Serving, Attempt, NetOk, NetTypes
<1>2. PICK d : d = net_pull_del(net, srv)
  OBVIOUS
<1>3. DelIs(net, d, srv)
  BY <1>1, <1>2, DelFields
<1>4. net' = [d EXCEPT !.ref[srv] = 0]
  BY <1>2 DEF conn_failed
<1>5. /\ net'.stat = net.stat /\ net'.fd = net.fd /\ net'.reg = net.reg \ {srv}
      /\ net'.hr = [net.hr EXCEPT ![srv] = None] /\ net'.hw = [net.hw EXCEPT ![srv] = None]
      /\ net'.ref = [net.ref EXCEPT ![srv] = 0] /\ net'.fault = net.fault
  BY <1>3, <1>4 DEF DelIs, NetShape
<1> QED
  BY <1>1, <1>5 DEF Forgotten, conn_failed, loop

\* Where the main loop resumes a coroutine.
LEMMA WakesTo ==
  ASSUME Control, NEW k \in Coros, NEW ret \in {-1, 0, 1}, Wakes(k, ret)
  PROVE  /\ pc[k] = "init" => pc'[k] = "top"
         /\ pc[k] = "fin" => pc'[k] = "clean"
         /\ pc[k] = "dns_wait" => pc'[k] = "dns_final"
         /\ pc[k] = "conn_wait" => pc'[k] = IF ret = -1 THEN "conn_failed" ELSE "connected"
         /\ pc[k] = "idle" => pc'[k] = IF ret = 0 THEN "top" ELSE "exit"
         /\ pc[k] \notin {"init", "fin", "dns_wait", "conn_wait", "idle"} => pc'[k] = pc[k]
BY DEF Wakes, Resumed

\* No handler of req is registered while it runs.
LEMMA ReqUnregistered ==
  ASSUME IInv, run = "req" \/ pc["req"] \in {"init", "fin", "dns_wait", "done"}
  PROVE  /\ \A c \in Conns : net.hr[c] # "req" /\ net.hw[c] # "req"
         /\ \A i \in 1 .. Len(agenda) : agenda[i].k # "req"
         /\ \A i \in 1 .. Len(doomed) : doomed[i].hr # "req" /\ doomed[i].hw # "req"
<1>1. Sites("req") = {}
  BY DEF IInv, Own, Handlers
<1> QED
  BY <1>1 DEF Sites

\* A step of req keeps General.
LEMMA GeneralReq ==
  ASSUME IInv, General, UNCHANGED env, ReqHandler
  PROVE  General'
<1>0. /\ ReqFlow /\ ReqTurn /\ Control /\ NetTypes(net) /\ exiting' = exiting /\ agenda' = agenda
      /\ batch' = batch
  BY ReqFlows DEF ReqFlow, ReqTurn, IInv, Own, NetOk, env
<1>1. run = "req" /\ pc["req"] \notin Paused
  BY <1>0 DEF ReqTurn, Control, Coros
<1>2. Straight'
  BY <1>0 DEF General, Straight, ReqTurn
<1>3. Leaving'
  <2>1. pc'["req"] # "connected"
    BY <1>0 DEF ReqFlow, ReqEdge, ReqStraight
  <2> QED
    BY <1>0, <2>1 DEF General, Leaving, ReqFlow
<1>4. pc'["req"] = "conn_wait" => conn_get_by_endpoint
  <2>1. pc'["req"] = "conn_wait" => pc["req"] = "connect"
    BY <1>0, <1>1 DEF ReqFlow, ReqEdge, Paused
  <2> QED
    BY <2>1, ReqAt DEF ReqHandler
<1>5. Reports'
  <2>1. \A b \in batch' : b.err => b.c \in down'
    BY <1>0 DEF General, Reports, ReqTurn
  <2>2. ASSUME pc'["req"] = "conn_wait"
        PROVE  \A c \in Conns : (net'.hr[c] = "req" => c = srv') /\ net'.hw[c] # "req"
    <3>1. PICK s \in Servers : Begun(s) /\ (Made(s) \/ Awaited(s))
      <4>1. ~NotBegun
        BY <1>0, <2>2, PcFacts DEF NotBegun, Goto, Coros, ReqLabels
      <4> QED
        BY <1>4, <2>2, <4>1, Connects
    <3>2. Awaited(s)
      <4>1. ~Made(s)
        BY <1>0, <2>2, PcFacts DEF Made, Goto, Coros, ReqLabels, AfterConnect
      <4> QED
        BY <3>1, <4>1
    <3>3. net'.hr = [net.hr EXCEPT ![s] = "req"] /\ net'.hw = net.hw /\ srv' = s
      BY <3>1, <3>2 DEF Begun, Awaited
    <3> QED
      BY <1>0, <1>1, <3>3, ReqUnregistered DEF NetTypes
  <2> QED
    BY <2>1, <2>2 DEF Reports
<1>6. Held'
  <2>1. CASE conn_get_by_endpoint
    <3>1. CASE NotBegun
      BY <3>1 DEF NotBegun, General, Held
    <3>2. CASE \E s \in Servers : Begun(s) /\ (Made(s) \/ Awaited(s))
      <4>1. PICK s \in Servers : Begun(s) /\ (Made(s) \/ Awaited(s))
        BY <3>2
      <4>2. net'.reg = net.reg \cup {s} /\ \E v \in {1, 2} : net'.ref = [net.ref EXCEPT ![s] = v]
        BY <4>1 DEF Begun, Made, Awaited
      <4> QED
        BY <1>0, <4>2 DEF General, Held, NetTypes, Conns
    <3> QED
      BY <2>1, <3>1, <3>2, Connects
  <2>2. CASE conn_failed
    <3>1. Forgotten
      BY <2>2, Forgets
    <3> QED
      BY <1>0, <3>1 DEF Forgotten, General, Held, NetTypes
  <2>3. CASE connected
    BY <1>0, <2>3, Completes DEF Completed, General, Held, NetTypes
  <2>4. CASE ~conn_get_by_endpoint /\ ~connected /\ ~conn_failed
    BY <2>4, ReqTame DEF General, Held, Tame
  <2> QED
    BY <2>1, <2>2, <2>3, <2>4
<1>7. srv' # None => pc'["req"] \in Holding
  <2>1. CASE pc'["req"] \in {"forward", "enlist", "conn_wait"}
    BY <2>1 DEF Holding, Using, Attempt
  <2>2. CASE srv' = srv /\ srv # None
    BY <1>0, <1>1, <2>2
       DEF General, ReqFlow, SrvFlow, ReqEdge, Holding, Using, Attempt, Paused
  <2> QED
    BY <1>0, <2>1, <2>2 DEF ReqFlow, SrvFlow
<1> QED
  BY <1>2, <1>3, <1>5, <1>6, <1>7 DEF General

\* A step of rsp keeps General.
LEMMA GeneralRsp ==
  ASSUME IInv, General, UNCHANGED env, RspHandler
  PROVE  General'
<1>0. /\ RspFlow /\ RspTurn /\ Control /\ NetTypes(net) /\ exiting' = exiting /\ Tame(net, net', "rsp")
  BY RspFlows, RspTame DEF RspFlow, RspTurn, IInv, Own, NetOk, env
<1>1. Straight' /\ Leaving'
  BY <1>0 DEF General, Straight, Leaving, RspTurn
<1>2. Reports'
  BY <1>0, NoNone DEF General, Reports, RspTurn, Tame
<1> QED
  BY <1>0, <1>1, <1>2 DEF General, Held, RspTurn, Tame

\* The main loop, the peers and the signal handler keep it.
LEMMA GeneralMain ==
  ASSUME IInv, General, \/ UNCHANGED env /\ (MainLoop \/ \E c \in Conns : PeerCloses(c))
                        \/ proxy_done \/ net_pull_done
  PROVE  General'
<1>0. Control /\ NetTypes(net)
  BY DEF IInv, Own, NetOk
<1>1. ASSUME NEW k \in Coros, NEW ret \in {-1, 0, 1}, Wakes(k, ret), run = "main",
             UNCHANGED <<env, batch, down, srv>>,
             k = "req" => /\ ret = -1 \/ ~exiting \/ pc["req"] # "conn_wait",
             exiting => \A i \in 1 .. Len(agenda') : agenda'[i].err
      PROVE  General'
  <2>1. /\ exiting' = exiting /\ net' = net /\ run' = k /\ pc[k] # "done"
        /\ \A j \in Coros \ {k} : pc'[j] = pc[j]
    BY <1>1 DEF Wakes, env
  <2>2. /\ pc["req"] \notin ReqStraight /\ pc["rsp"] \notin RspStraight
    BY <1>1 DEF General, Straight
  <2>3. Straight'
    BY <2>1, <2>2 DEF Straight, Coros
  <2>4. Leaving'
    <3>1. pc'["req"] \in {"connect", "connected"} => ~exiting
      BY <1>0, <1>1, <2>1, <2>2, WakesTo DEF Coros, ReqStraight
    <3> QED
      BY <1>1, <2>1, <3>1 DEF General, Leaving
  <2>5. Reports'
    <3>1. pc'["req"] = "conn_wait" => pc["req"] = "conn_wait"
      BY <1>0, <1>1, <2>1, WakesTo DEF Coros
    <3> QED
      BY <1>1, <2>1, <3>1 DEF General, Reports
  <2>6. srv' # None => pc'["req"] \in Holding
    BY <1>0, <1>1, <2>1, WakesTo DEF General, Holding, Attempt, Using, Coros
  <2> QED
    BY <2>1, <2>3, <2>4, <2>5, <2>6 DEF General, Held
<1>2. CASE UNCHANGED env /\ event_work
  <2>1. EventTaken
    BY <1>2, EventsTaken
  <2>2. CASE UNCHANGED <<pc, run, net>>
    BY <2>1, <2>2 DEF EventTaken, General, Straight, Leaving, Reports, Held, env
  <2>3. CASE /\ queue[1].to \in armed /\ Wakes(Owner(queue[1].to), IF queue[1].more THEN 0 ELSE 1)
             /\ queue[1].to = "req" => pc["req"] \in {"init", "fin"}
             /\ queue[1].to = "dns" => pc["req"] = "dns_wait"
    <3>1. queue[1].to \in {"req", "rsp", "dns"}
      BY <2>3 DEF IInv, Own, Loop
    <3>2. Owner(queue[1].to) \in Coros /\ (IF queue[1].more THEN 0 ELSE 1) \in {-1, 0, 1}
      BY DEF Owner, Coros
    <3>3. Owner(queue[1].to) = "req" => pc["req"] # "conn_wait"
      BY <2>3, <3>1 DEF Owner
    <3>4. UNCHANGED <<env, batch, down, srv>> /\ run = "main" /\ agenda = <<>> /\ agenda' = <<>>
      BY <2>1 DEF EventTaken
    <3> QED
      BY <1>1, <2>3, <3>2, <3>3, <3>4
  <2> QED
    BY <2>1, <2>2, <2>3 DEF EventTaken
<1>3. CASE UNCHANGED env /\ conn_epoll_handler
  <2>1. CallMade
    BY <1>3, CallsMade
  <2>0. /\ UNCHANGED <<env, batch, down, srv>> /\ run = "main"
        /\ exiting => \A i \in 1 .. Len(agenda') : agenda'[i].err
    BY <2>1 DEF CallMade, General, Leaving
  <2>2. CASE UNCHANGED <<pc, run>> /\ FaultOnly(net, net')
    BY <2>0, <2>2 DEF General, Straight, Leaving, Reports, Held, FaultOnly, env
  <2>3. CASE Wakes(agenda[1].k, IF agenda[1].err THEN -1 ELSE 0)
    <3>1. agenda[1].k \in Coros /\ (IF agenda[1].err THEN -1 ELSE 0) \in {-1, 0, 1}
      BY <2>1 DEF CallMade, Calls
    <3>2. exiting => agenda[1].err
      BY <2>1 DEF CallMade, General, Leaving
    <3> QED
      BY <1>1, <2>0, <2>3, <3>1, <3>2
  <2> QED
    BY <2>1, <2>2, <2>3 DEF CallMade
<1>4. CASE UNCHANGED env /\ net_pull_work
  <2>1. PICK e \in batch : Handled(e)
    BY <1>4, EntriesHandled
  <2>2. CASE UNCHANGED <<net, agenda>>
    BY <2>1, <2>2 DEF Handled, General, Straight, Leaving, Reports, Held, env
  <2>3. CASE /\ e.c \in net.reg /\ net'.reg = net.reg /\ net'.ref = net.ref
             /\ net'.hr = [net.hr EXCEPT ![e.c] = None] /\ net'.hw = [net.hw EXCEPT ![e.c] = None]
    BY <1>0, <2>1, <2>3, NoNone DEF Handled, General, Straight, Leaving, Reports, Held, env, NetTypes
  <2> QED
    BY <2>1, <2>2, <2>3 DEF Handled
<1>5. CASE UNCHANGED env /\ (epoll_wait \/ dns_notify_handler \/ \E c \in Conns : PeerCloses(c))
  <2>0. UNCHANGED <<pc, run, net, srv, agenda>> /\ down \subseteq down' /\ exiting' = exiting
    BY <1>5 DEF epoll_wait, dns_notify_handler, PeerCloses, env, loop
  <2>1. (batch' # {} => ~exiting) /\ \A b \in batch' : b.err => b.c \in down'
    <3>1. CASE epoll_wait
      BY <1>5, <3>1, EpollPolls DEF Polled
    <3>2. CASE batch' = batch
      BY <2>0, <3>2 DEF General, Leaving, Reports
    <3> QED
      BY <1>5, <3>1, <3>2 DEF dns_notify_handler, PeerCloses, loop
  <2> QED
    BY <2>0, <2>1 DEF General, Straight, Leaving, Reports, Held
<1>6. CASE proxy_done
  <2>1. StopBegun
    BY <1>6, StopsBegin
  <2>2. pc["req"] \notin {"connect", "connected"}
    BY <2>1 DEF StopBegun, General, Straight, ReqStraight
  <2> QED
    BY <2>1, <2>2, NoNone DEF StopBegun, General, Straight, Leaving, Reports, Held, loop
<1>7. CASE net_pull_done
  <2>1. StopTold
    BY <1>7, StopsTell
  <2> QED
    BY <2>1 DEF StopTold, General, Straight, Leaving, Reports, Held, Called
<1> QED
  BY <1>2, <1>3, <1>4, <1>5, <1>6, <1>7 DEF MainLoop

\* General is an invariant.
LEMMA GeneralStep == IInv /\ General /\ [Next]_vars => General'
<1>1. CASE UNCHANGED vars
  BY <1>1 DEF vars, env, loop, General, Straight, Leaving, Reports, Held
<1>2. ASSUME IInv, General, Next PROVE General'
  BY <1>2, GeneralReq, GeneralRsp, GeneralMain DEF Next, Step
<1> QED
  BY <1>1, <1>2

\* General holds in every world.
LEMMA AlwaysGeneral == Spec => []General
<1>1. Init => General
  BY DEF Init, General, Straight, Leaving, Reports, Held, ReqStraight, RspStraight, Coros, Conns
<1> QED
  BY <1>1, GeneralStep, AlwaysIInv, PTL DEF Spec
-----------------------------------------------------------------------------
(***************************************************************************)
(* Where no connection attempt fails.                                      *)
(***************************************************************************)
\* While req waits for a connection, nobody reports an error on it.
Promised ==
    pc["req"] = "conn_wait" =>
        /\ net.hr[srv] = "req" => /\ \A b \in batch : b.c = srv => ~b.err
                                  /\ (\A b \in batch : b.c # srv) => srv \notin down
        /\ \A i \in 1 .. Len(agenda) : agenda[i].k = "req" /\ agenda[i].err => exiting

\* net_pull knows every open descriptor, and closes them all when the process exits;
\* an attempt fails only then.
Tidy == /\ net.fd \subseteq net.reg
        /\ exiting => net.fd = {}
        /\ pc["req"] = "conn_failed" => exiting
        /\ Promised

\* A step of req keeps Tidy.
LEMMA TidyReq ==
  ASSUME IInv, General, Tidy, "connect_fail" \notin Faults, UNCHANGED env, ReqHandler
  PROVE  Tidy'
<1>0. /\ ReqFlow /\ ReqTurn /\ Control /\ NetTypes(net) /\ exiting' = exiting /\ agenda' = agenda
      /\ batch' = batch
  BY ReqFlows DEF ReqFlow, ReqTurn, IInv, Own, NetOk, env
<1>1. run = "req" /\ pc["req"] \notin Paused
  BY <1>0 DEF ReqTurn, Control, Coros
<1>2. pc'["req"] # "conn_failed"
  BY <1>0 DEF ReqFlow, ReqEdge, ReqStraight
<1>3. pc'["req"] = "conn_wait" => pc["req"] = "connect"
  BY <1>0, <1>1 DEF ReqFlow, ReqEdge, Paused
<1>4. CASE conn_get_by_endpoint
  <2>1. PICK s \in Servers : Begun(s)
    BY <1>4, Connects DEF NotBegun
  <2>2. ~exiting /\ net'.fd \subseteq net'.reg
    BY <1>4, <2>1, ReqAt DEF General, Leaving, Begun, Tidy
  <2>3. Promised'
    BY <1>0, <1>1, <2>1, ReqUnregistered DEF Promised, Begun
  <2> QED
    BY <1>0, <1>2, <2>2, <2>3 DEF Tidy
<1>5. CASE conn_failed
  <2>1. Forgotten /\ exiting
    BY <1>5, Forgets, ReqAt DEF Tidy
  <2>2. net'.fd = {}
    BY <2>1 DEF Forgotten, Tidy
  <2> QED
    BY <1>2, <1>3, <1>5, <2>2, ReqAt DEF Tidy, Promised
<1>7. CASE connected
  BY <1>0, <1>2, <1>3, <1>7, Completes, ReqAt DEF Completed, Tidy, Promised
<1>6. CASE ~conn_get_by_endpoint /\ ~connected /\ ~conn_failed
  <2>1. Tame(net, net', "req")
    BY <1>6, ReqTame
  <2>2. pc["req"] # "connect"
    BY <1>6, ReqAt DEF ReqHandler
  <2> QED
    BY <1>0, <1>2, <1>3, <2>1, <2>2 DEF Tidy, Tame, Promised
<1> QED
  BY <1>4, <1>5, <1>6, <1>7

\* The rest of the session keeps it.
LEMMA TidyStep ==
  ASSUME IInv, General, Tidy, "connect_fail" \notin Faults, [Next]_vars
  PROVE  Tidy'
<1>0. /\ Control /\ NetTypes(net) /\ NetOpen(net, exiting)
      /\ pc["req"] = "conn_wait" => srv \in Servers /\ srv \in Conns
  BY DEF IInv, Own, NetOk, Serving, Attempt, Conns
<1>1. CASE UNCHANGED vars
  BY <1>1 DEF vars, env, loop, Tidy, Promised
<1>2. CASE UNCHANGED env /\ ReqHandler
  BY <1>2, TidyReq
<1>3. CASE UNCHANGED env /\ RspHandler
  <2>1. RspTurn /\ Tame(net, net', "rsp") /\ exiting' = exiting
    BY <1>3, RspFlows, RspTame DEF RspFlow, env
  <2> QED
    BY <1>0, <2>1, NoNone DEF RspTurn, Tame, Tidy, Promised
<1>4. ASSUME NEW k \in Coros, NEW ret \in {-1, 0, 1}, Wakes(k, ret),
             UNCHANGED <<env, batch, down, srv>>,
             k = "req" /\ pc["req"] = "conn_wait" => ret # -1 \/ exiting,
             \A i \in 1 .. Len(agenda') : i + 1 \in 1 .. Len(agenda) /\ agenda'[i] = agenda[i + 1]
      PROVE  Tidy'
  <2>1. /\ exiting' = exiting /\ net' = net /\ \A j \in Coros \ {k} : pc'[j] = pc[j]
    BY <1>4 DEF Wakes, env
  <2>2. /\ pc'["req"] = "conn_wait" => pc["req"] = "conn_wait"
        /\ pc'["req"] = "conn_failed" => exiting
    BY <1>0, <1>4, <2>1, WakesTo DEF Coros, Tidy
  <2> QED
    BY <1>4, <2>1, <2>2 DEF Tidy, Promised
<1>5. CASE UNCHANGED env /\ event_work
  <2>1. EventTaken
    BY <1>5, EventsTaken
  <2>2. CASE UNCHANGED <<pc, net>>
    BY <2>1, <2>2 DEF EventTaken, Tidy, Promised, env
  <2>3. CASE Wakes(Owner(queue[1].to), IF queue[1].more THEN 0 ELSE 1)
    <3>1. Owner(queue[1].to) \in Coros /\ (IF queue[1].more THEN 0 ELSE 1) \in {-1, 0, 1} \ {-1}
      BY DEF Owner, Coros
    <3>2. UNCHANGED <<env, batch, down, srv>> /\ agenda' = <<>>
      BY <2>1 DEF EventTaken
    <3> QED
      BY <1>4, <2>3, <3>1, <3>2
  <2> QED
    BY <2>1, <2>2, <2>3 DEF EventTaken
<1>6. CASE UNCHANGED env /\ conn_epoll_handler
  <2>1. CallMade
    BY <1>6, CallsMade
  <2>0. /\ UNCHANGED <<env, batch, down, srv>> /\ exiting' = exiting
        /\ \A i \in 1 .. Len(agenda') : i + 1 \in 1 .. Len(agenda) /\ agenda'[i] = agenda[i + 1]
    BY <2>1 DEF CallMade, env
  <2>2. CASE UNCHANGED pc /\ FaultOnly(net, net')
    BY <2>0, <2>2 DEF Tidy, Promised, FaultOnly
  <2>3. CASE Wakes(agenda[1].k, IF agenda[1].err THEN -1 ELSE 0)
    <3>1. agenda[1].k \in Coros /\ (IF agenda[1].err THEN -1 ELSE 0) \in {-1, 0, 1}
      BY <2>1 DEF CallMade, Calls
    <3>2. agenda[1].k = "req" /\ pc["req"] = "conn_wait" => ~agenda[1].err \/ exiting
      BY <2>1 DEF CallMade, Tidy, Promised
    <3> QED
      BY <1>4, <2>0, <2>3, <3>1, <3>2
  <2> QED
    BY <2>1, <2>2, <2>3 DEF CallMade
<1>7. CASE UNCHANGED env /\ net_pull_work
  <2>1. PICK e \in batch : Handled(e)
    BY <1>7, EntriesHandled
  <2>2. CASE UNCHANGED <<net, agenda>> /\ e.c \notin net.reg
    BY <1>0, <2>1, <2>2, NoNone DEF Handled, Tidy, Promised, env, NetOpen
  <2>3. CASE /\ e.c \in net.reg /\ net'.reg = net.reg /\ net'.fd = net.fd
             /\ net'.hr = [net.hr EXCEPT ![e.c] = None] /\ net'.hw = [net.hw EXCEPT ![e.c] = None]
             /\ Called(net.hr[e.c], net.hw[e.c], e.err, agenda')
    <3>1. Promised'
      <4>0. SUFFICES ASSUME pc["req"] = "conn_wait" PROVE Promised'
        BY <2>1 DEF Promised, Handled
      <4>1. /\ e.c \in Conns /\ batch' = batch \ {e} /\ UNCHANGED <<down, srv, exiting>>
        BY <2>1 DEF Handled, env
      <4>2. ASSUME net'.hr[srv] = "req"
            PROVE  /\ \A b \in batch' : b.c = srv => ~b.err
                   /\ (\A b \in batch' : b.c # srv) => srv \notin down
        <5>1. e.c # srv /\ net.hr[srv] = "req"
          BY <1>0, <2>3, <4>0, <4>1, <4>2, NoNone DEF NetTypes
        <5> QED
          BY <4>0, <4>1, <5>1 DEF Tidy, Promised
      <4>3. ASSUME NEW i \in 1 .. Len(agenda'), agenda'[i].k = "req", agenda'[i].err PROVE FALSE
        <5>1. "req" \in {net.hr[e.c], net.hw[e.c]} /\ e.err
          BY <2>3, <4>3 DEF Called
        <5>2. net.hr[srv] = "req" /\ e.c = srv
          BY <4>0, <4>1, <5>1 DEF General, Reports
        <5> QED
          BY <4>0, <5>1, <5>2 DEF Tidy, Promised
      <4> QED
        BY <4>1, <4>2, <4>3 DEF Promised
    <3> QED
      BY <2>1, <2>3, <3>1 DEF Handled, Tidy, env
  <2> QED
    BY <2>1, <2>2, <2>3 DEF Handled
<1>8. CASE UNCHANGED env /\ epoll_wait
  <2>1. Polled
    BY <1>8, EpollPolls
  <2> QED
    BY <2>1 DEF Polled, Tidy, Promised, env
<1>9. CASE UNCHANGED env /\ dns_notify_handler
  BY <1>9 DEF dns_notify_handler, Tidy, Promised, env
<1>10. CASE UNCHANGED env /\ \E c \in Conns : PeerCloses(c)
  <2>1. PICK c \in Conns : PeerCloses(c)
    BY <1>10
  <2>2. UNCHANGED <<pc, net, srv, batch, agenda, exiting>> /\ down' = down \cup {c}
    BY <1>10, <2>1 DEF PeerCloses, loop, env
  <2>3. ASSUME pc["req"] = "conn_wait", net.hr[srv] = "req", \A b \in batch : b.c # srv
        PROVE  srv # c
    <3>1. srv # Client
      BY <1>0, <2>3, SessionAssumption
    <3>2. SUFFICES ASSUME srv = c PROVE FALSE
      OBVIOUS
    <3>3. Connecting(c)
      BY <2>3, <3>2 DEF Connecting
    <3>4. CloseFault(c) = "connect_fail"
      BY <3>1, <3>2, <3>3 DEF CloseFault
    <3> QED
      BY <2>1, <3>4 DEF PeerCloses
  <2> QED
    BY <2>2, <2>3 DEF Tidy, Promised
<1>11. CASE proxy_done
  <2>1. StopBegun
    BY <1>11, StopsBegin
  <2> QED
    BY <1>0, <2>1, NoNone DEF StopBegun, Tidy, Promised, loop
<1>12. CASE net_pull_done
  <2>1. StopTold
    BY <1>12, StopsTell
  <2> QED
    BY <2>1 DEF StopTold, Tidy, Promised
<1> QED
  BY <1>1, <1>2, <1>3, <1>5, <1>6, <1>7, <1>8, <1>9, <1>10, <1>11, <1>12 DEF Next, Step, MainLoop

\* The world does not change.
LEMMA SameWorld == [Next]_vars => world' = world
BY DEF Next, vars, env, proxy_done, net_pull_done

\* Tidy is an invariant in these worlds.
LEMMA AlwaysTidy == Spec => []("connect_fail" \notin Faults => Tidy)
<1>1. Init => ("connect_fail" \notin Faults => Tidy)
  BY DEF Init, Tidy, Promised, Coros
<1>2. /\ IInv /\ General /\ ("connect_fail" \notin Faults => Tidy) /\ [Next]_vars
      => ("connect_fail" \notin Faults => Tidy)'
  BY TidyStep, SameWorld DEF Faults
<1> QED
  BY <1>1, <1>2, AlwaysIInv, AlwaysGeneral, PTL DEF Spec

(***************************************************************************)
(* A descriptor that is open belongs to a connection that is still         *)
(* referenced: in worlds without failing attempts (conn.c:450 leaves one   *)
(* open then), whatever else peers, requests and a shutdown do.            *)
(***************************************************************************)
THEOREM DescriptorsOwned == Spec => []NoFdLeak
<1>1. General /\ ("connect_fail" \notin Faults => Tidy) => NoFdLeak
  BY DEF General, Held, Tidy, NoFdLeak
<1> QED
  BY <1>1, AlwaysGeneral, AlwaysTidy, PTL

-----------------------------------------------------------------------------
(***************************************************************************)
(* Counting what points to a server: the pool, the listed requests, req.   *)
(***************************************************************************)
InPool(s) == cxt.pool[EpOf[s]] = s

One(b) == IF b THEN 1 ELSE 0
Places(q, s) == {i \in DOMAIN q : q[i].srv = s}
Count(q, s) == Cardinality(Places(q, s))

\* A finite list has finitely many places for s, none when it is empty.
LEMMA CountType ==
  ASSUME NEW q \in Seq(Requests), NEW s
  PROVE  /\ IsFiniteSet(Places(q, s)) /\ Count(q, s) \in Nat
         /\ q = <<>> => Count(q, s) = 0
         /\ \A i \in 1 .. Len(q) : q[i].srv = s => Count(q, s) > 0
<1>1. DOMAIN q = 1 .. Len(q) /\ Len(q) \in Int /\ Places(q, s) \subseteq 1 .. Len(q)
  BY DEF Places
<1>2. IsFiniteSet(1 .. Len(q))
  BY <1>1, FS_Interval
<1>3. IsFiniteSet(Places(q, s))
  BY <1>1, <1>2, FS_Subset
<1>4. Count(q, s) \in Nat /\ (Count(q, s) = 0 <=> Places(q, s) = {})
  BY <1>3, FS_CardinalityType, FS_EmptySet DEF Count
<1>5. ASSUME NEW i \in 1 .. Len(q), q[i].srv = s PROVE Count(q, s) > 0
  BY <1>1, <1>4, <1>5 DEF Places
<1>6. q = <<>> => Places(q, s) = {}
  BY DEF Places
<1> QED
  BY <1>3, <1>4, <1>5, <1>6

\* A request is appended.
LEMMA CountAppend ==
  ASSUME NEW q \in Seq(Requests), NEW r \in Requests, NEW s
  PROVE  Count(Append(q, r), s) = Count(q, s) + One(r.srv = s)
<1>0. PICK p : p = Append(q, r)
  OBVIOUS
<1>1. /\ Len(p) = Len(q) + 1 /\ p[Len(q) + 1] = r /\ \A i \in 1 .. Len(q) : p[i] = q[i]
      /\ DOMAIN p = 1 .. Len(p) /\ DOMAIN q = 1 .. Len(q) /\ Len(q) \in Nat
  BY <1>0, AppendProperties
<1>2. Len(q) + 1 \notin Places(q, s) /\ IsFiniteSet(Places(q, s)) /\ Count(q, s) \in Nat
  <2>1. Len(q) + 1 \notin Places(q, s)
    BY <1>1 DEF Places
  <2> QED
    BY <2>1, CountType
<1>3. CASE r.srv = s
  <2>1. Places(p, s) = Places(q, s) \cup {Len(q) + 1}
    BY <1>1, <1>3 DEF Places
  <2> QED
    <3>1. Cardinality(Places(p, s)) = Cardinality(Places(q, s)) + 1
      BY <1>2, <2>1, FS_AddElement
    <3>2. One(r.srv = s) = 1
      BY <1>3 DEF One
    <3> QED
      BY <1>0, <3>1, <3>2 DEF Count
<1>4. CASE r.srv # s
  <2>1. Places(p, s) = Places(q, s)
    BY <1>1, <1>4 DEF Places
  <2> QED
    BY <1>0, <1>2, <1>4, <2>1 DEF Count, One
<1> QED
  BY <1>3, <1>4

\* The oldest request is removed.
LEMMA CountTail ==
  ASSUME NEW q \in Seq(Requests), q # <<>>, NEW s
  PROVE  Count(q, s) = Count(Tail(q), s) + One(Head(q).srv = s)
<1>0. PICK p : p = Tail(q)
  OBVIOUS
<1>1. /\ p \in Seq(Requests) /\ Len(p) = Len(q) - 1 /\ \A i \in 1 .. Len(p) : p[i] = q[i + 1]
      /\ DOMAIN p = 1 .. Len(p) /\ DOMAIN q = 1 .. Len(q) /\ Len(q) \in Nat /\ Len(q) >= 1
      /\ Head(q) = q[1]
  BY <1>0, HeadTailProperties, EmptySeq
<1>2. PICK B : B = Places(q, s) \ {1}
  OBVIOUS
<1>3. Cardinality(B) = Count(p, s) /\ IsFiniteSet(B) /\ Count(p, s) \in Nat
  <2>0. PICK A : A = Places(p, s)
    OBVIOUS
  <2>1. PICK f : f = [i \in A |-> i + 1]
    OBVIOUS
  <2>2. \A i \in A : i \in 1 .. Len(p) /\ p[i].srv = s
    BY <1>1, <2>0 DEF Places
  <2>3. \A i \in A : i + 1 \in B
    BY <1>1, <1>2, <2>2 DEF Places
  <2>4. \A j \in B : j - 1 \in A /\ f[j - 1] = j
    <3>1. SUFFICES ASSUME NEW j \in B PROVE j - 1 \in A /\ f[j - 1] = j
      OBVIOUS
    <3>2. j \in 1 .. Len(q) /\ j # 1 /\ q[j].srv = s
      BY <1>1, <1>2 DEF Places
    <3>3. j - 1 \in 1 .. Len(p) /\ (j - 1) + 1 = j
      BY <1>1, <3>2
    <3>4. p[j - 1] = q[j]
      BY <1>1, <3>3
    <3>5. j - 1 \in A
      BY <1>1, <2>0, <3>2, <3>3, <3>4 DEF Places
    <3> QED
      BY <2>1, <3>3, <3>5
  <2>5. f \in [A -> B] /\ \A i, j \in A : f[i] = f[j] => i = j
    BY <1>1, <2>1, <2>2, <2>3
  <2>6. f \in Bijection(A, B)
    BY <2>4, <2>5 DEF Bijection, Injection, Surjection, IsInjective
  <2>7. ExistsBijection(A, B) /\ IsFiniteSet(A) /\ Cardinality(A) \in Nat
    BY <1>1, <2>0, <2>6, CountType DEF ExistsBijection, Count
  <2> QED
    BY <2>0, <2>7, FS_Bijection DEF Count
<1>4. CASE Head(q).srv = s
  <2>1. Places(q, s) = B \cup {1} /\ 1 \notin B
    BY <1>1, <1>2, <1>4 DEF Places
  <2> QED
    <3>1. Cardinality(Places(q, s)) = Cardinality(B) + 1
      BY <1>3, <2>1, FS_AddElement
    <3>2. One(Head(q).srv = s) = 1
      BY <1>4 DEF One
    <3> QED
      BY <1>0, <1>3, <3>1, <3>2 DEF Count
<1>5. CASE Head(q).srv # s
  <2>1. Places(q, s) = B
    BY <1>1, <1>2, <1>5 DEF Places
  <2> QED
    BY <1>0, <1>3, <1>5, <2>1 DEF Count, One
<1> QED
  BY <1>4, <1>5

\* conn_close gives nobody a handler.
LEMMA CloseKeeps ==
  ASSUME NEW n, NetTypes(n), NEW c \in Conns, NEW m, m = conn_close(n, c)
  PROVE  \A d \in Conns : m.hr[d] \in {n.hr[d], None} /\ m.hw[d] \in {n.hw[d], None}
<1>1. CASE n.stat[c] = "closed"
  BY <1>1 DEF conn_close
<1>2. CASE n.stat[c] # "closed"
  <2>1. ShutIs(n, m, c)
    BY <1>2, ShutFields DEF conn_close, NetTypes
  <2> QED
    BY <2>1 DEF ShutIs, NetTypes
<1> QED
  BY <1>1, <1>2

\* m has k in one slot of c, n may not.
Asked(n, m, c, dir, k) ==
    /\ \A d \in Conns : /\ m.hr[d] = n.hr[d] \/ (d = c /\ dir = "read")
                        /\ m.hw[d] = n.hw[d] \/ (d = c /\ dir = "write")
    /\ c \in n.reg => (dir = "read" => m.hr[c] = k) /\ (dir = "write" => m.hw[c] = k)

\* net_pull_set_handler writes one slot of one connection.
LEMMA AskedAt ==
  ASSUME NEW n, NetTypes(n), NEW c \in Conns, NEW dir \in {"read", "write"}, NEW k \in Coros,
         NEW m, m = net_pull_set_handler(n, c, dir, k)
  PROVE  Asked(n, m, c, dir, k)
<1>1. CASE c \notin n.reg
  BY <1>1 DEF net_pull_set_handler, Asked
<1>2. CASE c \in n.reg /\ dir = "read"
  <2>1. m = [n EXCEPT !.hr[c] = k]
    BY <1>2 DEF net_pull_set_handler
  <2>2. m.hr = [n.hr EXCEPT ![c] = k] /\ m.hw = n.hw
    BY <2>1 DEF NetTypes, NetShape
  <2> QED
    BY <1>2, <2>2 DEF NetTypes, Asked
<1>3. CASE c \in n.reg /\ dir = "write"
  <2>1. m = [n EXCEPT !.hw[c] = k]
    BY <1>3 DEF net_pull_set_handler
  <2>2. m.hw = [n.hw EXCEPT ![c] = k] /\ m.hr = n.hr
    BY <2>1 DEF NetTypes, NetShape
  <2> QED
    BY <1>3, <2>2 DEF NetTypes, Asked
<1> QED
  BY <1>1, <1>2, <1>3

\* Where req asks to be resumed.
ReqAsks == \A c \in Conns :
    /\ net'.hr[c] = "req" => net.hr[c] = "req" \/ (c = Client /\ pc["req"] \in {"fetch", "copy_read"})
    /\ net'.hw[c] = "req" => \/ net.hw[c] = "req"
                             \/ c = srv /\ pc["req"] \in {"forward", "copy_write"}
                             \/ c = Client /\ pc["req"] \in {"bad_request", "bad_gateway", "connect_ok"}

\* A step of req that leaves the references as they are; it closes a connection only
\* when it cannot read from it or write to it, or after a bad request.
ReqStill == /\ Tame(net, net', "req") /\ net'.ref = net.ref /\ net'.fault = net.fault
            /\ cxt'.pool = cxt.pool /\ cxt'.list = cxt.list /\ srv' = srv /\ down' = down
            /\ \A s \in Servers : Closed(s)' => \/ Closed(s)
                                                \/ /\ s = srv /\ pc["req"] = "copy_write"
                                                   /\ WriteFails(srv)
            /\ Closed(Client)' => \/ Closed(Client) \/ ReadFails(Client) \/ WriteFails(Client)
                                  \/ pc["req"] = "bad_request"
            /\ ReqAsks
ReqKeeps == ReqStill /\ (pc["req"] = "try" => pc'["req"] \in {"bad_gateway", "connect"})

\* A pooled connection is used again, or found closed and let go.
Reuses(s) == /\ pc["req"] = "try" /\ ~exiting /\ s \in Servers /\ Ep \in Eps /\ s = cxt.pool[Ep]
             /\ ~Closed(s) /\ srv' = s /\ RefsOnly(net, net') /\ cxt' = cxt /\ down' = down
             /\ net'.ref = [net.ref EXCEPT ![s] = net.ref[s] + 1] /\ Goto("req", AfterConnect)
Unpools(s) == /\ pc["req"] = "try" /\ ~exiting /\ s \in Servers /\ Ep \in Eps /\ s = cxt.pool[Ep]
              /\ Closed(s)

\* A request is listed.
Enlists == /\ pc["req"] \in {"forward", "enlist"} /\ srv \in Servers /\ srv' = srv /\ down' = down
           /\ RefsOnly(net, net') /\ net'.ref = [net.ref EXCEPT ![srv] = net.ref[srv] + 1]
           /\ cxt'.pool = cxt.pool /\ cxt'.list = Append(cxt.list, Listed)

\* req lets go of its server.
Returns == /\ srv \in Servers /\ srv' = None /\ cxt' = cxt /\ down' = down
           /\ pc["req"] \in {"forward", "copied", "release"}
           /\ \E l \in {"lookup", "top", "finish"} : Goto("req", l)
           /\ \E m : /\ NetTypes(m) /\ Elsewhere(net, m, srv) /\ Tame(net, m, "req")
                     /\ m.ref = net.ref /\ m.fault = net.fault
                     /\ m.stat[srv] # net.stat[srv] => pc["req"] = "forward" /\ WriteFails(srv)
                     /\ net' = mem_decref(m, srv)

\* req looks for a connection in the pool.
LEMMA TryEffects ==
  ASSUME IInv, try_address
  PROVE  ReqKeeps \/ \E s \in Servers : Reuses(s) \/ Unpools(s)
<1>0. NetTypes(net) /\ CxtOk /\ Control /\ pc["req"] = "try" /\ at \in Nat /\ down' = down
  BY ReqAt DEF NetOk, IInv, Own, Numbers, try_address
<1>1. Len(Addrs[cur.host]) \in Nat
  <2>1. Addrs[cur.host] \in Seq(Eps)
    BY <1>0, SessionAssumption DEF IInv, Own, Control, Numbers, Unlisted, World, Addrs, Hosts
  <2> QED
    BY <2>1
<1>2. CASE \E l \in {"bad_gateway", "connect"} : Goto("req", l) /\ net' = net /\ cxt' = cxt /\ srv' = srv
  <2>1. pc'["req"] \in {"bad_gateway", "connect"}
    BY <1>0, <1>2, PcFacts DEF Goto, Coros, ReqLabels
  <2> QED
    BY <1>0, <1>2, <2>1 DEF ReqKeeps, ReqStill, ReqAsks, Tame, Closed
<1>3. CASE at <= Len(Addrs[cur.host]) /\ cxt.pool[Ep] # None /\ ~exiting
  <2>1. Ep \in Eps
    BY <1>0, <1>3, EpType DEF IInv, Own, Unlisted
  <2>2. PICK s : s = cxt.pool[Ep]
    OBVIOUS
  <2>3. s \in Servers /\ s \in Conns
    BY <1>0, <1>3, <2>1, <2>2 DEF CxtOk, Conns
  <2>4. CASE Closed(s)
    BY <1>0, <1>3, <2>1, <2>2, <2>3, <2>4 DEF Unpools
  <2>5. CASE ~Closed(s)
    <3>1. /\ net' = mem_incref(net, s) /\ srv' = s /\ Goto("req", AfterConnect) /\ cxt' = cxt
      BY <1>0, <1>1, <1>3, <2>2, <2>5 DEF try_address
    <3>2. RefsOnly(net, net') /\ net'.ref = [net.ref EXCEPT ![s] = net.ref[s] + 1]
      BY <1>0, <2>3, <3>1, IncrefAt
    <3> QED
      BY <1>0, <1>3, <2>1, <2>2, <2>3, <2>5, <3>1, <3>2 DEF Reuses
  <2> QED
    BY <2>3, <2>4, <2>5
<1> QED
  BY <1>0, <1>1, <1>2, <1>3 DEF try_address

\* Every step of req is one of these, makes a connection, or ends req.
LEMMA ReqEffects ==
  ASSUME IInv, General, UNCHANGED env, ReqHandler
  PROVE  \/ ReqKeeps \/ Enlists \/ Returns \/ req_clean
         \/ \E s \in Servers : Reuses(s) \/ Unpools(s)
         \/ conn_get_by_endpoint \/ connected \/ conn_failed
<1> SUFFICES ASSUME ~try_address
             PROVE  \/ ReqStill \/ Enlists \/ Returns \/ req_clean
                    \/ conn_get_by_endpoint \/ connected \/ conn_failed
  <2>1. try_address \/ pc["req"] # "try"
    BY ReqAt DEF ReqHandler
  <2> QED
    BY <2>1, TryEffects DEF ReqKeeps
<1>0. NetTypes(net) /\ Client \in Conns /\ CxtOk /\ Servers \subseteq Conns /\ Client \notin Servers
  BY ConnTypes, SessionAssumption DEF NetOk, IInv, Own
<1>1. ASSUME net' = net, cxt' = cxt, srv' = srv, down' = down PROVE ReqStill
  BY <1>1 DEF ReqStill, ReqAsks, Tame, Closed
<1>2. ASSUME NEW c \in Conns, net' = conn_close(net, c), cxt' = cxt, srv' = srv, down' = down,
             \/ c = Client /\ (ReadFails(Client) \/ WriteFails(Client) \/ pc["req"] = "bad_request")
             \/ c = srv /\ c \in Servers /\ pc["req"] = "copy_write" /\ WriteFails(srv)
      PROVE  ReqStill
  <2>1. /\ Elsewhere(net, net', c) /\ net'.ref = net.ref /\ net'.fault = net.fault
        /\ Tame(net, net', "req")
    BY <1>0, <1>2, CloseAt
  <2>2. \A d \in Conns : net'.hr[d] \in {net.hr[d], None} /\ net'.hw[d] \in {net.hw[d], None}
    BY <1>0, <1>2, CloseKeeps
  <2>3. ReqAsks
    BY <2>2, NoNone DEF ReqAsks
  <2>4. \A d \in Conns : Closed(d)' => Closed(d) \/ d = c
    BY <2>1 DEF Elsewhere, Closed
  <2> QED
    BY <1>0, <1>2, <2>1, <2>3, <2>4 DEF ReqStill
<1>3. ASSUME NEW c \in Conns, NEW dir \in {"read", "write"}, conn_try_io("req", c, dir),
             \/ c = Client /\ dir = "read" /\ pc["req"] \in {"fetch", "copy_read"}
             \/ c = srv /\ dir = "write" /\ pc["req"] \in {"forward", "copy_write"}
             \/ c = Client /\ dir = "write" /\ pc["req"] \in {"bad_request", "bad_gateway", "connect_ok"}
      PROVE  ReqStill
  <2>1. net' = net_pull_set_handler(net, c, dir, "req") /\ cxt' = cxt /\ srv' = srv /\ down' = down
    BY <1>3 DEF conn_try_io
  <2>2. HandlersOnly(net, net') /\ Tame(net, net', "req")
    BY <1>0, <2>1, HandlerAt DEF Coros
  <2>3. ReqAsks
    <3>1. "req" \in Coros
      BY DEF Coros
    <3>2. Asked(net, net', c, dir, "req")
      BY <1>0, <1>3, <2>1, <3>1, AskedAt
    <3> QED
      BY <1>3, <3>2 DEF ReqAsks, Asked
  <2> QED
    BY <2>1, <2>2, <2>3 DEF ReqStill, HandlersOnly, Closed
<1>5. pc["req"] \in Using => srv \in Conns /\ srv \in Servers
  BY ConnTypes DEF IInv, Own, Serving
<1>6. CASE req_top \/ net_dns_lookup_a \/ dns_final \/ CopyEnds("req") \/ req_copy_failed
  BY <1>1, <1>6 DEF req_top, net_dns_lookup_a, dns_final, CopyEnds, req_copy_failed
<1>7. CASE req_fetch
  BY <1>0, <1>1, <1>2, <1>3, <1>7 DEF req_fetch, At
<1>8. CASE net_bad_request \/ req_bad_gateway
  BY <1>0, <1>1, <1>2, <1>3, <1>8 DEF net_bad_request, req_bad_gateway, ReplyTo, At
<1>10. ASSUME NEW m, m = net \/ (m = conn_close(net, srv) /\ pc["req"] = "forward" /\ WriteFails(srv)),
              srv \in Servers, net' = mem_decref(m, srv), srv' = None, cxt' = cxt, down' = down,
              pc["req"] \in {"forward", "copied", "release"},
              \E l \in {"lookup", "top", "finish"} : Goto("req", l)
       PROVE  Returns
  <2>1. NetTypes(m) /\ Elsewhere(net, m, srv) /\ Tame(net, m, "req") /\ m.ref = net.ref /\ m.fault = net.fault
    <3>1. CASE m = net
      BY <1>0, <3>1 DEF Elsewhere, Tame
    <3>2. CASE m = conn_close(net, srv)
      <4>1. srv \in Conns
        BY <1>0, <1>10
      <4>2. NetTypes(m)
        BY <3>2, <4>1, ConnTypes, CloseFacts DEF NetStep, NetOk
      <4> QED
        BY <1>0, <3>2, <4>1, <4>2, CloseAt
    <3> QED
      BY <1>10, <3>1, <3>2
  <2> QED
    BY <1>10, <2>1 DEF Returns
<1>11. ASSUME NEW b, Enlist(b), pc["req"] \in {"forward", "enlist"}, srv' = srv, down' = down PROVE Enlists
  <2>1. srv \in Servers /\ srv \in Conns
    BY <1>5, <1>11 DEF Using
  <2>2. RefsOnly(net, net') /\ net'.ref = [net.ref EXCEPT ![srv] = net.ref[srv] + 1]
    BY <1>0, <1>11, <2>1, IncrefAt DEF Enlist
  <2>3. cxt'.pool = cxt.pool /\ cxt'.list = Append(cxt.list, Listed)
    BY <1>0, <1>11 DEF Enlist, CxtOk
  <2> QED
    BY <1>11, <2>1, <2>2, <2>3 DEF Enlists
<1>12. CASE forward_http
  <2>0. srv \in Conns /\ srv \in Servers /\ pc["req"] = "forward"
    BY <1>5, <1>12 DEF forward_http, At, Using
  <2>1. CASE conn_try_io("req", srv, "write")
    BY <1>3, <2>0, <2>1
  <2>2. CASE Enlist(cxt.rsp_blocked) /\ srv' = srv /\ down' = down
    BY <1>11, <2>0, <2>2
  <2>3. CASE /\ WriteFails(srv) /\ net' = mem_decref(conn_close(net, srv), srv)
             /\ srv' = None /\ cxt' = cxt /\ down' = down /\ Goto("req", "lookup")
    BY <1>10, <2>0, <2>3
  <2> QED
    BY <1>12, <2>1, <2>2, <2>3 DEF forward_http
<1>13. CASE enlist_connect
  BY <1>11, <1>13 DEF enlist_connect, At
<1>14. CASE connect_ok
  BY <1>0, <1>1, <1>2, <1>3, <1>14 DEF connect_ok, At
<1>15. CASE conn_copy_read("req")
  BY <1>0, <1>1, <1>2, <1>3, <1>15 DEF conn_copy_read, Source, At
<1>16. CASE conn_copy_write("req")
  BY <1>0, <1>1, <1>2, <1>3, <1>5, <1>16 DEF conn_copy_write, Target, At, Using
<1>17. CASE req_copied
  BY <1>5, <1>10, <1>17 DEF req_copied, At, Using
<1>18. CASE release
  <2>1. srv \in Servers \cup {None} /\ pc["req"] = "release"
    BY <1>18 DEF IInv, Own, Serving, release, At
  <2>2. CASE srv = None
    BY <1>1, <1>18, <2>2 DEF release
  <2>3. CASE srv # None
    BY <1>10, <1>18, <2>1, <2>3 DEF release
  <2> QED
    BY <2>2, <2>3
<1>19. CASE req_finish
  <2>1. cxt'.pool = cxt.pool /\ cxt'.list = cxt.list
    BY <1>0, <1>19 DEF req_finish, CxtOk
  <2> QED
    BY <1>19, <2>1 DEF req_finish, ReqStill, ReqAsks, Tame, Closed
<1> QED
  BY <1>6, <1>7, <1>8, <1>12, <1>13, <1>14, <1>15, <1>16, <1>17, <1>18, <1>19 DEF ReqHandler

\* A step of rsp that leaves the references as they are; it closes the server of the
\* oldest request when reading from it fails, or after a reply that ends with the stream.
ClosesFailed(s) == /\ s = Oldest.srv /\ pc["rsp"] \in {"fetch", "copy_read"}
                   /\ ReadFails(Oldest.srv) \/ "bad_response" \in Faults
ClosesUsed(s) == /\ s = Oldest.srv /\ pc["rsp"] \in {"copied", "copy_failed"} /\ mode["rsp"] = "close"
                 /\ Closed(Client)' /\ pc'["rsp"] = "post" /\ run' = "rsp"
RspAsks == \A c \in Conns :
    /\ net'.hr[c] = "rsp" => net.hr[c] = "rsp" \/ (c = Oldest.srv /\ pc["rsp"] \in {"fetch", "copy_read"})
    /\ net'.hw[c] = "rsp" => net.hw[c] = "rsp" \/ c = Client
RspKeeps == /\ Tame(net, net', "rsp") /\ net'.ref = net.ref
            /\ cxt'.pool = cxt.pool /\ cxt'.list = cxt.list
            /\ \/ net'.fault = net.fault
               \/ pc["rsp"] = "top" /\ cxt.list # <<>> /\ net.ref[Oldest.srv] = 0
            /\ \A s \in Servers : Closed(s)' => Closed(s) \/ ClosesFailed(s) \/ ClosesUsed(s)
            /\ Closed(Client)' => \/ Closed(Client) \/ WriteFails(Client)
                                  \/ pc["rsp"] \in {"copied", "copy_failed"} /\ mode["rsp"] = "close"
            /\ RspAsks

\* The oldest request is answered: its server is in the pool, or it is closed and leaves it.
Answers == /\ pc["rsp"] \in {"post", "continue"} /\ ~Closed(Oldest.srv) /\ Goto("rsp", "top")
           /\ cxt'.pool = cxt.pool /\ cxt'.list = Tail(cxt.list)
           /\ net' = mem_decref(net, Oldest.srv)
AnswersClosed == /\ pc["rsp"] \in {"post", "continue"} /\ Closed(Oldest.srv) /\ Goto("rsp", "top")
                 /\ cxt.pool[EpOf[Oldest.srv]] # None
                 /\ cxt'.pool = [cxt.pool EXCEPT ![EpOf[Oldest.srv]] = None]
                 /\ cxt'.list = Tail(cxt.list)
                 /\ net' = mem_decref(mem_decref(net, Oldest.srv), Oldest.srv)
FollowsNull == /\ pc["rsp"] \in {"post", "continue"} /\ Closed(Oldest.srv)
               /\ cxt.pool[EpOf[Oldest.srv]] = None

\* The end of a reply; after the reply 100 the request stays listed.
LEMMA PostEffects ==
  ASSUME IInv, rsp_post
  PROVE  \/ Answers \/ AnswersClosed \/ FollowsNull
         \/ ~Closed(Oldest.srv) /\ pc["rsp"] = "continue" /\ net' = net /\ cxt' = cxt
<1>0. CxtOk /\ Control
  BY DEF IInv, Own
<1>1. pc["rsp"] \in {"post", "continue"} /\ Oldest.srv \in Servers
  BY <1>0, ConnTypes DEF IInv, Own, Numbers, rsp_post, Busy
<1>2. CASE FollowsNull
  BY <1>2
<1>3. CASE ~Closed(Oldest.srv) /\ pc["rsp"] = "continue"
  BY <1>3 DEF rsp_post
<1>4. CASE Closed(Oldest.srv) /\ cxt.pool[EpOf[Oldest.srv]] # None
  <2>1. cxt' = [cxt EXCEPT !.list = Tail(@), !.pool[EpOf[Oldest.srv]] = None]
    BY <1>4 DEF rsp_post
  <2>2. /\ cxt'.pool = [cxt.pool EXCEPT ![EpOf[Oldest.srv]] = None] /\ cxt'.list = Tail(cxt.list)
    BY <1>0, <2>1 DEF CxtOk
  <2> QED
    BY <1>1, <1>4, <2>2 DEF rsp_post, Forget, AnswersClosed
<1>5. CASE ~Closed(Oldest.srv) /\ pc["rsp"] = "post"
  <2>1. cxt' = [cxt EXCEPT !.list = Tail(@), !.pool[EpOf[Oldest.srv]] = @]
    BY <1>5 DEF rsp_post
  <2>2. cxt.pool \in [Eps -> Servers \cup {None}] /\ EpOf[Oldest.srv] \in Eps
    BY <1>0, <1>1, EpOfType DEF CxtOk
  <2>3. /\ cxt'.pool = cxt.pool /\ cxt'.list = Tail(cxt.list)
    BY <1>0, <2>1, <2>2 DEF CxtOk
  <2> QED
    BY <1>1, <1>5, <2>3 DEF rsp_post, Answers
<1> QED
  BY <1>1, <1>2, <1>3, <1>4, <1>5 DEF FollowsNull

\* Every step of rsp is one of these.
LEMMA RspEffects ==
  ASSUME IInv, UNCHANGED env, RspHandler
  PROVE  RspKeeps \/ Answers \/ AnswersClosed \/ FollowsNull \/ rsp_exit
<1>0. /\ NetTypes(net) /\ Client \in Conns /\ CxtOk /\ Servers \subseteq Conns /\ Client \notin Servers
      /\ Control
  BY ConnTypes, SessionAssumption DEF NetOk, IInv, Own
<1>t. Tame(net, net', "rsp")
  BY RspTame
<1>1. ASSUME net' = net, cxt' = cxt PROVE RspKeeps
  BY <1>1, <1>t DEF RspKeeps, RspAsks, Closed
<1>2. ASSUME NEW c \in Conns, net' = conn_close(net, c), cxt' = cxt,
             (c = Client /\ WriteFails(Client)) \/ (c \in Servers /\ ClosesFailed(c))
      PROVE  RspKeeps
  <2>1. /\ Elsewhere(net, net', c) /\ net'.ref = net.ref /\ net'.fault = net.fault
    BY <1>0, <1>2, CloseAt
  <2>2. \A d \in Conns : net'.hr[d] \in {net.hr[d], None} /\ net'.hw[d] \in {net.hw[d], None}
    BY <1>0, <1>2, CloseKeeps
  <2>3. RspAsks
    BY <2>2, NoNone DEF RspAsks
  <2>4. \A d \in Conns : Closed(d)' => Closed(d) \/ d = c
    BY <2>1 DEF Elsewhere, Closed
  <2> QED
    BY <1>0, <1>2, <1>t, <2>1, <2>3, <2>4 DEF RspKeeps
<1>3. ASSUME NEW c \in Conns, NEW dir \in {"read", "write"}, conn_try_io("rsp", c, dir),
             \/ c = Client /\ dir = "write"
             \/ c = Oldest.srv /\ dir = "read" /\ pc["rsp"] \in {"fetch", "copy_read"}
      PROVE  RspKeeps
  <2>1. net' = net_pull_set_handler(net, c, dir, "rsp") /\ cxt' = cxt
    BY <1>3 DEF conn_try_io
  <2>2. HandlersOnly(net, net')
    BY <1>0, <2>1, HandlerAt DEF Coros
  <2>3. RspAsks
    <3>1. "rsp" \in Coros
      BY DEF Coros
    <3>2. Asked(net, net', c, dir, "rsp")
      BY <1>0, <1>3, <2>1, <3>1, AskedAt
    <3> QED
      BY <1>3, <3>2 DEF RspAsks, Asked
  <2> QED
    BY <1>t, <2>1, <2>2, <2>3 DEF RspKeeps, HandlersOnly, Closed
<1>5. pc["rsp"] \in Busy => Oldest.srv \in Conns /\ Oldest.srv \in Servers /\ cxt.list # <<>>
  BY ConnTypes DEF IInv, Own, Numbers
<1>6. CASE rsp_top
  <2>0. pc["rsp"] = "top"
    BY <1>6 DEF rsp_top, At
  <2>1. CASE cxt' = cxt /\ net' = net
    BY <1>1, <2>1
  <2>2. CASE cxt' = [cxt EXCEPT !.rsp_blocked = TRUE] /\ net' = net
    <3>1. cxt'.pool = cxt.pool /\ cxt'.list = cxt.list
      BY <1>0, <2>2 DEF CxtOk
    <3> QED
      BY <1>t, <2>2, <3>1 DEF RspKeeps, RspAsks, Closed
  <2>3. CASE cxt' = cxt /\ net' = [net EXCEPT !.fault = "freed"] /\ cxt.list # <<>> /\ net.ref[Oldest.srv] = 0
    <3>1. net'.ref = net.ref /\ net'.stat = net.stat /\ net'.hr = net.hr /\ net'.hw = net.hw
      BY <1>0, <2>3 DEF NetTypes, NetShape
    <3> QED
      BY <1>t, <2>0, <2>3, <3>1 DEF RspKeeps, RspAsks, Closed
  <2> QED
    BY <1>6, <2>1, <2>2, <2>3 DEF rsp_top, NextRequest
<1>7. CASE rsp_fetch
  <2>1. pc["rsp"] = "fetch" /\ Oldest.srv \in Conns /\ Oldest.srv \in Servers
    BY <1>5, <1>7 DEF rsp_fetch, At, Busy
  <2>2. CASE conn_try_io("rsp", Oldest.srv, "read")
    BY <1>3, <2>1, <2>2
  <2>3. CASE net' = net /\ cxt' = cxt
    BY <1>1, <2>3
  <2>4. CASE /\ ReadFails(Oldest.srv) \/ "bad_response" \in Faults
             /\ net' = conn_close(net, Oldest.srv) /\ cxt' = cxt
    BY <1>2, <2>1, <2>4 DEF ClosesFailed
  <2> QED
    BY <1>7, <2>2, <2>3, <2>4 DEF rsp_fetch
<1>8. CASE rsp_bad_gateway \/ rsp_header
  BY <1>0, <1>1, <1>2, <1>3, <1>8 DEF rsp_bad_gateway, rsp_header, ReplyTo
<1>9. CASE rsp_framing \/ CopyEnds("rsp")
  BY <1>1, <1>9 DEF rsp_framing, CopyEnds
<1>10. CASE conn_copy_read("rsp")
  <2>1. pc["rsp"] = "copy_read" /\ Oldest.srv \in Conns /\ Oldest.srv \in Servers
        /\ Source("rsp") = Oldest.srv
    BY <1>5, <1>10 DEF conn_copy_read, At, Busy, Source, Oldest
  <2>2. CASE conn_try_io("rsp", Oldest.srv, "read")
    BY <1>3, <2>1, <2>2
  <2>3. CASE net' = net /\ cxt' = cxt
    BY <1>1, <2>3
  <2>4. CASE ReadFails(Oldest.srv) /\ net' = conn_close(net, Oldest.srv) /\ cxt' = cxt
    BY <1>2, <2>1, <2>4 DEF ClosesFailed
  <2> QED
    BY <1>10, <2>1, <2>2, <2>3, <2>4 DEF conn_copy_read
<1>11. CASE conn_copy_write("rsp")
  <2>1. Target("rsp") = Client
    BY DEF Target
  <2> QED
    BY <1>0, <1>1, <1>2, <1>3, <1>11, <2>1 DEF conn_copy_write
<1>12. CASE rsp_copy_over
  <2>0. pc["rsp"] \in {"copied", "copy_failed"} /\ Oldest.srv \in Conns /\ cxt' = cxt
    BY <1>5, <1>12 DEF rsp_copy_over, Busy
  <2>1. CASE net' = net
    BY <1>1, <2>0, <2>1
  <2>2. CASE mode["rsp"] = "close" /\ net' = conn_close(conn_close(net, Client), Oldest.srv)
    <3>1. PICK m : m = conn_close(net, Client)
      OBVIOUS
    <3>2. NetTypes(m) /\ Elsewhere(net, m, Client) /\ m.ref = net.ref /\ m.fault = net.fault
          /\ m.stat[Client] = "closed"
      BY <1>0, <3>1, ConnTypes, CloseFacts, CloseAt DEF NetStep, NetOk
    <3>3. Elsewhere(m, net', Oldest.srv) /\ net'.ref = m.ref /\ net'.fault = m.fault /\ Tame(m, net', "rsp")
      BY <2>0, <2>2, <3>1, <3>2, CloseAt
    <3>0. Goto("rsp", "post")
      BY <1>12, <2>2 DEF rsp_copy_over
    <3>4. Closed(Client)' /\ pc'["rsp"] = "post" /\ run' = "rsp"
      BY <1>0, <2>0, <3>0, <3>2, <3>3, PcFacts DEF Tame, Closed, Goto, Coros, RspLabels
    <3>5. \A s \in Servers : Closed(s)' => Closed(s) \/ s = Oldest.srv
      BY <1>0, <3>2, <3>3 DEF Elsewhere, Closed
    <3>6. \A d \in Conns : /\ m.hr[d] \in {net.hr[d], None} /\ m.hw[d] \in {net.hw[d], None}
                           /\ net'.hr[d] \in {m.hr[d], None} /\ net'.hw[d] \in {m.hw[d], None}
      BY <1>0, <2>0, <2>2, <3>1, <3>2, CloseKeeps
    <3>7. RspAsks
      BY <3>6, NoNone DEF RspAsks
    <3> QED
      BY <1>t, <2>0, <2>2, <3>2, <3>3, <3>4, <3>5, <3>7 DEF RspKeeps, ClosesUsed
  <2> QED
    BY <1>12, <2>1, <2>2 DEF rsp_copy_over
<1>13. CASE rsp_post
  BY <1>1, <1>13, PostEffects
<1>14. CASE rsp_exit
  BY <1>14
<1> QED
  BY <1>6, <1>7, <1>8, <1>9, <1>10, <1>11, <1>12, <1>13, <1>14 DEF RspHandler

-----------------------------------------------------------------------------
(***************************************************************************)
(* Where servers stay.                                                     *)
(***************************************************************************)
\* rsp will not look at another request: the client is closed, or the process exits.
Late == (exiting \/ Closed(Client)) /\ pc["rsp"] \in {"top", "exit", "done"}

\* rsp has closed the server of a reply that ends with the stream, and the client.
Closing(s) == /\ run = "rsp" /\ pc["rsp"] = "post" /\ Closed(Client)
              /\ cxt.list # <<>> /\ s = Oldest.srv

\* A reference for each pointer.
Balanced == /\ \A s \in Servers : net.ref[s] = One(InPool(s)) + Count(cxt.list, s) + One(srv = s)
            /\ net.ref[Client] = One(pc["req"] # "done") + One(pc["rsp"] # "done")

\* A pooled connection is found under its endpoint.
Filed == \A e \in Eps : cxt.pool[e] # None => EpOf[cxt.pool[e]] = e

\* The servers of requests are in the pool, as long as rsp will look at one.
Placed == /\ \A i \in 1 .. Len(cxt.list) : InPool(cxt.list[i].srv) \/ Late
          /\ pc["req"] \in Using => InPool(srv) \/ Late

\* The connections of the pool work.
Alive == ~exiting => \A s \in Servers : InPool(s) => s \notin down /\ (~Closed(s) \/ Closing(s))

\* A connection being made is held by req only; when it is made its server is there.
Attempted ==
    pc["req"] \in Attempt \ {"connect"} =>
        /\ net.ref[srv] = 1
        /\ pc["req"] = "connected" => srv \notin down
        /\ pc["req"] = "conn_wait" =>
               /\ \A b \in batch : b.c = srv /\ ~b.err => srv \notin down
               /\ \A i \in 1 .. Len(agenda) : agenda[i].k = "req" /\ ~agenda[i].err => srv \notin down

Stay == Balanced /\ Filed /\ Placed /\ Alive /\ Attempted

\* The list names servers.
LEMMA ListedServers ==
  ASSUME IInv
  PROVE  \A i \in 1 .. Len(cxt.list) : cxt.list[i] \in Requests /\ cxt.list[i].srv \in Servers
<1>1. cxt.list \in Seq(Requests)
  BY DEF IInv, Own, CxtOk
<1>2. \A r \in Requests : r.srv \in Servers
  BY DEF Requests
<1> QED
  BY <1>1, <1>2, ElementOfSeq

\* Where a pooled connection is when the process goes on.
LEMMA AliveOpen ==
  ASSUME IInv, Stay, ~exiting, NEW s \in Servers, InPool(s), ~Closing(s)
  PROVE  /\ ~Closed(s) /\ s \notin down /\ s \in net.fd /\ s \in net.reg
         /\ ~ReadFails(s) /\ ~WriteFails(s)
<1>1. ~Closed(s) /\ s \notin down
  BY DEF Stay, Alive
<1>2. s \in net.reg /\ s \in net.fd
  BY <1>1, ConnTypes DEF NetOk, NetOpen, NetTypes, Closed
<1> QED
  BY <1>1, <1>2 DEF ReadFails, WriteFails

\* A step of req keeps Stay; first the ones that leave the references alone.
LEMMA StayReqStill ==
  ASSUME IInv, General, Stay, ReqFlow, ReqStill, pc'["req"] \notin Attempt \ {"connect"},
         pc'["req"] \in Using => pc["req"] \in Using, pc'["req"] # "done"
  PROVE  Stay'
<1>0. /\ run = "req" /\ world' = world /\ exiting' = exiting /\ pc'["rsp"] = pc["rsp"] /\ Control
      /\ agenda' = agenda /\ batch' = batch /\ EpOf' = EpOf /\ Client \in Conns
      /\ pc["req"] \notin Paused
  BY ConnTypes DEF ReqFlow, ReqTurn, env, IInv, Own, EpOf, Control, Coros
<1>1. /\ cxt'.pool = cxt.pool /\ cxt'.list = cxt.list /\ srv' = srv /\ down' = down
      /\ net'.ref = net.ref /\ Oldest' = Oldest
  BY <1>0 DEF ReqStill, Oldest
<1>2. \A s : InPool(s)' <=> InPool(s)
  BY <1>0, <1>1 DEF InPool
<1>3. pc["req"] # "done"
  BY <1>0 DEF Paused
<1>4. Balanced'
  BY <1>0, <1>1, <1>2, <1>3 DEF Stay, Balanced
<1>5. Filed'
  BY <1>0, <1>1 DEF Stay, Filed
<1>6. Late => Late'
  BY <1>0 DEF Late, ReqStill, Tame, Closed
<1>8. Placed'
  BY <1>1, <1>2, <1>6 DEF Stay, Placed
<1>9. Alive'
  <2>1. SUFFICES ASSUME ~exiting, NEW s \in Servers, InPool(s)
                 PROVE  s \notin down /\ ~Closed(s)'
    BY <1>0, <1>1, <1>2 DEF Alive
  <2>2. ~Closed(s) /\ s \notin down /\ ~WriteFails(s)
    BY <1>0, <2>1, AliveOpen DEF Closing
  <2> QED
    BY <1>0, <2>2 DEF ReqStill
<1>10. Attempted'
  BY DEF Attempted
<1> QED
  BY <1>4, <1>5, <1>8, <1>9, <1>10 DEF Stay

\* The connections of the pool stay as they are when references come.
LEMMA AliveKept ==
  ASSUME IInv, Stay, run = "req", world' = world, exiting' = exiting, net'.stat = net.stat,
         down' = down, cxt'.pool = cxt.pool
  PROVE  Alive' /\ Filed' /\ (\A s : InPool(s)' <=> InPool(s))
<1>1. EpOf' = EpOf
  BY DEF EpOf
<1>2. \A s : InPool(s)' <=> InPool(s)
  BY <1>1 DEF InPool
<1>3. Filed'
  BY <1>1 DEF Stay, Filed
<1>4. Alive'
  BY <1>2 DEF Stay, Alive, Closing, Closed
<1> QED
  BY <1>2, <1>3, <1>4

\* req takes a connection of the pool.
LEMMA StayReuses ==
  ASSUME IInv, General, Stay, ReqFlow, NEW s \in Servers, Reuses(s)
  PROVE  Stay'
<1>0. /\ run = "req" /\ world' = world /\ exiting' = exiting /\ pc'["rsp"] = pc["rsp"] /\ Control
      /\ EpOf' = EpOf /\ Client \in Conns /\ Servers \subseteq Conns /\ Client \notin Servers
      /\ NetTypes(net) /\ cxt.list \in Seq(Requests)
  BY ConnTypes, SessionAssumption DEF ReqFlow, ReqTurn, env, IInv, Own, EpOf, NetOk, CxtOk
<1>1. /\ pc["req"] = "try" /\ srv' = s /\ cxt' = cxt /\ down' = down /\ RefsOnly(net, net')
      /\ net'.ref = [net.ref EXCEPT ![s] = net.ref[s] + 1] /\ s = cxt.pool[Ep] /\ Ep \in Eps
      /\ pc'["req"] \in {"forward", "enlist"}
  BY <1>0, PcFacts DEF Reuses, Goto, AfterConnect, Coros, ReqLabels
<1>2. srv = None /\ None \notin Servers
  BY <1>1, SessionAssumption DEF General, Holding, Using, Attempt
<1>3. EpOf[s] = Ep /\ InPool(s)
  BY <1>1, <1>2 DEF Stay, Filed, InPool
<1>4. Alive' /\ Filed' /\ \A t : InPool(t)' <=> InPool(t)
  BY <1>0, <1>1, AliveKept DEF RefsOnly
<1>5. Balanced'
  <2>1. ASSUME NEW t \in Servers
        PROVE  net'.ref[t] = One(InPool(t)') + Count(cxt'.list, t) + One(srv' = t)
    <3>1. net.ref[t] = One(InPool(t)) + Count(cxt.list, t) + One(srv = t) /\ Count(cxt.list, t) \in Nat
      BY <1>0, CountType DEF Stay, Balanced
    <3>2. net'.ref[t] = net.ref[t] + One(s = t)
      BY <1>0, <1>1, <2>1 DEF NetTypes, One
    <3> QED
      BY <1>1, <1>2, <1>4, <3>1, <3>2 DEF One
  <2>2. net'.ref[Client] = net.ref[Client]
    BY <1>0, <1>1 DEF NetTypes
  <2> QED
    BY <1>0, <1>1, <2>1, <2>2 DEF Stay, Balanced
<1>6. Late => Late'
  BY <1>0, <1>1 DEF Late, RefsOnly, Closed
<1>7. Placed'
  BY <1>1, <1>3, <1>4, <1>6 DEF Stay, Placed
<1>8. Attempted'
  BY <1>1 DEF Attempted, Attempt
<1> QED
  BY <1>4, <1>5, <1>7, <1>8 DEF Stay

\* A request is listed.
LEMMA StayEnlists ==
  ASSUME IInv, General, Stay, ReqFlow, Enlists
  PROVE  Stay'
<1>0. /\ run = "req" /\ world' = world /\ exiting' = exiting /\ pc'["rsp"] = pc["rsp"] /\ Control
      /\ EpOf' = EpOf /\ Client \in Conns /\ Servers \subseteq Conns /\ Client \notin Servers
      /\ NetTypes(net) /\ cxt.list \in Seq(Requests)
  BY ConnTypes, SessionAssumption DEF ReqFlow, ReqTurn, env, IInv, Own, EpOf, NetOk, CxtOk
<1>1. /\ pc["req"] \in {"forward", "enlist"} /\ srv \in Servers /\ srv' = srv /\ down' = down
      /\ RefsOnly(net, net') /\ net'.ref = [net.ref EXCEPT ![srv] = net.ref[srv] + 1]
      /\ cxt'.pool = cxt.pool /\ cxt'.list = Append(cxt.list, Listed)
      /\ pc'["req"] \in {"forward", "enlist", "copy_read", "lookup", "connect_ok"}
  BY DEF Enlists, ReqFlow, ReqEdge
<1>2. InPool(srv) \/ Late
  BY <1>1 DEF Stay, Placed, Using
<1>4. Alive' /\ Filed' /\ \A t : InPool(t)' <=> InPool(t)
  BY <1>0, <1>1, AliveKept DEF RefsOnly
<1>5. Listed \in Requests /\ Listed.srv = srv
  BY <1>0, <1>1 DEF Listed, Requests, IInv, Own, Numbers
<1>6. Balanced'
  <2>1. ASSUME NEW t \in Servers
        PROVE  net'.ref[t] = One(InPool(t)') + Count(cxt'.list, t) + One(srv' = t)
    <3>1. net.ref[t] = One(InPool(t)) + Count(cxt.list, t) + One(srv = t) /\ Count(cxt.list, t) \in Nat
      BY <1>0, CountType DEF Stay, Balanced
    <3>2. net'.ref[t] = net.ref[t] + One(srv = t)
      BY <1>0, <1>1, <2>1 DEF NetTypes, One
    <3>3. Count(cxt'.list, t) = Count(cxt.list, t) + One(srv = t)
      BY <1>0, <1>1, <1>5, CountAppend
    <3> QED
      BY <1>1, <1>4, <3>1, <3>2, <3>3 DEF One
  <2>2. net'.ref[Client] = net.ref[Client]
    BY <1>0, <1>1 DEF NetTypes
  <2> QED
    BY <1>0, <1>1, <2>1, <2>2 DEF Stay, Balanced
<1>7. Late => Late'
  BY <1>0, <1>1 DEF Late, RefsOnly, Closed
<1>8. Placed'
  <2>1. ASSUME NEW i \in 1 .. Len(cxt'.list)
        PROVE  cxt'.pool[EpOf'[cxt'.list[i].srv]] = cxt'.list[i].srv \/ Late'
    <3>1. \/ i \in 1 .. Len(cxt.list) /\ cxt'.list[i] = cxt.list[i]
          \/ cxt'.list[i] = Listed
      BY <1>0, <1>1, <1>5, <2>1, AppendProperties
    <3> QED
      BY <1>0, <1>1, <1>2, <1>5, <1>7, <3>1 DEF Stay, Placed, InPool
  <2> QED
    BY <1>0, <1>1, <1>2, <1>7, <2>1 DEF Placed, InPool
<1>9. Attempted'
  BY <1>1 DEF Attempted, Attempt
<1> QED
  BY <1>4, <1>6, <1>8, <1>9 DEF Stay

\* req lets go of its server.
LEMMA StayReturns ==
  ASSUME IInv, General, Stay, ReqFlow, Returns
  PROVE  Stay'
<1>0. /\ run = "req" /\ world' = world /\ exiting' = exiting /\ pc'["rsp"] = pc["rsp"] /\ Control
      /\ EpOf' = EpOf /\ Client \in Conns /\ Servers \subseteq Conns /\ Client \notin Servers
      /\ NetTypes(net) /\ cxt.list \in Seq(Requests)
  BY ConnTypes, SessionAssumption DEF ReqFlow, ReqTurn, env, IInv, Own, EpOf, NetOk, CxtOk
<1>1. /\ srv \in Servers /\ srv \in Conns /\ srv' = None /\ cxt' = cxt /\ down' = down
      /\ pc["req"] \in {"forward", "copied", "release"} /\ None \notin Servers
      /\ pc'["req"] \in {"lookup", "top", "finish"}
  BY <1>0, PcFacts, SessionAssumption DEF Returns, Goto, Coros, ReqLabels
<1>2. PICK m : /\ NetTypes(m) /\ Elsewhere(net, m, srv) /\ Tame(net, m, "req")
               /\ m.ref = net.ref /\ m.fault = net.fault
               /\ m.stat[srv] # net.stat[srv] => pc["req"] = "forward" /\ WriteFails(srv)
               /\ net' = mem_decref(m, srv)
  BY DEF Returns
<1>3. \A t \in Servers : InPool(t)' <=> InPool(t)
  BY <1>0, <1>1 DEF InPool
<1>4. \A t \in Servers :
          /\ net.ref[t] = One(InPool(t)) + Count(cxt.list, t) + One(srv = t)
          /\ Count(cxt.list, t) \in Nat
  BY <1>0, CountType DEF Stay, Balanced
<1>5. net.ref[srv] >= 1 /\ (InPool(srv) => net.ref[srv] > 1) /\ net.ref[srv] \in Nat
  BY <1>0, <1>1, <1>4 DEF One, NetTypes
<1>6. /\ Elsewhere(m, net', srv) /\ Tame(m, net', "req")
      /\ net'.ref = [m.ref EXCEPT ![srv] = m.ref[srv] - 1]
      /\ m.ref[srv] > 1 => RefsOnly(m, net')
  BY <1>1, <1>2, <1>5, DecrefAt
<1>7. Balanced'
  <2>1. ASSUME NEW t \in Servers
        PROVE  net'.ref[t] = One(InPool(t)') + Count(cxt'.list, t) + One(srv' = t)
    <3>1. net'.ref[t] = net.ref[t] - One(srv = t)
      BY <1>0, <1>2, <1>6, <2>1 DEF NetTypes, One
    <3> QED
      BY <1>1, <1>3, <1>4, <3>1 DEF One
  <2>2. net'.ref[Client] = net.ref[Client]
    BY <1>0, <1>1, <1>2, <1>6 DEF NetTypes
  <2> QED
    BY <1>0, <1>1, <2>1, <2>2 DEF Stay, Balanced
<1>8. Late => Late'
  BY <1>0, <1>2, <1>6 DEF Late, Tame, Closed
<1>9. Placed'
  <2>1. ASSUME NEW i \in 1 .. Len(cxt.list) PROVE InPool(cxt.list[i].srv)' \/ Late'
    BY <1>0, <1>1, <1>8 DEF Stay, Placed, InPool
  <2> QED
    BY <1>1, <2>1 DEF Placed, Using
<1>10. Alive'
  <2>1. SUFFICES ASSUME ~exiting, NEW s \in Servers, InPool(s)
                 PROVE  s \notin down /\ ~Closed(s)'
    BY <1>0, <1>1, <1>3 DEF Alive
  <2>2. ~Closed(s) /\ s \notin down /\ ~WriteFails(s)
    BY <1>0, <2>1, AliveOpen DEF Closing
  <2>3. CASE s # srv
    BY <1>0, <1>2, <1>6, <2>2, <2>3 DEF Elsewhere, Closed
  <2>4. CASE s = srv
    BY <1>2, <1>5, <1>6, <2>1, <2>2, <2>4 DEF RefsOnly, Closed
  <2> QED
    BY <2>2, <2>3, <2>4
<1>11. Filed' /\ Attempted'
  BY <1>0, <1>1 DEF Stay, Filed, Attempted, Attempt
<1> QED
  BY <1>7, <1>9, <1>10, <1>11 DEF Stay

\* A connection enters the pool under its endpoint.
LEMMA PoolGains ==
  ASSUME IInv, Filed, NEW s \in Servers, EpOf[s] = Ep, cxt.pool[Ep] = None, world' = world,
         cxt' = [cxt EXCEPT !.pool[Ep] = s]
  PROVE  /\ Filed' /\ InPool(s)' /\ ~InPool(s) /\ cxt'.list = cxt.list
         /\ \A t \in Servers \ {s} : InPool(t)' <=> InPool(t)
<1>0. CxtOk /\ Control /\ EpOf' = EpOf /\ Ep \in Eps /\ None \notin Servers
  BY EpOfType, SessionAssumption DEF IInv, Own, EpOf
<1>1. cxt'.pool = [cxt.pool EXCEPT ![Ep] = s] /\ cxt'.list = cxt.list
  BY <1>0 DEF CxtOk
<1>2. cxt.pool \in [Eps -> Servers \cup {None}]
  BY <1>0 DEF CxtOk
<1>3. InPool(s)' /\ ~InPool(s)
  BY <1>0, <1>1, <1>2 DEF InPool
<1>4. ASSUME NEW t \in Servers \ {s} PROVE InPool(t)' <=> InPool(t)
  BY <1>0, <1>1, <1>2, <1>4, EpOfType DEF InPool
<1>5. Filed'
  BY <1>0, <1>1, <1>2 DEF Filed
<1> QED
  BY <1>1, <1>3, <1>4, <1>5

\* A connection is begun.
LEMMA StayConnects ==
  ASSUME IInv, General, Stay, ReqFlow, conn_get_by_endpoint
  PROVE  Stay'
<1>0. /\ run = "req" /\ world' = world /\ exiting' = exiting /\ pc'["rsp"] = pc["rsp"] /\ Control
      /\ EpOf' = EpOf /\ Client \in Conns /\ Servers \subseteq Conns /\ Client \notin Servers
      /\ NetTypes(net) /\ cxt.list \in Seq(Requests) /\ agenda' = agenda /\ batch' = batch
      /\ None \notin Servers /\ pc["req"] = "connect"
  BY ConnTypes, SessionAssumption, ReqAt DEF ReqFlow, ReqTurn, env, IInv, Own, EpOf, NetOk, CxtOk
<1>1. srv = None /\ cxt.pool[Ep] = None
  BY <1>0 DEF General, Holding, Using, Attempt, IInv, Own, Serving
<1>2. CASE NotBegun
  <2>1. ReqStill
    BY <1>2 DEF NotBegun, ReqStill, ReqAsks, Tame, Closed
  <2>2. pc'["req"] = "try"
    BY <1>0, <1>2, PcFacts DEF NotBegun, Goto, Coros, ReqLabels
  <2> QED
    BY <2>1, <2>2, StayReqStill DEF Attempt, Using
<1>3. ASSUME NEW s \in Servers, Begun(s), Made(s) \/ Awaited(s) PROVE Stay'
  <2>0. /\ s \in Conns /\ EpOf[s] = Ep /\ net.ref[s] = 0 /\ srv' = s /\ down' = down \ {s}
        /\ \A b \in batch : b.c # s
    BY <1>0, <1>3 DEF Begun
  <2>1. \A t \in Servers :
            /\ net.ref[t] = One(InPool(t)) + Count(cxt.list, t) + One(srv = t)
            /\ Count(cxt.list, t) \in Nat
    BY <1>0, CountType DEF Stay, Balanced
  <2>2. ~InPool(s) /\ Count(cxt.list, s) = 0
    BY <1>0, <2>0, <2>1 DEF One
  <2>3. PICK made \in BOOLEAN :
            /\ (made => Made(s)) /\ (~made => Awaited(s)) /\ cxt'.list = cxt.list /\ Filed'
            /\ net'.ref = [net.ref EXCEPT ![s] = 1 + One(made)]
            /\ (InPool(s)' <=> made) /\ \A t \in Servers \ {s} : InPool(t)' <=> InPool(t)
    <3>1. CASE Made(s)
      <4>1. /\ Filed' /\ InPool(s)' /\ cxt'.list = cxt.list
            /\ \A t \in Servers \ {s} : InPool(t)' <=> InPool(t)
        BY <1>0, <1>1, <2>0, <3>1, PoolGains DEF Made, Stay
      <4>2. net'.ref = [net.ref EXCEPT ![s] = 1 + One(TRUE)]
        BY <3>1 DEF Made, One
      <4> QED
        BY <3>1, <4>1, <4>2
    <3>2. CASE Awaited(s)
      <4>1. cxt' = cxt /\ net'.ref = [net.ref EXCEPT ![s] = 1 + One(FALSE)]
        BY <3>2 DEF Awaited, One
      <4>2. /\ Filed' /\ ~InPool(s)' /\ \A t \in Servers \ {s} : InPool(t)' <=> InPool(t)
        BY <1>0, <2>2, <4>1 DEF Stay, Filed, InPool
      <4> QED
        BY <3>2, <4>1, <4>2
    <3> QED
      BY <1>3, <3>1, <3>2
  <2>4. \A c \in Conns \ {s} : net'.ref[c] = net.ref[c] /\ net'.stat[c] = net.stat[c]
    BY <1>0, <2>3 DEF NetTypes, Made, Awaited
  <2>5. net'.ref[s] = 1 + One(made)
    BY <1>0, <2>0, <2>3 DEF NetTypes
  <2>6. pc'["req"] = IF made THEN AfterConnect ELSE "conn_wait"
    <3>1. CASE made
      BY <1>0, <2>3, <3>1, PcFacts DEF Made, Goto, Coros, ReqLabels, AfterConnect
    <3>2. CASE ~made
      BY <1>0, <2>3, <3>2, PcFacts DEF Awaited, Coros, ReqLabels
    <3> QED
      BY <3>1, <3>2
  <2>7. Balanced'
    <3>1. ASSUME NEW t \in Servers
          PROVE  net'.ref[t] = One(InPool(t)') + Count(cxt'.list, t) + One(srv' = t)
      <4>1. CASE t = s
        BY <2>0, <2>2, <2>3, <2>5, <4>1 DEF One
      <4>2. CASE t # s
        <5>1. net'.ref[t] = net.ref[t] /\ srv # t /\ srv' # t
          BY <1>0, <1>1, <2>0, <2>4, <4>2
        <5> QED
          BY <2>1, <2>3, <4>2, <5>1 DEF One
      <4> QED
        BY <4>1, <4>2
    <3>2. net'.ref[Client] = net.ref[Client] /\ pc'["req"] # "done"
      BY <1>0, <2>4, <2>6 DEF AfterConnect
    <3> QED
      BY <1>0, <3>1, <3>2 DEF Stay, Balanced
  <2>8. Late => Late'
    BY <1>0, <2>4 DEF Late, Closed
  <2>9. Placed'
    <3>1. ASSUME NEW i \in 1 .. Len(cxt'.list)
          PROVE  cxt'.pool[EpOf'[cxt'.list[i].srv]] = cxt'.list[i].srv \/ Late'
      <4>1. PICK t : t = cxt.list[i].srv
        OBVIOUS
      <4>2. t \in Servers /\ (InPool(t) \/ Late)
        BY <2>3, <3>1, <4>1, ListedServers DEF Stay, Placed
      <4>3. InPool(t)' \/ Late'
        BY <2>2, <2>3, <2>8, <4>2
      <4> QED
        BY <2>3, <4>1, <4>3 DEF InPool
    <3>2. pc'["req"] \in Using => InPool(s)'
      BY <2>3, <2>6 DEF Using
    <3> QED
      BY <2>0, <2>3, <3>1, <3>2 DEF Placed, InPool
  <2>10. Alive'
    <3>1. SUFFICES ASSUME ~exiting, NEW t \in Servers, InPool(t)'
                   PROVE  t \notin down' /\ ~Closed(t)'
      BY <1>0 DEF Alive
    <3>2. CASE t = s
      BY <1>0, <2>0, <2>3, <3>1, <3>2 DEF Made, Closed, NetTypes
    <3>3. CASE t # s
      <4>1. InPool(t)
        BY <2>3, <3>1, <3>3
      <4>2. ~Closed(t) /\ t \notin down
        BY <1>0, <3>1, <4>1, AliveOpen DEF Closing
      <4> QED
        BY <1>0, <2>0, <2>4, <3>3, <4>2 DEF Closed
    <3> QED
      BY <3>2, <3>3
  <2>11. Attempted'
    <3>1. CASE made
      BY <2>6, <3>1 DEF Attempted, Attempt, AfterConnect
    <3>2. CASE ~made
      BY <1>0, <2>0, <2>5, <2>6, <3>2, ReqUnregistered DEF Attempted, One
    <3> QED
      BY <3>1, <3>2
  <2> QED
    BY <2>3, <2>7, <2>9, <2>10, <2>11 DEF Stay
<1> QED
  BY <1>2, <1>3, Connects

\* A connection that was waited for is made.
LEMMA StayConnected ==
  ASSUME IInv, General, Stay, ReqFlow, connected
  PROVE  Stay'
<1>0. /\ run = "req" /\ world' = world /\ exiting' = exiting /\ pc'["rsp"] = pc["rsp"] /\ Control
      /\ EpOf' = EpOf /\ Client \in Conns /\ Servers \subseteq Conns /\ Client \notin Servers
      /\ NetTypes(net) /\ cxt.list \in Seq(Requests) /\ pc["req"] = "connected"
  BY ConnTypes, SessionAssumption, ReqAt DEF ReqFlow, ReqTurn, env, IInv, Own, EpOf, NetOk, CxtOk
<1>1. /\ srv \in Servers /\ srv \in Conns /\ EpOf[srv] = Ep /\ cxt.pool[Ep] = None
      /\ net.ref[srv] = 1 /\ srv \notin down
  BY <1>0 DEF IInv, Own, Serving, Attempt, Stay, Attempted
<1>2. /\ srv' = srv /\ down' = down /\ cxt' = [cxt EXCEPT !.pool[Ep] = srv]
      /\ net'.stat = [net.stat EXCEPT ![srv] = "open"]
      /\ net'.ref = [net.ref EXCEPT ![srv] = net.ref[srv] + 1]
      /\ pc'["req"] = AfterConnect /\ AfterConnect \in {"forward", "enlist"}
  <2>1. Completed
    BY Completes
  <2> QED
    BY <1>0, <2>1, PcFacts DEF Completed, Goto, Coros, ReqLabels, AfterConnect
<1>3. /\ Filed' /\ InPool(srv)' /\ ~InPool(srv) /\ cxt'.list = cxt.list
      /\ \A t \in Servers \ {srv} : InPool(t)' <=> InPool(t)
  BY <1>0, <1>1, <1>2, PoolGains DEF Stay
<1>4. \A t \in Servers :
          /\ net.ref[t] = One(InPool(t)) + Count(cxt.list, t) + One(srv = t)
          /\ Count(cxt.list, t) \in Nat
  BY <1>0, CountType DEF Stay, Balanced
<1>5. \A c \in Conns \ {srv} : net'.ref[c] = net.ref[c] /\ net'.stat[c] = net.stat[c]
  BY <1>0, <1>2 DEF NetTypes
<1>6. net'.ref[srv] = 2 /\ net'.stat[srv] = "open"
  BY <1>0, <1>1, <1>2 DEF NetTypes
<1>7. Balanced'
  <2>1. ASSUME NEW t \in Servers
        PROVE  net'.ref[t] = One(InPool(t)') + Count(cxt'.list, t) + One(srv' = t)
    <3>1. CASE t = srv
      BY <1>1, <1>2, <1>3, <1>4, <1>6, <3>1 DEF One
    <3>2. CASE t # srv
      <4>1. net'.ref[t] = net.ref[t]
        BY <1>0, <1>5, <3>2
      <4> QED
        BY <1>2, <1>3, <1>4, <3>2, <4>1 DEF One
    <3> QED
      BY <3>1, <3>2
  <2>2. net'.ref[Client] = net.ref[Client]
    BY <1>0, <1>1, <1>5
  <2> QED
    BY <1>0, <1>2, <2>1, <2>2 DEF Stay, Balanced
<1>8. Late => Late'
  BY <1>0, <1>1, <1>5 DEF Late, Closed
<1>9. Placed'
  <2>1. ASSUME NEW i \in 1 .. Len(cxt'.list)
        PROVE  cxt'.pool[EpOf'[cxt'.list[i].srv]] = cxt'.list[i].srv \/ Late'
    <3>1. PICK t : t = cxt.list[i].srv
      OBVIOUS
    <3>2. t \in Servers /\ (InPool(t) \/ Late)
      BY <1>3, <2>1, <3>1, ListedServers DEF Stay, Placed
    <3>3. InPool(t)' \/ Late'
      BY <1>3, <1>8, <3>2
    <3> QED
      BY <1>3, <3>1, <3>3 DEF InPool
  <2> QED
    BY <1>2, <1>3, <2>1 DEF Placed, InPool
<1>10. Alive'
  <2>1. SUFFICES ASSUME ~exiting, NEW t \in Servers, InPool(t)'
                 PROVE  t \notin down /\ ~Closed(t)'
    BY <1>0, <1>2 DEF Alive
  <2>2. CASE t = srv
    BY <1>1, <1>6, <2>2 DEF Closed
  <2>3. CASE t # srv
    <3>1. InPool(t)
      BY <1>3, <2>1, <2>3
    <3>2. ~Closed(t) /\ t \notin down
      BY <1>0, <2>1, <3>1, AliveOpen DEF Closing
    <3> QED
      BY <1>0, <1>5, <2>3, <3>2 DEF Closed
  <2> QED
    BY <2>2, <2>3
<1>11. Attempted'
  BY <1>2 DEF Attempted, Attempt
<1> QED
  BY <1>3, <1>7, <1>9, <1>10, <1>11 DEF Stay

\* A connection that failed is forgotten, and its only reference with it.
LEMMA StayFailed ==
  ASSUME IInv, General, Stay, ReqFlow, conn_failed
  PROVE  Stay'
<1>0. /\ run = "req" /\ world' = world /\ exiting' = exiting /\ pc'["rsp"] = pc["rsp"] /\ Control
      /\ EpOf' = EpOf /\ Client \in Conns /\ Servers \subseteq Conns /\ Client \notin Servers
      /\ NetTypes(net) /\ cxt.list \in Seq(Requests) /\ pc["req"] = "conn_failed" /\ None \notin Servers
  BY ConnTypes, SessionAssumption, ReqAt DEF ReqFlow, ReqTurn, env, IInv, Own, EpOf, NetOk, CxtOk
<1>1. /\ srv \in Servers /\ srv \in Conns /\ net.ref[srv] = 1
  BY <1>0 DEF IInv, Own, Serving, Attempt, Stay, Attempted
<1>2. /\ srv' = None /\ down' = down /\ cxt' = cxt /\ net'.stat = net.stat
      /\ net'.ref = [net.ref EXCEPT ![srv] = 0] /\ pc'["req"] = "try"
  <2>1. Forgotten
    BY Forgets
  <2> QED
    BY <1>0, <2>1, PcFacts DEF Forgotten, Goto, Coros, ReqLabels
<1>3. Alive' /\ Filed' /\ \A t : InPool(t)' <=> InPool(t)
  BY <1>0, <1>2, AliveKept
<1>4. \A t \in Servers :
          /\ net.ref[t] = One(InPool(t)) + Count(cxt.list, t) + One(srv = t)
          /\ Count(cxt.list, t) \in Nat
  BY <1>0, CountType DEF Stay, Balanced
<1>5. Balanced'
  <2>1. ASSUME NEW t \in Servers
        PROVE  net'.ref[t] = One(InPool(t)') + Count(cxt'.list, t) + One(srv' = t)
    <3>1. net'.ref[t] = net.ref[t] - One(srv = t)
      BY <1>0, <1>1, <1>2, <2>1 DEF NetTypes, One
    <3> QED
      BY <1>0, <1>2, <1>3, <1>4, <3>1 DEF One
  <2>2. net'.ref[Client] = net.ref[Client]
    BY <1>0, <1>1, <1>2 DEF NetTypes
  <2> QED
    BY <1>0, <1>2, <2>1, <2>2 DEF Stay, Balanced
<1>6. Placed'
  <2>1. Late => Late'
    BY <1>0, <1>2 DEF Late, Closed
  <2> QED
    BY <1>0, <1>2, <2>1 DEF Stay, Placed, InPool, Using
<1>7. Attempted'
  BY <1>2 DEF Attempted, Attempt
<1> QED
  BY <1>3, <1>5, <1>6, <1>7 DEF Stay

\* The pool has one entry for a connection that is in it.
LEMMA PoolCount ==
  ASSUME IInv, Filed, NEW s \in Servers
  PROVE  Cardinality({e \in Eps : cxt.pool[e] = s}) = One(InPool(s))
<1>1. EpOf[s] \in Eps /\ s # None
  BY EpOfType, SessionAssumption DEF IInv, Own
<1>2. CASE InPool(s)
  <2>1. {e \in Eps : cxt.pool[e] = s} = {EpOf[s]}
    BY <1>1, <1>2 DEF Filed, InPool
  <2> QED
    BY <1>2, <2>1, FS_Singleton DEF One
<1>3. CASE ~InPool(s)
  <2>1. {e \in Eps : cxt.pool[e] = s} = {}
    BY <1>1, <1>3 DEF Filed, InPool
  <2> QED
    BY <1>3, <2>1, FS_EmptySet DEF One
<1> QED
  BY <1>2, <1>3

\* req ends and gives everything back.
LEMMA StayCleans ==
  ASSUME IInv, General, Stay, ReqFlow, req_clean
  PROVE  Stay' /\ net'.fault = net.fault
<1>0. /\ run = "req" /\ world' = world /\ exiting' = exiting /\ pc'["rsp"] = pc["rsp"] /\ Control
      /\ EpOf' = EpOf /\ Client \in Conns /\ Servers \subseteq Conns /\ Client \notin Servers
      /\ NetTypes(net) /\ cxt.list \in Seq(Requests) /\ pc["req"] = "clean" /\ None \notin Servers
      /\ CxtOk
  BY ConnTypes, SessionAssumption, ReqAt DEF ReqFlow, ReqTurn, env, IInv, Own, EpOf, NetOk, CxtOk
<1>1. srv = None /\ srv' = srv /\ pc'["req"] = "done"
  BY <1>0, PcFacts DEF General, Holding, Using, Attempt, req_clean, Coros, ReqLabels
<1>2. cxt'.pool = [e \in Eps |-> None] /\ cxt'.list = <<>>
  BY <1>0 DEF req_clean, CxtOk
<1>3. ASSUME NEW s \in Servers PROVE ~InPool(s)' /\ Count(cxt'.list, s) = 0
  <2>1. EpOf[s] \in Eps
    BY <1>0, EpOfType
  <2>2. <<>> \in Seq(Requests)
    OBVIOUS
  <2>3. Count(<<>>, s) = 0
    BY <2>2, CountType
  <2> QED
    BY <1>0, <1>2, <2>1, <2>3 DEF InPool
<1>4. PICK drops : drops = [c \in Conns |-> Drops(c)]
  OBVIOUS
<1>5. /\ net'.ref = [c \in Conns |-> IF net.ref[c] < drops[c] THEN 0 ELSE net.ref[c] - drops[c]]
      /\ net'.fault = IF \E c \in Conns : net.ref[c] < drops[c] THEN "freed" ELSE net.fault
  BY <1>4 DEF req_clean, DropAll
<1>6. ASSUME NEW s \in Servers PROVE drops[s] = net.ref[s] /\ net.ref[s] \in Nat
  <2>1. Drops(s) = One(InPool(s)) + Count(cxt.list, s) /\ Count(cxt.list, s) \in Nat
    <3>1. Drops(s) = Cardinality({e \in Eps : cxt.pool[e] = s}) + Count(cxt.list, s)
      BY <1>0, <1>6 DEF Drops, Count, Places
    <3>2. Cardinality({e \in Eps : cxt.pool[e] = s}) = One(InPool(s))
      BY <1>6, PoolCount DEF Stay
    <3>3. Count(cxt.list, s) \in Nat
      BY <1>0, CountType
    <3> QED
      BY <3>1, <3>2, <3>3
  <2>2. net.ref[s] = One(InPool(s)) + Count(cxt.list, s) + 0
    BY <1>0, <1>1, <1>6 DEF Stay, Balanced, One
  <2> QED
    BY <1>0, <1>4, <1>6, <2>1, <2>2 DEF NetTypes, One
<1>7. drops[Client] = 1 /\ net.ref[Client] = 1 + One(pc["rsp"] # "done")
  BY <1>0, <1>4 DEF Drops, Stay, Balanced, One
<1>8. (\A s \in Servers : net'.ref[s] = 0) /\ net'.ref[Client] = One(pc["rsp"] # "done")
  BY <1>0, <1>5, <1>6, <1>7 DEF One
<1>9. net'.fault = net.fault
  <2>1. \A c \in Conns : ~(net.ref[c] < drops[c])
    BY <1>6, <1>7 DEF One, Conns
  <2> QED
    BY <1>5, <2>1
<1>10. Balanced'
  BY <1>0, <1>1, <1>3, <1>8 DEF Balanced, One
<1>11. Filed' /\ Placed' /\ Alive' /\ Attempted'
  BY <1>1, <1>2, <1>3 DEF Filed, Placed, Alive, Attempted, Attempt, Using
<1> QED
  BY <1>9, <1>10, <1>11 DEF Stay

\* Every step of req keeps Stay.
LEMMA StayReq ==
  ASSUME IInv, General, Stay, UNCHANGED env, ReqHandler
  PROVE  Stay'
<1>0. ReqFlow
  BY ReqFlows
<1>1. CASE conn_get_by_endpoint
  BY <1>0, <1>1, StayConnects
<1>2. CASE connected
  BY <1>0, <1>2, StayConnected
<1>3. CASE conn_failed
  BY <1>0, <1>3, StayFailed
<1>4. CASE req_clean
  BY <1>0, <1>4, StayCleans
<1>5. CASE Enlists
  BY <1>0, <1>5, StayEnlists
<1>6. CASE Returns
  BY <1>0, <1>6, StayReturns
<1>7. ASSUME NEW s \in Servers, Reuses(s) PROVE Stay'
  BY <1>0, <1>7, StayReuses
<1>8. ASSUME NEW s \in Servers, Unpools(s) PROVE FALSE
  <2>1. cxt.pool[Ep] = s /\ Ep \in Eps /\ ~exiting /\ Closed(s) /\ s # None
    BY <1>8, SessionAssumption DEF Unpools
  <2>2. InPool(s)
    BY <2>1 DEF Stay, Filed, InPool
  <2>3. run = "req"
    BY <1>0 DEF ReqFlow, ReqTurn
  <2> QED
    BY <1>8, <2>1, <2>2, <2>3, AliveOpen DEF Closing
<1>9. CASE ReqKeeps /\ ~conn_get_by_endpoint /\ ~connected /\ ~conn_failed /\ ~req_clean
  <2>1. pc["req"] \notin {"connect", "connected", "conn_failed", "clean"}
    BY <1>9, ReqAt DEF ReqHandler
  <2>2. pc["req"] \notin Paused
    BY <1>0 DEF ReqFlow, ReqTurn, IInv, Own, Control, Coros
  <2>3. ReqStill
    BY <1>9 DEF ReqKeeps
  <2>4. pc'["req"] # "done" /\ (pc'["req"] \in Using => pc["req"] \in Using)
        /\ pc'["req"] \notin Attempt \ {"connect"}
    BY <1>0, <1>9, <2>1, <2>2 DEF ReqKeeps, ReqFlow, ReqEdge, Using, Attempt, Paused, ReqStraight
  <2> QED
    BY <1>0, <2>3, <2>4, StayReqStill
<1> QED
  BY <1>1, <1>2, <1>3, <1>4, <1>5, <1>6, <1>7, <1>8, <1>9, ReqEffects

\* The server of a request rsp works on is in the pool; it works unless rsp has closed
\* it itself.
LEMMA BusyPooled ==
  ASSUME IInv, Stay, pc["rsp"] \in Busy
  PROVE  /\ Oldest.srv \in Servers /\ cxt.list # <<>> /\ InPool(Oldest.srv)
         /\ \A s \in Servers : Count(cxt.list, s) \in Nat /\ (s = Oldest.srv => Count(cxt.list, s) > 0)
<1>1. cxt.list # <<>> /\ cxt.list \in Seq(Requests)
  BY DEF IInv, Own, Numbers, CxtOk
<1>2. Len(cxt.list) \in Nat /\ Len(cxt.list) >= 1 /\ Oldest = cxt.list[1]
  BY <1>1, HeadTailProperties, EmptySeq DEF Oldest
<1>3. Oldest.srv \in Servers
  BY <1>2, ListedServers
<1>4. ~Late
  BY DEF Late, Busy
<1>5. InPool(Oldest.srv)
  BY <1>2, <1>4 DEF Stay, Placed
<1>6. ASSUME NEW s \in Servers
      PROVE  Count(cxt.list, s) \in Nat /\ (s = Oldest.srv => Count(cxt.list, s) > 0)
  BY <1>1, <1>2, CountType
<1> QED
  BY <1>1, <1>3, <1>5, <1>6

\* A step of rsp keeps Stay; first the ones that leave the references alone.
LEMMA StayRspKeeps ==
  ASSUME IInv, General, Stay, ServersStay, RspFlow, RspKeeps, pc["rsp"] \notin {"post", "exit"},
         Late => Late'
  PROVE  Stay'
<1>0. /\ run = "rsp" /\ world' = world /\ exiting' = exiting /\ pc'["req"] = pc["req"] /\ Control
      /\ agenda' = agenda /\ batch' = batch /\ down' = down /\ srv' = srv /\ EpOf' = EpOf
      /\ Client \in Conns /\ pc["rsp"] \notin Paused
  BY ConnTypes DEF RspFlow, RspTurn, env, IInv, Own, EpOf, Control, Coros
<1>1. /\ cxt'.pool = cxt.pool /\ cxt'.list = cxt.list /\ net'.ref = net.ref /\ Oldest' = Oldest
  BY DEF RspKeeps, Oldest
<1>2. \A s : InPool(s)' <=> InPool(s)
  BY <1>0, <1>1 DEF InPool
<1>3. pc["rsp"] # "done" /\ pc'["rsp"] # "done"
  BY <1>0 DEF Paused, RspFlow, RspEdge
<1>4. Balanced'
  BY <1>0, <1>1, <1>2, <1>3 DEF Stay, Balanced
<1>5. Filed'
  BY <1>0, <1>1 DEF Stay, Filed
<1>6. Placed'
  BY <1>0, <1>1, <1>2 DEF Stay, Placed
<1>7. Alive'
  <2>1. SUFFICES ASSUME ~exiting, NEW s \in Servers, InPool(s), Closed(s)'
                 PROVE  Closing(s)'
    BY <1>0, <1>1, <1>2 DEF Stay, Alive
  <2>2. ~Closed(s) /\ ~ReadFails(s)
    BY <2>1, AliveOpen DEF Closing
  <2>3. "bad_response" \notin Faults
    BY DEF ServersStay
  <2>4. ClosesUsed(s)
    BY <2>1, <2>2, <2>3 DEF RspKeeps, ClosesFailed
  <2>5. cxt.list # <<>>
    BY <2>4, BusyPooled DEF ClosesUsed, Busy
  <2> QED
    BY <1>1, <2>4, <2>5 DEF ClosesUsed, Closing
<1>8. Attempted'
  BY <1>0, <1>1 DEF Stay, Attempted
<1> QED
  BY <1>4, <1>5, <1>6, <1>7, <1>8 DEF Stay

\* The oldest request is answered and its server goes on.
LEMMA StayAnswers ==
  ASSUME IInv, General, Stay, RspFlow, Answers
  PROVE  Stay' /\ net'.fault = net.fault
<1>0. /\ run = "rsp" /\ world' = world /\ exiting' = exiting /\ pc'["req"] = pc["req"] /\ Control
      /\ agenda' = agenda /\ batch' = batch /\ down' = down /\ srv' = srv /\ EpOf' = EpOf
      /\ Client \in Conns /\ Servers \subseteq Conns /\ Client \notin Servers
      /\ NetTypes(net) /\ cxt.list \in Seq(Requests)
  BY ConnTypes, SessionAssumption DEF RspFlow, RspTurn, env, IInv, Own, EpOf, NetOk, CxtOk
<1>1. /\ pc["rsp"] \in Busy /\ cxt'.pool = cxt.pool /\ cxt'.list = Tail(cxt.list)
      /\ net' = mem_decref(net, Oldest.srv) /\ pc'["rsp"] = "top"
  BY <1>0, PcFacts DEF Answers, Busy, Goto, Coros, RspLabels
<1>2. /\ Oldest.srv \in Servers /\ Oldest.srv \in Conns /\ cxt.list # <<>> /\ InPool(Oldest.srv)
      /\ Count(cxt.list, Oldest.srv) > 0 /\ ~Late
      /\ \A s \in Servers : Count(cxt.list, s) \in Nat
  BY <1>0, <1>1, BusyPooled DEF Late, Busy
<1>3. \A t : InPool(t)' <=> InPool(t)
  BY <1>0, <1>1 DEF InPool
<1>4. \A t \in Servers : net.ref[t] = One(InPool(t)) + Count(cxt.list, t) + One(srv = t)
  BY DEF Stay, Balanced
<1>5. net.ref[Oldest.srv] > 1 /\ net.ref[Oldest.srv] \in Nat
  <2>1. One(InPool(Oldest.srv)) = 1 /\ One(srv = Oldest.srv) \in {0, 1}
    BY <1>2 DEF One
  <2>2. net.ref[Oldest.srv] = 1 + Count(cxt.list, Oldest.srv) + One(srv = Oldest.srv)
    BY <1>2, <1>4, <2>1
  <2> QED
    BY <1>2, <2>1, <2>2
<1>6. /\ net'.ref = [net.ref EXCEPT ![Oldest.srv] = net.ref[Oldest.srv] - 1]
      /\ RefsOnly(net, net')
  <2>1. PICK s : s = Oldest.srv
    OBVIOUS
  <2>2. /\ s \in Conns /\ NetTypes(net) /\ net' = mem_decref(net, s) /\ net.ref[s] > 0
        /\ net.ref[s] > 1
    BY <1>0, <1>1, <1>2, <1>5, <2>1
  <2>3. /\ net'.ref = [net.ref EXCEPT ![s] = net.ref[s] - 1] /\ RefsOnly(net, net')
        /\ Tame(net, net', "rsp")
    BY <2>2, DecrefAt
  <2> QED
    BY <2>1, <2>3
<1>7. Balanced'
  <2>1. ASSUME NEW t \in Servers
        PROVE  net'.ref[t] = One(InPool(t)') + Count(cxt'.list, t) + One(srv' = t)
    <3>1. net'.ref[t] = net.ref[t] - One(Oldest.srv = t)
      BY <1>0, <1>6, <2>1 DEF NetTypes, One
    <3>2. Count(cxt.list, t) = Count(cxt'.list, t) + One(Oldest.srv = t)
      BY <1>0, <1>1, <1>2, CountTail DEF Oldest
    <3>3. cxt'.list \in Seq(Requests)
      BY <1>0, <1>1, <1>2, HeadTailProperties
    <3>4. Count(cxt'.list, t) \in Nat
      BY <3>3, CountType
    <3> QED
      BY <1>0, <1>2, <1>3, <1>4, <3>1, <3>2, <3>4 DEF One
  <2>2. net'.ref[Client] = net.ref[Client]
    BY <1>0, <1>2, <1>6 DEF NetTypes
  <2> QED
    BY <1>0, <1>1, <2>1, <2>2 DEF Stay, Balanced, Busy
<1>8. Placed'
  <2>1. ASSUME NEW i \in 1 .. Len(cxt'.list)
        PROVE  cxt'.pool[EpOf'[cxt'.list[i].srv]] = cxt'.list[i].srv
    <3>1. i + 1 \in 1 .. Len(cxt.list) /\ cxt'.list[i] = cxt.list[i + 1]
      BY <1>0, <1>1, <1>2, <2>1, HeadTailProperties
    <3> QED
      BY <1>0, <1>1, <1>2, <3>1 DEF Stay, Placed, InPool
  <2> QED
    BY <1>0, <1>2, <1>3, <2>1 DEF Stay, Placed, InPool
<1>9. Alive'
  <2>1. SUFFICES ASSUME ~exiting, NEW s \in Servers, InPool(s)
                 PROVE  s \notin down /\ ~Closed(s)
    BY <1>0, <1>3, <1>6 DEF Alive, RefsOnly, Closed
  <2> QED
    BY <2>1 DEF Stay, Alive, Closing, Answers
<1>10. Attempted'
  <2>1. ASSUME pc["req"] \in Attempt \ {"connect"} PROVE net'.ref[srv] = 1
    <3>1. net.ref[srv] = 1 /\ srv \in Servers /\ srv \in Conns
      BY <1>0, <2>1 DEF Stay, Attempted, IInv, Own, Serving
    <3> QED
      BY <1>0, <1>5, <1>6, <3>1 DEF NetTypes
  <2> QED
    BY <1>0, <2>1 DEF Stay, Attempted
<1>11. Filed'
  BY <1>0, <1>1 DEF Stay, Filed
<1> QED
  BY <1>6, <1>7, <1>8, <1>9, <1>10, <1>11 DEF Stay, RefsOnly

\* The oldest request is answered and its server, closed on this side, forgotten.
LEMMA StayForgets ==
  ASSUME IInv, General, Stay, RspFlow, AnswersClosed
  PROVE  Stay' /\ net'.fault = net.fault
<1>0. /\ run = "rsp" /\ world' = world /\ exiting' = exiting /\ pc'["req"] = pc["req"] /\ Control
      /\ agenda' = agenda /\ batch' = batch /\ down' = down /\ srv' = srv /\ EpOf' = EpOf
      /\ Client \in Conns /\ Servers \subseteq Conns /\ Client \notin Servers /\ None \notin Servers
      /\ NetTypes(net) /\ cxt.list \in Seq(Requests) /\ cxt.pool \in [Eps -> Servers \cup {None}]
  BY ConnTypes, SessionAssumption DEF RspFlow, RspTurn, env, IInv, Own, EpOf, NetOk, CxtOk
<1>1. PICK s : s = Oldest.srv
  OBVIOUS
<1>2. /\ pc["rsp"] \in Busy /\ cxt'.pool = [cxt.pool EXCEPT ![EpOf[s]] = None]
      /\ cxt'.list = Tail(cxt.list) /\ Closed(s)
      /\ net' = mem_decref(mem_decref(net, s), s) /\ pc'["rsp"] = "top"
  BY <1>0, <1>1, PcFacts DEF AnswersClosed, Busy, Goto, Coros, RspLabels
<1>3. /\ s \in Servers /\ s \in Conns /\ cxt.list # <<>> /\ InPool(s) /\ EpOf[s] \in Eps
      /\ Count(cxt.list, s) > 0 /\ \A t \in Servers : Count(cxt.list, t) \in Nat
  BY <1>0, <1>1, <1>2, BusyPooled, EpOfType
<1>4. \A t \in Servers : net.ref[t] = One(InPool(t)) + Count(cxt.list, t) + One(srv = t)
  BY DEF Stay, Balanced
<1>5. net.ref[s] > 1 /\ net.ref[s] > 0 /\ net.ref[s] \in Nat
  BY <1>0, <1>3, <1>4 DEF One, NetTypes
<1>6. PICK m : m = mem_decref(net, s)
  OBVIOUS
<1>7. /\ m.ref = [net.ref EXCEPT ![s] = net.ref[s] - 1] /\ m.fault = net.fault
      /\ Elsewhere(net, m, s) /\ Tame(net, m, "rsp") /\ NetTypes(m)
  <2>1. NetTypes(m)
    BY <1>3, <1>6, ConnTypes, DecrefFacts DEF NetStep, NetOk
  <2> QED
    BY <1>0, <1>3, <1>5, <1>6, <2>1, DecrefAt
<1>8. m.ref[s] > 0 /\ m.ref[s] = net.ref[s] - 1
  BY <1>0, <1>3, <1>5, <1>7 DEF NetTypes
<1>9. /\ net'.ref = [m.ref EXCEPT ![s] = m.ref[s] - 1] /\ net'.fault = net.fault
      /\ Elsewhere(m, net', s) /\ Tame(m, net', "rsp")
  <2>1. net' = mem_decref(m, s)
    BY <1>2, <1>6
  <2>2. NetTypes(m) /\ s \in Conns /\ m.ref[s] > 0
    BY <1>3, <1>7, <1>8
  <2>3. /\ net'.ref = [m.ref EXCEPT ![s] = m.ref[s] - 1] /\ net'.fault = m.fault
        /\ Elsewhere(m, net', s) /\ Tame(m, net', "rsp")
    BY <2>1, <2>2, DecrefAt
  <2> QED
    BY <1>7, <2>3
<1>10. /\ net'.ref[s] = net.ref[s] - 2 /\ Elsewhere(net, net', s) /\ Tame(net, net', "rsp")
  <2>1. Tame(net, net', "rsp")
    BY <1>7, <1>9, TameTwice
  <2>2. Elsewhere(net, net', s)
    BY <1>7, <1>9 DEF Elsewhere
  <2>3. net'.ref[s] = m.ref[s] - 1
    BY <1>3, <1>7, <1>9 DEF NetTypes
  <2> QED
    BY <1>5, <1>8, <2>1, <2>2, <2>3
<1>11. ~InPool(s)' /\ \A t \in Servers \ {s} : InPool(t)' <=> InPool(t)
  <2>1. ~InPool(s)'
    BY <1>0, <1>2, <1>3 DEF InPool
  <2>2. ASSUME NEW t \in Servers \ {s} PROVE InPool(t)' <=> InPool(t)
    <3>1. EpOf[t] \in Eps
      BY <1>0, EpOfType
    <3> QED
      BY <1>0, <1>2, <1>3, <3>1 DEF InPool
  <2> QED
    BY <2>1, <2>2
<1>12. Balanced'
  <2>1. ASSUME NEW t \in Servers
        PROVE  net'.ref[t] = One(InPool(t)') + Count(cxt'.list, t) + One(srv' = t)
    <3>1. Count(cxt.list, t) = Count(cxt'.list, t) + One(s = t)
      BY <1>0, <1>1, <1>2, <1>3, CountTail DEF Oldest
    <3>2. cxt'.list \in Seq(Requests)
      BY <1>0, <1>2, <1>3, HeadTailProperties
    <3>3. Count(cxt'.list, t) \in Nat
      BY <3>2, CountType
    <3>4. CASE t = s
      <4>1. Count(cxt.list, s) = Count(cxt'.list, s) + 1 /\ Count(cxt'.list, s) \in Nat
        BY <3>1, <3>3, <3>4 DEF One
      <4>2. net.ref[s] = 1 + Count(cxt.list, s) + One(srv = s)
        BY <1>3, <1>4 DEF One
      <4>3. net'.ref[s] = 0 + Count(cxt'.list, s) + One(srv = s)
        BY <1>10, <4>1, <4>2 DEF One
      <4> QED
        BY <1>0, <1>11, <3>4, <4>3 DEF One
    <3>5. CASE t # s
      <4>1. net'.ref[t] = net.ref[t]
        BY <1>0, <1>10, <3>5 DEF Elsewhere
      <4>2. Count(cxt'.list, t) = Count(cxt.list, t)
        BY <3>1, <3>3, <3>5 DEF One
      <4>3. InPool(t)' <=> InPool(t)
        BY <1>11, <3>5
      <4> QED
        BY <1>0, <1>4, <4>1, <4>2, <4>3 DEF One
    <3> QED
      BY <3>4, <3>5
  <2>2. net'.ref[Client] = net.ref[Client]
    BY <1>0, <1>3, <1>10 DEF Elsewhere
  <2> QED
    BY <1>0, <1>2, <2>1, <2>2 DEF Stay, Balanced, Busy, One
<1>13. Late'
  <2>1. CASE exiting
    BY <1>0, <1>2, <2>1 DEF Late
  <2>2. CASE ~exiting
    <3>1. Closed(Client)
      BY <1>2, <1>3, <2>2 DEF Stay, Alive, Closing
    <3> QED
      BY <1>0, <1>2, <1>10, <3>1 DEF Late, Tame, Closed
  <2> QED
    BY <2>1, <2>2
<1>14. Placed'
  BY <1>13 DEF Placed
<1>15. Alive'
  <2>1. SUFFICES ASSUME ~exiting, NEW t \in Servers, t # s, InPool(t)
                 PROVE  t \notin down /\ ~Closed(t)'
    BY <1>0, <1>11 DEF Alive
  <2>2. t \notin down /\ ~Closed(t)
    BY <1>1, <2>1 DEF Stay, Alive, Closing
  <2> QED
    BY <1>0, <1>10, <2>1, <2>2 DEF Elsewhere, Closed
<1>16. Attempted'
  <2>1. ASSUME pc["req"] \in Attempt \ {"connect"} PROVE net'.ref[srv] = 1
    <3>1. net.ref[srv] = 1 /\ srv \in Servers /\ srv \in Conns
      BY <1>0, <2>1 DEF Stay, Attempted, IInv, Own, Serving
    <3> QED
      BY <1>0, <1>5, <1>10, <3>1 DEF Elsewhere
  <2> QED
    BY <1>0, <2>1 DEF Stay, Attempted
<1>17. Filed'
  BY <1>0, <1>2, <1>3 DEF Stay, Filed
<1> QED
  BY <1>9, <1>12, <1>14, <1>15, <1>16, <1>17 DEF Stay

\* rsp ends and gives the client back.
LEMMA StayLeaves ==
  ASSUME IInv, General, Stay, RspFlow, rsp_exit
  PROVE  Stay' /\ net'.fault = net.fault
<1>0. /\ run = "rsp" /\ world' = world /\ exiting' = exiting /\ pc'["req"] = pc["req"] /\ Control
      /\ agenda' = agenda /\ batch' = batch /\ down' = down /\ srv' = srv /\ EpOf' = EpOf
      /\ Client \in Conns /\ Servers \subseteq Conns /\ Client \notin Servers /\ CxtOk
      /\ NetTypes(net) /\ pc["rsp"] = "exit"
  BY ConnTypes, SessionAssumption, RspAt DEF RspFlow, RspTurn, env, IInv, Own, EpOf, NetOk
<1>1. /\ net' = mem_decref(net, Client) /\ pc'["rsp"] = "done"
      /\ cxt'.pool = cxt.pool /\ cxt'.list = cxt.list
  BY <1>0, PcFacts DEF rsp_exit, CxtOk, Coros, RspLabels
<1>2. net.ref[Client] > 0 /\ net.ref[Client] \in Nat
  BY <1>0 DEF Stay, Balanced, One, NetTypes
<1>3. /\ net'.ref = [net.ref EXCEPT ![Client] = net.ref[Client] - 1] /\ net'.fault = net.fault
      /\ Elsewhere(net, net', Client) /\ Tame(net, net', "rsp")
  BY <1>0, <1>1, <1>2, DecrefAt
<1>4. \A t : InPool(t)' <=> InPool(t)
  BY <1>0, <1>1 DEF InPool
<1>5. Balanced'
  <2>1. net'.ref[Client] = net.ref[Client] - 1 /\ \A t \in Servers : net'.ref[t] = net.ref[t]
    BY <1>0, <1>3 DEF Elsewhere, NetTypes
  <2> QED
    BY <1>0, <1>1, <1>4, <2>1 DEF Stay, Balanced, One
<1>6. Late => Late'
  BY <1>0, <1>1, <1>3 DEF Late, Tame, Closed
<1>7. Placed'
  BY <1>0, <1>1, <1>4, <1>6 DEF Stay, Placed
<1>8. Alive'
  BY <1>0, <1>3, <1>4 DEF Stay, Alive, Closing, Elsewhere, Closed
<1>9. Attempted'
  <2>1. ASSUME pc["req"] \in Attempt \ {"connect"} PROVE net'.ref[srv] = 1
    BY <1>0, <1>3, <2>1 DEF Stay, Attempted, IInv, Own, Serving, Elsewhere
  <2> QED
    BY <1>0, <2>1 DEF Stay, Attempted
<1>10. Filed'
  BY <1>0, <1>1 DEF Stay, Filed
<1> QED
  BY <1>3, <1>5, <1>7, <1>8, <1>9, <1>10 DEF Stay

\* Once rsp will not look at another request it does not.
LEMMA LateRsp ==
  ASSUME IInv, UNCHANGED env, RspHandler, Late
  PROVE  Late'
<1>0. RspFlow /\ Control /\ Tame(net, net', "rsp") /\ exiting' = exiting /\ Client \in Conns
  BY RspFlows, RspTame, ConnTypes DEF IInv, Own, env
<1>1. CASE pc["rsp"] = "top"
  <2>1. rsp_top
    BY <1>1, RspAt DEF RspHandler
  <2>2. pc'["rsp"] = "exit"
    BY <1>0, <2>1, PcFacts DEF rsp_top, Late, Goto, Coros, RspLabels
  <2> QED
    BY <1>0, <2>2 DEF Late, Tame, Closed
<1>2. CASE pc["rsp"] \in {"exit", "done"}
  BY <1>0, <1>2 DEF RspFlow, RspEdge, Late, Tame, Closed
<1> QED
  BY <1>1, <1>2 DEF Late

\* Every step of rsp keeps Stay.
LEMMA StayRsp ==
  ASSUME IInv, General, Stay, ServersStay, UNCHANGED env, RspHandler
  PROVE  Stay'
<1>0. RspFlow /\ (Late => Late')
  BY RspFlows, LateRsp
<1>1. CASE rsp_exit
  BY <1>0, <1>1, StayLeaves
<1>2. CASE Answers
  BY <1>0, <1>2, StayAnswers
<1>3. CASE AnswersClosed
  BY <1>0, <1>3, StayForgets
<1>4. ASSUME FollowsNull PROVE FALSE
  <2>1. InPool(Oldest.srv) /\ Oldest.srv # None
    BY <1>4, BusyPooled, SessionAssumption DEF FollowsNull, Busy
  <2> QED
    BY <1>4, <2>1 DEF FollowsNull, InPool
<1>5. CASE RspKeeps /\ pc["rsp"] \notin {"post", "exit"}
  BY <1>0, <1>5, StayRspKeeps
<1>6. pc["rsp"] = "exit" => rsp_exit
  BY RspAt DEF RspHandler
<1>7. pc["rsp"] = "post" => Answers \/ AnswersClosed \/ FollowsNull
  BY RspAt, PostEffects DEF RspHandler
<1> QED
  BY <1>1, <1>2, <1>3, <1>4, <1>5, <1>6, <1>7, RspEffects

\* A step that moves no pointer keeps Stay if what it does to connections does.
LEMMA StayStill ==
  ASSUME IInv, Stay, world' = world, srv' = srv, net'.ref = net.ref, cxt'.pool = cxt.pool,
         cxt'.list = cxt.list, \A k \in Coros : pc'[k] = "done" <=> pc[k] = "done",
         Late => Late', pc'["req"] \in Using => pc["req"] \in Using, Alive', Attempted'
  PROVE  Stay'
<1>1. EpOf' = EpOf
  BY DEF EpOf
<1>2. \A s : InPool(s)' <=> InPool(s)
  BY <1>1 DEF InPool
<1>3. Balanced'
  BY <1>2 DEF Stay, Balanced, One, Coros
<1>4. Filed' /\ Placed'
  BY <1>1, <1>2 DEF Stay, Filed, Placed
<1> QED
  BY <1>3, <1>4 DEF Stay

\* The main loop, the peers and the signal handler keep it.
LEMMA StayMain ==
  ASSUME IInv, General, Stay, ServersStay,
         \/ UNCHANGED env /\ (MainLoop \/ \E c \in Conns : PeerCloses(c))
         \/ proxy_done \/ net_pull_done
  PROVE  Stay'
<1>0. /\ Control /\ NetTypes(net) /\ Handlers /\ Client \in Conns /\ Client \notin Servers
      /\ Servers \subseteq Conns
      /\ pc["req"] \in Attempt \ {"connect"} => srv \in Servers /\ net.ref[srv] = 1
  BY ConnTypes, SessionAssumption DEF IInv, Own, NetOk, Serving, Stay, Attempted
<1>1. ASSUME run = "main"
      PROVE  /\ pc["req"] \notin ReqStraight /\ pc["rsp"] \notin RspStraight /\ \A s : ~Closing(s)
  BY <1>1 DEF General, Straight, Closing
<1>2. ASSUME NEW k \in Coros, NEW ret \in {-1, 0, 1}, Wakes(k, ret), run = "main",
             UNCHANGED <<env, batch, down, srv>>,
             k = "req" /\ pc["req"] = "conn_wait" /\ ret # -1 => srv \notin down,
             \A i \in 1 .. Len(agenda') : i + 1 \in 1 .. Len(agenda) /\ agenda'[i] = agenda[i + 1]
      PROVE  Stay'
  <2>1. /\ exiting' = exiting /\ world' = world /\ net' = net /\ run' = k /\ pc[k] # "done"
        /\ \A j \in Coros \ {k} : pc'[j] = pc[j]
        /\ cxt'.list = cxt.list /\ cxt'.pool = cxt.pool /\ EpOf' = EpOf
    BY <1>2 DEF Wakes, env, EpOf
  <2>2. /\ pc["req"] \notin ReqStraight /\ pc["rsp"] \notin RspStraight /\ \A s : ~Closing(s)
    BY <1>1, <1>2
  <2>3. \A j \in Coros : pc'[j] = "done" <=> pc[j] = "done"
    BY <1>0, <1>2, <2>1, WakesTo DEF Coros
  <2>4. Late => Late'
    BY <1>0, <2>1, <2>2, <2>3 DEF Late, Closed, Coros, RspStraight
  <2>5. pc'["req"] \in Using => pc["req"] \in Using
    BY <1>0, <1>2, <2>1, WakesTo DEF Using, Coros
  <2>6. Alive'
    BY <1>2, <2>1, <2>2 DEF Stay, Alive, InPool, Closed
  <2>7. pc'["req"] \in Attempt \ {"connect"} => pc["req"] = "conn_wait"
    BY <1>0, <1>2, <2>1, <2>2, WakesTo DEF Attempt, Coros, ReqStraight
  <2>8. pc'["req"] = "connected" => srv \notin down
    BY <1>0, <1>2, <2>1, <2>7, WakesTo DEF Attempt, Coros
  <2>9. pc'["req"] = "conn_wait" => pc["req"] = "conn_wait"
    BY <2>7 DEF Attempt
  <2>10. Attempted'
    BY <1>0, <1>2, <2>1, <2>7, <2>8, <2>9 DEF Stay, Attempted, Attempt
  <2> QED
    BY <1>2, <2>1, <2>3, <2>4, <2>5, <2>6, <2>10, StayStill
<1>3. CASE UNCHANGED env /\ event_work
  <2>1. EventTaken
    BY <1>3, EventsTaken
  <2>2. CASE UNCHANGED <<pc, run, again, cxt, net>>
    <3>1. UNCHANGED <<world, exiting, srv, batch, agenda, down, pc, run, cxt, net>> /\ EpOf' = EpOf
      BY <2>1, <2>2 DEF EventTaken, env, EpOf
    <3>2. (Late => Late') /\ Alive' /\ Attempted'
      BY <3>1 DEF Stay, Late, Alive, Attempted, InPool, Closing, Closed, Oldest
    <3> QED
      BY <3>1, <3>2, StayStill
  <2>3. CASE /\ queue[1].to \in armed /\ Wakes(Owner(queue[1].to), IF queue[1].more THEN 0 ELSE 1)
             /\ queue[1].to = "req" => pc["req"] \in {"init", "fin"}
             /\ queue[1].to = "dns" => pc["req"] = "dns_wait"
    <3>1. queue[1].to \in {"req", "rsp", "dns"}
      BY <2>3 DEF IInv, Own, Loop
    <3>2. Owner(queue[1].to) \in Coros /\ (IF queue[1].more THEN 0 ELSE 1) \in {-1, 0, 1}
      BY DEF Owner, Coros
    <3>3. Owner(queue[1].to) = "req" => pc["req"] # "conn_wait"
      BY <2>3, <3>1 DEF Owner
    <3>4. UNCHANGED <<env, batch, down, srv>> /\ run = "main" /\ agenda' = <<>>
      BY <2>1 DEF EventTaken
    <3> QED
      BY <1>2, <2>3, <3>2, <3>3, <3>4
  <2> QED
    BY <2>1, <2>2, <2>3 DEF EventTaken
<1>4. CASE UNCHANGED env /\ conn_epoll_handler
  <2>1. CallMade
    BY <1>4, CallsMade
  <2>2. /\ UNCHANGED <<env, batch, down, srv>> /\ run = "main"
        /\ \A i \in 1 .. Len(agenda') : i + 1 \in 1 .. Len(agenda) /\ agenda'[i] = agenda[i + 1]
    BY <2>1 DEF CallMade
  <2>3. CASE UNCHANGED <<pc, run, again, cxt>> /\ FaultOnly(net, net')
    <3>1. /\ UNCHANGED <<world, exiting, srv, batch, down, pc, run, cxt>> /\ EpOf' = EpOf
          /\ net'.stat = net.stat /\ net'.ref = net.ref
      BY <2>2, <2>3 DEF env, EpOf, FaultOnly
    <3>2. (Late => Late') /\ Alive'
      BY <3>1 DEF Stay, Late, Alive, InPool, Closing, Closed, Oldest
    <3>3. Attempted'
      BY <2>2, <3>1 DEF Stay, Attempted
    <3> QED
      BY <3>1, <3>2, <3>3, StayStill
  <2>4. CASE Wakes(agenda[1].k, IF agenda[1].err THEN -1 ELSE 0)
    <3>1. /\ agenda[1].k \in Coros /\ (IF agenda[1].err THEN -1 ELSE 0) \in {-1, 0, 1}
          /\ 1 \in 1 .. Len(agenda)
      BY <2>1 DEF CallMade, Calls
    <3>2. agenda[1].k = "req" /\ pc["req"] = "conn_wait" /\ ~agenda[1].err => srv \notin down
      BY <3>1 DEF Stay, Attempted, Attempt
    <3> QED
      BY <1>2, <2>2, <2>4, <3>1, <3>2
  <2> QED
    BY <2>1, <2>3, <2>4 DEF CallMade
<1>5. CASE UNCHANGED env /\ net_pull_work
  <2>1. PICK e \in batch : Handled(e)
    BY <1>5, EntriesHandled
  <2>2. /\ UNCHANGED <<world, exiting, srv, down, pc, run, cxt>> /\ EpOf' = EpOf /\ run = "main"
        /\ batch' = batch \ {e} /\ e.c \in Conns /\ ~exiting /\ (e.err => e.c \in down)
        /\ net'.ref = net.ref /\ \A s : ~Closing(s)
    BY <1>1, <2>1 DEF Handled, env, EpOf, General, Leaving, Reports
  <2>3. \A s \in Conns : net'.stat[s] = net.stat[s] \/ (s = e.c /\ e.err /\ Closed(s)')
    BY <1>0, <2>1 DEF Handled, NetTypes, Closed
  <2>4. (Late => Late') /\ Alive'
    <3>1. Late => Late'
      BY <1>0, <2>2, <2>3 DEF Late, Closed
    <3>2. Alive'
      BY <1>0, <2>2, <2>3 DEF Stay, Alive, InPool, Closed
    <3> QED
      BY <3>1, <3>2
  <2>5. ASSUME NEW i \in 1 .. Len(agenda'), agenda'[i].k = "req", ~agenda'[i].err,
               pc["req"] = "conn_wait"
        PROVE  srv \notin down
    <3>1. /\ e.c \in net.reg /\ Called(net.hr[e.c], net.hw[e.c], e.err, agenda')
      BY <2>1, <2>5 DEF Handled
    <3>2. "req" \in {net.hr[e.c], net.hw[e.c]} /\ ~e.err
      BY <2>5, <3>1 DEF Called
    <3>3. e.c = srv
      BY <2>2, <2>5, <3>2 DEF General, Reports
    <3> QED
      BY <2>1, <2>5, <3>2, <3>3 DEF Stay, Attempted, Attempt
  <2>6. Attempted'
    BY <2>2, <2>5 DEF Stay, Attempted
  <2> QED
    BY <2>2, <2>4, <2>6, StayStill
<1>6. CASE UNCHANGED env /\ (epoll_wait \/ dns_notify_handler)
  <2>1. /\ UNCHANGED <<world, exiting, srv, down, pc, run, cxt, net, agenda>> /\ EpOf' = EpOf
    BY <1>6 DEF epoll_wait, dns_notify_handler, env, EpOf
  <2>2. batch' = batch \/ \A b \in batch' : b.err = (b.c \in down)
    BY <1>6, EpollPolls DEF dns_notify_handler, Polled
  <2>3. (Late => Late') /\ Alive'
    BY <2>1 DEF Stay, Late, Alive, InPool, Closing, Closed, Oldest
  <2>4. Attempted'
    BY <2>1, <2>2 DEF Stay, Attempted
  <2> QED
    BY <2>1, <2>3, <2>4, StayStill
<1>7. CASE UNCHANGED env /\ \E c \in Conns : PeerCloses(c)
  <2>1. PICK c \in Conns : PeerCloses(c)
    BY <1>7
  <2>2. /\ UNCHANGED <<world, exiting, srv, pc, run, cxt, net, agenda, batch>> /\ EpOf' = EpOf
        /\ down' = down \cup {c}
    BY <1>7, <2>1 DEF PeerCloses, env, EpOf, loop
  <2>3. ASSUME c \in Servers
        PROVE  /\ pc["req"] = "conn_wait" /\ net.hr[c] = "req" /\ c = srv
               /\ \A b \in batch : b.c # c
    <3>1. Connecting(c)
      BY <1>0, <2>1, <2>3 DEF PeerCloses, CloseFault, ServersStay
    <3> QED
      BY <2>1, <3>1 DEF Connecting, General, Reports
  <2>4. ASSUME c \in Servers PROVE ~InPool(c)
    <3>1. net.ref[c] = 1 /\ srv = c
      BY <1>0, <2>3, <2>4 DEF Attempt
    <3>2. cxt.list \in Seq(Requests)
      BY DEF IInv, Own, CxtOk
    <3>3. Count(cxt.list, c) \in Nat
      BY <3>2, CountType
    <3>4. net.ref[c] = One(InPool(c)) + Count(cxt.list, c) + One(srv = c)
      BY <2>4 DEF Stay, Balanced
    <3> QED
      BY <3>1, <3>3, <3>4 DEF One
  <2>5. (Late => Late') /\ Alive'
    BY <2>2, <2>4 DEF Stay, Late, Alive, InPool, Closing, Closed, Oldest
  <2>6. ASSUME c \in Servers PROVE \A i \in 1 .. Len(agenda) : agenda[i].k # "req"
    <3>1. ASSUME NEW i \in 1 .. Len(agenda), agenda[i].k = "req" PROVE FALSE
      <4>1. <<"read", c>> \in Sites("req") /\ <<"call", i>> \in Sites("req")
        BY <2>1, <2>3, <2>6, <3>1 DEF Sites
      <4>2. <<"read", c>> # <<"call", i>>
        OBVIOUS
      <4> QED
        BY <1>0, <4>1, <4>2 DEF Handlers
    <3> QED
      BY <3>1
  <2>7. Attempted'
    <3>1. CASE c \notin Servers
      BY <1>0, <2>2, <3>1 DEF Stay, Attempted
    <3>2. CASE c \in Servers
      BY <2>2, <2>3, <2>6, <3>2 DEF Stay, Attempted
    <3> QED
      BY <3>1, <3>2
  <2> QED
    BY <2>2, <2>5, <2>7, StayStill
<1>8. CASE proxy_done
  <2>1. StopBegun
    BY <1>8, StopsBegin
  <2>2. /\ UNCHANGED <<world, srv, down, pc, run, cxt>> /\ net'.stat = net.stat /\ net'.ref = net.ref
        /\ batch' = {} /\ agenda' = <<>> /\ exiting' = TRUE
    BY <2>1 DEF StopBegun, loop
  <2>3. (Late => Late') /\ Alive' /\ Attempted'
    BY <2>2 DEF Stay, Late, Alive, Closed, Attempted
  <2> QED
    BY <2>2, <2>3, StayStill
<1>9. CASE net_pull_done
  <2>1. StopTold
    BY <1>9, StopsTell
  <2>2. /\ UNCHANGED <<world, exiting, srv, down, pc, run, cxt, batch>> /\ net'.ref = net.ref /\ exiting
        /\ \A c \in Conns : net'.stat[c] \in {net.stat[c], "closed"}
        /\ \A i \in 1 .. Len(agenda') : agenda'[i].err
    BY <2>1 DEF StopTold, Called
  <2>3. (Late => Late') /\ Alive' /\ Attempted'
    BY <1>0, <2>2 DEF Stay, Late, Alive, Closed, Attempted
  <2> QED
    BY <2>2, <2>3, StayStill
<1> QED
  BY <1>3, <1>4, <1>5, <1>6, <1>7, <1>8, <1>9 DEF MainLoop

\* Stay is an invariant in these worlds.
LEMMA AlwaysStay == Spec => [](ServersStay => Stay)
<1>1. ASSUME Init PROVE Stay
  <2>1. /\ cxt.list = <<>> /\ cxt.pool = [e \in Eps |-> None] /\ srv = None /\ world \in Worlds
        /\ pc["req"] = "init" /\ pc["rsp"] = "init"
        /\ net.ref = [c \in Conns |-> IF c = Client THEN 2 ELSE 0]
    BY <1>1 DEF Init, NewCxt, Coros
  <2>2. /\ \A s \in Servers : EpOf[s] \in Eps /\ s # None /\ s # Client /\ s \in Conns
        /\ Client \in Conns
    BY <2>1, SessionAssumption DEF World, EpOf, Conns
  <2>3. \A s \in Servers : ~InPool(s)
    BY <2>1, <2>2 DEF InPool
  <2>4. ASSUME NEW s \in Servers PROVE Count(cxt.list, s) = 0
    <3>1. <<>> \in Seq(Requests)
      OBVIOUS
    <3> QED
      BY <2>1, <3>1, CountType
  <2>5. Balanced
    <3>1. \A s \in Servers : net.ref[s] = 0 /\ ~InPool(s) /\ Count(cxt.list, s) = 0 /\ srv # s
      BY <2>1, <2>2, <2>3, <2>4
    <3>2. net.ref[Client] = 2
      BY <2>1, <2>2
    <3>3. \A s \in Servers : net.ref[s] = One(InPool(s)) + Count(cxt.list, s) + One(srv = s)
      BY <3>1 DEF One
    <3>4. net.ref[Client] = One(pc["req"] # "done") + One(pc["rsp"] # "done")
      BY <2>1, <3>2 DEF One
    <3> QED
      BY <3>3, <3>4 DEF Balanced
  <2> QED
    BY <2>1, <2>3, <2>5 DEF Stay, Filed, Placed, Alive, Attempted, Using, Attempt
<1>2. ASSUME IInv, General, Stay, ServersStay, [Next]_vars PROVE Stay'
  <2>1. CASE UNCHANGED vars
    <3>1. UNCHANGED <<world, exiting, srv, batch, agenda, down, pc, run, cxt, net>> /\ EpOf' = EpOf
      BY <2>1 DEF vars, env, loop, EpOf
    <3>2. (Late => Late') /\ Alive' /\ Attempted'
      BY <1>2, <3>1 DEF Stay, Late, Alive, Attempted, InPool, Closing, Closed, Oldest
    <3> QED
      BY <1>2, <3>1, <3>2, StayStill
  <2>2. CASE Next
    BY <1>2, <2>2, StayReq, StayRsp, StayMain DEF Next, Step
  <2> QED
    BY <1>2, <2>1, <2>2
<1>3. /\ IInv /\ General /\ (ServersStay => Stay) /\ [Next]_vars => (ServersStay => Stay)'
  BY <1>2, SameWorld DEF ServersStay, Faults
<1> QED
  BY <1>1, <1>3, AlwaysIInv, AlwaysGeneral, PTL DEF Spec

(***************************************************************************)
(* While servers stay, the entry rsp deletes for a connection closed on    *)
(* this side is that connection's, so that the pointer it follows at       *)
(* net_handle.c:238 is never null, for any number of servers, addresses    *)
(* and requests.                                                           *)
(***************************************************************************)
THEOREM SteadyPoolHolds == Spec => []SteadyPool
<1>1. IInv /\ (ServersStay => Stay) => SteadyPool
  BY BusyPooled DEF SteadyPool, DeletesOwnEntry, InPool, Busy
<1> QED
  BY <1>1, AlwaysIInv, AlwaysStay, PTL

-----------------------------------------------------------------------------
(***************************************************************************)
(* Where nobody closes an established connection, until the process exits. *)
(***************************************************************************)
\* The counts of Balanced are those of Holders.
LEMMA ExactCounts ==
  ASSUME IInv, Stay, NEW c \in Conns
  PROVE  net.ref[c] = Holders(c)
<1>0. Client \notin Servers /\ Client \in Conns
  BY ConnTypes, SessionAssumption DEF IInv, Own
<1>1. CASE c = Client
  <2>1. PICK live : live = {k \in Coros : pc[k] # "done"}
    OBVIOUS
  <2>2. Cardinality(live) = One(pc["req"] # "done") + One(pc["rsp"] # "done")
    <3>1. CASE pc["req"] = "done" /\ pc["rsp"] = "done"
      <4>1. live = {}
        BY <2>1, <3>1 DEF Coros
      <4> QED
        BY <3>1, <4>1, FS_EmptySet DEF One
    <3>2. CASE pc["req"] # "done" /\ pc["rsp"] = "done"
      <4>1. live = {"req"}
        BY <2>1, <3>2 DEF Coros
      <4> QED
        BY <3>2, <4>1, FS_Singleton DEF One
    <3>3. CASE pc["req"] = "done" /\ pc["rsp"] # "done"
      <4>1. live = {"rsp"}
        BY <2>1, <3>3 DEF Coros
      <4> QED
        BY <3>3, <4>1, FS_Singleton DEF One
    <3>4. CASE pc["req"] # "done" /\ pc["rsp"] # "done"
      <4>1. live = {"req"} \cup {"rsp"} /\ "rsp" \notin {"req"}
        BY <2>1, <3>4 DEF Coros
      <4>2. Cardinality({"req"}) = 1 /\ IsFiniteSet({"req"})
        BY FS_Singleton
      <4>3. Cardinality(live) = 2
        BY <4>1, <4>2, FS_AddElement
      <4> QED
        BY <3>4, <4>3 DEF One
    <3> QED
      BY <3>1, <3>2, <3>3, <3>4
  <2> QED
    BY <1>1, <2>1, <2>2 DEF Holders, Stay, Balanced
<1>2. CASE c \in Servers
  <2>1. Holders(c) = Cardinality({e \in Eps : cxt.pool[e] = c}) + Count(cxt.list, c) + One(srv = c)
    BY <1>0, <1>2 DEF Holders, Count, Places, One
  <2>2. Cardinality({e \in Eps : cxt.pool[e] = c}) = One(InPool(c))
    BY <1>2, PoolCount DEF Stay
  <2> QED
    BY <1>2, <2>1, <2>2 DEF Stay, Balanced
<1> QED
  BY <1>1, <1>2 DEF Conns

\* Worlds in which an attempt may fail and the process may be told to stop, no more.
Benign == Faults \subseteq {"dns_fail", "connect_fail", "shutdown"}

\* rsp leaves when req has told it to; nothing else is then left to handle.
LeftLast == /\ pc["rsp"] \in {"exit", "done"} =>
                   pc["req"] \in {"fin", "clean", "done"} /\ batch = {} /\ agenda = <<>>
            /\ pc["req"] = "done" => net.reg = {}
            /\ pc["rsp"] = "done" /\ pc["req"] = "fin" =>
                   \E i \in 1 .. Len(queue) : queue[i].to = "req"

\* rsp waits for connections whose peers are there, and is told of no error.
RspAsked == /\ \A c \in Conns : net.hr[c] = "rsp" \/ net.hw[c] = "rsp" =>
                                   c = Client \/ (c \in Servers /\ InPool(c))
            /\ \A i \in 1 .. Len(agenda) : agenda[i].k = "rsp" => ~agenda[i].err

\* No read or write has failed.
Unfailed == /\ pc["req"] \notin {"bad_request", "copy_failed"}
            /\ pc["rsp"] \notin {"bad_gateway", "copy_failed"}
            /\ pc["rsp"] = "copied" => mode["rsp"] # "close"

Quiet == /\ net.fault = "none" /\ Client \notin down
         /\ pc["req"] # "done" => ~Closed(Client)
         /\ LeftLast /\ RspAsked /\ Unfailed

\* The frame of req outlives rsp; each id is armed as long as its coroutine lives.
LEMMA FrameAndIds ==
  ASSUME IInv
  PROVE  /\ pc["req"] \in {"clean", "done"} => pc["rsp"] = "done"
         /\ "req" \in armed <=> pc["req"] # "done"
         /\ "rsp" \in armed <=> pc["rsp"] # "done"
<1>1. HP!FrameAlive /\ HP!ArmedWhileAlive /\ Control
  BY DEF IInv, Own, HP!IInv
<1>2. /\ pc["req"] \in {"clean", "done"} <=> ReqState \in {"clean", "done"}
      /\ pc["req"] = "done" <=> ReqState = "done"
      /\ pc["rsp"] = "done" <=> RspState = "done"
  BY DEF ReqState, RspState
<1> QED
  BY <1>1, <1>2 DEF HP!FrameAlive, HP!ArmedWhileAlive

\* A notice that asks rsp to leave is the last act of req.
LEMMA LeaveNotice ==
  ASSUME IInv, NEW i \in 1 .. Len(queue), queue[i].to = "rsp", ~queue[i].more
  PROVE  pc["req"] \in {"fin", "clean", "done"}
<1>1. HP!ExitMeansFin /\ queue \in Seq(Events) /\ OneDns(queue)
  BY DEF IInv, Own, HP!IInv, Loop
<1>2. queue[i] \in Events
  BY <1>1, ElementOfSeq
<1>3. queue[i] = HP!Notice("rsp", FALSE)
  BY <1>2 DEF Events, HP!Notice
<1>4. \E j \in 1 .. Len(Notices(queue)) : Notices(queue)[j] = queue[i]
  <2>1. CASE Notices(queue) = queue
    BY <2>1
  <2>2. CASE \E d \in 1 .. Len(queue) : /\ \A j \in 1 .. Len(queue) : queue[j].to = "dns" <=> j = d
                                        /\ Notices(queue) = RemoveAt(queue, d)
    <3>1. PICK d \in 1 .. Len(queue) : /\ \A j \in 1 .. Len(queue) : queue[j].to = "dns" <=> j = d
                                       /\ Notices(queue) = RemoveAt(queue, d)
      BY <2>2
    <3>2. Without(queue, d, Notices(queue))
      BY <1>1, <3>1, RemoveFacts
    <3>3. i # d /\ i \in Nat /\ d \in Nat /\ Len(queue) \in Nat
      BY <1>1, <3>1
    <3>4. CASE i < d
      BY <3>2, <3>3, <3>4 DEF Without
    <3>5. CASE i > d
      <4>1. i - 1 \in d .. Len(queue) - 1 /\ (i - 1) + 1 = i /\ i - 1 \in 1 .. Len(queue) - 1
        BY <3>3, <3>5
      <4>2. Notices(queue)[i - 1] = queue[i] /\ Len(Notices(queue)) = Len(queue) - 1
        BY <3>2, <4>1 DEF Without
      <4> QED
        BY <4>1, <4>2
    <3> QED
      BY <3>3, <3>4, <3>5
  <2> QED
    BY <1>1, <2>1, <2>2, NoticesIs
<1>5. ReqState \in {"fin", "clean", "done"}
  BY <1>1, <1>3, <1>4 DEF HP!ExitMeansFin
<1> QED
  BY <1>5 DEF ReqState

\* The client can be read from and written to.
LEMMA ClientThere ==
  ASSUME IInv, Quiet, ~exiting, pc["req"] # "done"
  PROVE  /\ Client \in Conns /\ ~Closed(Client) /\ Client \in net.reg /\ Client \in net.fd
         /\ ~ReadFails(Client) /\ ~WriteFails(Client)
<1>1. ~Closed(Client) /\ Client \notin down /\ Client \in Conns
  BY ConnTypes DEF Quiet
<1>2. Client \in net.reg /\ Client \in net.fd
  BY <1>1 DEF IInv, Own, NetOk, NetOpen, NetTypes, Closed
<1> QED
  BY <1>1, <1>2 DEF ReadFails, WriteFails

\* So can the server req uses.
LEMMA ServerThere ==
  ASSUME IInv, Stay, Quiet, ~exiting, run = "req", pc["req"] \in Using
  PROVE  /\ srv \in Servers /\ InPool(srv) /\ ~Closed(srv) /\ srv \in net.reg /\ srv \in net.fd
         /\ ~WriteFails(srv)
<1>1. ~Late
  BY DEF Late, Quiet, Using
<1>2. srv \in Servers /\ InPool(srv) /\ ~Closing(srv)
  BY <1>1 DEF Stay, Placed, IInv, Own, Serving, Closing
<1> QED
  BY <1>2, AliveOpen

\* A step of req that is not its last keeps Quiet if it fails in nothing.
LEMMA QuietReqStep ==
  ASSUME IInv, General, Quiet, ReqFlow, pc["req"] # "clean",
         pc'["req"] \notin {"bad_request", "copy_failed"}, net'.fault = net.fault,
         Closed(Client)' => Closed(Client),
         \A c \in Conns : (net'.hr[c] = "rsp" => net.hr[c] = "rsp")
                          /\ (net'.hw[c] = "rsp" => net.hw[c] = "rsp"),
         \A s \in Servers : InPool(s) => InPool(s)'
  PROVE  Quiet'
<1>1. /\ run = "req" /\ batch' = batch /\ agenda' = agenda /\ pc'["rsp"] = pc["rsp"]
      /\ down' \subseteq down /\ pc["req"] \notin Paused
  BY DEF ReqFlow, ReqTurn, IInv, Own, Control, Coros
<1>2. pc["req"] \notin {"fin", "clean", "done"} /\ pc'["req"] # "done"
  BY <1>1 DEF ReqFlow, ReqEdge, Paused, EventWaits
<1>3. pc["rsp"] \notin {"exit", "done"} /\ pc["rsp"] # "copied"
  BY <1>1, <1>2 DEF Quiet, LeftLast, General, Straight, RspStraight
<1>4. LeftLast'
  BY <1>1, <1>2, <1>3 DEF LeftLast
<1>5. RspAsked'
  BY <1>1 DEF Quiet, RspAsked
<1>6. Unfailed'
  BY <1>1, <1>3 DEF Quiet, Unfailed
<1> QED
  BY <1>1, <1>2, <1>4, <1>5, <1>6 DEF Quiet

\* Where req does not go.
LEMMA QuietReqGoes ==
  ASSUME IInv, Stay, Quiet, Benign, ~exiting, ReqFlow, ReqHandler
  PROVE  pc'["req"] \notin {"bad_request", "copy_failed"}
<1>0. /\ Control /\ run = "req" /\ pc["req"] # "done" /\ "bad_request" \notin Faults
      /\ pc["req"] \notin {"bad_request", "copy_failed"}
  BY DEF IInv, Own, ReqFlow, ReqTurn, Control, Paused, Coros, Benign, Quiet, Unfailed
<1>1. ~ReadFails(Client)
  BY <1>0, ClientThere
<1>2. CASE pc["req"] = "fetch"
  <2>1. req_fetch
    BY <1>2, ReqAt DEF ReqHandler
  <2>2. pc'["req"] \in {"fetch", "lookup"}
    BY <1>0, <1>1, <1>2, <2>1, PcFacts DEF req_fetch, conn_try_io, Goto, Coros, ReqLabels
  <2> QED
    BY <2>2
<1>3. CASE pc["req"] = "copy_read"
  <2>1. conn_copy_read("req") \/ CopyEnds("req")
    BY <1>3, ReqAt DEF ReqHandler
  <2>2. pc'["req"] \in {"copy_read", "copy_write", "copied"}
    BY <1>0, <1>1, <1>3, <2>1, PcFacts
    DEF conn_copy_read, CopyEnds, conn_try_io, Source, Goto, Coros, ReqLabels
  <2> QED
    BY <2>2
<1>4. CASE pc["req"] = "copy_write"
  <2>1. conn_copy_write("req")
    BY <1>4, ReqAt DEF ReqHandler
  <2>2. ~WriteFails(srv)
    BY <1>0, <1>4, ServerThere DEF Using
  <2>3. pc'["req"] \in {"copy_read", "copy_write"}
    BY <1>0, <1>4, <2>1, <2>2, PcFacts DEF conn_copy_write, conn_try_io, Target, Goto, Coros, ReqLabels
  <2> QED
    BY <2>3
<1> QED
  BY <1>0, <1>2, <1>3, <1>4 DEF ReqFlow, ReqEdge

\* The last step of req: nothing of the session is left.
LEMMA QuietCleans ==
  ASSUME IInv, General, Stay, Quiet, ReqFlow, req_clean
  PROVE  Quiet'
<1>0. /\ run = "req" /\ pc["req"] = "clean" /\ pc'["rsp"] = pc["rsp"] /\ down' = down
      /\ batch' = batch /\ agenda' = agenda /\ NetTypes(net) /\ Client \notin Servers /\ srv = None
      /\ None \notin Servers
  BY ReqAt, SessionAssumption
  DEF ReqFlow, ReqTurn, req_clean, IInv, Own, NetOk, General, Holding, Using, Attempt
<1>1. pc["rsp"] = "done" /\ pc'["req"] = "done"
  BY <1>0, FrameAndIds, PcFacts DEF req_clean, IInv, Own, Coros, ReqLabels
<1>2. net'.fault = net.fault
  BY StayCleans
<1>3. PICK drops : drops = [c \in Conns |-> Drops(c)]
  OBVIOUS
<1>4. net'.reg = net.reg \ ({s \in Pooled : ~Closed(s)} \cup LastRef(net, drops))
  BY <1>3 DEF req_clean, DropAll
<1>5. ASSUME NEW c \in net.reg PROVE c \in LastRef(net, drops)
  <2>1. c \in Conns /\ net.ref[c] \in Nat /\ net.ref[c] > 0
    BY <1>0, <1>5 DEF NetTypes, General, Held
  <2>2. drops[c] = net.ref[c]
    <3>1. CASE c = Client
      BY <1>0, <1>1, <1>3, <2>1, <3>1 DEF Drops, Stay, Balanced, One
    <3>2. CASE c \in Servers
      <4>1. net.ref[c] = Holders(c) /\ srv # c
        BY <1>0, <2>1, <3>2, ExactCounts
      <4>2. Holders(c) = Drops(c) + 0
        BY <1>0, <3>2, <4>1 DEF Holders, Drops
      <4>3. drops[c] = Drops(c)
        BY <1>3, <2>1
      <4>4. Drops(c) \in Nat
        <5>1. Cardinality({e \in Eps : cxt.pool[e] = c}) = One(InPool(c)) /\ cxt.list \in Seq(Requests)
          BY <3>2, PoolCount DEF Stay, IInv, Own, CxtOk
        <5>2. Count(cxt.list, c) \in Nat
          BY <3>2, <5>1, CountType
        <5> QED
          BY <1>0, <3>2, <5>1, <5>2 DEF Drops, Count, Places, One
      <4> QED
        BY <4>1, <4>2, <4>3, <4>4
    <3> QED
      BY <2>1, <3>1, <3>2 DEF Conns
  <2> QED
    BY <1>3, <2>1, <2>2 DEF LastRef
<1>6. net'.reg = {}
  BY <1>4, <1>5
<1>7. RspAsked'
  <2>1. agenda' = <<>>
    BY <1>0, <1>1 DEF Quiet, LeftLast
  <2>2. \A c \in Conns : net'.hr[c] = None /\ net'.hw[c] = None
    <3>1. \A c \in Conns : net.reg \subseteq LastRef(net, drops)
      BY <1>5
    <3>2. /\ net'.hr = [c \in Conns |-> IF c \in {s \in Pooled : ~Closed(s)} \cup LastRef(net, drops)
                                        THEN None ELSE net.hr[c]]
          /\ net'.hw = [c \in Conns |-> IF c \in {s \in Pooled : ~Closed(s)} \cup LastRef(net, drops)
                                        THEN None ELSE net.hw[c]]
      BY <1>3 DEF req_clean, DropAll
    <3>3. \A c \in Conns : c \notin net.reg => net.hr[c] = None /\ net.hw[c] = None
      BY DEF IInv, Own, NetOk, NetOpen
    <3> QED
      BY <1>5, <3>2, <3>3
  <2> QED
    BY <2>1, <2>2, NoNone DEF RspAsked
<1>8. LeftLast' /\ Unfailed'
  BY <1>0, <1>1, <1>6 DEF Quiet, LeftLast, Unfailed
<1> QED
  BY <1>0, <1>1, <1>2, <1>7, <1>8 DEF Quiet

\* Every step of req keeps Quiet.
LEMMA QuietReq ==
  ASSUME IInv, General, Stay, Quiet, Benign, ~exiting, UNCHANGED env, ReqHandler
  PROVE  Quiet'
<1>0. /\ ReqFlow /\ run = "req" /\ Control /\ EpOf' = EpOf /\ Client \in Conns /\ Client \notin Servers
      /\ Servers \subseteq Conns /\ NetTypes(net) /\ CxtOk /\ None \notin Servers /\ pc["req"] # "done"
      /\ "rsp" # "req" /\ "rsp" # None
  BY ReqFlows, ConnTypes, SessionAssumption, NoNone
  DEF ReqFlow, ReqTurn, env, EpOf, IInv, Own, NetOk, Control, Paused, Coros
<1>1. pc'["req"] \notin {"bad_request", "copy_failed"}
  BY <1>0, QuietReqGoes
<1>2. CASE req_clean
  BY <1>0, <1>2, QuietCleans
<1>3. pc["req"] = "clean" => req_clean
  BY ReqAt DEF ReqHandler
<1>4. ASSUME pc["req"] # "clean", net'.fault = net.fault, net'.stat[Client] = net.stat[Client],
             net'.hr = net.hr, net'.hw = net.hw, \A s \in Servers : InPool(s) => InPool(s)'
      PROVE  Quiet'
  BY <1>0, <1>1, <1>4, QuietReqStep DEF Closed
<1>5. CASE ReqKeeps /\ pc["req"] # "clean"
  <2>1. ReqStill
    BY <1>5 DEF ReqKeeps
  <2>2. Tame(net, net', "req") /\ net'.fault = net.fault /\ \A s : InPool(s) => InPool(s)'
    BY <1>0, <2>1 DEF ReqStill, InPool
  <2>3. \A c \in Conns : (net'.hr[c] = "rsp" => net.hr[c] = "rsp")
                         /\ (net'.hw[c] = "rsp" => net.hw[c] = "rsp")
    BY <1>0, <2>2 DEF Tame
  <2>4. Closed(Client)' => Closed(Client)
    BY <1>0, <2>1, ClientThere DEF ReqStill, Quiet, Unfailed
  <2> QED
    BY <1>0, <1>1, <1>5, <2>2, <2>3, <2>4, QuietReqStep
<1>6. CASE Enlists
  <2>1. /\ net'.fault = net.fault /\ net'.stat = net.stat /\ net'.hr = net.hr /\ net'.hw = net.hw
        /\ pc["req"] # "clean" /\ \A s : InPool(s) => InPool(s)'
    BY <1>0, <1>6 DEF Enlists, RefsOnly, InPool
  <2> QED
    BY <1>4, <2>1
<1>7. ASSUME NEW s \in Servers, Reuses(s) PROVE Quiet'
  <2>1. /\ net'.fault = net.fault /\ net'.stat = net.stat /\ net'.hr = net.hr /\ net'.hw = net.hw
        /\ pc["req"] # "clean" /\ \A t : InPool(t) => InPool(t)'
    BY <1>0, <1>7 DEF Reuses, RefsOnly, InPool
  <2> QED
    BY <1>4, <2>1
<1>8. ASSUME NEW s \in Servers, Unpools(s) PROVE FALSE
  <2>1. cxt.pool[Ep] = s /\ Ep \in Eps /\ ~exiting /\ Closed(s) /\ s # None
    BY <1>8, SessionAssumption DEF Unpools
  <2>2. InPool(s)
    BY <2>1 DEF Stay, Filed, InPool
  <2> QED
    BY <1>0, <1>8, <2>1, <2>2, AliveOpen DEF Closing
<1>9. CASE Returns
  <2>1. PICK m : /\ NetTypes(m) /\ Elsewhere(net, m, srv) /\ Tame(net, m, "req")
                 /\ m.ref = net.ref /\ m.fault = net.fault /\ net' = mem_decref(m, srv)
    BY <1>9 DEF Returns
  <2>2. srv \in Servers /\ srv \in Conns /\ srv # Client /\ cxt' = cxt /\ pc["req"] # "clean"
    BY <1>0, <1>9 DEF Returns
  <2>3. net.ref[srv] > 0
    <3>1. Count(cxt.list, srv) \in Nat
      BY <1>0, <2>2, CountType DEF CxtOk
    <3>2. net.ref[srv] = One(InPool(srv)) + Count(cxt.list, srv) + 1
      BY <2>2 DEF Stay, Balanced, One
    <3> QED
      BY <3>1, <3>2 DEF One
  <2>4. Elsewhere(m, net', srv) /\ Tame(m, net', "req") /\ net'.fault = m.fault
    <3>1. m.ref[srv] > 0
      BY <2>1, <2>3
    <3>2. /\ Elsewhere(m, net', srv) /\ Tame(m, net', "req")
          /\ net'.ref = [m.ref EXCEPT ![srv] = m.ref[srv] - 1] /\ net'.fault = m.fault
      BY <2>1, <2>2, <3>1, DecrefAt
    <3> QED
      BY <3>2
  <2>5. net'.stat[Client] = net.stat[Client]
    BY <1>0, <2>1, <2>2, <2>4 DEF Elsewhere
  <2>6. \A c \in Conns : (net'.hr[c] = "rsp" => net.hr[c] = "rsp")
                         /\ (net'.hw[c] = "rsp" => net.hw[c] = "rsp")
    BY <1>0, <2>1, <2>4 DEF Tame
  <2>7. \A s : InPool(s) => InPool(s)'
    BY <1>0, <2>2 DEF InPool
  <2> QED
    BY <1>0, <1>1, <2>1, <2>2, <2>4, <2>5, <2>6, <2>7, QuietReqStep DEF Closed
<1>10. CASE conn_get_by_endpoint
  <2>0. pc["req"] = "connect" /\ cxt.pool[Ep] = None
    BY <1>10, ReqAt DEF IInv, Own, Serving, Attempt
  <2>1. CASE NotBegun
    <3>1. net' = net /\ \A t : InPool(t) => InPool(t)'
      BY <1>0, <2>1 DEF NotBegun, InPool
    <3> QED
      BY <1>4, <2>0, <3>1
  <2>2. ASSUME NEW s \in Servers, Begun(s), Made(s) PROVE Quiet'
    <3>1. /\ net'.fault = net.fault /\ net'.stat[Client] = net.stat[Client] /\ net'.hr = net.hr
          /\ net'.hw = net.hw
      BY <1>0, <2>2 DEF Begun, Made, NetTypes
    <3>2. \A t \in Servers : InPool(t) => InPool(t)'
      <4>1. cxt'.pool = [cxt.pool EXCEPT ![Ep] = s]
        BY <1>0, <2>2 DEF Made, CxtOk
      <4> QED
        BY <1>0, <2>0, <4>1, EpOfType DEF InPool, CxtOk
    <3> QED
      BY <1>4, <2>0, <3>1, <3>2
  <2>3. ASSUME NEW s \in Servers, Begun(s), Awaited(s) PROVE Quiet'
    <3>1. /\ net'.fault = net.fault /\ net'.stat = net.stat /\ net'.hr = [net.hr EXCEPT ![s] = "req"]
          /\ net'.hw = net.hw /\ cxt' = cxt
      BY <2>3 DEF Begun, Awaited
    <3>2. \A c \in Conns : net'.hr[c] = "rsp" => net.hr[c] = "rsp"
      BY <1>0, <3>1 DEF NetTypes
    <3>3. \A t : InPool(t) => InPool(t)'
      BY <1>0, <3>1 DEF InPool
    <3> QED
      BY <1>0, <1>1, <2>0, <3>1, <3>2, <3>3, QuietReqStep DEF Closed
  <2> QED
    BY <1>10, <2>1, <2>2, <2>3, Connects
<1>11. CASE connected
  <2>1. Completed /\ pc["req"] = "connected" /\ cxt.pool[Ep] = None
    BY <1>11, Completes, ReqAt DEF IInv, Own, Serving, Attempt
  <2>2. /\ net'.fault = net.fault /\ net'.stat[Client] = net.stat[Client] /\ net'.hr = net.hr
        /\ net'.hw = net.hw
    BY <1>0, <2>1 DEF Completed, NetTypes
  <2>3. \A t \in Servers : InPool(t) => InPool(t)'
    <3>1. cxt'.pool = [cxt.pool EXCEPT ![Ep] = srv]
      BY <1>0, <2>1 DEF Completed, CxtOk
    <3> QED
      BY <1>0, <2>1, <3>1, EpOfType DEF InPool, CxtOk
  <2> QED
    BY <1>4, <2>1, <2>2, <2>3
<1>12. CASE conn_failed
  <2>1. Forgotten /\ pc["req"] = "conn_failed"
    BY <1>12, Forgets, ReqAt
  <2>2. /\ net'.fault = net.fault /\ net'.stat = net.stat /\ cxt' = cxt
        /\ net'.hr = [net.hr EXCEPT ![srv] = None] /\ net'.hw = [net.hw EXCEPT ![srv] = None]
    BY <2>1 DEF Forgotten
  <2>3. \A c \in Conns : (net'.hr[c] = "rsp" => net.hr[c] = "rsp")
                         /\ (net'.hw[c] = "rsp" => net.hw[c] = "rsp")
    BY <1>0, <2>2 DEF NetTypes
  <2>4. \A t : InPool(t) => InPool(t)'
    BY <1>0, <2>2 DEF InPool
  <2> QED
    BY <1>0, <1>1, <2>1, <2>2, <2>3, <2>4, QuietReqStep DEF Closed
<1> QED
  BY <1>2, <1>3, <1>5, <1>6, <1>7, <1>8, <1>9, <1>10, <1>11, <1>12, ReqEffects

\* Where rsp does not go.
LEMMA QuietRspGoes ==
  ASSUME IInv, Stay, Quiet, Benign, ~exiting, RspFlow, RspHandler, pc["rsp"] # "exit"
  PROVE  /\ pc'["rsp"] \notin {"bad_gateway", "copy_failed", "exit", "done"}
         /\ pc'["rsp"] = "copied" => mode'["rsp"] = "body"
<1>0. /\ Control /\ run = "rsp" /\ pc["rsp"] # "done" /\ "bad_response" \notin Faults
      /\ pc["rsp"] \notin {"bad_gateway", "copy_failed"}
  BY DEF IInv, Own, RspFlow, RspTurn, Control, Paused, Coros, Benign, Quiet, Unfailed
<1>1. pc["req"] # "done" /\ ~Closed(Client) /\ ~WriteFails(Client)
  BY <1>0, FrameAndIds, ClientThere
<1>2. ASSUME pc["rsp"] \in {"fetch", "copy_read"} PROVE ~ReadFails(Oldest.srv)
  <2>1. Oldest.srv \in Servers /\ InPool(Oldest.srv)
    BY <1>2, BusyPooled DEF Busy
  <2> QED
    BY <1>2, <2>1, AliveOpen DEF Closing
<1>3. CASE pc["rsp"] = "top"
  <2>1. rsp_top
    BY <1>3, RspAt DEF RspHandler
  <2>2. pc'["rsp"] \in {"idle", "top", "fetch", "copy_read"}
    BY <1>0, <1>1, <1>3, <2>1, PcFacts DEF rsp_top, NextRequest, Goto, Coros, RspLabels
  <2> QED
    BY <2>2
<1>4. CASE pc["rsp"] = "fetch"
  <2>1. rsp_fetch
    BY <1>4, RspAt DEF RspHandler
  <2>2. pc'["rsp"] \in {"fetch", "header"}
    BY <1>0, <1>2, <1>4, <2>1, PcFacts DEF rsp_fetch, conn_try_io, Goto, Coros, RspLabels
  <2> QED
    BY <2>2
<1>5. CASE pc["rsp"] = "copy_read"
  <2>1. conn_copy_read("rsp") \/ CopyEnds("rsp")
    BY <1>5, RspAt DEF RspHandler
  <2>2. pc'["rsp"] \in {"copy_read", "copy_write"} \/
        (pc'["rsp"] = "copied" /\ mode' = mode /\ mode["rsp"] = "body")
    BY <1>0, <1>2, <1>5, <2>1, PcFacts
    DEF conn_copy_read, CopyEnds, conn_try_io, Source, Oldest, Goto, Coros, RspLabels
  <2> QED
    BY <2>2
<1>6. CASE pc["rsp"] = "copy_write"
  <2>1. conn_copy_write("rsp")
    BY <1>6, RspAt DEF RspHandler
  <2>2. pc'["rsp"] \in {"copy_read", "copy_write"}
    BY <1>0, <1>1, <1>6, <2>1, PcFacts DEF conn_copy_write, conn_try_io, Target, Goto, Coros, RspLabels
  <2> QED
    BY <2>2
<1>7. CASE pc["rsp"] = "copied"
  <2>1. rsp_copy_over
    BY <1>7, RspAt DEF RspHandler
  <2>2. pc'["rsp"] \in {"post", "continue"}
    BY <1>0, <2>1, PcFacts DEF rsp_copy_over, Goto, Coros, RspLabels
  <2> QED
    BY <2>2
<1> QED
  BY <1>0, <1>3, <1>4, <1>5, <1>6, <1>7 DEF RspFlow, RspEdge

\* The last step of rsp: req is told.
LEMMA QuietLeaves ==
  ASSUME IInv, General, Stay, Quiet, RspFlow, rsp_exit
  PROVE  Quiet'
<1>0. /\ run = "rsp" /\ pc["rsp"] = "exit" /\ pc'["req"] = pc["req"] /\ down' = down /\ Control
      /\ batch' = batch /\ agenda' = agenda /\ NetTypes(net) /\ Client \in Conns /\ CxtOk
      /\ EpOf' = EpOf /\ queue \in Seq(Events)
  BY RspAt, ConnTypes DEF RspFlow, RspTurn, IInv, Own, NetOk, env, EpOf, Loop
<1>1. pc["req"] = "fin" /\ batch = {} /\ agenda = <<>> /\ pc'["rsp"] = "done"
  BY <1>0, FrameAndIds, PcFacts DEF Quiet, LeftLast, rsp_exit, Coros, RspLabels
<1>2. net.ref[Client] = 2
  BY <1>0, <1>1 DEF Stay, Balanced, One
<1>3. RefsOnly(net, net')
  <2>1. net' = mem_decref(net, Client) /\ net.ref[Client] > 1 /\ net.ref[Client] > 0
    BY <1>2 DEF rsp_exit
  <2>2. net'.ref = [net.ref EXCEPT ![Client] = net.ref[Client] - 1] /\ RefsOnly(net, net')
    BY <1>0, <2>1, DecrefAt
  <2> QED
    BY <2>2
<1>4. cxt'.pool = cxt.pool /\ queue' = Append(queue, [to |-> "req", more |-> FALSE])
  BY <1>0, <1>1 DEF rsp_exit, CxtOk
<1>5. Len(queue') = Len(queue) + 1 /\ Len(queue) \in Nat /\ queue'[Len(queue) + 1].to = "req"
  BY <1>0, <1>4
<1>6. LeftLast'
  BY <1>0, <1>1, <1>5 DEF LeftLast
<1>7. RspAsked'
  BY <1>0, <1>1, <1>3, <1>4 DEF Quiet, RspAsked, RefsOnly, InPool
<1> QED
  BY <1>0, <1>1, <1>3, <1>6, <1>7 DEF Quiet, Unfailed, RefsOnly, Closed

\* Every step of rsp keeps Quiet.
LEMMA QuietRsp ==
  ASSUME IInv, General, Stay, Quiet, Benign, ~exiting, UNCHANGED env, RspHandler
  PROVE  Quiet'
<1>0. /\ RspFlow /\ run = "rsp" /\ Control /\ EpOf' = EpOf /\ Client \in Conns /\ Client \notin Servers
      /\ Servers \subseteq Conns /\ NetTypes(net) /\ CxtOk /\ None \notin Servers /\ pc["rsp"] # "done"
      /\ "rsp" # None /\ pc'["req"] = pc["req"] /\ agenda' = agenda /\ batch' = batch /\ down' = down
  BY RspFlows, ConnTypes, SessionAssumption, NoNone
  DEF RspFlow, RspTurn, env, EpOf, IInv, Own, NetOk, Control, Paused, Coros
<1>1. CASE rsp_exit
  BY <1>0, <1>1, QuietLeaves
<1>2. pc["rsp"] = "exit" => rsp_exit
  BY RspAt DEF RspHandler
<1>3. pc["req"] # "done" /\ ~Closed(Client) /\ ~WriteFails(Client)
  BY <1>0, FrameAndIds, ClientThere
<1>4. ASSUME pc["rsp"] # "exit", net'.fault = net.fault, ~Closed(Client)', RspAsked' PROVE Quiet'
  <2>1. /\ pc'["rsp"] \notin {"bad_gateway", "copy_failed", "exit", "done"}
        /\ pc'["rsp"] = "copied" => mode'["rsp"] = "body"
    BY <1>0, <1>4, QuietRspGoes
  <2>2. LeftLast' /\ Unfailed'
    BY <1>0, <1>3, <2>1 DEF Quiet, LeftLast, Unfailed
  <2> QED
    BY <1>0, <1>4, <2>2 DEF Quiet
<1>5. CASE RspKeeps /\ pc["rsp"] # "exit"
  <2>1. net'.fault = net.fault
    <3>1. SUFFICES ASSUME cxt.list # <<>> PROVE net.ref[Oldest.srv] # 0
      BY <1>5 DEF RspKeeps
    <3>2. cxt.list \in Seq(Requests)
      BY <1>0 DEF CxtOk
    <3>3. Len(cxt.list) \in Nat /\ Len(cxt.list) >= 1 /\ Oldest = cxt.list[1]
      BY <3>1, <3>2, HeadTailProperties, EmptySeq DEF Oldest
    <3>4. PICK s : s = Oldest.srv
      OBVIOUS
    <3>5. s \in Servers /\ cxt.list[1].srv = s
      BY <3>3, <3>4, ListedServers
    <3>6. Count(cxt.list, s) \in Nat /\ Count(cxt.list, s) > 0
      BY <3>2, <3>3, <3>5, CountType
    <3>7. net.ref[s] = One(InPool(s)) + Count(cxt.list, s) + One(srv = s)
      BY <3>5 DEF Stay, Balanced
    <3>8. net.ref[s] > 0
      BY <3>6, <3>7 DEF One
    <3> QED
      BY <3>4, <3>8
  <2>2. ~Closed(Client)'
    BY <1>3, <1>5 DEF RspKeeps, Quiet, Unfailed
  <2>3. pc["rsp"] \in {"fetch", "copy_read"} => Oldest.srv \in Servers /\ InPool(Oldest.srv)
    BY BusyPooled DEF Busy
  <2>4. RspAsks /\ cxt'.pool = cxt.pool
    BY <1>5 DEF RspKeeps
  <2>5. RspAsked'
    BY <1>0, <2>3, <2>4 DEF Quiet, RspAsked, RspAsks, InPool
  <2> QED
    BY <1>4, <1>5, <2>1, <2>2, <2>5
<1>6. CASE Answers
  <2>1. PICK s : s = Oldest.srv
    OBVIOUS
  <2>2. /\ net' = mem_decref(net, s) /\ cxt'.pool = cxt.pool /\ pc["rsp"] # "exit"
        /\ pc["rsp"] \in Busy
    BY <1>6, <2>1 DEF Answers, Busy
  <2>3. s \in Servers /\ s \in Conns /\ s # Client
    BY <1>0, <2>1, <2>2, BusyPooled
  <2>4. Elsewhere(net, net', s) /\ Tame(net, net', None)
    BY <1>0, <2>2, <2>3, DecrefAt
  <2>5. net'.fault = net.fault
    BY <1>0, <1>6, StayAnswers
  <2>6. ~Closed(Client)'
    BY <1>0, <1>3, <2>3, <2>4 DEF Elsewhere, Closed
  <2>7. \A c \in Conns : (net'.hr[c] = "rsp" => net.hr[c] = "rsp")
                         /\ (net'.hw[c] = "rsp" => net.hw[c] = "rsp")
    BY <1>0, <2>4 DEF Tame
  <2>8. RspAsked'
    BY <1>0, <2>2, <2>7 DEF Quiet, RspAsked, InPool
  <2> QED
    BY <1>4, <2>2, <2>5, <2>6, <2>8
<1>7. ASSUME AnswersClosed \/ FollowsNull PROVE FALSE
  <2>1. pc["rsp"] \in Busy /\ Closed(Oldest.srv)
    BY <1>7 DEF AnswersClosed, FollowsNull, Busy
  <2>2. Oldest.srv \in Servers /\ InPool(Oldest.srv) /\ ~Closing(Oldest.srv)
    BY <1>3, <2>1, BusyPooled DEF Closing
  <2> QED
    BY <2>1, <2>2, AliveOpen
<1> QED
  BY <1>1, <1>2, <1>5, <1>6, <1>7, RspEffects

\* The main loop keeps it.
LEMMA QuietMain ==
  ASSUME IInv, General, Stay, Quiet, Benign, ~exiting, UNCHANGED env,
         MainLoop \/ \E c \in Conns : PeerCloses(c)
  PROVE  Quiet'
<1>0. /\ Control /\ NetTypes(net) /\ EpOf' = EpOf /\ Client \in Conns /\ Client \notin Servers
      /\ Servers \subseteq Conns /\ queue \in Seq(Events) /\ OneDns(queue) /\ "rsp" # None
      /\ \A c \in Conns : c \notin net.reg => net.hr[c] = None /\ net.hw[c] = None
  BY ConnTypes, SessionAssumption, NoNone DEF IInv, Own, NetOk, NetOpen, env, EpOf, Loop
<1>1. ASSUME NEW k \in Coros, NEW ret \in {-1, 0, 1}, Wakes(k, ret), run = "main",
             UNCHANGED <<mode, down, batch>>,
             k = "rsp" /\ pc["rsp"] = "idle" /\ ret # 0 =>
                 pc["req"] \in {"fin", "clean", "done"} /\ batch = {} /\ agenda' = <<>>,
             pc["rsp"] \in {"exit", "done"} => agenda' = agenda,
             \A i \in 1 .. Len(agenda') : \E j \in 1 .. Len(agenda) : agenda'[i] = agenda[j]
      PROVE  Quiet'
  <2>1. /\ net' = net /\ cxt'.pool = cxt.pool /\ \A j \in Coros \ {k} : pc'[j] = pc[j]
        /\ pc[k] # "done" /\ pc["req"] \notin ReqStraight /\ pc["rsp"] \notin RspStraight
    BY <1>1 DEF Wakes, General, Straight
  <2>2. RspAsked'
    BY <1>0, <1>1, <2>1 DEF Quiet, RspAsked, InPool
  <2>3. CASE k = "req"
    <3>1. /\ pc'["rsp"] = pc["rsp"] /\ pc["req"] # "done"
          /\ pc'["req"] \notin {"bad_request", "copy_failed", "done", "fin"}
          /\ pc["req"] = "fin" => pc'["req"] = "clean"
          /\ pc["req"] # "fin" => pc'["req"] # "clean"
      BY <1>0, <1>1, <2>1, <2>3, WakesTo DEF Quiet, Unfailed, Coros, ReqStraight
    <3>2. pc["rsp"] # "copied" /\ pc["rsp"] # "exit"
      BY <2>1 DEF RspStraight
    <3>3. LeftLast'
      BY <1>1, <2>1, <3>1, <3>2 DEF Quiet, LeftLast, ReqStraight
    <3> QED
      BY <1>1, <2>1, <2>2, <3>1, <3>2, <3>3 DEF Quiet, Unfailed, Closed
  <2>4. CASE k = "rsp"
    <3>1. /\ pc'["req"] = pc["req"] /\ pc["rsp"] \notin {"done", "exit", "copied"}
          /\ pc'["rsp"] \notin {"bad_gateway", "copy_failed", "done", "copied"}
          /\ pc'["rsp"] = "exit" => pc["rsp"] = "idle" /\ ret # 0
      BY <1>0, <1>1, <2>1, <2>4, WakesTo DEF Quiet, Unfailed, Coros, RspStraight
    <3>2. LeftLast'
      BY <1>1, <2>1, <2>4, <3>1 DEF Quiet, LeftLast
    <3> QED
      BY <1>1, <2>1, <2>2, <3>1, <3>2 DEF Quiet, Unfailed, Closed
  <2> QED
    BY <1>1, <2>3, <2>4 DEF Coros
<1>2. CASE event_work
  <2>1. EventTaken
    BY <1>2, EventsTaken
  <2>2. /\ run = "main" /\ batch = {} /\ agenda = <<>> /\ agenda' = agenda /\ batch' = batch
        /\ UNCHANGED <<mode, down>> /\ Popped(queue, queue') /\ Len(agenda') = 0
    BY <2>1 DEF EventTaken
  <2>3. CASE queue[1].to \notin armed /\ UNCHANGED <<pc, run, again, cxt, net>>
    <3>1. ASSUME pc["rsp"] = "done", pc["req"] = "fin" PROVE \E i \in 1 .. Len(queue') : queue'[i].to = "req"
      <4>1. PICK i \in 1 .. Len(queue) : queue[i].to = "req"
        BY <3>1 DEF Quiet, LeftLast
      <4>2. "req" \in armed
        BY <3>1, FrameAndIds
      <4>3. i # 1
        BY <2>3, <4>1, <4>2
      <4>4. i - 1 \in 1 .. Len(queue') /\ (i - 1) + 1 = i
        BY <2>2, <4>1, <4>3 DEF Popped
      <4>5. queue'[i - 1] = queue[i]
        BY <2>2, <4>4 DEF Popped
      <4> QED
        BY <4>1, <4>4, <4>5
    <3>2. LeftLast' /\ RspAsked'
      BY <1>0, <2>2, <2>3, <3>1 DEF Quiet, LeftLast, RspAsked, InPool
    <3> QED
      BY <2>2, <2>3, <3>2 DEF Quiet, Unfailed, Closed
  <2>4. CASE queue[1].to \in armed /\ Wakes(Owner(queue[1].to), IF queue[1].more THEN 0 ELSE 1)
    <3>1. PICK k : k = Owner(queue[1].to)
      OBVIOUS
    <3>2. PICK ret : ret = IF queue[1].more THEN 0 ELSE 1
      OBVIOUS
    <3>3. k \in Coros /\ ret \in {-1, 0, 1} /\ Wakes(k, ret)
      BY <2>4, <3>1, <3>2 DEF Owner, Coros
    <3>4. ASSUME k = "rsp", ret # 0 PROVE pc["req"] \in {"fin", "clean", "done"}
      <4>1. queue[1].to = "rsp" /\ ~queue[1].more /\ 1 \in 1 .. Len(queue)
        BY <2>2, <3>1, <3>2, <3>4 DEF Owner, Popped
      <4> QED
        BY <4>1, LeaveNotice
    <3> QED
      BY <1>1, <2>2, <3>3, <3>4
  <2> QED
    BY <2>1, <2>3, <2>4 DEF EventTaken
<1>3. CASE conn_epoll_handler
  <2>1. CallMade
    BY <1>3, CallsMade
  <2>2. /\ run = "main" /\ UNCHANGED <<mode, down, batch>> /\ agenda # <<>> /\ 1 \in 1 .. Len(agenda)
        /\ agenda[1] \in Calls
        /\ \A i \in 1 .. Len(agenda') : i + 1 \in 1 .. Len(agenda) /\ agenda'[i] = agenda[i + 1]
    BY <2>1 DEF CallMade
  <2>3. pc["rsp"] \notin {"exit", "done"}
    BY <2>2 DEF Quiet, LeftLast
  <2>4. PICK k : k = agenda[1].k
    OBVIOUS
  <2>5. PICK ret : ret = IF agenda[1].err THEN -1 ELSE 0
    OBVIOUS
  <2>6. k \in Coros /\ ret \in {-1, 0, 1} /\ Wakes(k, ret)
    BY <2>1, <2>2, <2>3, <2>4, <2>5 DEF CallMade, Calls
  <2>7. k = "rsp" => ret = 0
    BY <2>2, <2>4, <2>5 DEF Quiet, RspAsked
  <2>8. \A i \in 1 .. Len(agenda') : \E j \in 1 .. Len(agenda) : agenda'[i] = agenda[j]
    BY <2>2
  <2> QED
    BY <1>1, <2>2, <2>3, <2>6, <2>7, <2>8
<1>4. CASE net_pull_work
  <2>1. PICK e \in batch : Handled(e)
    BY <1>4, EntriesHandled
  <2>2. /\ UNCHANGED <<pc, mode, down, queue, cxt>> /\ e.c \in Conns /\ batch # {}
        /\ (e.err => e.c \in down)
    BY <2>1 DEF Handled, General, Reports
  <2>3. pc["rsp"] \notin {"exit", "done"} /\ pc["req"] # "done"
    BY <2>2, FrameAndIds DEF Quiet, LeftLast
  <2>4. net'.fault = net.fault /\ net'.stat[Client] = net.stat[Client] /\ (net'.reg = net.reg)
    BY <1>0, <2>1, <2>2 DEF Handled, Quiet, NetTypes
  <2>5. \A c \in Conns : (net'.hr[c] = "rsp" => net.hr[c] = "rsp")
                         /\ (net'.hw[c] = "rsp" => net.hw[c] = "rsp")
    <3>1. \/ net' = net
          \/ net'.hr = [net.hr EXCEPT ![e.c] = None] /\ net'.hw = [net.hw EXCEPT ![e.c] = None]
      BY <2>1 DEF Handled
    <3>2. "rsp" # None /\ DOMAIN net.hr = Conns /\ DOMAIN net.hw = Conns
      BY <1>0 DEF NetTypes
    <3> QED
      BY <3>1, <3>2
  <2>6. ASSUME NEW i \in 1 .. Len(agenda'), agenda'[i].k = "rsp" PROVE ~agenda'[i].err
    <3>1. CASE agenda' = agenda
      BY <2>6, <3>1 DEF Quiet, RspAsked
    <3>2. CASE Called(net.hr[e.c], net.hw[e.c], e.err, agenda')
      <4>1. (net.hr[e.c] = "rsp" \/ net.hw[e.c] = "rsp") /\ agenda'[i].err = e.err
        BY <2>6, <3>2 DEF Called
      <4>2. e.c = Client \/ (e.c \in Servers /\ InPool(e.c))
        BY <2>2, <4>1 DEF Quiet, RspAsked
      <4>3. e.c \notin down
        BY <4>2 DEF Quiet, Stay, Alive
      <4> QED
        BY <2>2, <4>1, <4>3
    <3> QED
      BY <2>1, <3>1, <3>2 DEF Handled
  <2>7. RspAsked'
    BY <1>0, <2>2, <2>5, <2>6 DEF Quiet, RspAsked, InPool
  <2>8. LeftLast'
    BY <2>2, <2>3 DEF LeftLast
  <2> QED
    BY <2>2, <2>4, <2>7, <2>8 DEF Quiet, Unfailed, Closed
<1>5. CASE epoll_wait
  <2>1. Polled
    BY <1>5, EpollPolls
  <2>2. /\ UNCHANGED <<pc, mode, net, down, queue, agenda, cxt>> /\ run = "main" /\ queue = <<>>
        /\ \A b \in batch' : b.c \in net.reg
    BY <2>1 DEF Polled
  <2>3. ASSUME pc["rsp"] \in {"exit", "done"} PROVE batch' = {}
    <3>1. pc["rsp"] = "done" /\ pc["req"] # "clean"
      BY <2>2, <2>3 DEF General, Straight, RspStraight, ReqStraight
    <3>2. pc["req"] # "fin"
      BY <2>2, <3>1 DEF Quiet, LeftLast
    <3>3. net.reg = {}
      BY <3>1, <3>2 DEF Quiet, LeftLast
    <3> QED
      BY <2>2, <3>3
  <2>4. LeftLast' /\ RspAsked'
    BY <1>0, <2>2, <2>3 DEF Quiet, LeftLast, RspAsked, InPool
  <2> QED
    BY <2>2, <2>4 DEF Quiet, Unfailed, Closed
<1>6. CASE dns_notify_handler
  <2>1. /\ UNCHANGED <<pc, mode, net, down, agenda, batch, cxt>>
        /\ queue' = Append(queue, [to |-> "dns", more |-> FALSE])
    BY <1>6 DEF dns_notify_handler
  <2>2. Len(queue') = Len(queue) + 1 /\ Len(queue) \in Nat /\ \A i \in 1 .. Len(queue) : queue'[i] = queue[i]
    BY <1>0, <2>1
  <2>3. LeftLast' /\ RspAsked'
    BY <1>0, <2>1, <2>2 DEF Quiet, LeftLast, RspAsked, InPool
  <2> QED
    BY <2>1, <2>3 DEF Quiet, Unfailed, Closed
<1>7. CASE \E c \in Conns : PeerCloses(c)
  <2>1. PICK c \in Conns : PeerCloses(c)
    BY <1>7
  <2>2. UNCHANGED <<pc, mode, net, queue, agenda, batch, cxt>> /\ down' = down \cup {c} /\ c # Client
    BY <2>1 DEF PeerCloses, CloseFault, Benign, loop
  <2>3. LeftLast' /\ RspAsked'
    BY <1>0, <2>2 DEF Quiet, LeftLast, RspAsked, InPool
  <2> QED
    BY <2>2, <2>3 DEF Quiet, Unfailed, Closed
<1> QED
  BY <1>2, <1>3, <1>4, <1>5, <1>6, <1>7 DEF MainLoop

\* Quiet is an invariant in these worlds, until the process exits.
LEMMA AlwaysQuiet == Spec => [](Benign /\ ~exiting => Quiet)
<1>1. ASSUME Init PROVE Quiet
  <2>1. /\ net.fault = "none" /\ down = {} /\ net.stat[Client] = "open" /\ agenda = <<>>
        /\ pc["req"] = "init" /\ pc["rsp"] = "init" /\ \A c \in Conns : net.hr[c] = None /\ net.hw[c] = None
    BY <1>1 DEF Init, Coros, Conns
  <2> QED
    BY <2>1, NoNone DEF Quiet, LeftLast, RspAsked, Unfailed, Closed
<1>2. ASSUME IInv, General, Stay, Quiet, Benign, ~exiting, [Next]_vars, ~exiting' PROVE Quiet'
  <2>1. CASE UNCHANGED vars
    <3>1. /\ UNCHANGED <<world, batch, agenda, down, pc, run, cxt, net, mode, queue>> /\ EpOf' = EpOf
      BY <2>1 DEF vars, env, loop, EpOf
    <3> QED
      BY <1>2, <3>1 DEF Quiet, LeftLast, RspAsked, Unfailed, InPool, Closed
  <2>2. CASE Next
    <3>1. ~proxy_done
      BY <1>2 DEF proxy_done
    <3>2. ~net_pull_done
      BY <1>2 DEF net_pull_done, IInv, Own, Loop
    <3> QED
      BY <1>2, <2>2, <3>1, <3>2, QuietReq, QuietRsp, QuietMain DEF Next, Step
  <2> QED
    BY <1>2, <2>1, <2>2
<1>3. ASSUME IInv, [Next]_vars, ~exiting' PROVE ~exiting
  <2>1. CASE UNCHANGED exiting
    BY <1>3, <2>1
  <2>2. CASE proxy_done
    BY <1>3, <2>2 DEF proxy_done
  <2> QED
    BY <1>3, <2>1, <2>2 DEF Next, net_pull_done, vars, env
<1>4. Benign => ServersStay
  BY DEF Benign, ServersStay
<1>5. /\ IInv /\ General /\ (ServersStay => Stay) /\ (Benign /\ ~exiting => Quiet) /\ [Next]_vars
      => (Benign /\ ~exiting => Quiet)'
  BY <1>2, <1>3, <1>4, SameWorld DEF Benign, Faults
<1> QED
  BY <1>1, <1>5, AlwaysIInv, AlwaysGeneral, AlwaysStay, PTL DEF Spec

\* Without a signal the process does not exit.
LEMMA NoExit == Spec => []("shutdown" \notin Faults => ~exiting)
<1>1. Init => ~exiting
  BY DEF Init
<1>2. ASSUME "shutdown" \notin Faults, ~exiting, [Next]_vars, "shutdown" \notin Faults' PROVE ~exiting'
  BY <1>2 DEF Next, proxy_done, net_pull_done, vars, env
<1>3. ("shutdown" \notin Faults => ~exiting) /\ [Next]_vars => ("shutdown" \notin Faults => ~exiting)'
  BY <1>2, SameWorld DEF Faults
<1> QED
  BY <1>1, <1>3, PTL DEF Spec

(***************************************************************************)
(* Reference counts are exact while servers stay, and while peers stay     *)
(* nothing uses what has been freed: neither a connection (mem.c), nor the *)
(* stack of a coroutine (async.c), nor the null entry of net_handle.c:238. *)
(* For any number of servers, addresses and requests.                      *)
(***************************************************************************)
THEOREM RefsAlwaysExact == Spec => []RefsExact
<1>1. IInv /\ (ServersStay => Stay) => (ServersStay => \A c \in Conns : net.ref[c] = Holders(c))
  BY ExactCounts
<1>2. /\ (Benign /\ ~exiting => Quiet) /\ ("shutdown" \notin Faults => ~exiting)
      => (PeersStay => net.fault = "none")
  BY DEF PeersStay, Benign, Quiet
<1>3. /\ IInv /\ (ServersStay => Stay) /\ (Benign /\ ~exiting => Quiet)
      /\ ("shutdown" \notin Faults => ~exiting)
      => RefsExact
  BY <1>1, <1>2 DEF RefsExact
<1> QED
  BY <1>3, AlwaysIInv, AlwaysStay, AlwaysQuiet, NoExit, PTL

-----------------------------------------------------------------------------
(***************************************************************************)
(* Where only the client goes away, and nobody asks for a tunnel, until    *)
(* the process exits.                                                      *)
(***************************************************************************)
Gentle == Faults \subseteq {"client_close", "shutdown"} /\ Kinds = {"http"}

\* The first address of an answer is the one that is used.
First == {"dns_wait", "dns_final", "try", "connect", "conn_wait", "connected"}

\* req has given up.
Over == {"copy_failed", "bad_gateway", "release", "finish", "fin", "clean", "done"}

\* No attempt to reach a server fails; req gives up when the client is closed.
Plain == /\ down \subseteq {Client} /\ cur.kind = "http"
         /\ pc["req"] \notin {"bad_request", "conn_failed", "enlist", "connect_ok"}
         /\ pc["req"] \in First => at = 1
         /\ pc["req"] \in Over => Closed(Client)
         /\ pc["req"] = "conn_wait" =>
                \A i \in 1 .. Len(agenda) : agenda[i].k = "req" => ~agenda[i].err

\* Only the main loop resumes req from a wait for a connection, and epoll's error is
\* the only thing that makes it fail.
LEMMA PlainReq ==
  ASSUME IInv, General, Stay, Plain, Gentle, ~exiting, UNCHANGED env, ReqHandler
  PROVE  Plain'
<1>0. /\ ReqFlow /\ run = "req" /\ Control /\ Client \in Conns /\ NetTypes(net) /\ agenda' = agenda
      /\ down' \subseteq down /\ pc["req"] \notin Paused /\ world' = world /\ Kinds = {"http"}
      /\ Client \notin Servers /\ cur = [id |-> cur.id, kind |-> "http", host |-> cur.host]
      /\ Faults \cap {"bad_request", "dns_fail", "connect_fail"} = {} /\ Addrs' = Addrs
  BY ReqFlows, ConnTypes, SessionAssumption
  DEF ReqFlow, ReqTurn, env, IInv, Own, NetOk, Control, Coros, Gentle, Plain, Numbers, Addrs
<1>1. \A i \in 1 .. Len(agenda) : agenda[i].k # "req"
  BY <1>0, ReqUnregistered
<1>2. SUFFICES /\ cur'.kind = "http"
               /\ pc'["req"] \notin {"bad_request", "conn_failed", "enlist", "connect_ok"}
               /\ pc'["req"] \in First => at' = 1
               /\ pc'["req"] \in Over => Closed(Client)'
  BY <1>0, <1>1 DEF Plain
<1>3. ASSUME Tame(net, net', "req") PROVE Closed(Client) => Closed(Client)'
  BY <1>0, <1>3 DEF Tame, Closed
<1>4. CASE req_top \/ net_bad_request \/ enlist_connect \/ connect_ok \/ req_copied \/ req_copy_failed
           \/ req_bad_gateway \/ release \/ req_finish \/ req_clean
  <2>1. Tame(net, net', "req")
    BY <1>4, ReqTame, ReqAt DEF ReqHandler
  <2>2. UNCHANGED look
    BY <1>4 DEF req_top, net_bad_request, enlist_connect, connect_ok, req_copied, req_copy_failed,
                req_bad_gateway, release, req_finish, req_clean, ReplyTo, conn_try_io
  <2>3. pc["req"] \in {"top", "copied"} \cup Over
    BY <1>4, ReqAt DEF Plain, Over
  <2>4. pc["req"] = "top" /\ pc'["req"] = "finish" => Closed(Client)
    <3>1. pc["req"] = "top" => req_top
      BY ReqAt DEF ReqHandler
    <3> QED
      BY <1>0, <3>1, PcFacts DEF req_top, Goto, Coros, ReqLabels
  <2> QED
    BY <1>0, <1>3, <2>1, <2>2, <2>3, <2>4 DEF ReqFlow, ReqEdge, Plain, First, Over, look, Paused
<1>5. CASE req_fetch
  <2>1. pc["req"] = "fetch"
    BY <1>5, ReqAt
  <2>2. CASE conn_try_io("req", Client, "read")
    BY <2>1, <2>2 DEF conn_try_io, look, Plain, First, Over
  <2>3. CASE net' = conn_close(net, Client) /\ Goto("req", "finish") /\ UNCHANGED look
    <3>1. net'.stat[Client] = "closed"
      BY <1>0, <2>3, CloseAt
    <3> QED
      BY <1>0, <2>3, <3>1, PcFacts DEF Goto, Coros, ReqLabels, Closed, Plain, First, look
  <2>4. CASE Goto("req", "lookup")
             /\ \E kind \in Kinds, host \in Hosts : cur' = [id |-> cur.id + 1, kind |-> kind, host |-> host]
    <3>1. pc'["req"] = "lookup"
      BY <1>0, <2>4, PcFacts DEF Goto, Coros, ReqLabels
    <3>2. PICK host \in Hosts : cur' = [id |-> cur.id + 1, kind |-> "http", host |-> host]
      BY <1>0, <2>4
    <3>3. cur'.kind = "http"
      BY <3>2
    <3> QED
      BY <3>1, <3>3 DEF First, Over
  <2> QED
    BY <1>0, <1>5, <2>2, <2>3, <2>4 DEF req_fetch
<1>6. CASE net_dns_lookup_a
  <2>1. at' = 1 /\ cur' = cur /\ pc'["req"] \in {"try", "dns_wait"}
    BY <1>0, <1>6, PcFacts DEF net_dns_lookup_a, Goto, Coros, ReqLabels
  <2> QED
    BY <1>0, <2>1 DEF Over
<1>7. CASE dns_final
  <2>1. at' = at /\ cur' = cur /\ pc'["req"] = "try" /\ pc["req"] = "dns_final"
    BY <1>0, <1>7, PcFacts, ReqAt DEF dns_final, Goto, Coros, ReqLabels
  <2> QED
    BY <1>0, <2>1 DEF Over, Plain, First
<1>8. CASE try_address
  <2>1. pc["req"] = "try" /\ at = 1 /\ UNCHANGED look
    BY <1>8, ReqAt DEF Plain, First, try_address
  <2>2. 1 <= Len(Addrs[cur.host])
    <3>1. cur.host \in Hosts /\ world \in Worlds
      BY <1>0, <2>1 DEF IInv, Own, Numbers, Unlisted, Control
    <3>2. Addrs[cur.host] \in Seq(Eps) \ {<<>>}
      BY <3>1, SessionAssumption DEF World, Hosts, Addrs
    <3> QED
      BY <3>2, EmptySeq
  <2>3. ~(at > Len(Addrs[cur.host]))
    BY <2>1, <2>2
  <2>4. AfterConnect = "forward"
    BY DEF AfterConnect, Plain
  <2>5. pc'["req"] \in {"connect", "forward"}
    BY <1>0, <1>8, <2>3, <2>4, PcFacts DEF try_address, Goto, Coros, ReqLabels
  <2> QED
    BY <1>0, <2>1, <2>5 DEF look, Over
<1>9. CASE conn_get_by_endpoint
  <2>1. /\ cur' = cur /\ at' = at /\ at = 1 /\ pc'["req"] \in {"forward", "conn_wait"}
    BY <1>0, <1>9, PcFacts, ReqAt
    DEF conn_get_by_endpoint, Goto, Coros, ReqLabels, Plain, First, AfterConnect
  <2> QED
    BY <1>0, <2>1 DEF Over
<1>10. CASE connected
  <2>1. UNCHANGED look /\ pc'["req"] = "forward"
    BY <1>0, <1>10, PcFacts DEF connected, Goto, Coros, ReqLabels, Plain, AfterConnect
  <2> QED
    BY <1>0, <2>1 DEF look, First, Over
<1>11. CASE forward_http
  <2>1. UNCHANGED look /\ pc'["req"] \in {"forward", "copy_read", "lookup"}
    BY <1>0, <1>11, PcFacts, ReqAt DEF forward_http, conn_try_io, Goto, Coros, ReqLabels
  <2> QED
    BY <1>0, <2>1 DEF look, First, Over
<1>12. CASE CopyEnds("req")
  <2>1. UNCHANGED look /\ pc'["req"] = "copied"
    BY <1>0, <1>12, PcFacts DEF CopyEnds, Goto, Coros, ReqLabels
  <2> QED
    BY <1>0, <2>1 DEF look, First, Over
<1>13. CASE conn_copy_read("req")
  <2>1. /\ UNCHANGED look
        /\ \/ pc'["req"] \in {"copy_read", "copy_write"}
           \/ pc'["req"] = "copy_failed" /\ net' = conn_close(net, Client)
    BY <1>0, <1>13, PcFacts, ReqAt DEF conn_copy_read, conn_try_io, Source, Goto, Coros, ReqLabels
  <2>2. net' = conn_close(net, Client) => Closed(Client)'
    BY <1>0, CloseAt DEF Closed
  <2> QED
    BY <1>0, <2>1, <2>2 DEF look, First, Over
<1>14. CASE conn_copy_write("req")
  <2>1. pc["req"] = "copy_write" /\ UNCHANGED look /\ Tame(net, net', "req")
    BY <1>14, ReqAt, ReqTame DEF conn_copy_write, conn_try_io, ReqHandler
  <2>2. ASSUME WriteFails(srv) PROVE Closed(Client)
    <3>1. srv \in Servers /\ (InPool(srv) \/ Late) /\ ~Closing(srv)
      BY <1>0, <2>1 DEF IInv, Own, Serving, Using, Stay, Placed, Closing
    <3>2. ~InPool(srv)
      BY <2>2, <3>1, AliveOpen
    <3> QED
      BY <3>1, <3>2 DEF Late
  <2>3. pc'["req"] \in {"copy_read", "copy_write"} \/ (pc'["req"] = "copy_failed" /\ WriteFails(srv))
    BY <1>0, <1>14, <2>1, PcFacts DEF conn_copy_write, conn_try_io, Target, Goto, Coros, ReqLabels
  <2> QED
    BY <1>0, <1>3, <2>1, <2>2, <2>3 DEF look, First, Over
<1>15. CASE conn_failed
  BY <1>15, ReqAt DEF Plain
<1> QED
  BY <1>4, <1>5, <1>6, <1>7, <1>8, <1>9, <1>10, <1>11, <1>12, <1>13, <1>14, <1>15 DEF ReqHandler

\* rsp keeps Plain: it never opens the client again.
LEMMA PlainRsp ==
  ASSUME IInv, Plain, UNCHANGED env, RspHandler
  PROVE  Plain'
<1>1. /\ RspFlow /\ Tame(net, net', "rsp") /\ Client \in Conns
  BY RspFlows, RspTame, ConnTypes
<1>2. UNCHANGED <<down, cur, at, agenda>> /\ pc'["req"] = pc["req"]
  BY <1>1 DEF RspFlow, RspTurn, look
<1> QED
  BY <1>1, <1>2 DEF Plain, Tame, Closed

\* So does the main loop.
LEMMA PlainMain ==
  ASSUME IInv, General, Plain, Gentle, UNCHANGED env, MainLoop \/ \E c \in Conns : PeerCloses(c)
  PROVE  Plain'
<1>0. Control /\ NetTypes(net) /\ Client \in Conns /\ Client \notin Servers
  BY ConnTypes, SessionAssumption DEF IInv, Own, NetOk
<1>1. ASSUME NEW k \in Coros, NEW ret \in {-1, 0, 1}, Wakes(k, ret), run = "main",
             UNCHANGED <<down, look>>, k = "req" /\ pc["req"] = "conn_wait" => ret # -1,
             \A i \in 1 .. Len(agenda') : \E j \in 1 .. Len(agenda) : agenda'[i] = agenda[j]
      PROVE  Plain'
  <2>1. net' = net /\ \A j \in Coros \ {k} : pc'[j] = pc[j]
    BY <1>1 DEF Wakes
  <2>2. CASE k = "rsp"
    BY <1>1, <2>1, <2>2 DEF Plain, Coros, look, Closed
  <2>3. CASE k = "req"
    <3>1. /\ pc'["req"] \notin {"bad_request", "conn_failed", "enlist", "connect_ok", "conn_wait"}
          /\ pc'["req"] \in First => pc["req"] \in First
          /\ pc'["req"] \in Over => pc["req"] \in Over
      BY <1>0, <1>1, <2>1, <2>3, WakesTo DEF Plain, Coros, First, Over
    <3> QED
      BY <1>1, <2>1, <3>1 DEF Plain, look, Closed
  <2> QED
    BY <1>1, <2>2, <2>3 DEF Coros
<1>2. CASE event_work
  <2>1. EventTaken
    BY <1>2, EventsTaken
  <2>2. run = "main" /\ UNCHANGED <<down, look, agenda>>
    BY <2>1 DEF EventTaken
  <2>3. CASE UNCHANGED <<pc, run, again, cxt, net>>
    BY <2>2, <2>3 DEF Plain, look, Closed
  <2>4. CASE /\ queue[1].to \in armed /\ Wakes(Owner(queue[1].to), IF queue[1].more THEN 0 ELSE 1)
             /\ queue[1].to = "req" => pc["req"] \in {"init", "fin"}
             /\ queue[1].to = "dns" => pc["req"] = "dns_wait"
    <3>1. PICK k : k = Owner(queue[1].to)
      OBVIOUS
    <3>2. PICK ret : ret = IF queue[1].more THEN 0 ELSE 1
      OBVIOUS
    <3>3. k \in Coros /\ ret \in {-1, 0, 1} /\ Wakes(k, ret) /\ ret # -1
      BY <2>4, <3>1, <3>2 DEF Owner, Coros
    <3> QED
      BY <1>1, <2>2, <3>3
  <2> QED
    BY <2>1, <2>3, <2>4 DEF EventTaken
<1>3. CASE conn_epoll_handler
  <2>1. CallMade
    BY <1>3, CallsMade
  <2>2. /\ run = "main" /\ UNCHANGED <<down, look>> /\ 1 \in 1 .. Len(agenda) /\ agenda[1] \in Calls
        /\ \A i \in 1 .. Len(agenda') : i + 1 \in 1 .. Len(agenda) /\ agenda'[i] = agenda[i + 1]
    BY <2>1 DEF CallMade
  <2>3. \A i \in 1 .. Len(agenda') : \E j \in 1 .. Len(agenda) : agenda'[i] = agenda[j]
    BY <2>2
  <2>4. CASE UNCHANGED <<pc, run, again, cxt>> /\ FaultOnly(net, net')
    BY <2>2, <2>3, <2>4 DEF Plain, look, Closed, FaultOnly
  <2>5. CASE Wakes(agenda[1].k, IF agenda[1].err THEN -1 ELSE 0)
    <3>1. PICK k : k = agenda[1].k
      OBVIOUS
    <3>2. PICK ret : ret = IF agenda[1].err THEN -1 ELSE 0
      OBVIOUS
    <3>3. k \in Coros /\ ret \in {-1, 0, 1}
      BY <2>2, <3>1, <3>2 DEF Calls
    <3>4. Wakes(k, ret)
      BY <2>5, <3>1, <3>2
    <3>5. k = "req" /\ pc["req"] = "conn_wait" => ret = 0
      BY <2>2, <3>1, <3>2 DEF Plain
    <3> QED
      BY <1>1, <2>2, <2>3, <3>3, <3>4, <3>5
  <2> QED
    BY <2>1, <2>4, <2>5 DEF CallMade
<1>4. CASE net_pull_work
  <2>1. PICK e \in batch : Handled(e)
    BY <1>4, EntriesHandled
  <2>2. UNCHANGED <<pc, down, look>> /\ e.c \in Conns /\ (e.err => e.c \in down)
    BY <2>1 DEF Handled, General, Reports
  <2>3. Closed(Client) => Closed(Client)'
    BY <1>0, <2>1 DEF Handled, NetTypes, Closed
  <2>4. ASSUME pc["req"] = "conn_wait", NEW i \in 1 .. Len(agenda'), agenda'[i].k = "req"
        PROVE  ~agenda'[i].err
    <3>1. CASE agenda' = agenda
      BY <2>4, <3>1 DEF Plain
    <3>2. CASE Called(net.hr[e.c], net.hw[e.c], e.err, agenda')
      <4>1. (net.hr[e.c] = "req" \/ net.hw[e.c] = "req") /\ agenda'[i].err = e.err
        BY <2>4, <3>2 DEF Called
      <4>2. e.c = srv /\ srv \in Servers
        BY <2>2, <2>4, <4>1 DEF General, Reports, IInv, Own, Serving, Attempt
      <4> QED
        BY <1>0, <2>2, <4>1, <4>2 DEF Plain
    <3> QED
      BY <2>1, <3>1, <3>2 DEF Handled
  <2> QED
    BY <2>2, <2>3, <2>4 DEF Plain, look
<1>5. CASE epoll_wait \/ dns_notify_handler
  BY <1>5 DEF epoll_wait, dns_notify_handler, Plain, look, Closed
<1>6. CASE \E c \in Conns : PeerCloses(c)
  <2>1. PICK c \in Conns : PeerCloses(c)
    BY <1>6
  <2>2. UNCHANGED <<pc, net, agenda, look>> /\ down' = down \cup {c} /\ c = Client
    BY <2>1 DEF PeerCloses, CloseFault, Gentle, loop
  <2> QED
    BY <2>2 DEF Plain, look, Closed
<1> QED
  BY <1>2, <1>3, <1>4, <1>5, <1>6 DEF MainLoop

\* A process that exits does not stop doing so.
LEMMA ExitStays ==
  ASSUME IInv, [Next]_vars, ~exiting'
  PROVE  /\ ~exiting /\ (UNCHANGED vars \/ (Step /\ UNCHANGED env))
<1>1. ~proxy_done
  BY DEF proxy_done
<1>2. ~exiting
  BY <1>1 DEF Next, net_pull_done, vars, env
<1>3. ~net_pull_done
  BY <1>2 DEF net_pull_done, IInv, Own, Loop
<1> QED
  BY <1>1, <1>2, <1>3 DEF Next

\* Plain is an invariant in these worlds, until the process exits.
LEMMA AlwaysPlain == Spec => [](Gentle /\ ~exiting => Plain)
<1>1. Init => Plain
  BY DEF Init, Plain, First, Over, Coros
<1>2. ASSUME IInv, General, Stay, Plain, Gentle, ~exiting, [Next]_vars, ~exiting' PROVE Plain'
  <2>1. CASE UNCHANGED vars
    BY <1>2, <2>1 DEF Plain, vars, loop, look, Closed
  <2>2. CASE Step /\ UNCHANGED env
    BY <1>2, <2>2, PlainReq, PlainRsp, PlainMain DEF Step
  <2> QED
    BY <1>2, <2>1, <2>2, ExitStays
<1>3. Gentle => ServersStay
  BY DEF Gentle, ServersStay
<1>4. /\ IInv /\ General /\ (ServersStay => Stay) /\ (Gentle /\ ~exiting => Plain) /\ [Next]_vars
      => (Gentle /\ ~exiting => Plain)'
  BY <1>2, <1>3, ExitStays, SameWorld DEF Gentle, Faults, Kinds
<1> QED
  BY <1>1, <1>4, AlwaysIInv, AlwaysGeneral, AlwaysStay, PTL DEF Spec

\* An rsp that waits for a request when req has given up is about to be told to leave.
Dismissed == pc["req"] = "fin" /\ pc["rsp"] = "idle" =>
                 \E i \in 1 .. Len(queue) : queue[i].to = "rsp" /\ ~queue[i].more

\* Every step keeps Dismissed.
LEMMA DismissedStep ==
  ASSUME IInv, General, Plain, ~exiting, Dismissed, UNCHANGED env, Step
  PROVE  Dismissed'
<1>0. Control /\ CxtOk /\ queue \in Seq(Events) /\ ("rsp" \in armed <=> pc["rsp"] # "done")
  BY FrameAndIds DEF IInv, Own, Loop
<1>1. CASE ReqHandler
  <2>1. /\ ReqFlow /\ pc["req"] \notin Paused /\ pc'["rsp"] = pc["rsp"]
    BY <1>0, <1>1, ReqFlows DEF ReqFlow, ReqTurn, Control, Coros
  <2>2. SUFFICES ASSUME pc'["req"] = "fin"
                 PROVE  \E i \in 1 .. Len(queue') : queue'[i].to = "rsp" /\ ~queue'[i].more
    BY DEF Dismissed
  <2>3. pc["req"] = "finish"
    BY <2>1, <2>2 DEF ReqFlow, ReqEdge, Paused, EventWaits
  <2>4. req_finish
    BY <1>1, <2>3, ReqAt DEF ReqHandler
  <2>5. queue' = Append(queue, [to |-> "rsp", more |-> FALSE])
    BY <1>0, <2>4 DEF req_finish, CxtOk
  <2>6. /\ Len(queue) + 1 \in 1 .. Len(queue') /\ queue'[Len(queue) + 1].to = "rsp"
        /\ ~queue'[Len(queue) + 1].more
    BY <1>0, <2>5
  <2> QED
    BY <2>6
<1>2. CASE RspHandler
  <2>1. /\ RspFlow /\ pc["rsp"] \notin Paused /\ pc'["req"] = pc["req"]
    BY <1>0, <1>2, RspFlows DEF RspFlow, RspTurn, Control, Coros
  <2>2. SUFFICES ASSUME pc'["rsp"] = "idle", pc["req"] = "fin" PROVE FALSE
    BY <2>1 DEF Dismissed
  <2>3. pc["rsp"] = "top"
    BY <2>1, <2>2 DEF RspFlow, RspEdge, Paused, EventWaits
  <2>4. rsp_top /\ Closed(Client)
    BY <1>2, <2>2, <2>3, RspAt DEF RspHandler, Plain, Over
  <2>5. pc'["rsp"] = "exit"
    BY <1>0, <2>4, PcFacts DEF rsp_top, Goto, Coros, RspLabels
  <2> QED
    BY <2>2, <2>5
<1>3. CASE event_work
  <2>1. EventTaken
    BY <1>3, EventsTaken
  <2>2. CASE queue[1].to \notin armed /\ UNCHANGED <<pc, run, again, cxt, net>>
    <3>1. SUFFICES ASSUME pc["req"] = "fin", pc["rsp"] = "idle"
                   PROVE  \E i \in 1 .. Len(queue') : queue'[i].to = "rsp" /\ ~queue'[i].more
      BY <2>2 DEF Dismissed
    <3>2. PICK i \in 1 .. Len(queue) : queue[i].to = "rsp" /\ ~queue[i].more
      BY <3>1 DEF Dismissed
    <3>3. i # 1 /\ Popped(queue, queue')
      BY <1>0, <2>1, <2>2, <3>1, <3>2 DEF EventTaken
    <3>4. i - 1 \in 1 .. Len(queue') /\ (i - 1) + 1 = i
      BY <3>2, <3>3 DEF Popped
    <3>5. queue'[i - 1] = queue[i]
      BY <3>3, <3>4 DEF Popped
    <3> QED
      BY <3>2, <3>4, <3>5
  <2>3. CASE Wakes(Owner(queue[1].to), IF queue[1].more THEN 0 ELSE 1)
    <3>1. PICK k : k = Owner(queue[1].to)
      OBVIOUS
    <3>2. PICK ret : ret = IF queue[1].more THEN 0 ELSE 1
      OBVIOUS
    <3>3. k \in Coros /\ ret \in {-1, 0, 1} /\ Wakes(k, ret)
      BY <2>3, <3>1, <3>2 DEF Owner, Coros
    <3>4. (k = "req" => pc'["req"] # "fin") /\ (k = "rsp" => pc'["rsp"] # "idle")
      BY <1>0, <3>3, WakesTo DEF Coros
    <3> QED
      BY <3>3, <3>4 DEF Dismissed, Coros
  <2> QED
    BY <2>1, <2>2, <2>3 DEF EventTaken
<1>4. CASE conn_epoll_handler
  <2>1. CallMade
    BY <1>4, CallsMade
  <2>2. CASE UNCHANGED <<pc, run, again, cxt>>
    BY <2>1, <2>2 DEF CallMade, Dismissed
  <2>3. CASE Wakes(agenda[1].k, IF agenda[1].err THEN -1 ELSE 0)
    <3>1. PICK k : k = agenda[1].k
      OBVIOUS
    <3>2. PICK ret : ret = IF agenda[1].err THEN -1 ELSE 0
      OBVIOUS
    <3>3. k \in Coros /\ ret \in {-1, 0, 1}
      BY <2>1, <3>1, <3>2 DEF CallMade, Calls
    <3>4. Wakes(k, ret)
      BY <2>3, <3>1, <3>2
    <3>5. (k = "req" => pc'["req"] # "fin") /\ (k = "rsp" => pc'["rsp"] # "idle")
      BY <1>0, <3>3, <3>4, WakesTo DEF Coros
    <3> QED
      BY <3>3, <3>5 DEF Dismissed, Coros
  <2> QED
    BY <2>1, <2>2, <2>3 DEF CallMade
<1>5. CASE dns_notify_handler
  <2>1. pc' = pc /\ queue' = Append(queue, [to |-> "dns", more |-> FALSE])
    BY <1>5 DEF dns_notify_handler
  <2>2. Len(queue') = Len(queue) + 1 /\ Len(queue) \in Nat /\ \A i \in 1 .. Len(queue) : queue'[i] = queue[i]
    BY <1>0, <2>1
  <2> QED
    BY <2>1, <2>2 DEF Dismissed
<1>6. CASE epoll_wait \/ net_pull_work \/ \E c \in Conns : PeerCloses(c)
  <2>1. UNCHANGED <<pc, queue>>
    BY <1>6 DEF epoll_wait, net_pull_work, PeerCloses, loop
  <2> QED
    BY <2>1 DEF Dismissed
<1> QED
  BY <1>1, <1>2, <1>3, <1>4, <1>5, <1>6 DEF Step, MainLoop

\* It is an invariant in these worlds.
LEMMA AlwaysDismissed == Spec => [](Gentle /\ ~exiting => Dismissed)
<1>1. Init => Dismissed
  BY DEF Init, Dismissed, Coros
<1>2. ASSUME IInv, General, Plain, ~exiting, Dismissed, [Next]_vars, ~exiting' PROVE Dismissed'
  <2>1. CASE UNCHANGED vars
    BY <1>2, <2>1 DEF Dismissed, vars, loop
  <2> QED
    BY <1>2, <2>1, DismissedStep, ExitStays
<1>3. /\ IInv /\ General /\ (Gentle /\ ~exiting => Plain) /\ (Gentle /\ ~exiting => Dismissed)
      /\ [Next]_vars
      => (Gentle /\ ~exiting => Dismissed)'
  BY <1>2, ExitStays, SameWorld DEF Gentle, Faults, Kinds
<1> QED
  BY <1>1, <1>3, AlwaysIInv, AlwaysGeneral, AlwaysPlain, PTL DEF Spec

-----------------------------------------------------------------------------
(***************************************************************************)
(* The order of replies.                                                   *)
(***************************************************************************)
\* What a step does to the list of requests and to the request req works on.
Kept     == cxt'.list = cxt.list /\ cur' = cur /\ (pc'["req"] \in Unlisted => pc["req"] \in Unlisted)
Fetched  == cxt'.list = cxt.list /\ cur'.id = cur.id + 1
Appended == /\ cxt'.list = Append(cxt.list, Listed) /\ cur' = cur /\ pc["req"] \in Unlisted
            /\ pc'["req"] \notin Unlisted
Removed  == cxt.list # <<>> /\ cxt'.list = Tail(cxt.list) /\ cur' = cur /\ pc'["req"] = pc["req"]
Emptied  == pc["req"] = "clean" /\ cxt'.list = <<>> /\ cur' = cur /\ pc'["req"] \notin Unlisted

\* req lists the request it works on, once.
LEMMA ReqLists ==
  ASSUME IInv, UNCHANGED env, ReqHandler
  PROVE  Kept \/ Fetched \/ Appended \/ Emptied
<1>0. /\ ReqFlow /\ Control /\ CxtOk
      /\ pc'["req"] \in Unlisted => pc["req"] \in Unlisted \cup {"fetch"}
  BY ReqFlows DEF IInv, Own, ReqFlow, ReqEdge, Unlisted
<1>1. ASSUME cxt' = cxt \/ (\E p : cxt' = [cxt EXCEPT !.pool = p])
             \/ (\E e, s : cxt' = [cxt EXCEPT !.pool[e] = s]),
             cur' = cur, pc["req"] # "fetch"
      PROVE  Kept
  <2>1. cxt'.list = cxt.list
    BY <1>0, <1>1 DEF CxtOk
  <2> QED
    BY <1>0, <1>1, <2>1 DEF Kept
<1>2. CASE req_top \/ net_bad_request \/ net_dns_lookup_a \/ dns_final \/ connect_ok \/ conn_failed
           \/ conn_copy_read("req") \/ conn_copy_write("req") \/ CopyEnds("req") \/ req_copied
           \/ req_copy_failed \/ req_bad_gateway \/ release
  <2>1. cxt' = cxt /\ cur' = cur
    BY <1>2 DEF req_top, net_bad_request, net_dns_lookup_a, dns_final, connect_ok, conn_failed,
                conn_copy_read, conn_copy_write, CopyEnds, req_copied, req_copy_failed,
                req_bad_gateway, release, ReplyTo, conn_try_io, look
  <2>2. pc["req"] # "fetch"
    BY <1>2, ReqAt
  <2> QED
    BY <1>1, <2>1, <2>2
<1>3. CASE try_address
  <2>1. cur' = cur /\ pc["req"] # "fetch" /\ (cxt' = cxt \/ cxt' = [cxt EXCEPT !.pool[Ep] = None])
    BY <1>3, ReqAt DEF try_address, look
  <2> QED
    BY <1>1, <2>1
<1>4. CASE conn_get_by_endpoint
  <2>1. cur' = cur /\ pc["req"] # "fetch"
        /\ (cxt' = cxt \/ \E s \in Servers : cxt' = [cxt EXCEPT !.pool[Ep] = s])
    BY <1>4, ReqAt DEF conn_get_by_endpoint, Fresh
  <2> QED
    BY <1>1, <2>1
<1>5. CASE connected
  <2>1. cur' = cur /\ pc["req"] # "fetch" /\ cxt' = [cxt EXCEPT !.pool[Ep] = srv]
    BY <1>5, ReqAt DEF connected, look
  <2> QED
    BY <1>1, <2>1
<1>6. CASE req_fetch
  <2>1. CASE cur' = cur /\ cxt' = cxt /\ (pc' = pc \/ Goto("req", "finish"))
    <3>1. pc'["req"] \notin Unlisted
      BY <1>0, <1>6, <2>1, PcFacts, ReqAt DEF Goto, Coros, ReqLabels, Unlisted
    <3> QED
      BY <2>1, <3>1 DEF Kept
  <2>2. CASE cxt' = cxt /\ \E kind \in Kinds, host \in Hosts :
                               cur' = [id |-> cur.id + 1, kind |-> kind, host |-> host]
    BY <2>2 DEF Fetched
  <2> QED
    BY <1>6, <2>1, <2>2 DEF req_fetch, conn_try_io, look
<1>7. CASE forward_http \/ enlist_connect
  <2>1. CASE cxt' = cxt
    BY <1>1, <1>7, <2>1, ReqAt DEF forward_http, enlist_connect, conn_try_io, look
  <2>2. CASE cxt' = [cxt EXCEPT !.list = Append(@, Listed)]
             /\ \E l \in {"copy_read", "connect_ok"} : Goto("req", l)
    <3>1. cxt'.list = Append(cxt.list, Listed)
      BY <1>0, <2>2 DEF CxtOk
    <3>2. pc'["req"] \notin Unlisted /\ pc["req"] \in Unlisted
      BY <1>0, <1>7, <2>2, PcFacts, ReqAt DEF Goto, Coros, ReqLabels, Unlisted
    <3>3. cur' = cur
      BY <1>7 DEF forward_http, enlist_connect, conn_try_io, look
    <3> QED
      BY <3>1, <3>2, <3>3 DEF Appended
  <2> QED
    BY <1>7, <2>1, <2>2 DEF forward_http, enlist_connect, conn_try_io, Enlist
<1>8. CASE req_finish
  <2>1. \/ cxt' = [cxt EXCEPT !.req_will_exit = TRUE]
        \/ cxt' = [cxt EXCEPT !.req_will_exit = TRUE, !.req_blocked = TRUE]
    BY <1>8 DEF req_finish
  <2>2. cxt'.list = cxt.list /\ cur' = cur /\ pc["req"] # "fetch"
    BY <1>0, <1>8, <2>1, ReqAt DEF CxtOk, req_finish, look
  <2> QED
    BY <1>0, <2>2 DEF Kept
<1>9. CASE req_clean
  <2>1. cxt'.list = <<>> /\ cur' = cur /\ pc["req"] = "clean"
    BY <1>0, <1>9, ReqAt DEF req_clean, CxtOk, look
  <2> QED
    BY <1>0, <2>1 DEF Emptied, Unlisted
<1> QED
  BY <1>2, <1>3, <1>4, <1>5, <1>6, <1>7, <1>8, <1>9 DEF ReqHandler

\* Every other step keeps the list or removes its head.
LEMMA OthersList ==
  ASSUME IInv, [Next]_vars, ~(UNCHANGED env /\ ReqHandler)
  PROVE  Kept \/ Removed
<1>0. Control /\ CxtOk
  BY DEF IInv, Own
<1>1. CASE UNCHANGED vars
  BY <1>1 DEF vars, look, Kept
<1>2. CASE UNCHANGED env /\ RspHandler
  <2>1. RspFlow
    BY <1>2, RspFlows
  <2>2. cur' = cur /\ pc'["req"] = pc["req"]
    BY <2>1 DEF RspFlow, RspTurn, look
  <2>3. CASE rsp_exit
    <3>1. cxt'.list = cxt.list
      BY <1>0, <2>3 DEF rsp_exit, CxtOk
    <3> QED
      BY <2>2, <3>1 DEF Kept
  <2>4. CASE RspKeeps
    BY <2>2, <2>4 DEF Kept, RspKeeps
  <2>5. CASE Answers \/ AnswersClosed
    <3>1. pc["rsp"] \in Busy /\ cxt'.list = Tail(cxt.list)
      BY <2>5 DEF Answers, AnswersClosed, Busy
    <3> QED
      BY <2>2, <3>1 DEF Removed, IInv, Own, Numbers
  <2>6. CASE FollowsNull
    <3>1. rsp_post
      BY <1>2, <2>6, RspAt DEF FollowsNull, RspHandler
    <3>2. cxt' = cxt
      BY <2>6, <3>1 DEF FollowsNull, rsp_post
    <3> QED
      BY <2>2, <3>2 DEF Kept
  <2> QED
    BY <1>2, <2>3, <2>4, <2>5, <2>6, RspEffects
<1>3. ASSUME NEW k \in Coros, NEW ret \in {-1, 0, 1}, Wakes(k, ret), cur' = cur PROVE Kept
  <2>1. pc'["req"] \in Unlisted => pc["req"] \in Unlisted
    BY <1>0, <1>3, WakesTo DEF Wakes, Coros, Unlisted
  <2> QED
    BY <1>3, <2>1 DEF Wakes, Kept
<1>4. CASE UNCHANGED env /\ event_work
  <2>1. EventTaken
    BY <1>4, EventsTaken
  <2>2. Owner(queue[1].to) \in Coros /\ (IF queue[1].more THEN 0 ELSE 1) \in {-1, 0, 1}
    BY DEF Owner, Coros
  <2> QED
    BY <1>3, <2>1, <2>2 DEF EventTaken, look, Kept
<1>5. CASE UNCHANGED env /\ conn_epoll_handler
  <2>1. CallMade
    BY <1>5, CallsMade
  <2>2. agenda[1].k \in Coros /\ (IF agenda[1].err THEN -1 ELSE 0) \in {-1, 0, 1}
    BY <2>1 DEF CallMade, Calls
  <2> QED
    BY <1>3, <2>1, <2>2 DEF CallMade, look, Kept
<1>6. CASE epoll_wait \/ net_pull_work \/ dns_notify_handler \/ (\E c \in Conns : PeerCloses(c))
           \/ proxy_done \/ net_pull_done
  <2>1. UNCHANGED <<cxt, cur, pc>>
    BY <1>6 DEF epoll_wait, net_pull_work, dns_notify_handler, PeerCloses, proxy_done, net_pull_done, look
  <2> QED
    BY <2>1 DEF Kept
<1> QED
  BY <1>1, <1>2, <1>4, <1>5, <1>6 DEF Next, Step, MainLoop

\* The list is sorted, and the request req works on comes after the ones in it.
Sorted == /\ \A i \in 1 .. Len(cxt.list) :
                 /\ cxt.list[i].id <= cur.id
                 /\ pc["req"] \in Unlisted => cxt.list[i].id < cur.id
          /\ \A i, j \in 1 .. Len(cxt.list) : i < j => cxt.list[i].id < cxt.list[j].id

\* What the list is made of.
LEMMA ListTypes ==
  ASSUME IInv
  PROVE  /\ cxt.list \in Seq(Requests) /\ cur.id \in Nat
         /\ \A i \in 1 .. Len(cxt.list) : cxt.list[i].id \in Nat
<1>1. cxt.list \in Seq(Requests) /\ cur.id \in 0 .. world.reqs /\ world \in Worlds
  BY DEF IInv, Own, CxtOk, Numbers, Control
<1>2. world.reqs \in Nat
  BY <1>1, SessionAssumption DEF World
<1>3. \A i \in 1 .. Len(cxt.list) : cxt.list[i] \in Requests
  BY <1>1
<1> QED
  BY <1>1, <1>2, <1>3 DEF Requests

\* Every step keeps Sorted.
LEMMA SortedStep ==
  ASSUME IInv, Sorted, [Next]_vars
  PROVE  Sorted'
<1>0. /\ cxt.list \in Seq(Requests) /\ cur.id \in Nat
      /\ \A i \in 1 .. Len(cxt.list) : cxt.list[i].id \in Nat
  BY ListTypes
<1>1. Kept \/ Fetched \/ Appended \/ Emptied \/ Removed
  BY ReqLists, OthersList DEF Next
<1>2. CASE Kept
  BY <1>2 DEF Kept, Sorted
<1>3. CASE Fetched
  BY <1>0, <1>3 DEF Fetched, Sorted
<1>4. CASE Appended
  <2>1. Len(cxt'.list) = Len(cxt.list) + 1 /\ Len(cxt.list) \in Nat
    BY <1>0, <1>4 DEF Appended
  <2>2. \A i \in 1 .. Len(cxt.list) : cxt'.list[i] = cxt.list[i]
    BY <1>0, <1>4 DEF Appended
  <2>3. cxt'.list[Len(cxt.list) + 1].id = cur.id
    BY <1>0, <1>4 DEF Appended, Listed
  <2>4. \A i \in 1 .. Len(cxt.list) : cxt.list[i].id < cur.id
    BY <1>4 DEF Sorted, Appended
  <2>5. \A i \in 1 .. Len(cxt'.list) : i \in 1 .. Len(cxt.list) \/ i = Len(cxt.list) + 1
    BY <2>1
  <2>6. \A i, j \in 1 .. Len(cxt'.list) : i < j => cxt'.list[i].id < cxt'.list[j].id
    <3>1. SUFFICES ASSUME NEW i \in 1 .. Len(cxt'.list), NEW j \in 1 .. Len(cxt'.list), i < j
                   PROVE  cxt'.list[i].id < cxt'.list[j].id
      OBVIOUS
    <3>2. i \in 1 .. Len(cxt.list)
      BY <2>1, <3>1
    <3>3. CASE j \in 1 .. Len(cxt.list)
      BY <2>2, <3>1, <3>2, <3>3 DEF Sorted
    <3>4. CASE j = Len(cxt.list) + 1
      BY <2>2, <2>3, <2>4, <3>2, <3>4
    <3> QED
      BY <2>5, <3>3, <3>4
  <2> QED
    BY <1>0, <1>4, <2>2, <2>3, <2>4, <2>5, <2>6 DEF Sorted, Appended
<1>5. CASE Emptied
  <2>1. Len(cxt'.list) = 0
    BY <1>5 DEF Emptied
  <2> QED
    BY <2>1 DEF Sorted
<1>6. CASE Removed
  <2>1. /\ Len(cxt'.list) = Len(cxt.list) - 1 /\ Len(cxt.list) \in Nat \ {0}
        /\ \A i \in 1 .. Len(cxt'.list) : cxt'.list[i] = cxt.list[i + 1]
    BY <1>0, <1>6 DEF Removed
  <2>2. \A i \in 1 .. Len(cxt'.list) : i + 1 \in 1 .. Len(cxt.list)
    BY <2>1
  <2> QED
    BY <1>0, <1>6, <2>1, <2>2 DEF Sorted, Removed
<1> QED
  BY <1>1, <1>2, <1>3, <1>4, <1>5, <1>6

\* The list is always sorted, in every world.
LEMMA AlwaysSorted == Spec => []Sorted
<1>1. Init => Sorted
  BY DEF Init, Sorted, NewCxt
<1>2. IInv /\ Sorted /\ [Next]_vars => Sorted'
  BY SortedStep
<1> QED
  BY <1>1, <1>2, AlwaysIInv, PTL DEF Spec

\* req writes to the client itself only at these labels.
LEMMA ReqSends ==
  ASSUME IInv, UNCHANGED env, ReqHandler
  PROVE  sent' = sent \/ (~exiting /\ pc["req"] \in {"bad_request", "bad_gateway", "connect_ok"})
<1>1. CASE req_top \/ req_fetch \/ net_dns_lookup_a \/ dns_final \/ try_address
           \/ conn_get_by_endpoint \/ connected \/ conn_failed \/ forward_http \/ enlist_connect
           \/ conn_copy_read("req") \/ conn_copy_write("req") \/ CopyEnds("req")
           \/ req_copied \/ req_copy_failed \/ release \/ req_finish \/ req_clean
  BY <1>1 DEF req_top, req_fetch, net_dns_lookup_a, dns_final, try_address, conn_get_by_endpoint,
              connected, conn_failed, forward_http, enlist_connect, conn_copy_read, conn_copy_write,
              CopyEnds, req_copied, req_copy_failed, release, req_finish, req_clean, conn_try_io, hist
<1>2. CASE net_bad_request \/ req_bad_gateway \/ connect_ok
  BY <1>2 DEF net_bad_request, req_bad_gateway, connect_ok, ReplyTo, WriteOk, conn_try_io, hist, At
<1> QED
  BY <1>1, <1>2 DEF ReqHandler

\* rsp writes the reply to the oldest request.
LEMMA RspSends ==
  ASSUME IInv, UNCHANGED env, RspHandler
  PROVE  \/ sent' = sent
         \/ sent' = Replied(Oldest.id) /\ pc["rsp"] \in Busy /\ Kept
<1>1. CASE rsp_top \/ rsp_fetch \/ rsp_framing \/ conn_copy_read("rsp") \/ conn_copy_write("rsp")
           \/ CopyEnds("rsp") \/ rsp_copy_over \/ rsp_post \/ rsp_exit
  BY <1>1 DEF rsp_top, rsp_fetch, rsp_framing, conn_copy_read, conn_copy_write, CopyEnds,
              rsp_copy_over, rsp_post, rsp_exit, conn_try_io, hist
<1>2. CASE rsp_bad_gateway \/ rsp_header
  <2>1. /\ sent' = sent \/ sent' = Replied(Oldest.id)
        /\ pc["rsp"] \in {"header", "bad_gateway"} /\ cxt' = cxt /\ cur' = cur
    BY <1>2 DEF rsp_bad_gateway, rsp_header, ReplyTo, conn_try_io, hist, At, look
  <2>2. pc'["req"] = pc["req"]
    BY RspFlows DEF RspFlow, RspTurn
  <2> QED
    BY <2>1, <2>2 DEF Kept, Busy
<1> QED
  BY <1>1, <1>2 DEF RspHandler

\* No other step writes to the client.
LEMMA OthersSend ==
  ASSUME [Next]_vars, ~(UNCHANGED env /\ (ReqHandler \/ RspHandler))
  PROVE  sent' = sent
BY DEF Next, Step, MainLoop, event_work, epoll_wait, net_pull_work, conn_epoll_handler,
       dns_notify_handler, PeerCloses, proxy_done, net_pull_done, hist, vars

\* What is sent is in order, and not ahead of the requests still to be answered.
InTurn == /\ sent \in Seq(Nat) /\ InOrder
          /\ sent # <<>> => /\ sent[Len(sent)] <= cur.id
                            /\ \A i \in 1 .. Len(cxt.list) : sent[Len(sent)] <= cxt.list[i].id

\* A step that sends nothing keeps InTurn: the ids of requests grow.
LEMMA InTurnKept ==
  ASSUME IInv, InTurn, [Next]_vars, sent' = sent
  PROVE  InTurn'
<1>0. /\ cxt.list \in Seq(Requests) /\ cur.id \in Nat
      /\ \A i \in 1 .. Len(cxt.list) : cxt.list[i].id \in Nat
  BY ListTypes
<1>1. Kept \/ Fetched \/ Appended \/ Emptied \/ Removed
  BY ReqLists, OthersList DEF Next
<1>2. sent' \in Seq(Nat) /\ InOrder'
  BY DEF InTurn, InOrder
<1>3. SUFFICES ASSUME sent # <<>>
               PROVE  /\ sent[Len(sent)] <= cur'.id
                      /\ \A i \in 1 .. Len(cxt'.list) : sent[Len(sent)] <= cxt'.list[i].id
  BY <1>2 DEF InTurn
<1>4. /\ sent[Len(sent)] \in Nat /\ sent[Len(sent)] <= cur.id
      /\ \A i \in 1 .. Len(cxt.list) : sent[Len(sent)] <= cxt.list[i].id
  BY <1>3 DEF InTurn
<1>5. CASE Kept \/ Fetched
  BY <1>0, <1>4, <1>5 DEF Kept, Fetched
<1>6. CASE Appended
  <2>1. Len(cxt'.list) = Len(cxt.list) + 1 /\ Len(cxt.list) \in Nat
    BY <1>0, <1>6 DEF Appended
  <2>2. \A i \in 1 .. Len(cxt.list) : cxt'.list[i] = cxt.list[i]
    BY <1>0, <1>6 DEF Appended
  <2>3. cxt'.list[Len(cxt.list) + 1].id = cur.id /\ cur' = cur
    BY <1>0, <1>6 DEF Appended, Listed
  <2>4. \A i \in 1 .. Len(cxt'.list) : i \in 1 .. Len(cxt.list) \/ i = Len(cxt.list) + 1
    BY <2>1
  <2>5. ASSUME NEW i \in 1 .. Len(cxt'.list) PROVE sent[Len(sent)] <= cxt'.list[i].id
    <3>1. CASE i \in 1 .. Len(cxt.list)
      BY <1>4, <2>2, <3>1
    <3>2. CASE i = Len(cxt.list) + 1
      BY <1>4, <2>3, <3>2
    <3> QED
      BY <2>4, <3>1, <3>2
  <2> QED
    BY <1>4, <2>3, <2>5
<1>7. CASE Emptied
  <2>1. Len(cxt'.list) = 0 /\ cur' = cur
    BY <1>7 DEF Emptied
  <2> QED
    BY <1>4, <2>1
<1>8. CASE Removed
  <2>1. /\ Len(cxt'.list) = Len(cxt.list) - 1 /\ Len(cxt.list) \in Nat \ {0} /\ cur' = cur
        /\ \A i \in 1 .. Len(cxt'.list) : cxt'.list[i] = cxt.list[i + 1]
    BY <1>0, <1>8 DEF Removed
  <2>2. \A i \in 1 .. Len(cxt'.list) : i + 1 \in 1 .. Len(cxt.list)
    BY <2>1
  <2> QED
    BY <1>4, <2>1, <2>2
<1> QED
  BY <1>1, <1>5, <1>6, <1>7, <1>8

\* A reply to the oldest request keeps it.
LEMMA InTurnReply ==
  ASSUME IInv, Sorted, InTurn, sent' = Replied(Oldest.id), pc["rsp"] \in Busy, Kept
  PROVE  InTurn'
<1>0. /\ cxt.list \in Seq(Requests) /\ cur.id \in Nat
      /\ \A i \in 1 .. Len(cxt.list) : cxt.list[i].id \in Nat
  BY ListTypes
<1>1. cxt.list # <<>> /\ Len(cxt.list) \in Nat \ {0} /\ Oldest = cxt.list[1]
  BY <1>0 DEF IInv, Own, Numbers, Oldest
<1>2. PICK o : o = Oldest.id
  OBVIOUS
<1>3. /\ o \in Nat /\ o <= cur.id /\ \A i \in 1 .. Len(cxt.list) : o <= cxt.list[i].id
  BY <1>0, <1>1, <1>2 DEF Sorted
<1>4. cxt'.list = cxt.list /\ cur' = cur
  BY DEF Kept
<1>5. CASE sent # <<>> /\ Last(sent) = o
  <2>1. sent' = sent
    BY <1>2, <1>5 DEF Replied
  <2> QED
    BY <1>4, <2>1 DEF InTurn, InOrder
<1>6. CASE ~(sent # <<>> /\ Last(sent) = o)
  <2>1. sent' = Append(sent, o) /\ sent \in Seq(Nat)
    BY <1>2, <1>6 DEF Replied, InTurn
  <2>2. /\ Len(sent) \in Nat /\ sent' \in Seq(Nat) /\ Len(sent') = Len(sent) + 1
        /\ sent'[Len(sent) + 1] = o /\ \A i \in 1 .. Len(sent) : sent'[i] = sent[i]
    BY <1>3, <2>1
  <2>3. sent # <<>> => Len(sent) > 0 /\ sent[Len(sent)] \in Nat /\ sent[Len(sent)] # o
    BY <1>6, <2>1 DEF Last
  <2>4. sent # <<>> => sent[Len(sent)] <= o
    BY <1>1, <1>2 DEF InTurn
  <2>5. sent # <<>> => sent[Len(sent)] < o
    BY <1>3, <2>3, <2>4
  <2>6. InOrder'
    <3>1. SUFFICES ASSUME NEW i \in 1 .. Len(sent') - 1 PROVE sent'[i] < sent'[i + 1]
      BY DEF InOrder
    <3>2. CASE i = Len(sent)
      <4>1. sent # <<>>
        BY <2>1, <3>2
      <4> QED
        BY <2>2, <2>5, <3>2, <4>1
    <3>3. CASE i # Len(sent)
      <4>1. i \in 1 .. Len(sent) - 1 /\ i \in 1 .. Len(sent) /\ i + 1 \in 1 .. Len(sent)
        BY <2>2, <3>3
      <4>2. sent[i] < sent[i + 1]
        BY <4>1 DEF InTurn, InOrder
      <4> QED
        BY <2>2, <4>1, <4>2
    <3> QED
      BY <3>2, <3>3
  <2> QED
    BY <1>3, <1>4, <2>2, <2>6 DEF InTurn
<1> QED
  BY <1>5, <1>6

\* While nothing fails req writes nothing to the client.
LEMMA AlwaysInTurn == Spec => [](Calm => InTurn)
<1>1. Init => InTurn
  BY DEF Init, InTurn, InOrder
<1>2. ASSUME IInv, Sorted, InTurn, ~exiting => Plain /\ Quiet, [Next]_vars
      PROVE  InTurn'
  <2>1. CASE UNCHANGED env /\ ReqHandler
    <3>1. run = "req" /\ pc["req"] # "done"
      BY <1>2, <2>1, ReqFlows DEF ReqFlow, ReqTurn, IInv, Own, Control, Coros, Paused
    <3>2. ~exiting => pc["req"] \notin {"bad_request", "bad_gateway", "connect_ok"}
      BY <1>2, <3>1 DEF Plain, Quiet, Over
    <3> QED
      BY <1>2, <2>1, <3>2, ReqSends, InTurnKept
  <2>2. CASE UNCHANGED env /\ RspHandler
    BY <1>2, <2>2, RspSends, InTurnReply, InTurnKept
  <2> QED
    BY <1>2, <2>1, <2>2, OthersSend, InTurnKept
<1>3. Calm => Gentle /\ Benign
  BY DEF Calm, Gentle, Benign
<1>4. /\ IInv /\ Sorted /\ (Gentle /\ ~exiting => Plain) /\ (Benign /\ ~exiting => Quiet)
      /\ (Calm => InTurn) /\ [Next]_vars
      => (Calm => InTurn)'
  BY <1>2, <1>3, SameWorld DEF Calm, Faults, Kinds
<1> QED
  BY <1>1, <1>4, AlwaysIInv, AlwaysSorted, AlwaysPlain, AlwaysQuiet, PTL DEF Spec

(***************************************************************************)
(* While nothing fails and nobody asks for a tunnel, replies reach the     *)
(* client in the order of its requests (README.md:55), also while the      *)
(* process stops: rsp alone writes to the client, and takes the requests   *)
(* from the head of a list that is sorted because req appends to it.       *)
(***************************************************************************)
THEOREM RepliesInOrder == Spec => []SteadyOrder
<1>1. (Calm => InTurn) => SteadyOrder
  BY DEF SteadyOrder, InTurn
<1> QED
  BY <1>1, AlwaysInTurn, PTL

-----------------------------------------------------------------------------
(***************************************************************************)
(* Where nothing goes wrong, until the process exits: no coroutine loses   *)
(* the registration it waits with.                                         *)
(***************************************************************************)
Steady == /\ IInv /\ General /\ Stay /\ Plain /\ Quiet /\ ~exiting /\ Calm
          /\ pc["req"] # "done"

\* Nobody has left, and nobody is about to.
LEMMA NobodyLeft ==
  ASSUME Steady
  PROVE  /\ pc["req"] \notin Over /\ pc["rsp"] \notin {"exit", "done"} /\ ~Closed(Client)
         /\ Faults \cap FaultKinds \subseteq {"shutdown"}
<1>1. ~Closed(Client) /\ pc["req"] \notin Over
  BY DEF Steady, Quiet, Plain
<1> QED
  BY <1>1 DEF Steady, Quiet, LeftLast, Over, Calm

\* req ends only when it has given up.
LEMMA AlwaysSteady == Spec => [](Calm /\ ~exiting => Steady)
<1>1. Init => pc["req"] # "done"
  BY DEF Init, Coros
<1>2. ASSUME Steady, [Next]_vars, ~exiting' PROVE pc'["req"] # "done"
  <2>0. IInv /\ Control /\ pc["req"] # "done" /\ pc["req"] \notin Over
    BY <1>2, NobodyLeft DEF Steady, IInv, Own
  <2>1. CASE UNCHANGED env /\ ReqHandler
    <3>1. ReqEdge(pc["req"], pc'["req"])
      BY <2>0, <2>1, ReqFlows DEF ReqFlow
    <3> QED
      BY <2>0, <3>1 DEF ReqEdge, Over
  <2>2. CASE UNCHANGED env /\ RspHandler
    BY <2>0, <2>2, RspFlows DEF RspFlow, RspTurn
  <2>3. ASSUME NEW k \in Coros, NEW ret \in {-1, 0, 1}, Wakes(k, ret) PROVE pc'["req"] # "done"
    BY <2>0, <2>3, WakesTo DEF Wakes, Coros
  <2>4. CASE UNCHANGED env /\ event_work
    <3>1. EventTaken
      BY <2>0, <2>4, EventsTaken
    <3>2. Owner(queue[1].to) \in Coros /\ (IF queue[1].more THEN 0 ELSE 1) \in {-1, 0, 1}
      BY DEF Owner, Coros
    <3> QED
      BY <2>0, <2>3, <3>1, <3>2 DEF EventTaken
  <2>5. CASE UNCHANGED env /\ conn_epoll_handler
    <3>1. CallMade
      BY <2>0, <2>5, CallsMade
    <3>2. agenda[1].k \in Coros /\ (IF agenda[1].err THEN -1 ELSE 0) \in {-1, 0, 1}
      BY <3>1 DEF CallMade, Calls
    <3> QED
      BY <2>0, <2>3, <3>1, <3>2 DEF CallMade
  <2>6. CASE epoll_wait \/ net_pull_work \/ dns_notify_handler \/ \E c \in Conns : PeerCloses(c)
    BY <2>0, <2>6 DEF epoll_wait, net_pull_work, dns_notify_handler, PeerCloses
  <2>7. CASE UNCHANGED vars
    BY <2>0, <2>7 DEF vars
  <2> QED
    BY <1>2, <2>0, <2>1, <2>2, <2>4, <2>5, <2>6, <2>7, ExitStays DEF Step, MainLoop
<1>3. Calm => Gentle /\ Benign /\ ServersStay
  BY DEF Calm, Gentle, Benign, ServersStay
<1>4. /\ IInv /\ General /\ (ServersStay => Stay) /\ (Gentle /\ ~exiting => Plain)
      /\ (Benign /\ ~exiting => Quiet) /\ (Calm /\ ~exiting => pc["req"] # "done")
      => (Calm /\ ~exiting => Steady)
  BY <1>3 DEF Steady
<1>5. /\ (Calm /\ ~exiting => Steady) /\ IInv /\ [Next]_vars
      => (Calm /\ ~exiting => pc["req"] # "done")'
  BY <1>2, SameWorld, ExitStays DEF Calm, Faults, Kinds
<1>6. Spec => [](Calm /\ ~exiting => pc["req"] # "done")
  BY <1>1, <1>4, <1>5, AlwaysIInv, AlwaysGeneral, AlwaysStay, AlwaysPlain, AlwaysQuiet, PTL DEF Spec
<1> QED
  BY <1>4, <1>6, AlwaysIInv, AlwaysGeneral, AlwaysStay, AlwaysPlain, AlwaysQuiet, PTL

\* A step keeps every handler in its place.
SameHandlers == net'.hr = net.hr /\ net'.hw = net.hw

\* What a step of req does to the handlers: it goes on and leaves them alone, or waits
\* and leaves those of the others alone.
ReqWaitsFor ==
    \/ pc["req"] \in {"fetch", "copy_read"} /\ pc'["req"] = pc["req"]
       /\ Asked(net, net', Client, "read", "req")
    \/ /\ pc["req"] \in {"forward", "copy_write"} /\ pc'["req"] = pc["req"] /\ srv' = srv
       /\ Asked(net, net', srv, "write", "req")
    \/ pc'["req"] = "dns_wait" /\ "dns" \in armed' /\ SameHandlers
    \/ /\ pc'["req"] = "conn_wait" /\ net'.hw = net.hw
       /\ \E s \in Servers : srv' = s /\ s \notin net.fd /\ net'.hr = [net.hr EXCEPT ![s] = "req"]

\* A step of req in these worlds.
LEMMA SteadyReqStep ==
  ASSUME Steady, UNCHANGED env, ReqHandler
  PROVE  (run' = "req" /\ SameHandlers) \/ ReqWaitsFor
<1>0. /\ IInv /\ Control /\ CxtOk /\ NetTypes(net) /\ Stay /\ ~exiting /\ run = "req"
      /\ Client \in Conns /\ Servers \subseteq Conns
  BY ConnTypes, ReqFlows DEF Steady, IInv, Own, NetOk, ReqFlow, ReqTurn
<1>1. pc["req"] \notin Over /\ Faults \cap FaultKinds \subseteq {"shutdown"} /\ ~ReadFails(Client)
  BY NobodyLeft, ClientThere DEF Steady
<1>2. pc["req"] \notin {"bad_request", "conn_failed", "enlist", "connect_ok"}
  BY DEF Steady, Plain
<1>3. ASSUME NEW l, Goto("req", l), net' = net PROVE run' = "req" /\ SameHandlers
  BY <1>3 DEF Goto, SameHandlers
<1>4. ASSUME NEW l, Goto("req", l), RefsOnly(net, net') PROVE run' = "req" /\ SameHandlers
  BY <1>4 DEF Goto, SameHandlers, RefsOnly
<1>5. CASE req_top \/ dns_final \/ CopyEnds("req")
  BY <1>3, <1>5 DEF req_top, dns_final, CopyEnds
<1>6. CASE req_fetch \/ conn_copy_read("req")
  <2>1. pc["req"] \in {"fetch", "copy_read"}
    BY <1>6, ReqAt
  <2>2. CASE conn_try_io("req", Client, "read")
    <3>1. net' = net_pull_set_handler(net, Client, "read", "req") /\ pc' = pc
      BY <2>2 DEF conn_try_io
    <3>2. Asked(net, net', Client, "read", "req")
      BY <1>0, <3>1, AskedAt DEF Coros
    <3> QED
      BY <2>1, <3>1, <3>2 DEF ReqWaitsFor
  <2>3. CASE net' = net /\ \E l \in ReqLabels : Goto("req", l)
    BY <1>3, <2>3
  <2> QED
    BY <1>1, <1>6, <2>2, <2>3 DEF req_fetch, conn_copy_read, Source, ReqLabels
<1>7. CASE net_dns_lookup_a
  <2>1. CASE net' = net /\ \E l \in ReqLabels : Goto("req", l)
    BY <1>3, <2>1
  <2>2. CASE net' = net /\ armed' = armed \cup {"dns"} /\ pc' = [pc EXCEPT !["req"] = "dns_wait"]
    <3>1. pc'["req"] = "dns_wait"
      BY <1>0, <2>2, PcFacts DEF Coros, ReqLabels
    <3> QED
      BY <2>2, <3>1 DEF ReqWaitsFor, SameHandlers
  <2> QED
    BY <1>7, <2>1, <2>2 DEF net_dns_lookup_a, ReqLabels
<1>8. CASE try_address
  <2>0. pc["req"] = "try" /\ Addrs[cur.host] \in Seq(Eps) /\ at \in Nat
    BY <1>0, <1>8, ReqAt, SessionAssumption DEF IInv, Own, Control, Numbers, Unlisted, World, Addrs, Hosts
  <2>1. CASE \E l \in ReqLabels : Goto("req", l) /\ net' = net
    BY <1>3, <2>1
  <2>2. CASE ~(at > Len(Addrs[cur.host])) /\ cxt.pool[Ep] # None
    <3>1. at <= Len(Addrs[cur.host])
      BY <2>0, <2>2
    <3>2. Ep \in Eps
      BY <1>0, <2>0, <3>1, EpType DEF IInv, Own, Unlisted
    <3>3. PICK s : s = cxt.pool[Ep]
      OBVIOUS
    <3>4. s \in Servers /\ s \in Conns /\ InPool(s) /\ ~Closing(s)
      BY <1>0, <2>2, <3>2, <3>3 DEF CxtOk, Stay, Filed, InPool, Closing
    <3>5. ~Closed(s)
      BY <1>0, <3>4, AliveOpen
    <3>6. net' = mem_incref(net, s) /\ Goto("req", AfterConnect)
      BY <1>0, <1>8, <2>2, <3>3, <3>5 DEF try_address
    <3>7. RefsOnly(net, net')
      BY <1>0, <3>4, <3>6, IncrefAt
    <3> QED
      BY <1>4, <3>6, <3>7
  <2> QED
    BY <1>0, <1>8, <2>1, <2>2 DEF try_address, ReqLabels
<1>9. CASE conn_get_by_endpoint
  <2>1. PICK s \in Servers : Begun(s) /\ (Made(s) \/ Awaited(s))
    BY <1>0, <1>1, <1>9, Connects DEF NotBegun, FaultKinds
  <2>2. CASE Made(s)
    BY <2>1, <2>2 DEF Begun, Made, Goto, SameHandlers
  <2>3. CASE Awaited(s)
    <3>1. pc'["req"] = "conn_wait"
      BY <1>0, <2>3, PcFacts DEF Awaited, Coros, ReqLabels
    <3> QED
      BY <2>1, <2>3, <3>1 DEF Begun, Awaited, ReqWaitsFor
  <2> QED
    BY <2>1, <2>2, <2>3
<1>10. CASE connected
  BY <1>0, <1>10, Completes DEF Completed, Goto, SameHandlers
<1>11. ASSUME pc["req"] \in Using PROVE srv \in Servers /\ srv \in Conns /\ InPool(srv) /\ ~WriteFails(srv)
  BY <1>0, <1>11, ServerThere DEF Steady
<1>12. CASE forward_http \/ conn_copy_write("req")
  <2>1. pc["req"] \in {"forward", "copy_write"} /\ pc["req"] \in Using
    BY <1>12, ReqAt DEF Using
  <2>2. CASE conn_try_io("req", srv, "write")
    <3>1. net' = net_pull_set_handler(net, srv, "write", "req") /\ pc' = pc /\ srv' = srv
      BY <2>2 DEF conn_try_io
    <3>2. Asked(net, net', srv, "write", "req")
      BY <1>0, <1>11, <2>1, <3>1, AskedAt DEF Coros
    <3> QED
      BY <2>1, <3>1, <3>2 DEF ReqWaitsFor
  <2>3. CASE Goto("req", "copy_read") /\ (net' = net \/ net' = mem_incref(net, srv))
    <3>1. net' = mem_incref(net, srv) => RefsOnly(net, net')
      BY <1>0, <1>11, <2>1, IncrefAt
    <3> QED
      BY <1>3, <1>4, <2>3, <3>1
  <2> QED
    BY <1>11, <1>12, <2>1, <2>2, <2>3 DEF forward_http, conn_copy_write, Target, Enlist
<1>13. CASE req_copied
  <2>1. /\ srv \in Servers /\ srv \in Conns /\ InPool(srv) /\ net' = mem_decref(net, srv)
        /\ Goto("req", "top")
    BY <1>11, <1>13, ReqAt DEF Using, req_copied
  <2>2. net.ref[srv] = One(InPool(srv)) + Count(cxt.list, srv) + One(srv = srv)
        /\ Count(cxt.list, srv) \in Nat
    BY <1>0, <2>1, CountType DEF Stay, Balanced, CxtOk
  <2>3. net.ref[srv] > 1
    BY <2>1, <2>2 DEF One
  <2>4. RefsOnly(net, net')
    BY <1>0, <2>1, <2>3, DecrefAt
  <2> QED
    BY <1>4, <2>1, <2>4
<1> QED
  BY <1>1, <1>2, <1>5, <1>6, <1>7, <1>8, <1>9, <1>10, <1>12, <1>13, ReqAt DEF ReqHandler, Over

\* What a step of rsp does to them.
RspWaitsFor ==
    \/ pc'["rsp"] = "idle" /\ SameHandlers
    \/ /\ pc["rsp"] \in {"fetch", "copy_read"} /\ pc'["rsp"] = pc["rsp"]
       /\ Asked(net, net', Oldest.srv, "read", "rsp")
    \/ /\ pc["rsp"] \in {"header", "copy_write"} /\ pc'["rsp"] = pc["rsp"]
       /\ Asked(net, net', Client, "write", "rsp")

\* A step of rsp in these worlds.
LEMMA SteadyRspStep ==
  ASSUME Steady, UNCHANGED env, RspHandler
  PROVE  (run' = "rsp" /\ SameHandlers) \/ RspWaitsFor
<1>0. /\ IInv /\ Control /\ CxtOk /\ NetTypes(net) /\ Stay /\ ~exiting /\ run = "rsp"
      /\ Client \in Conns /\ Servers \subseteq Conns
  BY ConnTypes, RspFlows DEF Steady, IInv, Own, NetOk, RspFlow, RspTurn
<1>1. /\ pc["rsp"] \notin {"exit", "done"} /\ Faults \cap FaultKinds \subseteq {"shutdown"}
      /\ ~Closed(Client) /\ ~WriteFails(Client)
  BY NobodyLeft, ClientThere DEF Steady
<1>2. /\ pc["rsp"] \notin {"bad_gateway", "copy_failed"} /\ (pc["rsp"] = "copied" => mode["rsp"] # "close")
  BY DEF Steady, Quiet, Unfailed
<1>3. ASSUME NEW l, Goto("rsp", l), net' = net PROVE run' = "rsp" /\ SameHandlers
  BY <1>3 DEF Goto, SameHandlers
<1>4. ASSUME pc["rsp"] \in Busy
      PROVE  /\ Oldest.srv \in Servers /\ Oldest.srv \in Conns /\ InPool(Oldest.srv)
             /\ ~Closed(Oldest.srv) /\ ~ReadFails(Oldest.srv)
             /\ Count(cxt.list, Oldest.srv) \in Nat /\ Count(cxt.list, Oldest.srv) > 0
  <2>1. /\ Oldest.srv \in Servers /\ Oldest.srv \in Conns /\ InPool(Oldest.srv)
        /\ Count(cxt.list, Oldest.srv) \in Nat /\ Count(cxt.list, Oldest.srv) > 0
    BY <1>0, <1>4, BusyPooled
  <2>2. ~Closing(Oldest.srv)
    BY <1>1 DEF Closing
  <2> QED
    BY <1>0, <2>1, <2>2, AliveOpen
<1>5. CASE rsp_framing \/ CopyEnds("rsp") \/ rsp_copy_over
  BY <1>1, <1>2, <1>3, <1>5, RspAt DEF rsp_framing, CopyEnds, rsp_copy_over
<1>6. CASE rsp_fetch \/ conn_copy_read("rsp")
  <2>1. pc["rsp"] \in {"fetch", "copy_read"} /\ pc["rsp"] \in Busy
    BY <1>6, RspAt DEF Busy
  <2>2. CASE conn_try_io("rsp", Oldest.srv, "read")
    <3>1. net' = net_pull_set_handler(net, Oldest.srv, "read", "rsp") /\ pc' = pc
      BY <2>2 DEF conn_try_io
    <3>2. Asked(net, net', Oldest.srv, "read", "rsp")
      BY <1>0, <1>4, <2>1, <3>1, AskedAt DEF Coros
    <3> QED
      BY <2>1, <3>1, <3>2 DEF RspWaitsFor
  <2>3. CASE net' = net /\ \E l \in RspLabels : Goto("rsp", l)
    BY <1>3, <2>3
  <2> QED
    BY <1>1, <1>4, <1>6, <2>1, <2>2, <2>3
    DEF rsp_fetch, conn_copy_read, Source, Oldest, RspLabels, FaultKinds
<1>7. CASE rsp_header \/ conn_copy_write("rsp")
  <2>1. pc["rsp"] \in {"header", "copy_write"}
    BY <1>7, RspAt
  <2>2. CASE conn_try_io("rsp", Client, "write")
    <3>1. net' = net_pull_set_handler(net, Client, "write", "rsp") /\ pc' = pc
      BY <2>2 DEF conn_try_io
    <3>2. Asked(net, net', Client, "write", "rsp")
      BY <1>0, <3>1, AskedAt DEF Coros
    <3> QED
      BY <2>1, <3>1, <3>2 DEF RspWaitsFor
  <2>3. CASE net' = net /\ \E l \in RspLabels : Goto("rsp", l)
    BY <1>3, <2>3
  <2> QED
    BY <1>1, <1>7, <2>2, <2>3 DEF rsp_header, ReplyTo, conn_copy_write, Target, RspLabels
<1>8. CASE rsp_top
  <2>1. CASE net' = net /\ \E l \in RspLabels : Goto("rsp", l)
    BY <1>3, <2>1
  <2>2. CASE net' = net /\ pc' = [pc EXCEPT !["rsp"] = "idle"]
    <3>1. pc'["rsp"] = "idle"
      BY <1>0, <2>2, PcFacts DEF Coros, RspLabels
    <3> QED
      BY <2>2, <3>1 DEF RspWaitsFor, SameHandlers
  <2>3. CASE cxt.list # <<>> /\ net.ref[Oldest.srv] = 0
    <3>1. cxt.list \in Seq(Requests) /\ Len(cxt.list) \in Nat \ {0} /\ Oldest = cxt.list[1]
      BY <1>0, <2>3 DEF CxtOk, Oldest
    <3>2. Oldest.srv \in Servers
      BY <1>0, <3>1, ListedServers
    <3>3. Count(cxt.list, Oldest.srv) > 0 /\ Count(cxt.list, Oldest.srv) \in Nat
      BY <3>1, CountType
    <3>4. net.ref[Oldest.srv] = One(InPool(Oldest.srv)) + Count(cxt.list, Oldest.srv) + One(srv = Oldest.srv)
      BY <1>0, <3>2 DEF Stay, Balanced
    <3> QED
      BY <2>3, <3>3, <3>4 DEF One
  <2> QED
    BY <1>0, <1>1, <1>8, <2>1, <2>2, <2>3 DEF rsp_top, NextRequest, RspLabels
<1>9. CASE rsp_post
  <2>1. pc["rsp"] \in Busy
    BY <1>9, RspAt DEF Busy
  <2>2. CASE Goto("rsp", "top") /\ net' = net
    BY <1>3, <2>2
  <2>3. CASE Goto("rsp", "top") /\ net' = mem_decref(net, Oldest.srv)
    <3>1. net.ref[Oldest.srv] = One(InPool(Oldest.srv)) + Count(cxt.list, Oldest.srv) + One(srv = Oldest.srv)
      BY <1>0, <1>4, <2>1 DEF Stay, Balanced
    <3>2. net.ref[Oldest.srv] > 1
      BY <1>4, <2>1, <3>1 DEF One
    <3>3. PICK s : s = Oldest.srv
      OBVIOUS
    <3>4. s \in Conns /\ net.ref[s] > 1 /\ net' = mem_decref(net, s)
      BY <1>4, <2>1, <2>3, <3>2, <3>3
    <3>5. RefsOnly(net, net')
      BY <1>0, <3>4, DecrefAt
    <3> QED
      BY <2>3, <3>5 DEF Goto, RefsOnly, SameHandlers
  <2> QED
    BY <1>4, <1>9, <2>1, <2>2, <2>3 DEF rsp_post
<1> QED
  BY <1>1, <1>2, <1>5, <1>6, <1>7, <1>8, <1>9, RspAt DEF RspHandler

\* The main loop is about to call a handler of k.
Pending(k) == \E i \in 1 .. Len(agenda) : agenda[i].k = k

\* req is registered for what it waits for, and so is rsp.
ReqRegistered == /\ pc["req"] \in {"fetch", "copy_read"} => net.hr[Client] = "req"
                 /\ pc["req"] = "conn_wait" => net.hr[srv] = "req"
                 /\ pc["req"] \in {"forward", "copy_write"} => net.hw[srv] = "req"
                 /\ pc["req"] = "dns_wait" => "dns" \in armed
RspRegistered == /\ pc["rsp"] \in {"fetch", "copy_read"} => net.hr[Oldest.srv] = "rsp"
                 /\ pc["rsp"] \in {"header", "copy_write"} => net.hw[Client] = "rsp"

Registered == /\ run = "req" \/ Pending("req") \/ ReqRegistered
              /\ run = "rsp" \/ Pending("rsp") \/ RspRegistered

\* req does not take away what rsp waits with.
LEMMA RegisteredReq ==
  ASSUME Steady, Registered, UNCHANGED env, ReqHandler
  PROVE  Registered'
<1>0. /\ IInv /\ Control /\ CxtOk /\ NetOk(net, exiting) /\ run = "req" /\ pc'["rsp"] = pc["rsp"]
      /\ agenda' = agenda /\ Client \in Conns /\ Servers \subseteq Conns /\ Client \notin Servers
      /\ ~exiting /\ net.hr \in [Conns -> Coros \cup {None}] /\ net.reg \subseteq net.fd
  BY ConnTypes, ReqFlows, SessionAssumption DEF Steady, IInv, Own, NetOk, NetTypes, ReqFlow, ReqTurn
<1>1. (run' = "req" /\ SameHandlers) \/ ReqWaitsFor
  BY SteadyReqStep
<1>2. ASSUME pc["req"] \in Using PROVE srv \in Servers /\ srv \in net.reg
  BY <1>0, <1>2, ServerThere DEF Steady
<1>3. Client \in net.reg
  BY ClientThere DEF Steady
<1>4. run' = "req" \/ ReqRegistered'
  <2>1. CASE run' = "req"
    BY <2>1
  <2>2. CASE pc["req"] \in {"fetch", "copy_read"} /\ pc'["req"] = pc["req"]
             /\ Asked(net, net', Client, "read", "req")
    BY <1>3, <2>2 DEF Asked, ReqRegistered
  <2>3. CASE /\ pc["req"] \in {"forward", "copy_write"} /\ pc'["req"] = pc["req"] /\ srv' = srv
             /\ Asked(net, net', srv, "write", "req")
    BY <1>2, <2>3 DEF Asked, ReqRegistered, Using
  <2>4. CASE pc'["req"] = "dns_wait" /\ "dns" \in armed'
    BY <2>4 DEF ReqRegistered
  <2>5. CASE /\ pc'["req"] = "conn_wait"
             /\ \E s \in Servers : srv' = s /\ s \notin net.fd /\ net'.hr = [net.hr EXCEPT ![s] = "req"]
    BY <1>0, <2>5 DEF ReqRegistered
  <2> QED
    BY <1>1, <2>1, <2>2, <2>3, <2>4, <2>5 DEF ReqWaitsFor
<1>5. Pending("rsp")' \/ RspRegistered'
  <2>1. CASE Pending("rsp")
    BY <1>0, <2>1 DEF Pending
  <2>2. CASE RspRegistered
    <3>1. ASSUME pc["rsp"] \in {"fetch", "copy_read"} PROVE net'.hr[Oldest'.srv] = "rsp"
      <4>1. cxt.list # <<>> /\ cxt.list \in Seq(Requests) /\ Oldest.srv \in Servers
        BY <1>0, <3>1, ConnTypes DEF IInv, Own, Numbers, Busy, CxtOk
      <4>2. cxt'.list = cxt.list \/ cxt'.list = Append(cxt.list, Listed)
        BY <1>0, ReqLists, NobodyLeft DEF Kept, Fetched, Appended, Emptied, Over
      <4>4. Oldest' = Oldest
        BY <4>1, <4>2 DEF Oldest
      <4>5. net.hr[Oldest.srv] = "rsp" /\ Oldest.srv \in net.fd
        BY <1>0, <2>2, <3>1, <4>1, NoNone DEF RspRegistered, NetOk, NetOpen
      <4>6. net'.hr[Oldest.srv] = net.hr[Oldest.srv]
        BY <1>0, <1>1, <4>1, <4>5 DEF SameHandlers, ReqWaitsFor, Asked
      <4> QED
        BY <4>4, <4>5, <4>6
    <3>2. ASSUME pc["rsp"] \in {"header", "copy_write"} PROVE net'.hw[Client] = "rsp"
      <4>1. net.hw[Client] = "rsp"
        BY <2>2, <3>2 DEF RspRegistered
      <4>2. net'.hw[Client] = net.hw[Client]
        BY <1>0, <1>1, <1>2 DEF SameHandlers, ReqWaitsFor, Asked, Using
      <4> QED
        BY <4>1, <4>2
    <3> QED
      BY <1>0, <3>1, <3>2 DEF RspRegistered
  <2> QED
    BY <1>0, <2>1, <2>2 DEF Registered
<1> QED
  BY <1>4, <1>5 DEF Registered

\* rsp does not take away what req waits with.
LEMMA RegisteredRsp ==
  ASSUME Steady, Registered, UNCHANGED env, RspHandler
  PROVE  Registered'
<1>0. /\ IInv /\ Control /\ CxtOk /\ NetOk(net, exiting) /\ run = "rsp" /\ pc'["req"] = pc["req"]
      /\ agenda' = agenda /\ Client \in Conns /\ Servers \subseteq Conns /\ Client \notin Servers
      /\ ~exiting /\ srv' = srv
  BY ConnTypes, RspFlows, SessionAssumption DEF Steady, IInv, Own, RspFlow, RspTurn
<1>1. (run' = "rsp" /\ SameHandlers) \/ RspWaitsFor
  BY SteadyRspStep
<1>2. pc["rsp"] \notin {"exit", "done"} /\ ~Closed(Client) /\ Client \in net.reg
  BY NobodyLeft, ClientThere DEF Steady
<1>3. ASSUME pc["rsp"] \in Busy
      PROVE  Oldest.srv \in Servers /\ ~Closed(Oldest.srv) /\ Oldest.srv \in net.reg
  <2>1. Oldest.srv \in Servers /\ InPool(Oldest.srv)
    BY <1>0, <1>3, BusyPooled DEF Steady
  <2>2. ~Closing(Oldest.srv)
    BY <1>2 DEF Closing
  <2> QED
    BY <1>0, <2>1, <2>2, AliveOpen DEF Steady
<1>4. armed' = armed
  BY <1>2, RspAt DEF RspHandler, rsp_top, rsp_fetch, rsp_bad_gateway, rsp_header, rsp_framing,
     conn_copy_read, conn_copy_write, CopyEnds, rsp_copy_over, rsp_post, ReplyTo, conn_try_io, loop
<1>5. run' = "rsp" \/ RspRegistered'
  <2>1. CASE run' = "rsp"
    BY <2>1
  <2>2. CASE pc'["rsp"] = "idle"
    BY <2>2 DEF RspRegistered
  <2>3. CASE /\ pc["rsp"] \in {"fetch", "copy_read"} /\ pc'["rsp"] = pc["rsp"]
             /\ Asked(net, net', Oldest.srv, "read", "rsp")
    <3>1. RspKeeps
      BY <1>0, <2>3, RspEffects, RspAt DEF Answers, AnswersClosed, FollowsNull
    <3>2. Oldest' = Oldest /\ Oldest.srv \in net.reg
      BY <1>3, <2>3, <3>1 DEF RspKeeps, Oldest, Busy
    <3> QED
      BY <2>3, <3>2 DEF Asked, RspRegistered
  <2>4. CASE /\ pc["rsp"] \in {"header", "copy_write"} /\ pc'["rsp"] = pc["rsp"]
             /\ Asked(net, net', Client, "write", "rsp")
    BY <1>2, <2>4 DEF Asked, RspRegistered
  <2> QED
    BY <1>1, <2>1, <2>2, <2>3, <2>4 DEF RspWaitsFor
<1>6. Pending("req")' \/ ReqRegistered'
  <2>1. CASE Pending("req")
    BY <1>0, <2>1 DEF Pending
  <2>2. CASE ReqRegistered
    <3>1. net'.hr[Client] = net.hr[Client]
      BY <1>0, <1>1, <1>3 DEF SameHandlers, RspWaitsFor, Asked, Busy
    <3>2. ASSUME pc["req"] = "conn_wait" PROVE net'.hr[srv] = net.hr[srv]
      <4>1. srv \in Servers /\ Closed(srv)
        BY <1>0, <3>2 DEF IInv, Own, Serving, Attempt
      <4> QED
        BY <1>0, <1>1, <1>3, <4>1 DEF SameHandlers, RspWaitsFor, Asked, Busy
    <3>3. ASSUME pc["req"] \in {"forward", "copy_write"} PROVE net'.hw[srv] = net.hw[srv]
      <4>1. srv \in Servers
        BY <1>0, <3>3 DEF IInv, Own, Serving, Using
      <4> QED
        BY <1>0, <1>1, <4>1 DEF SameHandlers, RspWaitsFor, Asked
    <3> QED
      BY <1>0, <1>4, <2>2, <3>1, <3>2, <3>3 DEF ReqRegistered
  <2> QED
    BY <1>0, <2>1, <2>2 DEF Registered
<1> QED
  BY <1>5, <1>6 DEF Registered

\* The main loop takes a handler out to call it.
LEMMA RegisteredMain ==
  ASSUME Steady, Registered, UNCHANGED env, MainLoop \/ \E c \in Conns : PeerCloses(c)
  PROVE  Registered'
<1>0. /\ IInv /\ Control /\ NetTypes(net) /\ Client \in Conns /\ Servers \subseteq Conns
      /\ net.hr \in [Conns -> Coros \cup {None}] /\ net.hw \in [Conns -> Coros \cup {None}]
  BY ConnTypes DEF Steady, IInv, Own, NetOk, NetTypes
<1>1. ASSUME UNCHANGED <<pc, run, net, cxt, srv, armed, agenda>> PROVE Registered'
  BY <1>1 DEF Registered, Pending, ReqRegistered, RspRegistered, Oldest
<1>2. ASSUME run = "main", NEW k \in Coros, NEW ret \in {-1, 0, 1}, Wakes(k, ret),
             UNCHANGED <<srv, armed>>, \A j \in Coros \ {k} : Pending(j) => Pending(j)'
      PROVE  Registered'
  <2>1. Oldest' = Oldest /\ net' = net /\ run' = k /\ \A j \in Coros \ {k} : pc'[j] = pc[j]
    BY <1>2 DEF Wakes, Oldest
  <2>3. CASE k = "req"
    <3>1. pc'["rsp"] = pc["rsp"] /\ (Pending("rsp") => Pending("rsp")')
      BY <1>2, <2>1, <2>3 DEF Coros
    <3>2. Pending("rsp") \/ RspRegistered
      BY <1>2 DEF Registered
    <3> QED
      BY <2>1, <2>3, <3>1, <3>2 DEF Registered, RspRegistered
  <2>4. CASE k = "rsp"
    <3>1. pc'["req"] = pc["req"] /\ (Pending("req") => Pending("req")')
      BY <1>2, <2>1, <2>4 DEF Coros
    <3>2. Pending("req") \/ ReqRegistered
      BY <1>2 DEF Registered
    <3> QED
      BY <1>2, <2>1, <2>4, <3>1, <3>2 DEF Registered, ReqRegistered
  <2> QED
    BY <2>3, <2>4 DEF Coros
<1>3. CASE event_work
  <2>1. EventTaken
    BY <1>0, <1>3, EventsTaken
  <2>2. Owner(queue[1].to) \in Coros /\ (IF queue[1].more THEN 0 ELSE 1) \in {-1, 0, 1}
    BY DEF Owner, Coros
  <2>3. UNCHANGED <<srv, armed, agenda>> /\ run = "main" /\ \A j : Pending(j) => Pending(j)'
    BY <2>1 DEF EventTaken, Pending
  <2> QED
    BY <1>1, <1>2, <2>1, <2>2, <2>3 DEF EventTaken
<1>4. CASE conn_epoll_handler
  <2>1. CallMade /\ pc["rsp"] # "done"
    BY <1>0, <1>4, CallsMade, NobodyLeft
  <2>2. PICK k : k = agenda[1].k
    OBVIOUS
  <2>3. PICK ret : ret = IF agenda[1].err THEN -1 ELSE 0
    OBVIOUS
  <2>4. k \in Coros /\ ret \in {-1, 0, 1} /\ Wakes(k, ret)
    BY <2>1, <2>2, <2>3 DEF CallMade, Calls
  <2>5. ASSUME NEW j \in Coros \ {k}, Pending(j) PROVE Pending(j)'
    <3>1. PICK i \in 1 .. Len(agenda) : agenda[i].k = j
      BY <2>5 DEF Pending
    <3>2. i # 1 /\ Len(agenda) \in Nat /\ Len(agenda') = Len(agenda) - 1
      BY <2>1, <2>2, <2>5, <3>1 DEF CallMade
    <3>3. i - 1 \in 1 .. Len(agenda') /\ (i - 1) + 1 = i
      BY <3>1, <3>2
    <3>4. agenda'[i - 1] = agenda[i]
      BY <2>1, <3>3 DEF CallMade
    <3> QED
      BY <3>1, <3>3, <3>4 DEF Pending
  <2>6. UNCHANGED <<srv, armed>> /\ run = "main"
    BY <2>1 DEF CallMade
  <2> QED
    BY <1>2, <2>4, <2>5, <2>6
<1>5. CASE net_pull_work
  <2>1. PICK e \in batch : Handled(e)
    BY <1>0, <1>5, EntriesHandled
  <2>2. CASE e.c \notin net.reg /\ UNCHANGED <<net, agenda>>
    BY <1>1, <2>1, <2>2 DEF Handled
  <2>3. CASE /\ net'.hr = [net.hr EXCEPT ![e.c] = None] /\ net'.hw = [net.hw EXCEPT ![e.c] = None]
             /\ Called(net.hr[e.c], net.hw[e.c], e.err, agenda')
    <3>1. /\ run = "main" /\ agenda = <<>> /\ e.c \in Conns
          /\ UNCHANGED <<pc, run, cxt, srv, armed>>
      BY <2>1 DEF Handled
    <3>2. ~Pending("req") /\ ~Pending("rsp")
      BY <3>1 DEF Pending
    <3>3. ReqRegistered /\ RspRegistered
      BY <3>1, <3>2 DEF Registered
    <3>4. ASSUME NEW k \in Coros, net.hr[e.c] = k \/ net.hw[e.c] = k PROVE Pending(k)'
      <4>1. k \in {net.hr[e.c], net.hw[e.c]} \ {None}
        BY <3>4, NoNone
      <4> QED
        BY <2>3, <4>1 DEF Called, Pending
    <3>5. ASSUME NEW k \in Coros, ~Pending(k)', NEW c \in Conns
          PROVE  (net.hr[c] = k => net'.hr[c] = k) /\ (net.hw[c] = k => net'.hw[c] = k)
      BY <1>0, <2>3, <3>1, <3>4, <3>5
    <3>6. Pending("req")' \/ ReqRegistered'
      <4>1. pc["req"] \in {"conn_wait", "forward", "copy_write"} => srv \in Conns
        BY <1>0 DEF IInv, Own, Serving, Attempt, Using
      <4>2. SUFFICES ASSUME ~Pending("req")' PROVE ReqRegistered'
        OBVIOUS
      <4>3. "req" \in Coros
        BY DEF Coros
      <4> QED
        BY <1>0, <3>1, <3>3, <3>5, <4>1, <4>2, <4>3 DEF ReqRegistered
    <3>7. Pending("rsp")' \/ RspRegistered'
      <4>1. pc["rsp"] \in {"fetch", "copy_read"} => Oldest.srv \in Conns
        BY <1>0, ConnTypes DEF IInv, Own, Numbers, Busy
      <4>2. SUFFICES ASSUME ~Pending("rsp")' PROVE RspRegistered'
        OBVIOUS
      <4>3. "rsp" \in Coros /\ Oldest' = Oldest
        BY <3>1 DEF Coros, Oldest
      <4> QED
        BY <1>0, <3>1, <3>3, <3>5, <4>1, <4>2, <4>3 DEF RspRegistered
    <3> QED
      BY <3>6, <3>7 DEF Registered
  <2> QED
    BY <2>1, <2>2, <2>3 DEF Handled
<1>6. CASE epoll_wait \/ dns_notify_handler \/ \E c \in Conns : PeerCloses(c)
  BY <1>1, <1>6 DEF epoll_wait, dns_notify_handler, PeerCloses, loop
<1> QED
  BY <1>3, <1>4, <1>5, <1>6 DEF MainLoop

\* Registered is an invariant in these worlds, until the process exits.
LEMMA AlwaysRegistered == Spec => [](Calm /\ ~exiting => Registered)
<1>1. Init => Registered
  BY DEF Init, Registered, ReqRegistered, RspRegistered, Coros
<1>2. ASSUME Steady, Registered, [Next]_vars, ~exiting' PROVE Registered'
  <2>1. CASE UNCHANGED vars
    BY <1>2, <2>1 DEF vars, loop, Registered, Pending, ReqRegistered, RspRegistered, Oldest
  <2>2. CASE Step /\ UNCHANGED env
    BY <1>2, <2>2, RegisteredReq, RegisteredRsp, RegisteredMain DEF Step
  <2> QED
    BY <1>2, <2>1, <2>2, ExitStays DEF Steady
<1>3. /\ IInv /\ (Calm /\ ~exiting => Steady) /\ (Calm /\ ~exiting => Registered) /\ [Next]_vars
      => (Calm /\ ~exiting => Registered)'
  BY <1>2, SameWorld, ExitStays DEF Calm, Faults, Kinds
<1> QED
  BY <1>1, <1>3, AlwaysIInv, AlwaysSteady, PTL DEF Spec

-----------------------------------------------------------------------------
(***************************************************************************)
(* The process stops.                                                      *)
(***************************************************************************)
\* proxy_done keeps an entry for every connection of the table.
LEMMA EveryEntryDoomed ==
  ASSUME IInv, proxy_done, NEW c \in net.reg
  PROVE  \E i \in 1 .. Len(doomed') : doomed'[i].hr = net.hr[c] /\ doomed'[i].hw = net.hw[c]
<1>1. PICK servers \in SetToSeqs(net.reg \ {Client}) :
          doomed' = [i \in 1 .. Cardinality(net.reg) |->
                        Doomed((IF Client \in net.reg THEN <<Client>> \o servers ELSE servers)[i])]
  BY DEF proxy_done
<1>2. PICK order : order = IF Client \in net.reg THEN <<Client>> \o servers ELSE servers
  OBVIOUS
<1>3. PICK n : n = Cardinality(net.reg)
  OBVIOUS
<1>4. net.reg \subseteq Conns
  BY DEF IInv, Own, NetOk, NetTypes
<1>5. IsFiniteSet(net.reg)
  BY <1>4, SessionAssumption, FS_AddElement, FS_Subset DEF Conns
<1>6. n \in Nat /\ doomed' = [i \in 1 .. n |-> Doomed(order[i])]
  BY <1>1, <1>2, <1>3, <1>5, FS_CardinalityType
<1>7. PICK m : m = Cardinality(net.reg \ {Client})
  OBVIOUS
<1>8. /\ m \in Nat /\ IsFiniteSet(net.reg \ {Client})
      /\ m = IF Client \in net.reg THEN n - 1 ELSE n
  BY <1>3, <1>5, <1>7, FS_RemoveElement, FS_CardinalityType
<1>9. servers \in [1 .. m -> net.reg \ {Client}] /\ servers \in Injection(1 .. m, net.reg \ {Client})
  BY <1>1, <1>7 DEF SetToSeqs, Injection, IsInjective
<1>10. Cardinality(1 .. m) = m
  BY <1>8, FS_Interval
<1>11. servers \in Surjection(1 .. m, net.reg \ {Client})
  BY <1>7, <1>8, <1>9, <1>10, FS_Injection
<1>12. \E i \in 1 .. n : order[i] = c
  <2>1. CASE Client \notin net.reg
    <3>1. order = servers /\ m = n /\ c # Client
      BY <1>2, <1>8, <2>1
    <3> QED
      BY <1>11, <3>1 DEF Surjection
  <2>2. CASE Client \in net.reg
    <3>1. servers \in Seq(Conns) /\ Len(servers) = m
      <4>1. servers \in [1 .. m -> Conns]
        BY <1>4, <1>9
      <4> QED
        BY <1>8, <4>1
    <3>2. <<Client>> \in Seq(Conns) /\ Len(<<Client>>) = 1 /\ <<Client>>[1] = Client
      BY DEF Conns
    <3>0. order = <<Client>> \o servers
      BY <1>2, <2>2
    <3>3. \A i \in 1 .. 1 + m : order[i] = IF i <= 1 THEN Client ELSE servers[i - 1]
      BY <1>8, <3>0, <3>1, <3>2, ConcatProperties
    <3>4. n = 1 + m
      BY <1>6, <1>8, <2>2
    <3>5. CASE c = Client
      <4>1. 1 \in 1 .. 1 + m /\ 1 <= 1
        BY <1>8
      <4>2. order[1] = Client
        BY <3>3, <4>1
      <4> QED
        BY <3>4, <3>5, <4>1, <4>2
    <3>6. CASE c # Client
      <4>1. PICK i \in 1 .. m : servers[i] = c
        BY <1>11, <3>6 DEF Surjection
      <4>2. i + 1 \in 1 .. 1 + m /\ ~(i + 1 <= 1) /\ (i + 1) - 1 = i
        BY <1>8, <4>1
      <4>3. order[i + 1] = c
        BY <3>3, <4>1, <4>2
      <4> QED
        BY <3>4, <4>2, <4>3
    <3> QED
      BY <3>5, <3>6
  <2> QED
    BY <2>1, <2>2
<1>13. PICK i \in 1 .. n : order[i] = c
  BY <1>12
<1>14. Len(doomed') = n
  BY <1>6
<1>15. doomed'[i] = Doomed(c)
  BY <1>6, <1>13
<1> QED
  BY <1>13, <1>14, <1>15 DEF Doomed

\* net_pull_done has still to tell k.
Listening(k) == \E i \in 1 .. Len(doomed) : doomed[i].hr = k \/ doomed[i].hw = k

\* k is not paused in an I/O operation, or will be told.
Told(k) == \/ pc[k] \in EventWaits \cup {"dns_wait", "done"}
           \/ run = k \/ Pending(k) \/ Listening(k)

\* Where a coroutine waits when the main loop has nothing in hand.
LEMMA WhereItWaits ==
  ASSUME Steady, Registered, run = "main", agenda = <<>>,
         NEW k \in Coros, pc[k] \notin EventWaits \cup {"dns_wait", "done"}
  PROVE  \E c \in net.reg : net.hr[c] = k \/ net.hw[c] = k
<1>0. IInv /\ Control /\ Client \in Conns /\ Servers \subseteq Conns
  BY ConnTypes DEF Steady, IInv, Own
<1>1. ReqRegistered /\ RspRegistered
  BY DEF Registered, Pending
<1>2. CASE k = "req"
  <2>1. pc["req"] \in {"fetch", "copy_read", "conn_wait", "forward", "copy_write"}
    BY <1>0, <1>2, NobodyLeft
    DEF Steady, General, Straight, ReqStraight, Control, ReqLabels, Plain, Over, EventWaits
  <2>2. pc["req"] \in {"conn_wait", "forward", "copy_write"} => srv \in Conns
    BY <1>0 DEF IInv, Own, Serving, Attempt, Using
  <2> QED
    BY <1>0, <1>1, <1>2, <2>1, <2>2, NoNone DEF ReqRegistered, IInv, Own, NetOk, NetOpen
<1>3. CASE k = "rsp"
  <2>1. pc["rsp"] \in {"fetch", "copy_read", "header", "copy_write"}
    BY <1>0, <1>3, NobodyLeft
    DEF Steady, General, Straight, RspStraight, Control, RspLabels, Quiet, Unfailed, EventWaits
  <2>2. pc["rsp"] \in {"fetch", "copy_read"} => Oldest.srv \in Conns
    BY <1>0, ConnTypes DEF IInv, Own, Numbers, Busy
  <2> QED
    BY <1>0, <1>1, <1>3, <2>1, <2>2, NoNone DEF RspRegistered, IInv, Own, NetOk, NetOpen
<1> QED
  BY <1>2, <1>3 DEF Coros

\* A signal finds everybody told.
LEMMA ToldAtOnce ==
  ASSUME Steady, Registered, proxy_done, NEW k \in Coros
  PROVE  Told(k)'
<1>1. /\ run = "main" /\ agenda = <<>> /\ pc' = pc /\ IInv
  BY DEF Steady, proxy_done, MainTurn, Runs
<1>2. CASE pc[k] \in EventWaits \cup {"dns_wait", "done"}
  BY <1>1, <1>2 DEF Told
<1>3. CASE pc[k] \notin EventWaits \cup {"dns_wait", "done"}
  <2>1. PICK c \in net.reg : net.hr[c] = k \/ net.hw[c] = k
    BY <1>1, <1>3, WhereItWaits
  <2>2. PICK i \in 1 .. Len(doomed') : doomed'[i].hr = net.hr[c] /\ doomed'[i].hw = net.hw[c]
    BY <1>1, EveryEntryDoomed
  <2>3. Listening(k)'
    BY <2>1, <2>2 DEF Listening
  <2> QED
    BY <2>3 DEF Told
<1> QED
  BY <1>2, <1>3

\* A coroutine that runs while the process exits does not wait for I/O again.
LEMMA ToldReq ==
  ASSUME IInv, General, exiting, UNCHANGED env, ReqHandler, NEW k \in Coros, Told(k)
  PROVE  Told(k)'
<1>0. /\ ReqFlow /\ Control /\ agenda' = agenda /\ doomed' = doomed /\ run = "req"
      /\ pc'["rsp"] = pc["rsp"]
  BY ReqFlows DEF ReqFlow, ReqTurn, IInv, Own, env
<1>1. CASE k = "rsp"
  BY <1>0, <1>1 DEF Told, Pending, Listening
<1>2. CASE k = "req"
  <2>1. CASE run' = "req"
    BY <1>2, <2>1 DEF Told
  <2>2. CASE net_dns_lookup_a \/ req_finish \/ req_clean
    <3>1. \/ run' = "req"
          \/ \E l \in {"dns_wait", "fin", "done"} : pc' = [pc EXCEPT !["req"] = l]
      BY <2>2 DEF net_dns_lookup_a, req_finish, req_clean, Goto
    <3>2. run' = "req" \/ pc'["req"] \in {"dns_wait", "fin", "done"}
      BY <1>0, <3>1, PcFacts DEF Coros, ReqLabels
    <3> QED
      BY <1>2, <3>2 DEF Told, EventWaits
  <2>3. CASE conn_get_by_endpoint
    BY <2>3, ReqAt DEF General, Leaving
  <2>4. \A c, dir : ~conn_try_io("req", c, dir)
    BY DEF conn_try_io
  <2>5. run' = "req" \/ net_dns_lookup_a \/ req_finish \/ req_clean \/ conn_get_by_endpoint
    <3>1. CASE \/ req_top \/ req_fetch \/ net_bad_request \/ dns_final \/ try_address \/ connected
               \/ conn_failed
      BY <2>4, <3>1 DEF req_top, req_fetch, net_bad_request, dns_final, try_address, connected,
                        conn_failed, ReplyTo, Goto
    <3>2. CASE \/ forward_http \/ enlist_connect \/ connect_ok \/ conn_copy_read("req")
               \/ conn_copy_write("req") \/ CopyEnds("req")
      BY <2>4, <3>2 DEF forward_http, enlist_connect, connect_ok, conn_copy_read, conn_copy_write,
                        CopyEnds, Goto
    <3>3. CASE req_copied \/ req_copy_failed \/ req_bad_gateway \/ release
      BY <2>4, <3>3 DEF req_copied, req_copy_failed, req_bad_gateway, release, ReplyTo, Goto
    <3> QED
      BY <3>1, <3>2, <3>3 DEF ReqHandler
  <2> QED
    BY <2>1, <2>2, <2>3, <2>5
<1> QED
  BY <1>1, <1>2 DEF Coros

\* The same for rsp.
LEMMA ToldRsp ==
  ASSUME IInv, exiting, UNCHANGED env, RspHandler, NEW k \in Coros, Told(k)
  PROVE  Told(k)'
<1>0. /\ RspFlow /\ Control /\ agenda' = agenda /\ doomed' = doomed /\ run = "rsp"
      /\ pc'["req"] = pc["req"]
  BY RspFlows DEF RspFlow, RspTurn, IInv, Own, env
<1>1. CASE k = "req"
  BY <1>0, <1>1 DEF Told, Pending, Listening
<1>2. CASE k = "rsp"
  <2>1. CASE run' = "rsp"
    BY <1>2, <2>1 DEF Told
  <2>2. CASE rsp_exit
    <3>1. pc'["rsp"] = "done"
      BY <1>0, <2>2, PcFacts DEF rsp_exit, Coros, RspLabels
    <3> QED
      BY <1>2, <3>1 DEF Told
  <2>3. \A c, dir : ~conn_try_io("rsp", c, dir)
    BY DEF conn_try_io
  <2>4. run' = "rsp" \/ rsp_exit
    <3>1. CASE rsp_top \/ rsp_fetch \/ rsp_bad_gateway \/ rsp_header \/ rsp_framing
      BY <2>3, <3>1 DEF rsp_top, rsp_fetch, rsp_bad_gateway, rsp_header, rsp_framing, ReplyTo, Goto
    <3>2. CASE \/ conn_copy_read("rsp") \/ conn_copy_write("rsp") \/ CopyEnds("rsp") \/ rsp_copy_over
               \/ rsp_post
      BY <1>0, <2>3, <3>2 DEF conn_copy_read, conn_copy_write, CopyEnds, rsp_copy_over, rsp_post, Goto
    <3> QED
      BY <3>1, <3>2 DEF RspHandler
  <2> QED
    BY <2>1, <2>2, <2>4
<1> QED
  BY <1>1, <1>2 DEF Coros

\* The main loop: what it takes from the entries and the calls it passes on.
LEMMA ToldMain ==
  ASSUME IInv, exiting, NEW k \in Coros, Told(k),
         \/ UNCHANGED env /\ (MainLoop \/ \E c \in Conns : PeerCloses(c))
         \/ net_pull_done
  PROVE  Told(k)'
<1>0. Control
  BY DEF IInv, Own
<1>1. ASSUME UNCHANGED <<pc, run, agenda, doomed>> PROVE Told(k)'
  BY <1>1 DEF Told, Pending, Listening
<1>2. ASSUME NEW j \in Coros, NEW ret \in {-1, 0, 1}, Wakes(j, ret), doomed' = doomed, run = "main",
             j # k /\ Pending(k) => Pending(k)'
      PROVE  Told(k)'
  <2>1. CASE j = k
    BY <1>2, <2>1 DEF Wakes, Told
  <2>2. CASE j # k
    <3>1. pc'[k] = pc[k] /\ run # k
      BY <1>2, <2>2 DEF Wakes, Coros
    <3> QED
      BY <1>2, <2>2, <3>1 DEF Told, Listening
  <2> QED
    BY <2>1, <2>2
<1>3. CASE UNCHANGED env /\ event_work
  <2>1. EventTaken
    BY <1>3, EventsTaken
  <2>2. Owner(queue[1].to) \in Coros /\ (IF queue[1].more THEN 0 ELSE 1) \in {-1, 0, 1}
    BY DEF Owner, Coros
  <2>3. UNCHANGED <<agenda, doomed>> /\ run = "main" /\ (Pending(k) => Pending(k)')
    BY <2>1 DEF EventTaken, Pending, env
  <2> QED
    BY <1>1, <1>2, <2>1, <2>2, <2>3 DEF EventTaken
<1>4. CASE UNCHANGED env /\ conn_epoll_handler
  <2>1. CallMade
    BY <1>4, CallsMade
  <2>2. PICK j : j = agenda[1].k
    OBVIOUS
  <2>3. PICK ret : ret = IF agenda[1].err THEN -1 ELSE 0
    OBVIOUS
  <2>4. j \in Coros /\ ret \in {-1, 0, 1} /\ doomed' = doomed /\ run = "main"
    BY <2>1, <2>2, <2>3 DEF CallMade, Calls, env
  <2>5. ASSUME j # k, Pending(k) PROVE Pending(k)'
    <3>1. PICK i \in 1 .. Len(agenda) : agenda[i].k = k
      BY <2>5 DEF Pending
    <3>2. i # 1 /\ Len(agenda) \in Nat /\ Len(agenda') = Len(agenda) - 1
      BY <2>1, <2>2, <2>5, <3>1 DEF CallMade
    <3>3. i - 1 \in 1 .. Len(agenda') /\ (i - 1) + 1 = i
      BY <3>1, <3>2
    <3>4. agenda'[i - 1] = agenda[i]
      BY <2>1, <3>3 DEF CallMade
    <3> QED
      BY <3>1, <3>3, <3>4 DEF Pending
  <2>6. CASE Wakes(j, ret)
    BY <1>2, <2>4, <2>5, <2>6
  <2>7. CASE j = "rsp" /\ pc["rsp"] = "done" /\ UNCHANGED <<pc, run>>
    <3>1. CASE k = "rsp"
      BY <2>7, <3>1 DEF Told
    <3>2. CASE k # "rsp"
      BY <2>4, <2>5, <2>7, <3>2 DEF Told, Listening
    <3> QED
      BY <3>1, <3>2
  <2> QED
    BY <2>1, <2>2, <2>3, <2>6, <2>7 DEF CallMade
<1>5. CASE net_pull_done
  <2>0. StopTold
    BY <1>5, StopsTell
  <2>2. pc' = pc /\ run' = "main" /\ run = "main" /\ agenda = <<>>
    BY <2>0 DEF StopTold
  <2>3. /\ doomed # <<>> /\ doomed \in Seq(Entries) /\ doomed' = Tail(doomed)
        /\ Called(Head(doomed).hr, Head(doomed).hw, TRUE, agenda')
    BY <2>0 DEF StopTold
  <2>1. Len(doomed) \in Nat
    BY <2>3
  <2>4. CASE Listening(k)
    <3>1. PICK i \in 1 .. Len(doomed) : doomed[i].hr = k \/ doomed[i].hw = k
      BY <2>4 DEF Listening
    <3>2. /\ Len(doomed') = Len(doomed) - 1 /\ Head(doomed) = doomed[1]
          /\ \A m \in 1 .. Len(doomed') : doomed'[m] = doomed[m + 1]
      BY <2>3
    <3>3. CASE i = 1
      <4>1. k \in {Head(doomed).hr, Head(doomed).hw} \ {None}
        BY <3>1, <3>2, <3>3, NoNone
      <4>2. Pending(k)'
        BY <2>3, <4>1 DEF Called, Pending
      <4> QED
        BY <4>2 DEF Told
    <3>4. CASE i # 1
      <4>1. i - 1 \in 1 .. Len(doomed') /\ (i - 1) + 1 = i
        BY <2>1, <3>1, <3>2, <3>4
      <4>2. doomed'[i - 1] = doomed[i]
        BY <3>2, <4>1
      <4>3. Listening(k)'
        BY <3>1, <4>1, <4>2 DEF Listening
      <4> QED
        BY <4>3 DEF Told
    <3> QED
      BY <3>3, <3>4
  <2>5. ~Pending(k) /\ run # k
    BY <2>2 DEF Pending, Coros
  <2> QED
    BY <2>2, <2>4, <2>5 DEF Told
<1>6. CASE UNCHANGED env /\ net_pull_work
  <2>1. PICK e \in batch : Handled(e)
    BY <1>6, EntriesHandled
  <2>2. /\ UNCHANGED <<pc, run, doomed>> /\ agenda = <<>>
    BY <2>1 DEF Handled, env
  <2> QED
    BY <2>2 DEF Told, Pending, Listening
<1>7. CASE UNCHANGED env /\ (epoll_wait \/ dns_notify_handler \/ \E c \in Conns : PeerCloses(c))
  BY <1>1, <1>7 DEF epoll_wait, dns_notify_handler, PeerCloses, loop, env
<1> QED
  BY <1>3, <1>4, <1>5, <1>6, <1>7 DEF MainLoop

\* Told holds of both once the process exits.
LEMMA AlwaysTold == Spec => [](Calm /\ exiting => Told("req") /\ Told("rsp"))
<1>1. Init => ~exiting
  BY DEF Init
<1>2. ASSUME IInv, General, [Next]_vars, exiting', NEW k \in Coros,
             exiting => Told(k), ~exiting => Steady /\ Registered
      PROVE  Told(k)'
  <2>1. CASE ~exiting
    <3>1. proxy_done
      <4>1. ~net_pull_done
        BY <1>2, <2>1 DEF net_pull_done, IInv, Own, Loop
      <4> QED
        BY <1>2, <2>1, <4>1 DEF Next, vars, env
    <3> QED
      BY <1>2, <2>1, <3>1, ToldAtOnce
  <2>2. CASE exiting
    <3>1. CASE UNCHANGED vars
      BY <1>2, <2>2, <3>1 DEF vars, env, loop, Told, Pending, Listening
    <3>2. CASE UNCHANGED env /\ ReqHandler
      BY <1>2, <2>2, <3>2, ToldReq
    <3>3. CASE UNCHANGED env /\ RspHandler
      BY <1>2, <2>2, <3>3, ToldRsp
    <3>4. CASE \/ UNCHANGED env /\ (MainLoop \/ \E c \in Conns : PeerCloses(c))
               \/ net_pull_done
      BY <1>2, <2>2, <3>4, ToldMain
    <3>5. ~proxy_done
      BY <2>2 DEF proxy_done
    <3> QED
      BY <1>2, <3>1, <3>2, <3>3, <3>4, <3>5 DEF Next, Step
  <2> QED
    BY <1>2, <2>1, <2>2 DEF IInv, Own, Control
<1>3. "req" \in Coros /\ "rsp" \in Coros
  BY DEF Coros
<1>4. /\ IInv /\ General /\ (Calm /\ ~exiting => Steady) /\ (Calm /\ ~exiting => Registered)
      /\ (Calm /\ exiting => Told("req") /\ Told("rsp")) /\ [Next]_vars
      => (Calm /\ exiting => Told("req") /\ Told("rsp"))'
  BY <1>2, <1>3, SameWorld DEF Calm, Faults, Kinds
<1> QED
  BY <1>1, <1>4, AlwaysIInv, AlwaysGeneral, AlwaysSteady, AlwaysRegistered, PTL DEF Spec

(***************************************************************************)
(* When proxy_done has told every entry and its events are handled, no     *)
(* coroutine is paused in an I/O operation: it was registered when the     *)
(* signal came (Registered), so that one of the entries net_pull_done goes *)
(* through is its own, and it does not wait again (conn_try_io).           *)
(***************************************************************************)
THEOREM StopReaches == Spec => []StopReachesAll
<1>1. ASSUME Calm /\ exiting => Told("req") /\ Told("rsp") PROVE StopReachesAll
  <2>1. SUFFICES ASSUME Calm, Stopped, NEW k \in Coros
                 PROVE  pc[k] \in EventWaits \cup {"dns_wait", "done"}
    BY DEF StopReachesAll
  <2>2. Told(k) /\ run = "main" /\ agenda = <<>> /\ doomed = <<>>
    BY <1>1, <2>1 DEF Stopped, Coros
  <2> QED
    BY <2>2 DEF Told, Pending, Listening, Coros
<1>2. (Calm /\ exiting => Told("req") /\ Told("rsp")) => StopReachesAll
  BY <1>1
<1> QED
  BY <1>2, AlwaysTold, PTL

-----------------------------------------------------------------------------
(***************************************************************************)
(* How a registration is lost.                                             *)
(***************************************************************************)
\* An entry that stays in net_pull's table keeps its handlers.
Hooks(n, m) == \A c \in Conns : c \notin m.reg \/ (m.hr[c] = n.hr[c] /\ m.hw[c] = n.hw[c])

\* Two steps in a row, the second of which adds no entry.
LEMMA HooksTwice ==
  ASSUME NEW n, NEW m, NEW p, NEW k, Hooks(n, m), Hooks(m, p), Tame(m, p, k)
  PROVE  Hooks(n, p)
BY DEF Hooks, Tame

\* conn_close and mem_decref take the whole entry or nothing.
LEMMA CloseHooks ==
  ASSUME NEW n, NetTypes(n), NEW c \in Conns, NEW m, m = conn_close(n, c)
  PROVE  Hooks(n, m)
<1>1. CASE n.stat[c] = "closed"
  BY <1>1 DEF conn_close, Hooks
<1>2. CASE n.stat[c] # "closed"
  <2>1. ShutIs(n, m, c)
    BY <1>2, ShutFields DEF conn_close, NetTypes
  <2> QED
    BY <2>1 DEF ShutIs, Hooks, NetTypes
<1> QED
  BY <1>1, <1>2

\* The same of a dropped reference.
LEMMA DecrefHooks ==
  ASSUME NEW n, NetTypes(n), NEW c \in Conns, NEW m, m = mem_decref(n, c)
  PROVE  Hooks(n, m)
<1>0. n.ref[c] \in Nat
  BY DEF NetTypes
<1>1. CASE n.ref[c] = 0
  <2>1. m = [n EXCEPT !.fault = "freed"]
    BY <1>1 DEF mem_decref
  <2>2. m.hr = n.hr /\ m.hw = n.hw
    BY <2>1 DEF NetTypes, NetShape
  <2> QED
    BY <2>2 DEF Hooks
<1>2. CASE n.ref[c] = 1
  <2>1. Elsewhere(n, m, c) /\ c \notin m.reg
    BY <1>2, DecrefAt
  <2> QED
    BY <2>1 DEF Elsewhere, Hooks
<1>3. CASE n.ref[c] > 1
  <2>1. RefsOnly(n, m)
    BY <1>3, DecrefAt
  <2> QED
    BY <2>1 DEF RefsOnly, Hooks
<1> QED
  BY <1>0, <1>1, <1>2, <1>3

\* The operation k is in would block, and k waits for it.
WaitsFor(k) == InIo(k) /\ conn_try_io(k, IoConn(k), IoDir(k))

\* k goes on, or stops where no I/O is.
Passes(k) == Hooks(net, net') /\ (run' = k \/ ~InIo(k)')

\* Every step of req waits for its operation, passes, or waits for a connection it begins.
LEMMA ReqWaitsOrPasses ==
  ASSUME IInv, UNCHANGED env, ReqHandler
  PROVE  WaitsFor("req") \/ Passes("req") \/ \E s \in Servers : Begun(s) /\ Awaited(s)
<1>0. NetTypes(net) /\ Client \in Conns /\ Hooks(net, net) /\ Control /\ "req" \in Coros
  BY ConnTypes DEF NetOk, Hooks, IInv, Own, Coros
<1>1. ASSUME NEW l, Goto("req", l), net' = net \/ \E c \in Conns : net' = conn_close(net, c)
      PROVE  Passes("req")
  BY <1>0, <1>1, CloseHooks DEF Passes, Goto
<1>2. ASSUME NEW c, NEW dir, conn_try_io("req", c, dir),
             \/ c = Client /\ dir = "read" /\ pc["req"] \in {"fetch", "copy_read"}
             \/ c = srv /\ dir = "write" /\ pc["req"] \in {"forward", "copy_write"}
             \/ c = Client /\ dir = "write" /\ pc["req"] \in {"bad_request", "bad_gateway", "connect_ok"}
      PROVE  WaitsFor("req")
  <2>1. InIo("req") /\ IoConn("req") = c /\ IoDir("req") = dir
    BY <1>2 DEF InIo, IoConn, IoDir
  <2> QED
    BY <1>2, <2>1 DEF WaitsFor
<1>3. ASSUME NEW l, Goto("req", l), NEW c \in Conns, net' = mem_decref(net, c) PROVE Passes("req")
  BY <1>0, <1>3, DecrefHooks DEF Passes, Goto
<1>4. ASSUME NEW l, Goto("req", l), NEW c \in Conns, net' = mem_incref(net, c) PROVE Passes("req")
  <2>1. RefsOnly(net, net')
    BY <1>0, <1>4, IncrefAt
  <2> QED
    BY <1>4, <2>1 DEF Passes, Goto, RefsOnly, Hooks
<1>5. pc["req"] \in Using => srv \in Conns
  BY ConnTypes
<1>6. CASE req_top \/ dns_final \/ CopyEnds("req") \/ req_copy_failed
  BY <1>1, <1>6 DEF req_top, dns_final, CopyEnds, req_copy_failed
<1>p. ASSUME net' = net, NEW l \in {"dns_wait", "fin"}, pc' = [pc EXCEPT !["req"] = l] PROVE Passes("req")
  <2>1. pc'["req"] = l
    BY <1>0, <1>p, PcFacts DEF ReqLabels
  <2> QED
    BY <1>0, <1>p, <2>1 DEF Passes, InIo
<1>q. CASE net_dns_lookup_a
  BY <1>1, <1>p, <1>q DEF net_dns_lookup_a
<1>r. CASE req_finish
  BY <1>1, <1>p, <1>r DEF req_finish
<1>7. CASE req_fetch
  BY <1>0, <1>1, <1>2, <1>7 DEF req_fetch, At
<1>8. CASE net_bad_request \/ req_bad_gateway
  BY <1>0, <1>1, <1>2, <1>8 DEF net_bad_request, req_bad_gateway, ReplyTo, At
<1>9. CASE try_address
  <2>1. CASE net' = net
    BY <1>1, <1>9, <2>1 DEF try_address
  <2>2. CASE at <= Len(Addrs[cur.host]) /\ cxt.pool[Ep] # None
    <3>1. Ep \in Eps
      BY <1>9, <2>2, EpType DEF IInv, Own, try_address, At, Runs, Unlisted
    <3>2. cxt.pool[Ep] \in Conns
      BY <2>2, <3>1, ConnTypes DEF IInv, Own, CxtOk
    <3> QED
      BY <1>1, <1>3, <1>4, <1>9, <3>2 DEF try_address
  <2>3. (at > Len(Addrs[cur.host])) \/ at <= Len(Addrs[cur.host])
    <3>1. Addrs[cur.host] \in Seq(Eps)
      BY <1>9, SessionAssumption
         DEF IInv, Own, Control, Numbers, Unlisted, try_address, At, Runs, World, Addrs, Hosts
    <3>2. Len(Addrs[cur.host]) \in Nat /\ at \in Nat
      BY <3>1 DEF IInv, Own, Numbers
    <3> QED
      BY <3>2
  <2> QED
    BY <1>9, <2>1, <2>2, <2>3 DEF try_address
<1>10. CASE conn_get_by_endpoint
  <2>1. CASE NotBegun
    BY <1>1, <2>1 DEF NotBegun
  <2>2. ASSUME NEW s \in Servers, Begun(s), Made(s) PROVE Passes("req")
    BY <2>2 DEF Begun, Made, Goto, Passes, Hooks
  <2> QED
    BY <1>10, <2>1, <2>2, Connects
<1>11. CASE connected
  BY <1>11, Completes DEF Completed, Goto, Passes, Hooks
<1>12. CASE conn_failed
  <2>1. Forgotten
    BY <1>12, Forgets
  <2> QED
    BY <1>0, <2>1 DEF Forgotten, Goto, Passes, Hooks, NetTypes
<1>13. CASE forward_http
  <2>0. srv \in Conns /\ pc["req"] = "forward"
    BY <1>5, <1>13 DEF forward_http, At, Using
  <2>1. CASE net' = mem_decref(conn_close(net, srv), srv) /\ Goto("req", "lookup")
    <3>1. PICK m : m = conn_close(net, srv)
      OBVIOUS
    <3>2. NetTypes(m)
      BY <2>0, <3>1, ConnTypes, CloseFacts DEF NetStep, NetOk
    <3>3. Hooks(net, m) /\ Hooks(m, net') /\ Tame(m, net', "req")
      BY <1>0, <2>0, <2>1, <3>1, <3>2, CloseHooks, DecrefHooks, DecrefAt
    <3> QED
      BY <2>1, <3>3, HooksTwice DEF Passes, Goto
  <2>2. CASE conn_try_io("req", srv, "write")
    BY <1>2, <2>0, <2>2
  <2>3. CASE net' = mem_incref(net, srv) /\ Goto("req", "copy_read")
    BY <1>4, <2>0, <2>3
  <2> QED
    BY <1>13, <2>1, <2>2, <2>3 DEF forward_http, Enlist
<1>14. CASE enlist_connect
  BY <1>4, <1>5, <1>14 DEF enlist_connect, Enlist, At, Using
<1>15. CASE connect_ok
  BY <1>0, <1>1, <1>2, <1>15 DEF connect_ok, At
<1>16. CASE conn_copy_read("req")
  BY <1>0, <1>1, <1>2, <1>16 DEF conn_copy_read, Source, At
<1>17. CASE conn_copy_write("req")
  BY <1>0, <1>1, <1>2, <1>5, <1>17 DEF conn_copy_write, Target, At, Using
<1>18. CASE req_copied
  BY <1>3, <1>5, <1>18 DEF req_copied, At, Using
<1>19. CASE release
  <2>1. srv \in Conns \cup {None}
    BY ConnTypes DEF IInv, Own, Serving
  <2> QED
    BY <1>1, <1>3, <1>19, <2>1 DEF release
<1>20. CASE req_clean
  <2>1. PICK S, drops : S = {s \in Pooled : ~Closed(s)} /\ drops = [c \in Conns |-> Drops(c)]
    OBVIOUS
  <2>2. PICK shut : shut = S \cup LastRef(net, drops)
    OBVIOUS
  <2>3. /\ net'.reg = net.reg \ shut
        /\ net'.hr = [c \in Conns |-> IF c \in shut THEN None ELSE net.hr[c]]
        /\ net'.hw = [c \in Conns |-> IF c \in shut THEN None ELSE net.hw[c]]
    BY <1>20, <2>1, <2>2 DEF req_clean, DropAll
  <2>4. pc'["req"] = "done"
    BY <1>0, <1>20, PcFacts DEF req_clean, ReqLabels
  <2> QED
    BY <2>3, <2>4 DEF Passes, Hooks, InIo
<1> QED
  BY <1>6, <1>7, <1>8, <1>9, <1>10, <1>11, <1>12, <1>13, <1>14, <1>15, <1>16, <1>17, <1>18, <1>19,
     <1>20, <1>q, <1>r DEF ReqHandler

\* The same of rsp; a step in which it follows an invalid pointer passes.
LEMMA RspWaitsOrPasses ==
  ASSUME IInv, UNCHANGED env, RspHandler
  PROVE  WaitsFor("rsp") \/ Passes("rsp")
<1>0. NetTypes(net) /\ Client \in Conns /\ Hooks(net, net) /\ Control /\ "rsp" \in Coros
  BY ConnTypes DEF NetOk, Hooks, IInv, Own, Coros
<1>1. ASSUME NEW l, Goto("rsp", l), net' = net \/ \E c \in Conns : net' = conn_close(net, c)
      PROVE  Passes("rsp")
  BY <1>0, <1>1, CloseHooks DEF Passes, Goto
<1>2. ASSUME NEW c, NEW dir, conn_try_io("rsp", c, dir),
             \/ c = Oldest.srv /\ dir = "read" /\ pc["rsp"] \in {"fetch", "copy_read"}
             \/ c = Client /\ dir = "write" /\ pc["rsp"] \in {"header", "bad_gateway", "copy_write"}
      PROVE  WaitsFor("rsp")
  <2>1. InIo("rsp") /\ IoConn("rsp") = c /\ IoDir("rsp") = dir
    BY <1>2 DEF InIo, IoConn, IoDir
  <2> QED
    BY <1>2, <2>1 DEF WaitsFor
<1>3. ASSUME NEW v, net' = [net EXCEPT !.fault = v], run = "rsp", run' = run PROVE Passes("rsp")
  <2>1. SetIs(net, net', net.stat, net.hr, net.hw, net.ref)
    BY <1>0, <1>3, SetFields DEF NetTypes
  <2> QED
    BY <1>3, <2>1 DEF SetIs, Passes, Hooks
<1>4. pc["rsp"] \in Busy => Oldest.srv \in Conns
  BY ConnTypes DEF IInv, Own, Numbers
<1>5. ASSUME net' = net, pc' = [pc EXCEPT !["rsp"] = "idle"] PROVE Passes("rsp")
  <2>1. pc'["rsp"] = "idle"
    BY <1>0, <1>5, PcFacts DEF RspLabels
  <2> QED
    BY <1>0, <1>5, <2>1 DEF Passes, InIo
<1>6. CASE rsp_top
  BY <1>1, <1>3, <1>5, <1>6 DEF rsp_top, NextRequest, At, Runs
<1>7. CASE rsp_fetch
  BY <1>1, <1>2, <1>4, <1>7 DEF rsp_fetch, At, Busy
<1>8. CASE rsp_bad_gateway \/ rsp_header
  BY <1>0, <1>1, <1>2, <1>8 DEF rsp_bad_gateway, rsp_header, ReplyTo, At
<1>9. CASE rsp_framing \/ CopyEnds("rsp")
  BY <1>1, <1>9 DEF rsp_framing, CopyEnds
<1>10. CASE conn_copy_read("rsp")
  BY <1>1, <1>2, <1>4, <1>10 DEF conn_copy_read, Source, Oldest, At, Busy
<1>11. CASE conn_copy_write("rsp")
  BY <1>0, <1>1, <1>2, <1>11 DEF conn_copy_write, Target, At
<1>12. CASE rsp_copy_over
  <2>0. Oldest.srv \in Conns /\ run' = "rsp"
    BY <1>4, <1>12 DEF rsp_copy_over, Busy, Goto
  <2>1. CASE net' = net
    BY <1>0, <2>0, <2>1 DEF Passes
  <2>2. CASE net' = conn_close(conn_close(net, Client), Oldest.srv)
    <3>1. PICK m : m = conn_close(net, Client)
      OBVIOUS
    <3>2. NetTypes(m) /\ Hooks(net, m)
      BY <1>0, <3>1, ConnTypes, CloseFacts, CloseHooks DEF NetStep, NetOk
    <3>3. Hooks(m, net') /\ Tame(m, net', "rsp")
      BY <2>0, <2>2, <3>1, <3>2, CloseHooks, CloseAt
    <3> QED
      BY <2>0, <3>2, <3>3, HooksTwice DEF Passes
  <2> QED
    BY <1>12, <2>1, <2>2 DEF rsp_copy_over
<1>13. CASE rsp_post
  <2>0. Oldest.srv \in Conns /\ run' = "rsp"
    BY <1>4, <1>13 DEF rsp_post, Busy, Goto, Runs
  <2>1. CASE net' = mem_decref(mem_decref(net, Oldest.srv), Oldest.srv)
    <3>1. PICK m : m = mem_decref(net, Oldest.srv)
      OBVIOUS
    <3>2. NetTypes(m) /\ Hooks(net, m)
      BY <1>0, <2>0, <3>1, ConnTypes, DecrefFacts, DecrefHooks DEF NetStep, NetOk
    <3>3. Hooks(m, net') /\ Tame(m, net', "rsp")
      BY <2>0, <2>1, <3>1, <3>2, DecrefHooks, DecrefAt
    <3> QED
      BY <2>0, <3>2, <3>3, HooksTwice DEF Passes
  <2>2. CASE net' = mem_decref(net, Oldest.srv)
    BY <1>0, <2>0, <2>2, DecrefHooks DEF Passes
  <2>3. CASE net' = net
    BY <1>0, <2>0, <2>3 DEF Passes
  <2> QED
    BY <1>3, <1>13, <2>1, <2>2, <2>3 DEF rsp_post, Forget, Runs
<1>14. CASE rsp_exit
  <2>1. pc'["rsp"] = "done"
    BY <1>0, <1>14, PcFacts DEF rsp_exit, RspLabels
  <2>2. Hooks(net, net')
    BY <1>0, <1>14, DecrefHooks DEF rsp_exit
  <2> QED
    BY <2>1, <2>2 DEF Passes, InIo
<1> QED
  BY <1>6, <1>7, <1>8, <1>9, <1>10, <1>11, <1>12, <1>13, <1>14 DEF RspHandler

\* A descriptor that is open and not polled is the one a failed attempt has left behind:
\* its stream is at its end and nobody writes to it.
Unpolled ==
    /\ \A c \in net.fd \ net.reg : c \in down /\ c # Client /\ c # srv
    /\ pc["req"] = "conn_wait" =>
           \A i \in 1 .. Len(agenda) : agenda[i].k = "req" /\ agenda[i].err => srv \in down
    /\ pc["req"] = "conn_failed" => srv \in down

\* A step of req keeps Unpolled.
LEMMA UnpolledReq ==
  ASSUME IInv, General, Unpolled, ~exiting, UNCHANGED env, ReqHandler
  PROVE  Unpolled'
<1>0. /\ ReqFlow /\ Control /\ NetTypes(net) /\ NetOpen(net, exiting) /\ agenda' = agenda
      /\ run = "req" /\ Servers \subseteq Conns /\ Client \notin Servers
  BY ReqFlows, ConnTypes, SessionAssumption DEF ReqFlow, ReqTurn, IInv, Own, NetOk
<1>1. pc["req"] \notin Paused
  BY <1>0 DEF Control, Coros
<1>2. pc'["req"] # "conn_failed"
  BY <1>0 DEF ReqFlow, ReqEdge, ReqStraight
<1>3. \A i \in 1 .. Len(agenda') : agenda'[i].k # "req"
  BY <1>0, ReqUnregistered
<1>4. SUFFICES ASSUME NEW c \in net'.fd \ net'.reg PROVE c \in down' /\ c # Client /\ c # srv'
  BY <1>2, <1>3 DEF Unpolled
<1>5. CASE conn_get_by_endpoint
  <2>1. CASE NotBegun
    BY <1>4, <2>1 DEF NotBegun, Unpolled
  <2>2. CASE \E s \in Servers : Begun(s)
    BY <1>4, <2>2 DEF Begun, Unpolled
  <2> QED
    BY <1>5, <2>1, <2>2, Connects
<1>6. CASE conn_failed
  <2>1. Forgotten /\ srv \in down
    BY <1>6, Forgets, ReqAt DEF Unpolled
  <2>2. c = srv \/ c \in net.fd \ net.reg
    BY <1>4, <2>1 DEF Forgotten
  <2>3. c \in Conns /\ None \notin Conns
    BY <1>0, <1>4, <2>1, SessionAssumption DEF Forgotten, NetTypes, Conns
  <2> QED
    BY <1>0, <2>1, <2>2, <2>3 DEF Forgotten, Unpolled
<1>7. CASE connected
  BY <1>4, <1>7, Completes DEF Completed, Unpolled
<1>8. CASE ~conn_get_by_endpoint /\ ~connected /\ ~conn_failed
  <2>1. c \in net.fd \ net.reg /\ c \in Conns
    BY <1>0, <1>4, <1>8, ReqTame DEF Tame, NetTypes
  <2>2. down' = down
    BY <1>8 DEF ReqHandler, req_top, req_fetch, net_bad_request, net_dns_lookup_a, dns_final,
                try_address, forward_http, enlist_connect, connect_ok, conn_copy_read,
                conn_copy_write, CopyEnds, req_copied, req_copy_failed, req_bad_gateway, release,
                req_finish, req_clean, ReplyTo, conn_try_io
  <2>3. None \notin Conns
    BY SessionAssumption DEF Conns
  <2>4. CASE srv' \in {srv, None}
    BY <2>1, <2>2, <2>3, <2>4 DEF Unpolled
  <2>5. CASE srv' \notin {srv, None}
    <3>1. pc'["req"] \in {"forward", "enlist", "conn_wait"}
      BY <1>0, <2>5 DEF ReqFlow, SrvFlow
    <3>2. PICK s \in Servers : Reuses(s)
      <4>1. ~req_clean
        BY <2>5 DEF req_clean
      <4>2. ~\E s \in Servers : Unpools(s)
        BY <2>5, ReqAt, SessionAssumption DEF Unpools, ReqHandler, try_address
      <4> QED
        BY <1>8, <2>5, <4>1, <4>2, ReqEffects DEF ReqKeeps, ReqStill, Enlists, Returns
    <3>3. srv' = s /\ s \in net.reg
      BY <1>0, <3>2 DEF Reuses, NetOpen, Closed
    <3> QED
      BY <2>1, <2>2, <3>3 DEF Unpolled
  <2> QED
    BY <2>4, <2>5
<1> QED
  BY <1>5, <1>6, <1>7, <1>8

\* The rest of the session keeps it.
LEMMA UnpolledRest ==
  ASSUME IInv, General, Unpolled, ~exiting, UNCHANGED env,
         MainLoop \/ RspHandler \/ \E c \in Conns : PeerCloses(c)
  PROVE  Unpolled'
<1>0. Control /\ NetTypes(net)
  BY DEF IInv, Own, NetOk
<1>1. CASE RspHandler
  <2>1. RspTurn /\ Tame(net, net', "rsp")
    BY <1>1, RspFlows, RspTame DEF RspFlow
  <2> QED
    BY <2>1 DEF RspTurn, Tame, Unpolled
<1>2. ASSUME NEW k \in Coros, NEW ret \in {-1, 0, 1}, Wakes(k, ret), UNCHANGED <<down, srv>>,
             k = "req" /\ pc["req"] = "conn_wait" /\ ret = -1 => srv \in down,
             \A i \in 1 .. Len(agenda') : i + 1 \in 1 .. Len(agenda) /\ agenda'[i] = agenda[i + 1]
      PROVE  Unpolled'
  <2>1. net' = net /\ \A j \in Coros \ {k} : pc'[j] = pc[j]
    BY <1>2 DEF Wakes
  <2>2. /\ pc'["req"] = "conn_wait" => pc["req"] = "conn_wait"
        /\ pc'["req"] = "conn_failed" => srv \in down
    BY <1>0, <1>2, <2>1, WakesTo DEF Coros, Unpolled
  <2> QED
    BY <1>2, <2>1, <2>2 DEF Unpolled
<1>3. CASE event_work
  <2>1. EventTaken
    BY <1>3, EventsTaken
  <2>2. CASE UNCHANGED <<pc, net>>
    BY <2>1, <2>2 DEF EventTaken, Unpolled
  <2>3. CASE Wakes(Owner(queue[1].to), IF queue[1].more THEN 0 ELSE 1)
    <3>1. Owner(queue[1].to) \in Coros /\ (IF queue[1].more THEN 0 ELSE 1) \in {-1, 0, 1} \ {-1}
      BY DEF Owner, Coros
    <3>2. UNCHANGED <<down, srv>> /\ agenda' = <<>>
      BY <2>1 DEF EventTaken
    <3> QED
      BY <1>2, <2>3, <3>1, <3>2
  <2> QED
    BY <2>1, <2>2, <2>3 DEF EventTaken
<1>4. CASE conn_epoll_handler
  <2>1. CallMade
    BY <1>4, CallsMade
  <2>0. /\ UNCHANGED <<down, srv>>
        /\ \A i \in 1 .. Len(agenda') : i + 1 \in 1 .. Len(agenda) /\ agenda'[i] = agenda[i + 1]
    BY <2>1 DEF CallMade
  <2>2. CASE UNCHANGED pc /\ FaultOnly(net, net')
    BY <2>0, <2>2 DEF Unpolled, FaultOnly
  <2>3. CASE Wakes(agenda[1].k, IF agenda[1].err THEN -1 ELSE 0)
    <3>1. agenda[1].k \in Coros /\ (IF agenda[1].err THEN -1 ELSE 0) \in {-1, 0, 1}
      BY <2>1 DEF CallMade, Calls
    <3>2. agenda[1].k = "req" /\ pc["req"] = "conn_wait" /\ agenda[1].err => srv \in down
      BY <2>1 DEF CallMade, Unpolled
    <3> QED
      BY <1>2, <2>0, <2>3, <3>1, <3>2
  <2> QED
    BY <2>1, <2>2, <2>3 DEF CallMade
<1>5. CASE net_pull_work
  <2>1. PICK e \in batch : Handled(e)
    BY <1>5, EntriesHandled
  <2>2. CASE UNCHANGED <<net, agenda>>
    BY <2>1, <2>2 DEF Handled, Unpolled
  <2>3. CASE /\ net'.reg = net.reg /\ net'.fd = net.fd
             /\ Called(net.hr[e.c], net.hw[e.c], e.err, agenda')
    <3>1. ASSUME pc["req"] = "conn_wait", NEW i \in 1 .. Len(agenda'), agenda'[i].k = "req",
                 agenda'[i].err
          PROVE  srv \in down
      <4>1. "req" \in {net.hr[e.c], net.hw[e.c]} /\ e.err /\ e.c \in Conns
        BY <2>1, <2>3, <3>1 DEF Called, Handled
      <4> QED
        BY <3>1, <4>1 DEF General, Reports
    <3> QED
      BY <2>1, <2>3, <3>1 DEF Handled, Unpolled
  <2> QED
    BY <2>1, <2>2, <2>3 DEF Handled
<1>6. CASE epoll_wait \/ dns_notify_handler \/ \E c \in Conns : PeerCloses(c)
  <2>1. UNCHANGED <<pc, net, srv, agenda>> /\ down \subseteq down'
    BY <1>6 DEF epoll_wait, dns_notify_handler, PeerCloses, loop
  <2> QED
    BY <2>1 DEF Unpolled
<1> QED
  BY <1>1, <1>3, <1>4, <1>5, <1>6 DEF MainLoop

\* Unpolled is an invariant until the process exits.
LEMMA AlwaysUnpolled == Spec => [](~exiting => Unpolled)
<1>1. Init => Unpolled
  BY DEF Init, Unpolled, Coros
<1>2. ASSUME IInv, General, ~exiting => Unpolled, [Next]_vars PROVE (~exiting => Unpolled)'
  <2>1. SUFFICES ASSUME ~exiting' PROVE Unpolled'
    OBVIOUS
  <2>2. ~exiting /\ (UNCHANGED vars \/ (Step /\ UNCHANGED env))
    BY <1>2, <2>1, ExitStays
  <2>3. CASE UNCHANGED vars
    BY <1>2, <2>2, <2>3 DEF vars, loop, Unpolled
  <2> QED
    BY <1>2, <2>2, <2>3, UnpolledReq, UnpolledRest DEF Step
<1> QED
  BY <1>1, <1>2, AlwaysIInv, AlwaysGeneral, PTL DEF Spec

\* The connection of an I/O operation, and what a wait for it does.
LEMMA IoTypes ==
  ASSUME IInv, NEW k \in Coros, InIo(k)
  PROVE  IoConn(k) \in Conns /\ IoDir(k) \in {"read", "write"}
<1>1. pc["req"] \in {"conn_wait", "forward", "copy_write"} => srv \in Conns
  BY ConnTypes DEF IInv, Own, Serving, Using, Attempt
<1>2. pc["rsp"] \in Busy => Oldest.srv \in Conns
  BY ConnTypes DEF IInv, Own, Numbers
<1> QED
  BY <1>1, <1>2, ConnTypes DEF Coros, InIo, IoConn, IoDir, Busy

\* A coroutine waits on a connection that is polled, and is registered for it then.
LEMMA WaitRegisters ==
  ASSUME IInv, ~exiting => Unpolled, NEW k \in Coros, WaitsFor(k)
  PROVE  /\ pc' = pc /\ cxt' = cxt /\ srv' = srv /\ agenda' = agenda /\ run' = "main"
         /\ InIo(k)' /\ IoConn(k)' = IoConn(k) /\ IoDir(k)' = IoDir(k)
         /\ Asked(net, net', IoConn(k), IoDir(k), k) /\ IoConn(k) \in net.reg
         /\ Slot(k)' = k
<1>0. PICK c, dir : c = IoConn(k) /\ dir = IoDir(k)
  OBVIOUS
<1>1. /\ c \in net.fd /\ ~exiting /\ (dir = "read" => c \notin down)
      /\ net' = net_pull_set_handler(net, c, dir, k) /\ run' = "main"
      /\ pc' = pc /\ cxt' = cxt /\ srv' = srv /\ agenda' = agenda
  BY <1>0 DEF WaitsFor, conn_try_io, loop
<1>2. c \in Conns /\ dir \in {"read", "write"} /\ NetTypes(net)
  BY <1>0, IoTypes, ConnTypes DEF WaitsFor, NetOk
<1>3. Asked(net, net', c, dir, k)
  BY <1>1, <1>2, AskedAt
<1>4. c \in net.reg
  <2>1. dir = "write" => c \in {Client, srv}
    BY <1>0 DEF WaitsFor, InIo, IoConn, IoDir, Coros
  <2> QED
    BY <1>1, <1>2, <2>1 DEF Unpolled
<1>5. InIo(k)' /\ IoConn(k)' = c /\ IoDir(k)' = dir
  BY <1>0, <1>1 DEF WaitsFor, InIo, IoConn, IoDir, Oldest
<1>6. Slot(k)' = k
  BY <1>2, <1>3, <1>4, <1>5 DEF Slot, Asked
<1> QED
  BY <1>0, <1>1, <1>3, <1>4, <1>5, <1>6

\* A coroutine that does not move, and whose connections do not change, is in the same
\* operation.
LEMMA SameIo ==
  ASSUME NEW k \in Coros, pc'[k] = pc[k], k = "req" => srv' = srv,
         k = "rsp" /\ InIo("rsp") => Oldest'.srv = Oldest.srv
  PROVE  /\ InIo(k)' <=> InIo(k)
         /\ InIo(k) => IoConn(k)' = IoConn(k) /\ IoDir(k)' = IoDir(k)
BY DEF Coros, InIo, IoConn, IoDir

\* While j has the processor, k can lose its registration to a close or to a wait of j.
LEMMA OtherLoses ==
  ASSUME IInv, ~exiting => Unpolled, NEW k \in Coros, NEW j \in Coros, j = Other(k), run = j,
         agenda' = agenda, Lost(k)', ~Lost(k), InIo(k),
         IoConn(k)' = IoConn(k), IoDir(k)' = IoDir(k),
         \/ WaitsFor(j) \/ Hooks(net, net')
         \/ \E s \in Servers : j = "req" /\ Begun(s) /\ Awaited(s)
  PROVE  Dropped(k) \/ Overwritten(k)
<1>0. /\ IoConn(k) \in Conns /\ IoDir(k) \in {"read", "write"} /\ j # k /\ k # None
      /\ NetTypes(net) /\ NetOpen(net, exiting)
  BY IoTypes, ConnTypes, NoNone DEF NetOk, Other, Coros
<1>1. Slot(k) = k /\ Slot(k)' # k
  BY <1>0 DEF Lost, Served
<1>2. IoConn(k) \in net.reg
  BY <1>0, <1>1 DEF Slot, NetOpen
<1>3. CASE WaitsFor(j)
  <2>1. /\ InIo(j)' /\ IoConn(j)' = IoConn(j) /\ IoDir(j)' = IoDir(j)
        /\ Asked(net, net', IoConn(j), IoDir(j), j) /\ Slot(j)' = j
    BY <1>3, WaitRegisters
  <2>2. IoConn(k) = IoConn(j) /\ IoDir(k) = IoDir(j)
    BY <1>0, <1>1, <2>1 DEF Asked, Slot
  <2>3. Slot(k)' = j
    BY <2>1, <2>2 DEF Slot
  <2>4. <<IoConn("req"), IoDir("req")>>' = <<IoConn("rsp"), IoDir("rsp")>>'
    BY <2>1, <2>2 DEF Other, Coros
  <2> QED
    BY <2>1, <2>3, <2>4 DEF Overwritten
<1>4. CASE Hooks(net, net')
  <2>1. IoConn(k) \notin net'.reg
    BY <1>0, <1>1, <1>4 DEF Hooks, Slot
  <2> QED
    BY <1>2, <2>1 DEF Dropped
<1>5. ASSUME NEW s \in Servers, Begun(s), Awaited(s) PROVE FALSE
  <2>1. s \notin net.reg
    BY <1>0, <1>5 DEF Begun, NetTypes
  <2>2. Slot(k)' = Slot(k)
    BY <1>0, <1>2, <1>5, <2>1 DEF Begun, Awaited, Slot, NetTypes
  <2> QED
    BY <1>1, <2>2
<1> QED
  BY <1>3, <1>4, <1>5

\* The request rsp works on stays the oldest when req takes a step.
LEMMA ReqKeepsOldest ==
  ASSUME IInv, UNCHANGED env, ReqHandler, InIo("rsp")
  PROVE  Oldest' = Oldest
<1>1. pc["rsp"] \in Busy
  BY DEF InIo, Busy
<1>2. cxt.list # <<>> /\ cxt.list \in Seq(Requests)
  BY <1>1 DEF IInv, Own, Numbers, CxtOk
<1>3. ~Emptied
  BY <1>1, FrameAndIds DEF Emptied, Busy
<1>4. CASE Appended
  <2>1. cxt'.list = Append(cxt.list, Listed) /\ Len(cxt.list) \in Nat /\ Len(cxt.list) >= 1
    BY <1>2, <1>4, EmptySeq DEF Appended
  <2>2. cxt'.list[1] = cxt.list[1]
    BY <1>2, <2>1
  <2> QED
    BY <1>2, <2>1, <2>2 DEF Oldest
<1> QED
  BY <1>3, <1>4, ReqLists DEF Kept, Fetched, Oldest

\* A step of req.
LEMMA ReqLoses ==
  ASSUME IInv, ~exiting => Unpolled, UNCHANGED env, ReqHandler, NEW k \in Coros, Lost(k)', ~Lost(k)
  PROVE  Dropped(k) \/ Overwritten(k)
<1>0. /\ run = "req" /\ agenda' = agenda /\ pc'["rsp"] = pc["rsp"] /\ Control /\ CxtOk /\ NetTypes(net)
  BY ReqFlows DEF ReqFlow, ReqTurn, IInv, Own, NetOk
<1>1. CASE k = "req"
  <2>1. CASE WaitsFor("req")
    BY <1>1, <2>1, WaitRegisters DEF Lost, Served
  <2>2. CASE Passes("req")
    BY <1>1, <2>2 DEF Passes, Lost, Served
  <2>3. ASSUME NEW s \in Servers, Begun(s), Awaited(s) PROVE FALSE
    <3>1. pc'["req"] = "conn_wait" /\ srv' = s /\ net'.hr[s] = "req"
      BY <1>0, <2>3, PcFacts DEF Begun, Awaited, Coros, ReqLabels, NetTypes, Conns
    <3>2. Slot("req")' = "req"
      BY <3>1 DEF Slot, IoDir, IoConn
    <3> QED
      BY <1>1, <3>2 DEF Lost, Served
  <2> QED
    BY <2>1, <2>2, <2>3, ReqWaitsOrPasses
<1>2. CASE k = "rsp"
  <2>1. InIo("rsp")
    BY <1>0, <1>2 DEF Lost, InIo
  <2>3. Oldest' = Oldest
    BY <2>1, ReqKeepsOldest
  <2>4. IoConn(k)' = IoConn(k) /\ IoDir(k)' = IoDir(k)
    BY <1>0, <1>2, <2>1, <2>3, SameIo
  <2>5. "req" \in Coros /\ "req" = Other(k)
    BY <1>2 DEF Coros, Other
  <2>6. WaitsFor("req") \/ Hooks(net, net') \/ \E s \in Servers : Begun(s) /\ Awaited(s)
    BY ReqWaitsOrPasses DEF Passes
  <2> QED
    BY <1>0, <1>2, <2>1, <2>4, <2>5, <2>6, OtherLoses
<1> QED
  BY <1>1, <1>2 DEF Coros

\* A step of rsp.
LEMMA RspLoses ==
  ASSUME IInv, ~exiting => Unpolled, UNCHANGED env, RspHandler, NEW k \in Coros, Lost(k)', ~Lost(k)
  PROVE  Dropped(k) \/ Overwritten(k)
<1>0. /\ run = "rsp" /\ agenda' = agenda /\ pc'["req"] = pc["req"] /\ srv' = srv
  BY RspFlows DEF RspFlow, RspTurn
<1>1. CASE k = "rsp"
  <2>1. CASE WaitsFor("rsp")
    BY <1>1, <2>1, WaitRegisters DEF Lost, Served
  <2>2. CASE Passes("rsp")
    BY <1>1, <2>2 DEF Passes, Lost, Served
  <2> QED
    BY <2>1, <2>2, RspWaitsOrPasses
<1>2. CASE k = "req"
  <2>1. InIo(k) /\ IoConn(k)' = IoConn(k) /\ IoDir(k)' = IoDir(k)
    BY <1>0, <1>2, SameIo DEF Lost
  <2>2. "rsp" \in Coros /\ "rsp" = Other(k)
    BY <1>2 DEF Coros, Other
  <2>3. WaitsFor("rsp") \/ Hooks(net, net')
    BY RspWaitsOrPasses DEF Passes
  <2> QED
    BY <1>0, <2>1, <2>2, <2>3, OtherLoses
<1> QED
  BY <1>1, <1>2 DEF Coros

\* The main loop and the peers take nothing away.
LEMMA MainLosesNothing ==
  ASSUME IInv, UNCHANGED env, MainLoop \/ \E c \in Conns : PeerCloses(c), NEW k \in Coros, ~Lost(k)
  PROVE  ~Lost(k)'
<1>0. Control /\ NetTypes(net) /\ agenda \in Seq(Calls)
  BY DEF IInv, Own, NetOk, Loop
<1> USE DEF Lost, Served, Slot
<1>1. CASE UNCHANGED <<pc, run, net, srv, agenda, cxt>>
  BY <1>1 DEF InIo, IoConn, IoDir, Oldest
<1>2. ASSUME NEW j \in Coros, NEW ret, Wakes(j, ret), srv' = srv,
             k # j => ((\E i \in DOMAIN agenda : agenda[i].k = k) => \E i \in DOMAIN agenda' : agenda'[i].k = k),
             run = "main"
      PROVE  ~Lost(k)'
  <2>1. CASE k = j
    BY <1>2, <2>1 DEF Wakes
  <2>2. CASE k # j
    <3>1. pc'[k] = pc[k] /\ net' = net /\ Oldest' = Oldest
      BY <1>2, <2>2 DEF Wakes, Oldest
    <3>2. /\ InIo(k)' <=> InIo(k)
          /\ InIo(k) => IoConn(k)' = IoConn(k) /\ IoDir(k)' = IoDir(k)
      BY <1>2, <3>1, SameIo
    <3>3. k # "main"
      BY DEF Coros
    <3> QED
      BY <1>2, <2>2, <3>1, <3>2, <3>3
  <2> QED
    BY <2>1, <2>2
<1>3. CASE event_work
  <2>1. EventTaken
    BY <1>3, EventsTaken
  <2>2. CASE UNCHANGED <<pc, run, again, cxt, net>>
    BY <1>1, <2>1, <2>2 DEF EventTaken
  <2>3. CASE Wakes(Owner(queue[1].to), IF queue[1].more THEN 0 ELSE 1)
    <3>1. Owner(queue[1].to) \in Coros
      BY DEF Owner, Coros
    <3> QED
      BY <1>2, <2>1, <2>3, <3>1 DEF EventTaken
  <2> QED
    BY <2>1, <2>2, <2>3 DEF EventTaken
<1>4. CASE conn_epoll_handler
  <2>1. CallMade /\ agenda' \in Seq(Calls)
    BY <1>0, <1>4, CallsMade DEF conn_epoll_handler
  <2>2. ASSUME k # agenda[1].k, NEW i \in DOMAIN agenda, agenda[i].k = k
        PROVE  \E m \in DOMAIN agenda' : agenda'[m].k = k
    <3>1. i \in 1 .. Len(agenda) /\ i # 1 /\ Len(agenda) \in Nat
      BY <1>0, <2>2
    <3>2. i - 1 \in 1 .. Len(agenda') /\ (i - 1) + 1 = i
      BY <2>1, <3>1 DEF CallMade
    <3>3. agenda'[i - 1] = agenda[i] /\ i - 1 \in DOMAIN agenda'
      BY <2>1, <3>2 DEF CallMade
    <3> QED
      BY <2>2, <3>3
  <2>3. CASE agenda[1].k = "rsp" /\ pc["rsp"] = "done" /\ UNCHANGED <<pc, run, again, cxt>> /\ FaultOnly(net, net')
    <3>0. srv' = srv
      BY <2>1 DEF CallMade
    <3>1. CASE k = "rsp"
      BY <2>3, <3>1 DEF InIo
    <3>2. CASE k = "req"
      <4>1. /\ InIo(k)' <=> InIo(k)
            /\ InIo(k) => IoConn(k)' = IoConn(k) /\ IoDir(k)' = IoDir(k)
        BY <2>3, <3>0, <3>2, SameIo
      <4>2. net'.hr = net.hr /\ net'.hw = net.hw /\ k # agenda[1].k
        BY <2>3, <3>2 DEF FaultOnly
      <4> QED
        BY <2>2, <2>3, <4>1, <4>2
    <3> QED
      BY <3>1, <3>2 DEF Coros
  <2>4. CASE Wakes(agenda[1].k, IF agenda[1].err THEN -1 ELSE 0)
    <3>1. agenda[1].k \in Coros /\ run = "main" /\ srv' = srv
      BY <2>1 DEF CallMade, Calls
    <3> QED
      BY <1>2, <2>2, <2>4, <3>1
  <2> QED
    BY <2>1, <2>3, <2>4 DEF CallMade
<1>5. CASE net_pull_work
  <2>1. PICK e \in batch : Handled(e)
    BY <1>5, EntriesHandled
  <2>2. UNCHANGED <<pc, run, srv, cxt>> /\ agenda = <<>> /\ run = "main" /\ k # "main" /\ k # None
    BY <2>1, NoNone DEF Handled, Coros
  <2>3. /\ InIo(k)' <=> InIo(k)
        /\ InIo(k) => IoConn(k)' = IoConn(k) /\ IoDir(k)' = IoDir(k)
    BY <2>2, SameIo DEF Oldest
  <2>4. CASE UNCHANGED <<net, agenda>>
    BY <1>1, <2>2, <2>4
  <2>5. CASE /\ e.c \in Conns
             /\ net'.hr = [net.hr EXCEPT ![e.c] = None] /\ net'.hw = [net.hw EXCEPT ![e.c] = None]
             /\ Called(net.hr[e.c], net.hw[e.c], e.err, agenda')
    <3>1. SUFFICES ASSUME InIo(k)' PROVE Served(k)'
      OBVIOUS
    <3>2. InIo(k) /\ IoConn(k) \in Conns /\ Slot(k) = k /\ IoDir(k) \in {"read", "write"}
      BY <2>2, <2>3, <3>1, IoTypes
    <3>3. CASE IoConn(k) # e.c
      <4>1. Slot(k)' = Slot(k)
        BY <1>0, <2>3, <2>5, <3>2, <3>3 DEF NetTypes
      <4> QED
        BY <3>2, <4>1
    <3>4. CASE IoConn(k) = e.c
      <4>1. k \in {net.hr[e.c], net.hw[e.c]} \ {None}
        BY <2>2, <3>2, <3>4
      <4>2. PICK i \in 1 .. Len(agenda') : agenda'[i].k = k
        BY <2>5, <4>1 DEF Called
      <4>3. DOMAIN agenda' = 1 .. Len(agenda')
        BY <1>5, <2>1 DEF net_pull_work, Call
      <4> QED
        BY <4>2, <4>3
    <3> QED
      BY <3>3, <3>4
  <2> QED
    BY <2>1, <2>4, <2>5 DEF Handled
<1>6. CASE epoll_wait \/ dns_notify_handler \/ \E c \in Conns : PeerCloses(c)
  BY <1>1, <1>6 DEF epoll_wait, dns_notify_handler, PeerCloses, loop
<1> QED
  BY <1>3, <1>4, <1>5, <1>6 DEF MainLoop

(***************************************************************************)
(* Before the process is told to stop, in every world, a coroutine paused  *)
(* in an I/O operation loses its registration for it only to the other     *)
(* coroutine: to its close of the connection, or to its wait for the same  *)
(* operation (conn.c:149).  A wait begins on a connection that is polled   *)
(* (Unpolled), an epoll event turns a registration into a call, and        *)
(* nothing else touches the table.                                         *)
(***************************************************************************)
THEOREM RegistrationsLostTwoWays == Spec => IoLostTwoWays
<1>1. ASSUME IInv, ~exiting => Unpolled, [Next]_vars, NEW k \in Coros, Lost(k)', ~Lost(k), ~exiting'
      PROVE  Dropped(k) \/ Overwritten(k)
  <2>1. UNCHANGED vars \/ (Step /\ UNCHANGED env)
    BY <1>1, ExitStays
  <2>2. ~UNCHANGED vars
    BY <1>1 DEF vars, loop, Lost, Served, Slot, InIo, IoConn, IoDir, Oldest
  <2> QED
    BY <1>1, <2>1, <2>2, ReqLoses, RspLoses, MainLosesNothing DEF Step
<1>2. /\ IInv /\ (~exiting => Unpolled) /\ [Next]_vars
      => [\A k \in Coros : (Lost(k)' /\ ~Lost(k) /\ ~exiting') => Dropped(k) \/ Overwritten(k)]_vars
  BY <1>1
<1> QED
  BY <1>2, AlwaysIInv, AlwaysUnpolled, PTL DEF Spec, IoLostTwoWays

-----------------------------------------------------------------------------
(***************************************************************************)
(* The client goes away.                                                   *)
(***************************************************************************)
\* req has given up and goes to its last wait without stopping.
Gone == {"copy_failed", "bad_gateway", "release", "finish"}

\* An rsp that has lost its registration, or has not started, has a notice; or req is on
\* its way to post one.
Recalled ==
    /\ pc["req"] = "bad_gateway" => run = "req" /\ ~again
    /\ pc["rsp"] = "init" => Noticed("rsp")
    /\ Lost("rsp") => Noticed("rsp") \/ (run = "req" /\ pc["req"] \in Gone)

\* What a step of req does to the queue.
LEMMA ReqPosts ==
  ASSUME IInv, ReqHandler
  PROVE  /\ again' = FALSE /\ ("rsp" \in armed => "rsp" \in armed')
         /\ queue' = queue \/ \E e : queue' = Append(queue, e)
         /\ pc["req"] = "finish" => queue' = Append(queue, [to |-> "rsp", more |-> FALSE])
<1>0. cxt.rsp_will_exited = FALSE
  BY DEF IInv, Own, CxtOk
<1>1. again' = FALSE
  BY DEF ReqHandler, req_top, req_fetch, net_bad_request, net_dns_lookup_a, dns_final, try_address,
         conn_get_by_endpoint, connected, conn_failed, forward_http, enlist_connect, connect_ok,
         conn_copy_read, conn_copy_write, CopyEnds, req_copied, req_copy_failed, req_bad_gateway,
         release, req_finish, req_clean, ReplyTo, conn_try_io, Goto
<1>2. "rsp" \in armed => "rsp" \in armed'
  BY DEF ReqHandler, req_top, req_fetch, net_bad_request, net_dns_lookup_a, dns_final, try_address,
         conn_get_by_endpoint, connected, conn_failed, forward_http, enlist_connect, connect_ok,
         conn_copy_read, conn_copy_write, CopyEnds, req_copied, req_copy_failed, req_bad_gateway,
         release, req_finish, req_clean, ReplyTo, conn_try_io, loop
<1>3. queue' = queue \/ \E e : queue' = Append(queue, e)
  BY DEF ReqHandler, req_top, req_fetch, net_bad_request, net_dns_lookup_a, dns_final, try_address,
         conn_get_by_endpoint, connected, conn_failed, forward_http, enlist_connect, connect_ok,
         conn_copy_read, conn_copy_write, CopyEnds, req_copied, req_copy_failed, req_bad_gateway,
         release, req_finish, req_clean, ReplyTo, conn_try_io, loop, Enlist
<1>4. ASSUME pc["req"] = "finish" PROVE queue' = Append(queue, [to |-> "rsp", more |-> FALSE])
  <2>1. req_finish
    BY <1>4, ReqAt DEF ReqHandler
  <2> QED
    BY <1>0, <2>1 DEF req_finish
<1> QED
  BY <1>1, <1>2, <1>3, <1>4

\* A queue keeps what it holds when an event is appended to it.
LEMMA AppendKeeps ==
  ASSUME NEW q \in Seq(Events), NEW e, NEW p, p = Append(q, e)
  PROVE  /\ \A i \in DOMAIN q : i \in DOMAIN p /\ p[i] = q[i]
         /\ Len(q) + 1 \in DOMAIN p /\ p[Len(q) + 1] = e
<1>1. Len(q) \in Nat /\ DOMAIN q = 1 .. Len(q)
  OBVIOUS
<1>2. DOMAIN p = 1 .. (Len(q) + 1) /\ p[Len(q) + 1] = e /\ \A i \in 1 .. Len(q) : p[i] = q[i]
  BY DEF Append
<1> QED
  BY <1>1, <1>2

\* A notice for rsp stays in the queue until it resumes rsp.
LEMMA NoticeStays ==
  ASSUME IInv, UNCHANGED env, Step, Noticed("rsp"), run # "rsp"
  PROVE  Noticed("rsp")' \/ run' = "rsp"
<1>0. /\ queue \in Seq(Events) /\ Control /\ ~RspHandler
  BY RspFlows DEF IInv, Own, Loop, RspFlow, RspTurn
<1>1. PICK i \in DOMAIN queue : queue[i].to = "rsp" /\ "rsp" \in armed
  BY DEF Noticed
<1>2. ASSUME "rsp" \in armed', queue' = queue \/ \E e : queue' = Append(queue, e)
      PROVE  Noticed("rsp")'
  <2>1. i \in DOMAIN queue' /\ queue'[i] = queue[i]
    BY <1>0, <1>1, <1>2, AppendKeeps
  <2> QED
    BY <1>1, <1>2, <2>1 DEF Noticed
<1>3. CASE ReqHandler
  BY <1>1, <1>2, <1>3, ReqPosts
<1>4. CASE event_work
  <2>1. EventTaken
    BY <1>4, EventsTaken
  <2>2. CASE queue[1].to = "rsp"
    BY <1>1, <2>1, <2>2 DEF EventTaken, Wakes, Owner
  <2>3. CASE queue[1].to # "rsp"
    <3>1. Popped(queue, queue') /\ armed' = armed
      BY <2>1 DEF EventTaken
    <3>2. i \in 1 .. Len(queue) /\ i # 1 /\ DOMAIN queue' = 1 .. Len(queue')
      BY <1>0, <1>1, <2>3, <3>1 DEF Popped
    <3>3. i - 1 \in 1 .. Len(queue') /\ (i - 1) + 1 = i
      BY <3>1, <3>2 DEF Popped
    <3>4. queue'[i - 1] = queue[i] /\ i - 1 \in DOMAIN queue'
      BY <3>1, <3>2, <3>3 DEF Popped
    <3> QED
      BY <1>1, <3>1, <3>4 DEF Noticed
  <2> QED
    BY <2>2, <2>3
<1>5. CASE conn_epoll_handler \/ net_pull_work \/ epoll_wait \/ \E c \in Conns : PeerCloses(c)
  BY <1>1, <1>2, <1>5 DEF conn_epoll_handler, net_pull_work, epoll_wait, PeerCloses, loop
<1>6. CASE dns_notify_handler
  BY <1>1, <1>2, <1>6 DEF dns_notify_handler
<1> QED
  BY <1>0, <1>3, <1>4, <1>5, <1>6 DEF Step, MainLoop

\* When req takes the client out of net_pull's table, it has given up.
LEMMA ReqDropsClient ==
  ASSUME IInv, Plain, UNCHANGED env, ReqHandler, pc["rsp"] # "done", Client \in net.reg \ net'.reg
  PROVE  run' = "req" /\ pc'["req"] \in Gone
<1>0. NetTypes(net) /\ Client \in Conns /\ Servers \subseteq Conns /\ Client \notin Servers /\ Control
  BY ConnTypes, SessionAssumption DEF NetOk, IInv, Own
<1>1. ASSUME NEW l \in Gone, Goto("req", l) PROVE run' = "req" /\ pc'["req"] \in Gone
  BY <1>0, <1>1, PcFacts DEF Goto, Coros, ReqLabels, Gone
<1>2. net' # net
  OBVIOUS
<1>3. ASSUME NEW s \in Servers, Elsewhere(net, net', s) PROVE FALSE
  BY <1>0, <1>3 DEF Elsewhere
<1>4. ASSUME NEW c, NEW dir, conn_try_io("req", c, dir), c \in Conns, dir \in {"read", "write"} PROVE FALSE
  <2>1. net' = net_pull_set_handler(net, c, dir, "req") /\ "req" \in Coros
    BY <1>4 DEF conn_try_io, Coros
  <2>2. HandlersOnly(net, net')
    BY <1>0, <1>4, <2>1, HandlerAt
  <2> QED
    BY <2>2 DEF HandlersOnly
<1>5. ASSUME NEW s \in Servers, net' = conn_close(net, s) \/ net' = mem_decref(net, s) PROVE FALSE
  BY <1>0, <1>3, <1>5, CloseAt, DecrefAt
<1>6. ASSUME NEW s \in Servers, net' = mem_incref(net, s) PROVE FALSE
  <2>1. RefsOnly(net, net')
    BY <1>0, <1>6, IncrefAt
  <2> QED
    BY <2>1 DEF RefsOnly
<1>7. pc["req"] \in Using => srv \in Servers
  BY DEF IInv, Own, Serving
<1>8. ~(req_top \/ net_dns_lookup_a \/ dns_final \/ CopyEnds("req") \/ req_copy_failed \/ req_finish)
  BY <1>2 DEF req_top, net_dns_lookup_a, dns_final, CopyEnds, req_copy_failed, req_finish
<1>9. CASE req_fetch
  BY <1>0, <1>1, <1>2, <1>4, <1>9 DEF req_fetch, Gone
<1>10. ~(net_bad_request \/ conn_failed \/ enlist_connect \/ connect_ok)
  BY ReqAt DEF Plain
<1>11. CASE req_bad_gateway
  BY <1>0, <1>1, <1>2, <1>4, <1>11 DEF req_bad_gateway, ReplyTo, Gone
<1>12. ~try_address
  <2>1. SUFFICES ASSUME try_address PROVE FALSE
    OBVIOUS
  <2>2. CASE at <= Len(Addrs[cur.host]) /\ cxt.pool[Ep] # None
    <3>1. Ep \in Eps
      BY <2>1, <2>2, EpType, ReqAt DEF IInv, Own, Unlisted
    <3>2. cxt.pool[Ep] \in Servers
      BY <2>2, <3>1 DEF IInv, Own, CxtOk
    <3> QED
      BY <1>2, <1>5, <1>6, <2>1, <3>2 DEF try_address
  <2>3. (at > Len(Addrs[cur.host])) \/ at <= Len(Addrs[cur.host])
    <3>1. Addrs[cur.host] \in Seq(Eps)
      BY <2>1, ReqAt, SessionAssumption
         DEF IInv, Own, Control, Numbers, Unlisted, World, Addrs, Hosts
    <3>2. Len(Addrs[cur.host]) \in Nat /\ at \in Nat
      BY <3>1 DEF IInv, Own, Numbers
    <3> QED
      BY <3>2
  <2> QED
    BY <1>2, <2>1, <2>2, <2>3 DEF try_address
<1>13. ~conn_get_by_endpoint
  BY Connects DEF Begun, NotBegun
<1>14. ~connected
  BY Completes DEF Completed
<1>15. ~forward_http
  <2>1. SUFFICES ASSUME forward_http PROVE FALSE
    OBVIOUS
  <2>2. srv \in Servers /\ srv \in Conns
    BY <1>0, <1>7, <2>1, ReqAt DEF Using
  <2>3. CASE net' = mem_decref(conn_close(net, srv), srv)
    <3>1. PICK m : m = conn_close(net, srv)
      OBVIOUS
    <3>2. NetTypes(m) /\ Elsewhere(net, m, srv)
      BY <1>0, <2>2, <3>1, ConnTypes, CloseFacts, CloseAt DEF NetStep, NetOk
    <3>3. Elsewhere(m, net', srv)
      BY <2>2, <2>3, <3>1, <3>2, DecrefAt
    <3>4. Elsewhere(net, net', srv)
      BY <3>2, <3>3 DEF Elsewhere
    <3> QED
      BY <1>3, <2>2, <3>4
  <2> QED
    BY <1>4, <1>6, <2>1, <2>2, <2>3 DEF forward_http, Enlist
<1>16. CASE conn_copy_read("req")
  BY <1>0, <1>1, <1>2, <1>4, <1>16 DEF conn_copy_read, Source, Gone
<1>17. ~conn_copy_write("req")
  BY <1>0, <1>2, <1>4, <1>5, <1>7, ReqAt DEF conn_copy_write, Target, Using
<1>18. ~req_copied
  BY <1>5, <1>7, ReqAt DEF req_copied, Using
<1>19. ~release
  <2>1. srv \in Servers \cup {None}
    BY DEF IInv, Own, Serving
  <2> QED
    BY <1>2, <1>5, <2>1 DEF release
<1>20. ~req_clean
  BY FrameAndIds, ReqAt
<1> QED
  BY <1>8, <1>9, <1>10, <1>11, <1>12, <1>13, <1>14, <1>15, <1>16, <1>17, <1>18, <1>19, <1>20 DEF ReqHandler

\* While servers stay, the server rsp reads from works; req asks for nothing while it runs.
ReadsLiving == run # "rsp" /\ pc["rsp"] \in {"fetch", "copy_read"} =>
                   Oldest.srv \in Servers /\ Oldest.srv \in net.reg /\ ~Closed(Oldest.srv)
ReqUnasked == run = "req" => \A c \in Conns : net.hr[c] # "req" /\ net.hw[c] # "req"

\* Both follow from what is known.
LEMMA LivingServers ==
  ASSUME IInv, Stay, ~exiting
  PROVE  ReadsLiving /\ ReqUnasked
<1>1. ASSUME run # "rsp", pc["rsp"] \in {"fetch", "copy_read"}
      PROVE  Oldest.srv \in Servers /\ Oldest.srv \in net.reg /\ ~Closed(Oldest.srv)
  <2>2. cxt.list # <<>> /\ cxt.list \in Seq(Requests)
    BY <1>1 DEF IInv, Own, Numbers, Busy, CxtOk
  <2>3. 1 \in 1 .. Len(cxt.list) /\ Oldest = cxt.list[1]
    BY <2>2, EmptySeq DEF Oldest
  <2>4. Oldest.srv \in Servers /\ InPool(Oldest.srv)
    BY <1>1, <2>3, ListedServers DEF Stay, Placed, Late
  <2>5. ~Closing(Oldest.srv)
    BY <1>1 DEF Closing
  <2> QED
    BY <2>4, <2>5, AliveOpen
<1> QED
  BY <1>1, ReqUnregistered DEF ReadsLiving, ReqUnasked

\* A step of req keeps Recalled.
LEMMA RecalledReq ==
  ASSUME IInv, Plain, Recalled, ~exiting, Unpolled, UNCHANGED env, ReqHandler,
         IInv', ReadsLiving', ReqUnasked', Plain'
  PROVE  Recalled'
<1>0. /\ run = "req" /\ ReqFlow /\ Control /\ pc'["rsp"] = pc["rsp"] /\ Step
      /\ queue \in Seq(Events) /\ pc["req"] \notin Paused
  BY ReqFlows DEF ReqFlow, ReqTurn, IInv, Own, Loop, Step, Control, Coros
<1>1. pc'["req"] = "bad_gateway" => run' = "req" /\ ~again'
  <2>1. SUFFICES ASSUME pc'["req"] = "bad_gateway" PROVE run' = "req"
    BY ReqPosts
  <2>2. CASE WaitsFor("req")
    <3>1. pc["req"] = "bad_gateway" /\ (again \/ ~Closed(Client))
      BY <2>1, <2>2 DEF WaitsFor, conn_try_io, IoConn
    <3> QED
      BY <3>1 DEF Plain, Over, Recalled
  <2>3. CASE Passes("req")
    BY <2>1, <2>3 DEF Passes, InIo
  <2>4. ASSUME NEW s, Awaited(s) PROVE FALSE
    BY <1>0, <2>1, <2>4, PcFacts DEF Awaited, Coros, ReqLabels
  <2> QED
    BY <2>2, <2>3, <2>4, ReqWaitsOrPasses
<1>2. run' # "rsp"
  BY <1>0 DEF ReqFlow, ReqTurn
<1>3. pc'["rsp"] = "init" => Noticed("rsp")'
  BY <1>0, <1>2, NoticeStays DEF Recalled
<1>4. ASSUME Lost("rsp")' PROVE Noticed("rsp")' \/ (run' = "req" /\ pc'["req"] \in Gone)
  <2>0. pc["rsp"] # "done" /\ "rsp" \in armed /\ "rsp" \in Coros
    BY <1>0, <1>4, FrameAndIds DEF Lost, InIo, Coros
  <2>1. CASE Lost("rsp")
    <3>1. CASE Noticed("rsp")
      BY <1>0, <1>2, <3>1, NoticeStays
    <3>2. CASE pc["req"] \in Gone
      <4>1. CASE pc["req"] = "finish"
        <5>1. queue' = Append(queue, [to |-> "rsp", more |-> FALSE]) /\ "rsp" \in armed'
          BY <2>0, <4>1, ReqPosts
        <5>2. /\ Len(queue) + 1 \in DOMAIN queue'
              /\ queue'[Len(queue) + 1] = [to |-> "rsp", more |-> FALSE]
          BY <1>0, <5>1, AppendKeeps
        <5> QED
          BY <5>1, <5>2 DEF Noticed
      <4>2. CASE pc["req"] # "finish"
        <5>1. pc'["req"] \in Gone
          BY <1>0, <3>2, <4>2 DEF ReqFlow, ReqEdge, Gone
        <5>2. run' = "req"
          BY <1>1, <1>0, <5>1 DEF ReqFlow, ReqTurn, Gone, ReqStraight
        <5> QED
          BY <5>1, <5>2
      <4> QED
        BY <4>1, <4>2
    <3> QED
      BY <2>1, <3>1, <3>2 DEF Recalled
  <2>2. CASE ~Lost("rsp")
    <3>1. Dropped("rsp") \/ Overwritten("rsp")
      BY <1>4, <2>0, <2>2, ReqLoses
    <3>2. InIo("rsp")' /\ Slot("rsp")' # "rsp"
      BY <1>4 DEF Lost, Served
    <3>3. /\ pc'["rsp"] \in {"fetch", "copy_read"} =>
                 /\ IoConn("rsp")' = Oldest'.srv /\ IoDir("rsp")' = "read"
                 /\ Oldest'.srv \in Servers /\ Oldest'.srv \in net'.reg /\ ~Closed(Oldest.srv)'
          /\ pc'["rsp"] \notin {"fetch", "copy_read"} => IoConn("rsp")' = Client /\ IoDir("rsp")' = "write"
      BY <1>2, <3>2 DEF ReadsLiving, IoConn, IoDir, InIo
    <3>4. CASE Dropped("rsp")
      <4>1. IoConn("rsp") \in net.reg \ net'.reg
        BY <3>4 DEF Dropped
      <4>2. InIo("rsp")
        BY <1>0, <3>2 DEF InIo
      <4>3. IoConn("rsp")' = IoConn("rsp")
        BY <1>0, <2>0, <4>2, SameIo, ReqKeepsOldest
      <4> QED
        BY <2>0, <3>3, <4>1, <4>3, ReqDropsClient
    <3>5. CASE Overwritten("rsp")
      <4>1. /\ InIo("req")' /\ IoConn("req")' = IoConn("rsp")' /\ IoDir("req")' = IoDir("rsp")'
            /\ Slot("rsp")' = "req"
        BY <3>5 DEF Overwritten, Other
      <4>2. /\ pc'["req"] \in {"conn_wait", "forward", "copy_write"} => srv' \in Servers
            /\ pc'["req"] = "conn_wait" => Closed(srv)'
        BY DEF IInv, Own, Serving, Attempt, Using
      <4>3. CASE pc'["rsp"] \in {"fetch", "copy_read"}
        BY <3>3, <4>1, <4>2, <4>3, SessionAssumption DEF InIo, IoConn, IoDir, Closed
      <4>4. CASE pc'["rsp"] \notin {"fetch", "copy_read"}
        <5>1. pc'["req"] \in {"bad_request", "connect_ok", "bad_gateway"}
          BY <3>3, <4>1, <4>2, <4>4, SessionAssumption DEF InIo, IoConn, IoDir
        <5>2. run' = "req"
          BY <1>1, <5>1 DEF Plain
        <5>3. net'.hw[Client] = "req" /\ Client \in Conns
          BY <3>3, <4>1, <4>4 DEF Slot, Conns
        <5> QED
          BY <5>2, <5>3 DEF ReqUnasked
      <4> QED
        BY <4>3, <4>4
    <3> QED
      BY <3>1, <3>4, <3>5
  <2> QED
    BY <2>1, <2>2
<1> QED
  BY <1>1, <1>3, <1>4 DEF Recalled

\* How a step of rsp or of the main loop changes where the coroutines are.
LEMMA RestMoves ==
  ASSUME IInv, UNCHANGED env, RspHandler \/ MainLoop
  PROVE  /\ run # "req"
         /\ pc'["req"] = "bad_gateway" => pc["req"] = "bad_gateway"
         /\ pc'["rsp"] = "init" => pc["rsp"] = "init"
<1>0. Control /\ "req" \in Coros /\ "rsp" \in Coros
  BY DEF IInv, Own, Coros
<1>1. ASSUME NEW k \in Coros, NEW ret \in {-1, 0, 1}, Wakes(k, ret)
      PROVE  /\ pc'["req"] = "bad_gateway" => pc["req"] = "bad_gateway"
             /\ pc'["rsp"] = "init" => pc["rsp"] = "init"
  BY <1>0, <1>1, WakesTo DEF Wakes, Coros
<1>2. CASE RspHandler
  BY <1>2, RspFlows DEF RspFlow, RspTurn, RspEdge
<1>3. CASE event_work
  <2>1. EventTaken
    BY <1>3, EventsTaken
  <2>2. PICK k, ret : k = Owner(queue[1].to) /\ ret = IF queue[1].more THEN 0 ELSE 1
    OBVIOUS
  <2>3. k \in Coros /\ ret \in {-1, 0, 1}
    BY <2>2 DEF Owner, Coros
  <2> QED
    BY <1>1, <2>1, <2>2, <2>3 DEF EventTaken
<1>4. CASE conn_epoll_handler
  <2>1. CallMade
    BY <1>4, CallsMade
  <2>2. PICK k, ret : k = agenda[1].k /\ ret = IF agenda[1].err THEN -1 ELSE 0
    OBVIOUS
  <2>3. k \in Coros /\ ret \in {-1, 0, 1}
    BY <2>1, <2>2 DEF CallMade, Calls
  <2> QED
    BY <1>1, <2>1, <2>2, <2>3 DEF CallMade
<1>5. CASE epoll_wait \/ net_pull_work \/ dns_notify_handler
  BY <1>5 DEF epoll_wait, net_pull_work, dns_notify_handler, loop, MainTurn, Runs
<1> QED
  BY <1>2, <1>3, <1>4, <1>5 DEF MainLoop

\* Every other step keeps Recalled.
LEMMA RecalledRest ==
  ASSUME IInv, Recalled, ~exiting, Unpolled, UNCHANGED env, Step, ~ReqHandler, IInv'
  PROVE  Recalled'
<1>0. Control /\ Control' /\ "rsp" \in Coros
  BY DEF IInv, Own, Coros
<1>1. CASE \E c \in Conns : PeerCloses(c)
  BY <1>1 DEF PeerCloses, loop, Recalled, Noticed, Lost, Served, Slot, InIo, IoConn, IoDir, Oldest
<1>2. CASE RspHandler \/ MainLoop
  <2>1. /\ run # "req" /\ pc'["req"] # "bad_gateway"
    BY <1>2, RestMoves DEF Recalled
  <2>2. ASSUME pc'["rsp"] = "init" PROVE Noticed("rsp")'
    <3>1. Noticed("rsp") /\ run # "rsp" /\ run' # "rsp"
      BY <1>0, <1>2, <2>2, RestMoves DEF Recalled, Control, Paused, EventWaits, Coros
    <3> QED
      BY <3>1, NoticeStays
  <2>3. ASSUME Lost("rsp")' PROVE Noticed("rsp")'
    <3>1. run' # "rsp"
      BY <2>3 DEF Lost, Served
    <3>2. CASE Lost("rsp")
      BY <2>1, <3>1, <3>2, NoticeStays DEF Recalled, Lost, Served
    <3>3. CASE ~Lost("rsp")
      <4>1. CASE MainLoop
        BY <1>0, <2>3, <3>3, <4>1, MainLosesNothing
      <4>2. CASE RspHandler
        BY <1>0, <2>1, <2>3, <3>3, <4>2, RspLoses DEF Dropped, Overwritten, Other
      <4> QED
        BY <1>2, <4>1, <4>2
    <3> QED
      BY <3>2, <3>3
  <2> QED
    BY <2>1, <2>2, <2>3 DEF Recalled
<1> QED
  BY <1>1, <1>2 DEF Step

\* Recalled is an invariant in these worlds, until the process exits.
LEMMA AlwaysRecalled == Spec => [](Gentle /\ ~exiting => Recalled)
<1> DEFINE Known == /\ IInv /\ (ServersStay => Stay) /\ (Gentle /\ ~exiting => Plain)
                    /\ (~exiting => Unpolled)
           Lively == Gentle /\ ~exiting => ReadsLiving /\ ReqUnasked
<1>1. Init => Recalled
  <2>1. SUFFICES ASSUME Init PROVE Recalled
    OBVIOUS
  <2>2. pc["req"] = "init" /\ pc["rsp"] = "init" /\ "rsp" \in armed
    BY <2>1 DEF Init, Coros
  <2>3. \E i \in DOMAIN queue : queue[i].to = "rsp"
    BY <2>1 DEF Init
  <2> QED
    BY <2>2, <2>3 DEF Recalled, Noticed, Lost, InIo
<1>2. Gentle => ServersStay
  BY DEF Gentle, ServersStay
<1>3. Known => Lively
  BY <1>2, LivingServers
<1>4. /\ Known /\ Known' /\ Lively' /\ (Gentle /\ ~exiting => Recalled) /\ [Next]_vars
      => (Gentle /\ ~exiting => Recalled)'
  <2>1. SUFFICES ASSUME Known, Known', Lively', Gentle /\ ~exiting => Recalled, [Next]_vars, Gentle', ~exiting'
                 PROVE  Recalled'
    OBVIOUS
  <2>2. ~exiting /\ (UNCHANGED vars \/ (Step /\ UNCHANGED env)) /\ Gentle
    BY <2>1, ExitStays, SameWorld DEF Gentle, Faults, Kinds
  <2>3. CASE UNCHANGED vars
    BY <2>1, <2>2, <2>3
       DEF vars, loop, look, Recalled, Noticed, Lost, Served, Slot, InIo, IoConn, IoDir, Oldest
  <2>4. CASE Step /\ UNCHANGED env
    BY <2>1, <2>2, <2>4, RecalledReq, RecalledRest
  <2> QED
    BY <2>2, <2>3, <2>4
<1>5. Spec => []Known
  BY AlwaysIInv, AlwaysStay, AlwaysPlain, AlwaysUnpolled, PTL
<1> QED
  BY <1>1, <1>3, <1>4, <1>5, PTL DEF Spec

(***************************************************************************)
(* Where only the client goes away, an rsp that req waits for is not left  *)
(* behind: req drops its registration only on the way to the notice of     *)
(* net_handle.c:168 (Recalled), the test of net_handle.c:217 keeps rsp     *)
(* from waiting for a request again (Dismissed), and between its waits rsp *)
(* has the processor.                                                      *)
(***************************************************************************)
THEOREM RspIsNotLeft == Spec => []RspNotLeft
<1>1. ASSUME IInv, General, Gentle => Dismissed, Gentle => Recalled
      PROVE  RspNotLeft
  <2>1. SUFFICES ASSUME Gentle, pc["req"] = "fin", pc["rsp"] # "done"
                 PROVE  Noticed("rsp") \/ run = "rsp" \/ (InIo("rsp") /\ Served("rsp"))
    BY <1>1 DEF RspNotLeft, Gentle
  <2>2. pc["rsp"] \in RspLabels /\ "rsp" \in armed /\ queue \in Seq(Events) /\ run # "req"
    BY <1>1, <2>1, FrameAndIds DEF IInv, Own, Control, Loop, Paused, EventWaits, Coros
  <2>3. CASE pc["rsp"] = "init"
    BY <1>1, <2>1, <2>3 DEF Recalled
  <2>4. CASE pc["rsp"] = "idle"
    BY <1>1, <2>1, <2>2, <2>4 DEF Dismissed, Noticed
  <2>5. CASE pc["rsp"] \in RspStraight
    BY <1>1, <2>5 DEF General, Straight
  <2>6. CASE InIo("rsp")
    BY <1>1, <2>1, <2>2, <2>6 DEF Recalled, Lost
  <2> QED
    BY <2>1, <2>2, <2>3, <2>4, <2>5, <2>6 DEF RspLabels, RspStraight, InIo
<1>2. /\ IInv /\ General /\ (Gentle /\ ~exiting => Dismissed) /\ (Gentle /\ ~exiting => Recalled)
      /\ ("shutdown" \notin Faults => ~exiting)
      => RspNotLeft
  <2>1. "shutdown" \in Faults => RspNotLeft
    BY DEF RspNotLeft
  <2> QED
    BY <1>1, <2>1
<1> QED
  BY <1>2, AlwaysIInv, AlwaysGeneral, AlwaysDismissed, AlwaysRecalled, NoExit, PTL
=============================================================================
