-------------------------- MODULE SessionInvariant --------------------------
(***************************************************************************)
(* The inductive invariant of Session.tla, and lemmas about the operations *)
(* it is proved with: those of Network.tla and those on the event queue.   *)
(***************************************************************************)
EXTENDS Session, TLAPS, SequenceTheorems, FiniteSetTheorems

\* The theorems about Handshake.tla, under Session's mapping.
HP == INSTANCE HandshakeProofs WITH
    req <- ReqState, rsp <- RspState, queue <- Notices(queue), armed <- armed \ {"dns"}

\* A coroutine that has the processor is at none of these.
Paused == EventWaits \cup {"dns_wait", "conn_wait", "done"}

Control ==
    /\ pc \in [Coros -> ReqLabels \cup RspLabels]
    /\ pc["req"] \in ReqLabels /\ pc["rsp"] \in RspLabels
    /\ run \in Coros \cup {"main"} /\ again \in BOOLEAN /\ exiting \in BOOLEAN
    /\ run \in Coros => pc[run] \notin Paused
    /\ pc["req"] = "clean" => run = "req"
    /\ pc["rsp"] = "exit" => run = "rsp"
    /\ world \in Worlds

Events  == [to : {"req", "rsp", "dns"}, more : BOOLEAN]
Calls   == [k : Coros, err : BOOLEAN]
Entries == [c : Conns, hr : Coros \cup {None}, hw : Coros \cup {None}]

\* At most one event of the resolver is queued.
OneDns(q) == \A i, j \in 1 .. Len(q) : q[i].to = "dns" /\ q[j].to = "dns" => i = j

\* What the main loop works on.
Loop ==
    /\ queue \in Seq(Events) /\ OneDns(queue)
    /\ armed \subseteq {"req", "rsp", "dns"}
    /\ "dns" \in armed => \/ pc["req"] = "dns_wait"
                          \/ pc["req"] = "dns_final" /\ run = "req"
    /\ batch \subseteq [c : Conns, err : BOOLEAN]
    /\ agenda \in Seq(Calls)
    /\ doomed \in Seq(Entries)
    /\ ~exiting => doomed = <<>>

\* req is sent one notice, while it waits for one; the one that ends its last wait
\* is the last act of rsp.
ReqNotice ==
    \A i \in 1 .. Len(queue) : queue[i].to = "req" =>
        /\ pc["req"] \in {"init", "fin"}
        /\ pc["req"] = "fin" => pc["rsp"] = "done"
        /\ \A j \in 1 .. Len(queue) : queue[j].to = "req" => i = j

\* A network value.
NetShape(n) == n = [stat |-> n.stat, fd |-> n.fd, reg |-> n.reg, hr |-> n.hr, hw |-> n.hw,
                    ref |-> n.ref, fault |-> n.fault]

NetTypes(n) ==
    /\ NetShape(n)
    /\ n.stat \in [Conns -> {"open", "closed"}]
    /\ n.fd \subseteq Conns /\ n.reg \subseteq n.fd
    /\ n.hr \in [Conns -> Coros \cup {None}] /\ n.hw \in [Conns -> Coros \cup {None}]
    /\ n.ref \in [Conns -> Nat]

\* What TypeOK says of it; x is exiting.
NetOpen(n, x) ==
    /\ \A c \in Conns : n.stat[c] # "closed" => (c \in n.reg \/ x) /\ n.ref[c] > 0
    /\ \A c \in Conns : c \notin n.reg => n.hr[c] = None /\ n.hw[c] = None

NetOk(n, x) == NetTypes(n) /\ NetOpen(n, x)

Requests == [id : Nat, kind : {"http", "connect"}, srv : Servers]

\* The flags of the shared context agree with where the coroutines are.
CxtOk ==
    /\ cxt = [list |-> cxt.list, pool |-> cxt.pool,
              req_blocked |-> cxt.req_blocked, rsp_blocked |-> cxt.rsp_blocked,
              req_will_exit |-> cxt.req_will_exit, rsp_will_exited |-> cxt.rsp_will_exited]
    /\ cxt.list \in Seq(Requests)
    /\ cxt.pool \in [Eps -> Servers \cup {None}]
    /\ cxt.req_blocked = (pc["req"] \in {"init", "fin"})
    /\ cxt.rsp_blocked = (pc["rsp"] \in {"init", "idle"})
    /\ cxt.rsp_will_exited = FALSE

\* req has a request that is not listed yet; it connects to a server for it; it
\* uses a server.
Unlisted == {"lookup", "dns_wait", "dns_final", "try", "connect", "conn_wait", "connected",
             "conn_failed", "forward", "enlist"}
Attempt  == {"connect", "conn_wait", "connected", "conn_failed"}
Using    == {"forward", "enlist", "connect_ok", "copy_read", "copy_write", "copied"}

\* rsp works on the oldest request.
Busy == {"fetch", "bad_gateway", "header", "framing", "copy_read", "copy_write", "copied",
         "copy_failed", "post", "continue"}

\* The list holds what has been forwarded and not answered.
Numbers ==
    /\ cur = [id |-> cur.id, kind |-> cur.kind, host |-> cur.host]
    /\ cur.id \in 0 .. world.reqs /\ cur.kind \in {"http", "connect"}
    /\ cur.id > 0 => cur.host \in Hosts
    /\ at \in Nat \ {0} /\ forwarded \in 0 .. cur.id /\ answered \in Nat
    /\ pc["req"] \in Unlisted => forwarded < cur.id
    /\ pc["req"] # "done" => forwarded = answered + Len(cxt.list)
    /\ pc["req"] = "done" => answered <= forwarded /\ cxt.list = <<>>
    /\ pc["rsp"] \in Busy => cxt.list # <<>>

\* The server of an attempt is closed, known to net_pull and not in the pool.
Serving ==
    /\ srv \in Servers \cup {None}
    /\ pc["req"] \in Using => srv \in Servers
    /\ pc["req"] \in Attempt => at <= Len(Addrs[cur.host]) /\ cxt.pool[Ep] = None
    /\ pc["req"] \in Attempt \ {"connect"} =>
           /\ srv \in Servers /\ EpOf[srv] = Ep /\ Closed(srv)
           /\ srv \in net.reg \/ exiting

\* Where an epoll handler that resumes k is kept.
Sites(k) == {<<"read", c>> : c \in {d \in Conns : net.hr[d] = k}}
            \cup {<<"write", c>> : c \in {d \in Conns : net.hw[d] = k}}
            \cup {<<"call", i>> : i \in {j \in 1 .. Len(agenda) : agenda[j].k = k}}
            \cup {<<"dread", i>> : i \in {j \in 1 .. Len(doomed) : doomed[j].hr = k}}
            \cup {<<"dwrite", i>> : i \in {j \in 1 .. Len(doomed) : doomed[j].hw = k}}

\* req is resumed by epoll once for each wait and only where it waits for it; rsp,
\* which its event can resume anywhere, not before its first event.
Handlers == /\ \A x, y \in Sites("req") : x = y
            /\ Sites("req") # {} => /\ run # "req"
                                    /\ pc["req"] \notin {"init", "fin", "dns_wait", "done"}
            /\ pc["rsp"] = "init" => Sites("rsp") = {}

Own == /\ Control /\ Loop /\ ReqNotice /\ NetOk(net, exiting)
       /\ CxtOk /\ Numbers /\ Serving /\ Handlers

IInv == Own /\ HP!IInv
-----------------------------------------------------------------------------
(***************************************************************************)
(* The operations of Network.tla.                                          *)
(***************************************************************************)
\* m has no handler that n has not.
Fewer(n, m) == \A c \in Conns : m.hr[c] \in {n.hr[c], None} /\ m.hw[c] \in {n.hw[c], None}

\* A closed connection stays closed and known to net_pull, but for those in S.
Keeps(n, m, S) == /\ \A d \in Conns : n.stat[d] = "closed" => m.stat[d] = "closed"
                  /\ \A d \in Conns \ S : d \in n.reg /\ n.stat[d] = "closed" => d \in m.reg

NetStep(n, m, S, x) == NetOk(m, x) /\ Fewer(n, m) /\ Keeps(n, m, S)

\* The fields after net_pull_del, Shut, and an update of one field.
DelIs(n, m, c) ==
    /\ NetShape(m) /\ m.stat = n.stat /\ m.fd = n.fd /\ m.reg = n.reg \ {c}
    /\ m.hr = [n.hr EXCEPT ![c] = None] /\ m.hw = [n.hw EXCEPT ![c] = None]
    /\ m.ref = n.ref /\ m.fault = n.fault
ShutIs(n, m, c) ==
    /\ NetShape(m) /\ m.stat = [n.stat EXCEPT ![c] = "closed"] /\ m.fd = n.fd \ {c}
    /\ m.reg = n.reg \ {c}
    /\ m.hr = [n.hr EXCEPT ![c] = None] /\ m.hw = [n.hw EXCEPT ![c] = None]
    /\ m.ref = n.ref /\ m.fault = n.fault
SetIs(n, m, stat, hr, hw, ref) ==
    /\ NetShape(m) /\ m.stat = stat /\ m.fd = n.fd /\ m.reg = n.reg
    /\ m.hr = hr /\ m.hw = hw /\ m.ref = ref

\* net_pull_del forgets c and its handlers.
LEMMA DelFields ==
  ASSUME NEW n, NetShape(n), NEW c, NEW m, m = net_pull_del(n, c)
  PROVE  DelIs(n, m, c)
BY DEF net_pull_del, NetShape, DelIs

\* Shut also closes its descriptor and marks it closed.
LEMMA ShutFields ==
  ASSUME NEW n, NetShape(n), NEW c, NEW m, m = Shut(n, c)
  PROVE  ShutIs(n, m, c)
<1>1. PICK d : d = net_pull_del(n, c)
  OBVIOUS
<1>2. m = [d EXCEPT !.fd = @ \ {c}, !.stat[c] = "closed"]
  BY <1>1 DEF Shut
<1>3. DelIs(n, d, c)
  BY <1>1, DelFields
<1> QED
  BY <1>2, <1>3 DEF NetShape, DelIs, ShutIs

\* An update of one field leaves the others.
LEMMA SetFields ==
  ASSUME NEW n, NetShape(n), NEW c, NEW v, NEW m
  PROVE  /\ m = [n EXCEPT !.stat[c] = v]
                => SetIs(n, m, [n.stat EXCEPT ![c] = v], n.hr, n.hw, n.ref)
         /\ m = [n EXCEPT !.hr[c] = v]
                => SetIs(n, m, n.stat, [n.hr EXCEPT ![c] = v], n.hw, n.ref)
         /\ m = [n EXCEPT !.hw[c] = v]
                => SetIs(n, m, n.stat, n.hr, [n.hw EXCEPT ![c] = v], n.ref)
         /\ m = [n EXCEPT !.ref[c] = v]
                => SetIs(n, m, n.stat, n.hr, n.hw, [n.ref EXCEPT ![c] = v])
         /\ m = [n EXCEPT !.fault = v]
                => SetIs(n, m, n.stat, n.hr, n.hw, n.ref)
BY DEF NetShape, SetIs

\* A handler slot that is empty resumes no coroutine.
LEMMA NoNone == None \notin Coros /\ "req" # None /\ "rsp" # None
BY SessionAssumption DEF Coros

\* A step of the network in which nothing changes, and two in a row.
LEMMA SameNet ==
  ASSUME NEW n, NEW x \in BOOLEAN, NetOk(n, x)
  PROVE  NetStep(n, n, {}, x)
BY DEF NetStep, Fewer, Keeps

\* Two steps of the network are one.
LEMMA TwoSteps ==
  ASSUME NEW n, NEW m, NEW p, NEW S, NEW T, NEW x,
         NetStep(n, m, S, x), NetStep(m, p, T, x)
  PROVE  NetStep(n, p, S \cup T, x)
<1>1. NetOk(p, x)
  BY DEF NetStep
<1>2. Fewer(n, p)
  BY DEF NetStep, Fewer
<1>3. Keeps(n, p, S \cup T)
  BY DEF NetStep, Keeps
<1> QED
  BY <1>1, <1>2, <1>3 DEF NetStep

\* A connection is shut.
LEMMA ShutFacts ==
  ASSUME NEW n, NEW x \in BOOLEAN, NetOk(n, x), NEW c \in Conns, NEW m, m = Shut(n, c)
  PROVE  NetStep(n, m, {c}, x) /\ m.ref = n.ref /\ m.stat[c] = "closed"
<1>1. ShutIs(n, m, c)
  BY ShutFields DEF NetOk, NetTypes
<1>2. NetTypes(m)
  BY <1>1 DEF NetTypes, NetOk, ShutIs
<1> QED
  BY <1>1, <1>2 DEF NetTypes, NetOk, NetOpen, Fewer, Keeps, ShutIs, NetStep

\* conn_close leaves a connection that is already closed alone.
LEMMA CloseFacts ==
  ASSUME NEW n, NEW x \in BOOLEAN, NetOk(n, x), NEW c \in Conns, NEW m, m = conn_close(n, c)
  PROVE  NetStep(n, m, {}, x)
<1>1. CASE n.stat[c] = "closed"
  BY <1>1, SameNet DEF conn_close
<1>2. CASE n.stat[c] # "closed"
  <2>1. NetStep(n, m, {c}, x)
    BY <1>2, ShutFacts DEF conn_close
  <2> QED
    BY <2>1, <1>2 DEF NetStep, Keeps
<1> QED
  BY <1>1, <1>2

\* An update of a reference count; the connection stays referenced or is closed.
LEMMA RefFacts ==
  ASSUME NEW n, NEW x \in BOOLEAN, NetOk(n, x), NEW c \in Conns, NEW v \in Nat,
         n.stat[c] = "closed" \/ v > 0, NEW m, m = [n EXCEPT !.ref[c] = v]
  PROVE  NetStep(n, m, {}, x) /\ m.stat = n.stat /\ m.reg = n.reg
<1>1. SetIs(n, m, n.stat, n.hr, n.hw, [n.ref EXCEPT ![c] = v])
  BY SetFields DEF NetOk, NetTypes
<1>2. NetTypes(m)
  BY <1>1 DEF NetTypes, NetOk, SetIs
<1> QED
  BY <1>1, <1>2 DEF NetTypes, NetOk, NetOpen, Fewer, Keeps, SetIs, NetStep

\* An invalid memory access is recorded, nothing else changes.
LEMMA FaultFacts ==
  ASSUME NEW n, NEW x \in BOOLEAN, NetOk(n, x), NEW v, NEW m, m = [n EXCEPT !.fault = v]
  PROVE  NetStep(n, m, {}, x)
<1>1. SetIs(n, m, n.stat, n.hr, n.hw, n.ref)
  BY SetFields DEF NetOk, NetTypes
<1>2. NetTypes(m)
  BY <1>1 DEF NetTypes, NetOk, SetIs
<1> QED
  BY <1>1, <1>2 DEF NetTypes, NetOk, NetOpen, Fewer, Keeps, SetIs, NetStep

\* conn_done, when the last reference goes, shuts it whatever its state.
LEMMA DoneFacts ==
  ASSUME NEW n, NEW x \in BOOLEAN, NetOk(n, x), NEW c \in Conns, NEW m, m = conn_done(n, c)
  PROVE  NetStep(n, m, {c}, x)
<1>1. PICK s : s = Shut(n, c)
  OBVIOUS
<1>2. m = [s EXCEPT !.ref[c] = 0]
  BY <1>1 DEF conn_done, conn_close
<1>3. NetStep(n, s, {c}, x) /\ s.stat[c] = "closed" /\ NetOk(s, x)
  BY <1>1, ShutFacts DEF NetStep
<1>4. NetStep(s, m, {}, x)
  BY <1>2, <1>3, RefFacts
<1> QED
  BY <1>3, <1>4, TwoSteps

\* mem_decref: an invalid access, the end of the connection, or one reference less.
LEMMA DecrefFacts ==
  ASSUME NEW n, NEW x \in BOOLEAN, NetOk(n, x), NEW c \in Conns, NEW m, m = mem_decref(n, c)
  PROVE  NetStep(n, m, {c}, x)
<1>0. n.ref[c] \in Nat
  BY DEF NetOk, NetTypes
<1>1. CASE n.ref[c] = 0
  <2>1. m = [n EXCEPT !.fault = "freed"]
    BY <1>1 DEF mem_decref
  <2> QED
    BY <2>1, FaultFacts DEF NetStep, Keeps
<1>2. CASE n.ref[c] = 1
  BY <1>2, DoneFacts DEF mem_decref
<1>3. CASE n.ref[c] > 1
  <2>1. m = [n EXCEPT !.ref[c] = n.ref[c] - 1]
    BY <1>3 DEF mem_decref
  <2>2. n.ref[c] - 1 \in Nat /\ n.ref[c] - 1 > 0
    BY <1>0, <1>3
  <2> QED
    BY <2>1, <2>2, RefFacts DEF NetStep, Keeps
<1> QED
  BY <1>0, <1>1, <1>2, <1>3

\* mem_incref.
LEMMA IncrefFacts ==
  ASSUME NEW n, NEW x \in BOOLEAN, NetOk(n, x), NEW c \in Conns, NEW m, m = mem_incref(n, c)
  PROVE  NetStep(n, m, {}, x)
<1>1. m = [n EXCEPT !.ref[c] = n.ref[c] + 1]
  BY DEF mem_incref
<1>2. n.ref[c] + 1 \in Nat /\ n.ref[c] + 1 > 0
  BY DEF NetOk, NetTypes
<1> QED
  BY <1>1, <1>2, RefFacts

\* The only handler m has and n has not is k's for dir on c.
Waits(n, m, c, dir, k) ==
    \A d \in Conns : /\ m.hr[d] # n.hr[d] => d = c /\ dir = "read" /\ m.hr[d] = k
                     /\ m.hw[d] # n.hw[d] => d = c /\ dir = "write" /\ m.hw[d] = k

\* net_pull_set_handler registers k for dir on c, if c is known.
LEMMA HandlerFacts ==
  ASSUME NEW n, NEW x \in BOOLEAN, NetOk(n, x), NEW c \in Conns, NEW dir \in {"read", "write"},
         NEW k \in Coros, NEW m, m = net_pull_set_handler(n, c, dir, k)
  PROVE  NetOk(m, x) /\ Keeps(n, m, {}) /\ Waits(n, m, c, dir, k)
<1>1. CASE c \notin n.reg
  BY <1>1 DEF net_pull_set_handler, Keeps, Waits
<1>2. CASE c \in n.reg /\ dir = "read"
  <2>1. m = [n EXCEPT !.hr[c] = k]
    BY <1>2 DEF net_pull_set_handler
  <2>2. SetIs(n, m, n.stat, [n.hr EXCEPT ![c] = k], n.hw, n.ref)
    BY <2>1, SetFields DEF NetOk, NetTypes
  <2>3. NetTypes(m)
    BY <2>2 DEF NetTypes, NetOk, SetIs
  <2> QED
    BY <1>2, <2>2, <2>3 DEF NetTypes, NetOk, NetOpen, Keeps, SetIs, Waits
<1>3. CASE c \in n.reg /\ dir = "write"
  <2>1. m = [n EXCEPT !.hw[c] = k]
    BY <1>3 DEF net_pull_set_handler
  <2>2. SetIs(n, m, n.stat, n.hr, [n.hw EXCEPT ![c] = k], n.ref)
    BY <2>1, SetFields DEF NetOk, NetTypes
  <2>3. NetTypes(m)
    BY <2>2 DEF NetTypes, NetOk, SetIs
  <2> QED
    BY <1>3, <2>2, <2>3 DEF NetTypes, NetOk, NetOpen, Keeps, SetIs, Waits
<1> QED
  BY <1>1, <1>2, <1>3

\* A new connection is known to net_pull, closed and without a handler.
LEMMA OpenedFacts ==
  ASSUME NEW x \in BOOLEAN, NetOk(net, x), NEW e, NEW s \in Fresh(e), NEW m, m = Opened(s)
  PROVE  /\ NetOk(m, x) /\ Fewer(net, m) /\ Keeps(net, m, {})
         /\ s \in m.reg /\ m.stat[s] = "closed" /\ m.hr = net.hr /\ m.hw = net.hw
<1>1. s \in Conns /\ net.ref[s] = 0
  BY DEF Fresh, Conns
<1>2. net.stat[s] = "closed"
  BY <1>1 DEF NetOk, NetTypes, NetOpen
<1>3. /\ NetShape(m) /\ m.stat = net.stat /\ m.fd = net.fd \cup {s} /\ m.reg = net.reg \cup {s}
      /\ m.hr = net.hr /\ m.hw = net.hw /\ m.ref = [net.ref EXCEPT ![s] = 1]
  BY DEF NetOk, NetTypes, NetShape, Opened
<1>4. NetTypes(m)
  BY <1>1, <1>3 DEF NetTypes, NetOk
<1> QED
  BY <1>1, <1>2, <1>3, <1>4 DEF NetTypes, NetOk, NetOpen, Fewer, Keeps

\* A connection known to net_pull is established.
LEMMA EstablishedFacts ==
  ASSUME NEW n, NEW x \in BOOLEAN, NetOk(n, x), NEW s \in Conns, s \in n.reg \/ x,
         NEW m, m = Established(n, s)
  PROVE  NetOk(m, x) /\ Fewer(n, m)
<1>1. PICK p : p = [n EXCEPT !.stat[s] = "open"]
  OBVIOUS
<1>2. SetIs(n, p, [n.stat EXCEPT ![s] = "open"], n.hr, n.hw, n.ref)
  BY <1>1, SetFields DEF NetOk, NetTypes
<1>3. NetShape(p) /\ m = [p EXCEPT !.ref[s] = p.ref[s] + 1]
  BY <1>1, <1>2 DEF Established, mem_incref, SetIs
<1>4. SetIs(p, m, p.stat, p.hr, p.hw, [p.ref EXCEPT ![s] = p.ref[s] + 1])
  BY <1>3, SetFields
<1>5. /\ NetShape(m) /\ m.stat = [n.stat EXCEPT ![s] = "open"] /\ m.fd = n.fd /\ m.reg = n.reg
      /\ m.hr = n.hr /\ m.hw = n.hw /\ m.ref = [n.ref EXCEPT ![s] = n.ref[s] + 1]
  BY <1>2, <1>4 DEF SetIs
<1>6. NetTypes(m)
  BY <1>5 DEF NetTypes, NetOk
<1> QED
  BY <1>5, <1>6 DEF NetTypes, NetOk, NetOpen, Fewer

\* A failed attempt loses its entry and its struct.
LEMMA FailedFacts ==
  ASSUME NEW n, NEW x \in BOOLEAN, NetOk(n, x), NEW s \in Conns, n.stat[s] = "closed",
         NEW m, m = [net_pull_del(n, s) EXCEPT !.ref[s] = 0]
  PROVE  NetOk(m, x) /\ Fewer(n, m)
<1>1. PICK d : d = net_pull_del(n, s)
  OBVIOUS
<1>2. DelIs(n, d, s)
  BY <1>1, DelFields DEF NetOk, NetTypes
<1>3. NetOk(d, x) /\ Fewer(n, d) /\ d.stat[s] = "closed"
  <2>1. NetTypes(d)
    BY <1>2 DEF NetTypes, NetOk, DelIs
  <2> QED
    BY <1>2, <2>1 DEF NetTypes, NetOk, NetOpen, Fewer, DelIs
<1>4. NetStep(d, m, {}, x)
  BY <1>1, <1>3, RefFacts
<1> QED
  BY <1>3, <1>4 DEF NetStep, Fewer

\* What req_clean leaves.
LEMMA DropAllFacts ==
  ASSUME NEW n, NEW x \in BOOLEAN, NetOk(n, x), NEW S \in SUBSET Conns,
         NEW drops \in [Conns -> Nat], NEW m, m = DropAll(n, S, drops)
  PROVE  NetOk(m, x) /\ Fewer(n, m)
<1>1. PICK shut : shut = S \cup LastRef(n, drops)
  OBVIOUS
<1>2. /\ NetShape(m)
      /\ m.stat = [c \in Conns |-> IF c \in shut THEN "closed" ELSE n.stat[c]]
      /\ m.fd = n.fd \ shut /\ m.reg = n.reg \ shut
      /\ m.hr = [c \in Conns |-> IF c \in shut THEN None ELSE n.hr[c]]
      /\ m.hw = [c \in Conns |-> IF c \in shut THEN None ELSE n.hw[c]]
      /\ m.ref = [c \in Conns |-> IF n.ref[c] < drops[c] THEN 0 ELSE n.ref[c] - drops[c]]
  BY <1>1 DEF DropAll, NetShape
<1>3. \A c \in Conns : n.ref[c] \in Nat /\ drops[c] \in Nat
  BY DEF NetOk, NetTypes
<1>4. m.ref \in [Conns -> Nat]
  BY <1>2, <1>3
<1>5. NetTypes(m)
  BY <1>2, <1>4 DEF NetTypes, NetOk
<1>6. ASSUME NEW c \in Conns, m.stat[c] # "closed"
      PROVE  (c \in m.reg \/ x) /\ m.ref[c] > 0
  <2>1. c \notin shut /\ n.stat[c] # "closed"
    BY <1>2, <1>6
  <2>2. n.ref[c] > 0 /\ n.ref[c] \notin 1 .. drops[c]
    BY <2>1, <1>1 DEF LastRef, NetOk, NetOpen
  <2>3. m.ref[c] > 0
    BY <2>2, <1>2, <1>3
  <2> QED
    BY <2>1, <2>3, <1>2 DEF NetOk, NetOpen
<1>7. \A c \in Conns : c \notin m.reg => m.hr[c] = None /\ m.hw[c] = None
  BY <1>2 DEF NetOk, NetOpen
<1> QED
  BY <1>2, <1>5, <1>6, <1>7 DEF NetOk, NetOpen, Fewer
-----------------------------------------------------------------------------
(***************************************************************************)
(* The event queue and the part of it that Handshake.tla sees.             *)
(***************************************************************************)
\* r is q without its element at d.
Without(q, d, r) == /\ r \in Seq(Events) /\ Len(r) = Len(q) - 1
                    /\ \A i \in 1 .. d - 1 : r[i] = q[i]
                    /\ \A i \in d .. Len(q) - 1 : r[i] = q[i + 1]

\* What the community module's RemoveAt returns.
LEMMA RemoveFacts ==
  ASSUME NEW q \in Seq(Events), NEW d \in 1 .. Len(q), NEW r, r = RemoveAt(q, d)
  PROVE  Without(q, d, r)
<1>1. PICK a : a = SubSeq(q, 1, d - 1)
  OBVIOUS
<1>2. PICK b : b = SubSeq(q, d + 1, Len(q))
  OBVIOUS
<1>3. Len(q) \in Nat /\ d \in Nat /\ d >= 1 /\ d <= Len(q)
  OBVIOUS
<1>4. a \in Seq(Events) /\ Len(a) = d - 1 /\ \A i \in 1 .. d - 1 : a[i] = q[i]
  BY <1>1, <1>3, SubSeqProperties
<1>5. b \in Seq(Events) /\ Len(b) = Len(q) - d /\ \A i \in 1 .. Len(q) - d : b[i] = q[d + i]
  BY <1>2, <1>3, SubSeqProperties
<1>6. r = a \o b
  BY <1>1, <1>2 DEF RemoveAt
<1>7. r \in Seq(Events) /\ Len(r) = Len(a) + Len(b)
      /\ \A i \in 1 .. Len(a) + Len(b) : r[i] = IF i <= Len(a) THEN a[i] ELSE b[i - Len(a)]
  <2>1. a \in Seq(Events) /\ b \in Seq(Events)
    BY <1>4, <1>5
  <2> QED
    BY <2>1, <1>6, ConcatProperties
<1>8. Len(r) = Len(q) - 1
  BY <1>3, <1>4, <1>5, <1>7
<1>9. ASSUME NEW i \in 1 .. d - 1 PROVE r[i] = q[i]
  <2>1. i \in 1 .. Len(a) + Len(b) /\ i <= Len(a)
    BY <1>3, <1>4, <1>5
  <2> QED
    BY <2>1, <1>4, <1>7
<1>10. ASSUME NEW i \in d .. Len(q) - 1 PROVE r[i] = q[i + 1]
  <2>1. i \in 1 .. Len(a) + Len(b) /\ ~(i <= Len(a)) /\ i - Len(a) \in 1 .. Len(q) - d
        /\ d + (i - Len(a)) = i + 1
    BY <1>3, <1>4, <1>5
  <2>2. r[i] = b[i - Len(a)]
    BY <2>1, <1>7
  <2> QED
    BY <2>1, <2>2, <1>5
<1> QED
  BY <1>7, <1>8, <1>9, <1>10 DEF Without

\* With at most one event of the resolver, Notices is the queue or lacks that one.
LEMMA NoticesIs ==
  ASSUME NEW q \in Seq(Events), OneDns(q)
  PROVE  \/ /\ \A i \in 1 .. Len(q) : q[i].to # "dns"
            /\ Notices(q) = q
         \/ \E d \in 1 .. Len(q) : /\ \A i \in 1 .. Len(q) : q[i].to = "dns" <=> i = d
                                   /\ Notices(q) = RemoveAt(q, d)
<1>1. CASE DnsEvents(q) = {}
  BY <1>1 DEF DnsEvents, Notices
<1>2. CASE DnsEvents(q) # {}
  <2>1. PICK d : d = CHOOSE i \in DnsEvents(q) : TRUE
    OBVIOUS
  <2>2. d \in DnsEvents(q)
    BY <1>2, <2>1
  <2>3. Notices(q) = RemoveAt(q, d)
    BY <1>2, <2>1 DEF Notices
  <2>4. d \in 1 .. Len(q) /\ \A i \in 1 .. Len(q) : q[i].to = "dns" <=> i = d
    BY <2>2 DEF DnsEvents, OneDns
  <2> QED
    BY <2>3, <2>4
<1> QED
  BY <1>1, <1>2

\* Conversely, the queue determines it.
LEMMA NoticesWithout ==
  ASSUME NEW q, \A i \in 1 .. Len(q) : q[i].to # "dns"
  PROVE  Notices(q) = q
BY DEF DnsEvents, Notices

\* A queue with one event of the resolver, at d.
LEMMA NoticesWith ==
  ASSUME NEW q, NEW d \in 1 .. Len(q), \A i \in 1 .. Len(q) : q[i].to = "dns" <=> i = d
  PROVE  Notices(q) = RemoveAt(q, d)
<1>1. DnsEvents(q) = {d}
  BY DEF DnsEvents
<1> QED
  BY <1>1 DEF Notices

\* p is q with e posted; q without its first event.
Posted(q, e, p) == /\ p \in Seq(Events) /\ OneDns(p)
                   /\ Len(p) = Len(q) + 1 /\ Len(q) \in Nat /\ p[Len(q) + 1] = e
                   /\ \A i \in 1 .. Len(q) : p[i] = q[i]
Popped(q, p) == /\ p \in Seq(Events) /\ OneDns(p)
                /\ Len(q) \in Nat /\ Len(q) >= 1 /\ Len(p) = Len(q) - 1
                /\ \A i \in 1 .. Len(p) : p[i] = q[i + 1]
                /\ Head(q) = q[1] /\ q[1] \in Events

\* An element of a queue with e posted is an old one or e.
LEMMA PostedAt ==
  ASSUME NEW q, NEW e, NEW p, Posted(q, e, p)
  PROVE  \A i \in 1 .. Len(p) : (i \in 1 .. Len(q) /\ p[i] = q[i]) \/ p[i] = e
BY DEF Posted

\* An element of a queue without its first event is an old one.
LEMMA PoppedAt ==
  ASSUME NEW q, NEW p, Popped(q, p)
  PROVE  \A i \in 1 .. Len(p) : i + 1 \in 1 .. Len(q) /\ p[i] = q[i + 1]
BY DEF Popped

\* An event that is not the resolver's is posted.
LEMMA NoticesPost ==
  ASSUME NEW q \in Seq(Events), OneDns(q), NEW e \in Events, e.to # "dns",
         NEW p, p = Append(q, e)
  PROVE  Posted(q, e, p) /\ Notices(p) = Append(Notices(q), e)
<1>1. /\ p \in Seq(Events) /\ Len(q) \in Nat /\ Len(p) = Len(q) + 1 /\ p[Len(q) + 1] = e
      /\ \A i \in 1 .. Len(q) : p[i] = q[i]
  BY AppendProperties
<1>2. OneDns(p)
  BY <1>1 DEF OneDns
<1>3. ASSUME \A i \in 1 .. Len(q) : q[i].to # "dns", Notices(q) = q
      PROVE  Notices(p) = Append(Notices(q), e)
  <2>1. \A i \in 1 .. Len(p) : p[i].to # "dns"
    BY <1>1, <1>3
  <2> QED
    BY <1>3, <2>1, NoticesWithout
<1>4. ASSUME NEW d \in 1 .. Len(q), \A i \in 1 .. Len(q) : q[i].to = "dns" <=> i = d,
             Notices(q) = RemoveAt(q, d)
      PROVE  Notices(p) = Append(Notices(q), e)
  <2>1. d \in 1 .. Len(p) /\ \A i \in 1 .. Len(p) : p[i].to = "dns" <=> i = d
    BY <1>1, <1>4
  <2>2. PICK r : r = RemoveAt(p, d)
    OBVIOUS
  <2>3. PICK s : s = RemoveAt(q, d)
    OBVIOUS
  <2>4. Notices(p) = r /\ Notices(q) = s
    BY <2>1, <2>2, <2>3, <1>4, NoticesWith
  <2>5. Without(p, d, r)
    BY <1>1, <2>1, <2>2, RemoveFacts
  <2>6. Without(q, d, s)
    BY <2>3, RemoveFacts
  <2>7. PICK t : t = Append(s, e)
    OBVIOUS
  <2>8. /\ t \in Seq(Events) /\ Len(t) = Len(s) + 1 /\ t[Len(s) + 1] = e
        /\ \A i \in 1 .. Len(s) : t[i] = s[i]
    BY <2>6, <2>7, AppendProperties DEF Without
  <2>9. Len(t) = Len(r) /\ Len(r) = Len(q)
    BY <1>1, <2>5, <2>6, <2>8 DEF Without
  <2>10. ASSUME NEW i \in 1 .. Len(r) PROVE r[i] = t[i]
    <3>1. CASE i = Len(q)
      <4>1. r[i] = p[i + 1]
        BY <3>1, <1>1, <2>5, <2>9 DEF Without
      <4>2. t[i] = e
        BY <3>1, <1>1, <2>6, <2>8, <2>9 DEF Without
      <4> QED
        BY <3>1, <4>1, <4>2, <1>1
    <3>2. CASE i < d
      <4>1. i \in 1 .. d - 1 /\ i \in 1 .. Len(s) /\ i \in 1 .. Len(q)
        BY <3>2, <1>1, <2>6, <2>9 DEF Without
      <4> QED
        BY <4>1, <1>1, <2>5, <2>6, <2>8 DEF Without
    <3>3. CASE d <= i /\ i < Len(q)
      <4>1. /\ i \in d .. Len(q) - 1 /\ i \in d .. Len(p) - 1 /\ i \in 1 .. Len(s)
            /\ i + 1 \in 1 .. Len(q)
        BY <3>3, <1>1, <2>6, <2>9 DEF Without
      <4> QED
        BY <4>1, <1>1, <2>5, <2>6, <2>8 DEF Without
    <3> QED
      BY <3>1, <3>2, <3>3, <2>9, <1>1
  <2>11. r = t
    BY <2>5, <2>8, <2>9, <2>10, SeqEqual DEF Without
  <2> QED
    BY <2>4, <2>7, <2>11
<1>5. Notices(p) = Append(Notices(q), e)
  BY <1>3, <1>4, NoticesIs
<1> QED
  BY <1>1, <1>2, <1>5 DEF Posted

\* The resolver's event is posted: Handshake.tla does not see it.
LEMMA NoticesResolver ==
  ASSUME NEW q \in Seq(Events), \A i \in 1 .. Len(q) : q[i].to # "dns",
         NEW e \in Events, e.to = "dns", NEW p, p = Append(q, e)
  PROVE  Posted(q, e, p) /\ Notices(p) = Notices(q)
<1>1. /\ p \in Seq(Events) /\ Len(q) \in Nat /\ Len(p) = Len(q) + 1 /\ p[Len(q) + 1] = e
      /\ \A i \in 1 .. Len(q) : p[i] = q[i]
  BY AppendProperties
<1>2. PICK d : d = Len(q) + 1
  OBVIOUS
<1>3. d \in 1 .. Len(p) /\ \A i \in 1 .. Len(p) : p[i].to = "dns" <=> i = d
  BY <1>1, <1>2
<1>4. OneDns(p)
  BY <1>3 DEF OneDns
<1>5. PICK r : r = RemoveAt(p, d)
  OBVIOUS
<1>6. Without(p, d, r)
  BY <1>1, <1>3, <1>5, RemoveFacts
<1>7. r \in Seq(Events) /\ Len(r) = Len(q) /\ \A i \in 1 .. Len(r) : r[i] = q[i]
  BY <1>1, <1>2, <1>6 DEF Without
<1>8. r = q
  BY <1>7, SeqEqual
<1>9. Notices(p) = r /\ Notices(q) = q
  BY <1>3, <1>5, NoticesWith, NoticesWithout
<1> QED
  BY <1>1, <1>4, <1>8, <1>9 DEF Posted

\* The first event is taken out.
LEMMA NoticesPop ==
  ASSUME NEW q \in Seq(Events), OneDns(q), q # <<>>, NEW p, p = Tail(q)
  PROVE  /\ Popped(q, p)
         /\ q[1].to = "dns" => Notices(p) = Notices(q)
         /\ q[1].to # "dns" => /\ Notices(q) # <<>> /\ Head(Notices(q)) = q[1]
                               /\ Tail(Notices(q)) = Notices(p)
<1>1. /\ p \in Seq(Events) /\ Len(p) = Len(q) - 1 /\ \A i \in 1 .. Len(p) : p[i] = q[i + 1]
      /\ Head(q) \in Events
  BY HeadTailProperties
<1>2. Len(q) \in Nat /\ Len(q) >= 1 /\ Head(q) = q[1]
  BY EmptySeq
<1>3. OneDns(p)
  <2> SUFFICES ASSUME NEW i \in 1 .. Len(p), NEW j \in 1 .. Len(p),
                      p[i].to = "dns", p[j].to = "dns"
               PROVE  i = j
    BY DEF OneDns
  <2>1. i + 1 \in 1 .. Len(q) /\ j + 1 \in 1 .. Len(q)
    BY <1>1, <1>2
  <2>2. q[i + 1].to = "dns" /\ q[j + 1].to = "dns"
    BY <1>1
  <2>3. i + 1 = j + 1
    BY <2>1, <2>2 DEF OneDns
  <2> QED
    BY <2>3
<1>4. ASSUME q[1].to = "dns" PROVE Notices(p) = Notices(q)
  <2>1. 1 \in 1 .. Len(q) /\ \A i \in 1 .. Len(q) : q[i].to = "dns" <=> i = 1
    BY <1>2, <1>4 DEF OneDns
  <2>2. ASSUME NEW i \in 1 .. Len(p) PROVE p[i].to # "dns"
    <3>1. i + 1 \in 1 .. Len(q) /\ i + 1 # 1
      BY <1>1, <1>2
    <3> QED
      BY <3>1, <2>1, <1>1
  <2>3. PICK r : r = RemoveAt(q, 1)
    OBVIOUS
  <2>4. Without(q, 1, r)
    BY <2>1, <2>3, RemoveFacts
  <2>5. r \in Seq(Events) /\ Len(r) = Len(p) /\ \A i \in 1 .. Len(r) : r[i] = p[i]
    BY <1>1, <1>2, <2>4 DEF Without
  <2>6. r = p
    BY <1>1, <2>5, SeqEqual
  <2> QED
    BY <2>1, <2>2, <2>3, <2>6, NoticesWith, NoticesWithout
<1>5. ASSUME q[1].to # "dns"
      PROVE  Notices(q) # <<>> /\ Head(Notices(q)) = q[1] /\ Tail(Notices(q)) = Notices(p)
  <2>1. CASE /\ \A i \in 1 .. Len(q) : q[i].to # "dns"
             /\ Notices(q) = q
    <3>1. ASSUME NEW i \in 1 .. Len(p) PROVE p[i].to # "dns"
      <4>1. i + 1 \in 1 .. Len(q)
        BY <1>1, <1>2
      <4> QED
        BY <4>1, <2>1, <1>1
    <3>2. Notices(p) = p
      BY <3>1, NoticesWithout
    <3> QED
      BY <1>2, <2>1, <3>2
  <2>2. ASSUME NEW d \in 1 .. Len(q), \A i \in 1 .. Len(q) : q[i].to = "dns" <=> i = d,
               Notices(q) = RemoveAt(q, d)
        PROVE  Notices(q) # <<>> /\ Head(Notices(q)) = q[1] /\ Tail(Notices(q)) = Notices(p)
    <3>1. d > 1 /\ d - 1 \in 1 .. Len(p)
      BY <1>1, <1>2, <1>5, <2>2
    <3>2. ASSUME NEW i \in 1 .. Len(p) PROVE p[i].to = "dns" <=> i = d - 1
      <4>1. i + 1 \in 1 .. Len(q)
        BY <1>1, <1>2
      <4>2. p[i] = q[i + 1]
        BY <1>1
      <4>3. q[i + 1].to = "dns" <=> i + 1 = d
        BY <4>1, <2>2
      <4> QED
        BY <4>2, <4>3
    <3>3. PICK r : r = RemoveAt(q, d)
      OBVIOUS
    <3>4. Without(q, d, r)
      BY <3>3, RemoveFacts
    <3>5. PICK s : s = RemoveAt(p, d - 1)
      OBVIOUS
    <3>6. Without(p, d - 1, s)
      BY <1>1, <3>1, <3>5, RemoveFacts
    <3>7. Notices(p) = s /\ Notices(q) = r
      BY <2>2, <3>1, <3>2, <3>3, <3>5, NoticesWith
    <3>8. r \in Seq(Events) /\ Len(r) = Len(q) - 1 /\ Len(r) >= 1 /\ r[1] = q[1]
      BY <1>2, <3>1, <3>4 DEF Without
    <3>9. r # <<>> /\ Head(r) = q[1]
      BY <3>8, EmptySeq
    <3>10. PICK t : t = Tail(r)
      OBVIOUS
    <3>11. t \in Seq(Events) /\ Len(t) = Len(r) - 1 /\ \A i \in 1 .. Len(t) : t[i] = r[i + 1]
      BY <3>8, <3>9, <3>10, HeadTailProperties
    <3>12. s \in Seq(Events) /\ Len(t) = Len(s)
      BY <1>1, <1>2, <3>6, <3>8, <3>11 DEF Without
    <3>13. ASSUME NEW i \in 1 .. Len(t) PROVE t[i] = s[i]
      <4>0. t[i] = r[i + 1] /\ Len(t) = Len(q) - 2 /\ Len(p) = Len(q) - 1
        BY <1>1, <1>2, <3>8, <3>11
      <4>1. CASE i + 1 < d
        <5>1. i + 1 \in 1 .. d - 1 /\ i \in 1 .. (d - 1) - 1 /\ i \in 1 .. Len(p)
          BY <4>0, <4>1, <1>2
        <5> QED
          BY <4>0, <5>1, <1>1, <3>4, <3>6 DEF Without
      <4>2. CASE d <= i + 1
        <5>1. i + 1 \in d .. Len(q) - 1 /\ i \in d - 1 .. Len(p) - 1 /\ i + 1 \in 1 .. Len(p)
          BY <4>0, <4>2, <1>2
        <5> QED
          BY <4>0, <5>1, <1>1, <3>4, <3>6 DEF Without
      <4> QED
        BY <4>1, <4>2, <1>2
    <3>14. t = s
      BY <3>11, <3>12, <3>13, SeqEqual
    <3> QED
      BY <3>7, <3>9, <3>10, <3>14
  <2> QED
    BY <2>1, <2>2, NoticesIs
<1>6. Popped(q, p)
  BY <1>1, <1>2, <1>3 DEF Popped
<1> QED
  BY <1>4, <1>5, <1>6
=============================================================================
