------------------------------ MODULE Session ------------------------------
(***************************************************************************)
(* One client session of the proxy, from the return of conn_accept_handler *)
(* to the end of its two coroutines: net_req_handler ("req") and           *)
(* net_rsp_handler ("rsp") with everything they call, the main loop that   *)
(* resumes them through events and epoll, the connections they share and   *)
(* the reference counts that free them.                                    *)
(*                                                                         *)
(* The program is single-threaded.  run says who has the processor; a      *)
(* coroutine keeps it until it yields, and only peers act meanwhile.  A    *)
(* label of pc stands for the code from one possible yield to the next.    *)
(* Bytes are left out: a read or a write succeeds, would block or fails.   *)
(***************************************************************************)
EXTENDS Network, Integers, Sequences, FiniteSets, FiniteSetsExt, SequencesExt

CONSTANTS Client,     \* the accepted connection
          Servers,    \* bound: the server connections alive at one time
          Eps,        \* endpoints (address, port)
          Worlds,     \* the surroundings a session may have, see World
          MaxReq      \* bound: requests a client sends

FaultKinds == {"client_close", "server_close", "dns_fail", "connect_fail",
               "bad_request", "bad_response", "shutdown"}

\* A world: where each connection leads, what DNS answers for each host (an answer
\* has an address: without one ar_result is null, which is a failed lookup), the
\* methods and the number of requests of the client, and what may go wrong.
World(w) == /\ w.epOf \in [Servers -> Eps]
            /\ \A h \in DOMAIN w.addrs : w.addrs[h] \in Seq(Eps) \ {<<>>}
            /\ w.kinds \subseteq {"http", "connect"}
            /\ w.reqs \in 0 .. MaxReq
            /\ w.faults \subseteq FaultKinds

ASSUME SessionAssumption ==
    /\ Client \notin Servers /\ None \notin Servers \cup {Client, "req", "rsp"}
    /\ IsFiniteSet(Servers) /\ IsFiniteSet(Eps)
    /\ MaxReq \in Nat
    /\ \A w \in Worlds : World(w)

Conns == Servers \cup {Client}

Coros == {"req", "rsp"}

VARIABLES
    world,      \* the member of Worlds this session lives in
    exiting,    \* main_stat = EXITING
    doomed,     \* entries net_pull_done has still to tell: [c, hr, hw]
    pc,         \* [Coros -> label]
    mode,       \* what a coroutine in conn_copy is copying
    run,        \* "main", "req" or "rsp"
    again,      \* run was resumed inside conn_try_io and tries once more
    net,        \* the connections: see Network.tla
    down,       \* connections whose peer has closed its end
    queue,      \* the event queue (EventFifo.tla): [to, more]
    armed,      \* event ids with a handler: "req", "rsp", "dns"
    batch,      \* what epoll_wait returned and is not handled yet: [c, err]
    agenda,     \* handlers of the current epoll event still to call: [k, err]
    cxt,        \* struct net_handle_cxt
    cur,        \* the request req works on: [id, kind, host]
    at,         \* its position in the DNS answer
    srv,        \* the local variable server of req
    cached,     \* hosts in dns_cache
    sent,       \* history: the requests in the order their replies began
    forwarded,  \* history: requests appended to the list
    answered    \* history: requests removed from the list by rsp

loop == <<queue, armed, batch, agenda>>
look == <<cur, at, cached>>
hist == <<sent, forwarded, answered>>
env == <<world, exiting, doomed>>
vars == <<env, pc, mode, run, again, net, down, loop, cxt, look, srv, hist>>

EpOf == world.epOf
Addrs == world.addrs
Hosts == DOMAIN world.addrs
Kinds == world.kinds
Faults == world.faults

Closed(c) == net.stat[c] = "closed"

\* struct net_handle_cxt as net_req_handler fills it; both coroutines wait for
\* their first event.
NewCxt == [list |-> <<>>, pool |-> [e \in Eps |-> None],
           req_blocked |-> TRUE, rsp_blocked |-> TRUE,
           req_will_exit |-> FALSE, rsp_will_exited |-> FALSE]

\* Both coroutines hold the client; conn_accept_handler has let go of it.
Init ==
    /\ world \in Worlds /\ exiting = FALSE /\ doomed = <<>>
    /\ pc = [k \in Coros |-> "init"]
    /\ mode = [k \in Coros |-> "body"]
    /\ run = "main" /\ again = FALSE
    /\ net = [stat |-> [c \in Conns |-> IF c = Client THEN "open" ELSE "closed"],
              fd   |-> {Client},
              reg  |-> {Client},
              hr   |-> [c \in Conns |-> None],
              hw   |-> [c \in Conns |-> None],
              ref  |-> [c \in Conns |-> IF c = Client THEN 2 ELSE 0],
              fault |-> "none"]
    /\ down = {}
    /\ queue = <<[to |-> "req", more |-> TRUE], [to |-> "rsp", more |-> TRUE]>>
    /\ armed = {"req", "rsp"}
    /\ batch = {} /\ agenda = <<>>
    /\ cxt = NewCxt
    /\ cur = [id |-> 0, kind |-> "http", host |-> None]
    /\ at = 1 /\ srv = None /\ cached = {}
    /\ sent = <<>> /\ forwarded = 0 /\ answered = 0
-----------------------------------------------------------------------------
(***************************************************************************)
(* The main loop: async_resume from an event or from an epoll handler.     *)
(***************************************************************************)
\* After an invalid memory access no step is specified.
Runs(k) == run = k /\ net.fault = "none"

At(k, label) == Runs(k) /\ pc[k] = label

Goto(k, label) == /\ pc' = [pc EXCEPT ![k] = label]
                  /\ run' = k /\ again' = FALSE

\* The statements right after the async_yield that k is paused in; ret is what
\* async_yield returns: 0, 1 (the NULL notice of an event) or -1 (epoll error).
Resumed(k, ret) ==
    CASE pc[k] = "init"       -> "top"
      [] pc[k] = "fin"        -> "clean"
      [] pc[k] = "dns_wait"   -> "dns_final"
      [] pc[k] = "conn_wait"  -> IF ret = -1 THEN "conn_failed" ELSE "connected"
      [] pc[k] = "idle"       -> IF ret = 0 THEN "top" ELSE "exit"
      [] OTHER                -> pc[k]

EventWaits == {"init", "fin", "idle"}

\* A finished coroutine has been freed: resuming it is a use after free.
async_resume(k, ret, n) ==
    IF pc[k] = "done"
    THEN /\ net' = [n EXCEPT !.fault = "freed"]
         /\ UNCHANGED <<pc, run, again, cxt>>
    ELSE /\ pc' = [pc EXCEPT ![k] = Resumed(k, ret)]
         /\ run' = k
         /\ again' = (pc[k] = Resumed(k, ret))
         /\ cxt' = IF pc[k] \notin EventWaits THEN cxt
                   ELSE IF k = "req" THEN [cxt EXCEPT !.req_blocked = FALSE]
                   ELSE [cxt EXCEPT !.rsp_blocked = FALSE]
         /\ net' = n

MainTurn == Runs("main") /\ agenda = <<>>

Owner(to) == IF to = "rsp" THEN "rsp" ELSE "req"

\* One event: dropped when its id has no handler, else the handler's coroutine
\* is resumed (conn_event_handler).
event_work ==
    /\ MainTurn /\ batch = {} /\ doomed = <<>> /\ queue # <<>>
    /\ queue' = Tail(queue)
    /\ LET e == Head(queue)
       IN  IF e.to \in armed THEN async_resume(Owner(e.to), IF e.more THEN 0 ELSE 1, net)
           ELSE UNCHANGED <<pc, run, again, cxt, net>>
    /\ UNCHANGED <<mode, down, armed, batch, agenda, look, srv, hist>>

\* epoll_wait: any descriptors that have something to report.  Events nobody
\* would see (no handler, no error) are left out.
epoll_wait ==
    /\ MainTurn /\ batch = {} /\ queue = <<>> /\ ~exiting
    /\ \E S \in SUBSET {c \in net.reg : \/ net.hr[c] # None
                                        \/ net.hw[c] # None
                                        \/ c \in down /\ ~Closed(c)} :
          /\ S # {}
          /\ batch' = {[c |-> c, err |-> c \in down] : c \in S}
    /\ UNCHANGED <<pc, mode, run, again, net, down, queue, armed, agenda, cxt,
                   look, srv, hist>>

\* A call of the handler that resumes k, if there is one.
Call(k, err) == IF k = None THEN <<>> ELSE <<[k |-> k, err |-> err]>>

\* Mutant: the handlers of an event stay in the table.
WorkKeepsHandlers ==
    /\ MainTurn
    /\ \E e \in batch :
          /\ batch' = batch \ {e}
          /\ IF e.c \notin net.reg THEN UNCHANGED <<net, agenda>>
             ELSE /\ net' = [net EXCEPT !.stat[e.c] = IF e.err THEN "closed" ELSE @]
                  /\ agenda' = Call(net.hr[e.c], e.err) \o Call(net.hw[e.c], e.err)
    /\ UNCHANGED <<pc, mode, run, again, down, queue, armed, cxt, look, srv, hist>>

\* One epoll event: its handlers are taken out, an error marks the connection
\* (conn_err_handler), then the read and the write handler are called in turn.
net_pull_work ==
    /\ MainTurn
    /\ \E e \in batch :
          /\ batch' = batch \ {e}
          /\ IF e.c \notin net.reg THEN UNCHANGED <<net, agenda>>
             ELSE /\ net' = [net EXCEPT !.hr[e.c] = None, !.hw[e.c] = None,
                                        !.stat[e.c] = IF e.err THEN "closed" ELSE @]
                  /\ agenda' = Call(net.hr[e.c], e.err) \o Call(net.hw[e.c], e.err)
    /\ UNCHANGED <<pc, mode, run, again, down, queue, armed, cxt, look, srv, hist>>

conn_epoll_handler ==
    /\ Runs("main") /\ agenda # <<>>
    /\ agenda' = Tail(agenda)
    /\ async_resume(Head(agenda).k, IF Head(agenda).err THEN -1 ELSE 0, net)
    /\ UNCHANGED <<mode, down, queue, armed, batch, look, srv, hist>>

\* The resolver signals; the signalfd is one more descriptor of the batch.
dns_notify_handler ==
    /\ MainTurn /\ (batch # {} \/ queue = <<>>) /\ ~exiting
    /\ "dns" \in armed
    /\ \A i \in 1 .. Len(queue) : queue[i].to # "dns"
    /\ queue' = Append(queue, [to |-> "dns", more |-> FALSE])
    /\ UNCHANGED <<pc, mode, run, again, net, down, armed, batch, agenda, cxt,
                   look, srv, hist>>

\* A peer closes (or a connection attempt is refused), at any moment.  Fault
\* "server_close" is also how an HTTP/1.0 response ends normally, upon which rsp
\* closes the client too (net_http.c:207).
Connecting(c) == /\ pc["req"] = "conn_wait" /\ net.hr[c] = "req"
                 /\ \A b \in batch : b.c # c

CloseFault(c) == CASE c = Client -> "client_close"
                   [] c # Client /\ Connecting(c) -> "connect_fail"
                   [] OTHER -> "server_close"

PeerCloses(c) ==
    /\ net.fault = "none"
    /\ c \in net.reg \ down
    /\ CloseFault(c) \in Faults
    /\ down' = down \cup {c}
    /\ UNCHANGED <<pc, mode, run, again, net, loop, cxt, look, srv, hist>>
-----------------------------------------------------------------------------
(***************************************************************************)
(* conn_io.c.  The descriptor is always tried before the coroutine waits.  *)
(* A read can succeed on any connection, bytes may be left in conn->buf.   *)
(* It fails at the end of the stream or on a closed descriptor (when its   *)
(* number is not in use again, see Network.tla).  A write is refused on a  *)
(* CLOSED connection, except when it is being retried after a wait:        *)
(* can_block and stat are looked at before the wait only.                  *)
(***************************************************************************)
conn_try_io(k, c, dir) ==
    /\ c \in net.fd /\ ~exiting
    /\ dir = "read" => c \notin down
    /\ again \/ ~Closed(c)
    /\ net' = net_pull_set_handler(net, c, dir, k)
    /\ run' = "main" /\ again' = FALSE
    /\ UNCHANGED <<pc, mode, down, loop, cxt, look, srv, hist>>

ReadFails(c)  == exiting \/ c \notin net.fd \/ c \in down
WriteOk(c)    == ~exiting /\ c \in net.fd /\ (again \/ ~Closed(c))
WriteFails(c) == exiting \/ c \notin net.fd \/ c \in down \/ (~again /\ Closed(c))

Source(k) == IF k = "req" THEN Client ELSE Head(cxt.list).srv
Target(k) == IF k = "req" THEN srv ELSE Client

\* conn_copy: "copy_read" takes bytes from Source, "copy_write" passes them on.
conn_copy_read(k) ==
    /\ At(k, "copy_read")
    /\ \/ conn_try_io(k, Source(k), "read")
       \/ /\ Goto(k, "copy_write")
          /\ UNCHANGED <<mode, net, down, loop, cxt, look, srv, hist>>
       \/ /\ ReadFails(Source(k))
          /\ net' = conn_close(net, Source(k))
          /\ Goto(k, "copy_failed")
          /\ UNCHANGED <<mode, down, loop, cxt, look, srv, hist>>

\* The result of writing the bytes found in conn->buf is ignored (line 149),
\* so a failed write may also leave the copy going.
conn_copy_write(k) ==
    /\ At(k, "copy_write")
    /\ \/ conn_try_io(k, Target(k), "write")
       \/ /\ WriteOk(Target(k))
          /\ Goto(k, "copy_read")
          /\ UNCHANGED <<mode, net, down, loop, cxt, look, srv, hist>>
       \/ /\ WriteFails(Target(k))
          /\ net' = conn_close(net, Target(k))
          /\ \E label \in {"copy_failed", "copy_read"} : Goto(k, label)
          /\ UNCHANGED <<mode, down, loop, cxt, look, srv, hist>>

\* A body ends; "close" and "tunnel" copies end only by failing.
CopyEnds(k) ==
    /\ At(k, "copy_read") /\ mode[k] = "body" /\ ~again
    /\ \/ Goto(k, "copied")
       \/ /\ (IF k = "req" THEN "bad_request" ELSE "bad_response") \in Faults
          /\ Goto(k, "copy_failed")        \* a malformed or oversized chunk
    /\ UNCHANGED <<mode, net, down, loop, cxt, look, srv, hist>>

\* A reply to request id begins.
Replied(id) == IF sent # <<>> /\ Last(sent) = id THEN sent ELSE Append(sent, id)

\* One reply written to the client by k for request id, going on at label; the
\* client is closed when the write fails, or after it when last is set.
ReplyTo(k, id, label, last) ==
    \/ conn_try_io(k, Client, "write")
    \/ /\ WriteOk(Client)
       /\ sent' = Replied(id)
       /\ net' = IF last THEN conn_close(net, Client) ELSE net
       /\ Goto(k, label)
       /\ UNCHANGED <<mode, down, loop, cxt, look, srv, forwarded, answered>>
    \/ /\ WriteFails(Client)
       /\ net' = conn_close(net, Client)
       /\ Goto(k, label)
       /\ UNCHANGED <<mode, down, loop, cxt, look, srv, hist>>
-----------------------------------------------------------------------------
(***************************************************************************)
(* net_req_handler                                                         *)
(***************************************************************************)
req_top ==
    /\ At("req", "top")
    /\ Goto("req", IF Closed(Client) \/ exiting THEN "finish" ELSE "fetch")
    /\ UNCHANGED <<mode, net, down, loop, cxt, look, srv, hist>>

\* net_fetch_http from the client, net_get_handler and net_parse_req.  On a
\* failed read the client is closed and net_bad_request has nothing to do.
req_fetch ==
    /\ At("req", "fetch")
    /\ \/ conn_try_io("req", Client, "read")
       \/ /\ ReadFails(Client)
          /\ net' = conn_close(net, Client)
          /\ Goto("req", "finish")
          /\ UNCHANGED <<mode, down, loop, cxt, look, srv, hist>>
       \/ /\ cur.id < world.reqs
          /\ \E kind \in Kinds, host \in Hosts :
                cur' = [id |-> cur.id + 1, kind |-> kind, host |-> host]
          /\ \/ Goto("req", "lookup")
             \/ "bad_request" \in Faults /\ Goto("req", "bad_request")
          /\ UNCHANGED <<mode, net, down, loop, cxt, at, cached, srv, hist>>

net_bad_request ==
    /\ At("req", "bad_request")
    /\ ReplyTo("req", cur.id, "finish", TRUE)

\* net_dns_lookup_a: from the cache, or wait for the resolver's event.
net_dns_lookup_a ==
    /\ At("req", "lookup")
    /\ at' = 1
    /\ \/ /\ cur.host \in cached
          /\ Goto("req", "try")
          /\ UNCHANGED armed
       \/ /\ cur.host \notin cached
          /\ armed' = armed \cup {"dns"}
          /\ pc' = [pc EXCEPT !["req"] = "dns_wait"]
          /\ run' = "main" /\ again' = FALSE
       \/ /\ cur.host \notin cached /\ "dns_fail" \in Faults
          /\ Goto("req", "bad_gateway")
          /\ UNCHANGED armed
    /\ UNCHANGED <<mode, net, down, queue, batch, agenda, cxt, cur, cached, srv, hist>>

\* Mutant: the event id of a finished lookup is not freed.
FinalKeepsId ==
    /\ At("req", "dns_final")
    /\ \/ cached' = cached \cup {cur.host} /\ Goto("req", "try")
       \/ "dns_fail" \in Faults /\ UNCHANGED cached /\ Goto("req", "bad_gateway")
    /\ UNCHANGED <<mode, net, down, queue, armed, batch, agenda, cxt, cur, at, srv, hist>>

dns_final ==
    /\ At("req", "dns_final")
    /\ armed' = armed \ {"dns"}
    /\ \/ cached' = cached \cup {cur.host} /\ Goto("req", "try")
       \/ "dns_fail" \in Faults /\ UNCHANGED cached /\ Goto("req", "bad_gateway")
    /\ UNCHANGED <<mode, net, down, queue, batch, agenda, cxt, cur, at, srv, hist>>

Ep == Addrs[cur.host][at]

AfterConnect == IF cur.kind = "http" THEN "forward" ELSE "enlist"

\* net_connect_to_server: the next address of the answer, its pooled
\* connection first; a pooled connection found closed is let go.
try_address ==
    /\ At("req", "try")
    /\ IF at > Len(Addrs[cur.host]) \/ exiting
       THEN Goto("req", "bad_gateway") /\ UNCHANGED <<net, cxt, srv>>
       ELSE LET s == cxt.pool[Ep]
            IN  IF s = None
                THEN Goto("req", "connect") /\ UNCHANGED <<net, cxt, srv>>
                ELSE IF Closed(s)
                THEN /\ cxt' = [cxt EXCEPT !.pool[Ep] = None]
                     /\ net' = mem_decref(net, s)
                     /\ Goto("req", "connect")
                     /\ UNCHANGED srv
                ELSE /\ net' = mem_incref(net, s)
                     /\ srv' = s
                     /\ Goto("req", AfterConnect)
                     /\ UNCHANGED cxt
    /\ UNCHANGED <<mode, down, loop, look, hist>>

Fresh(e) == {s \in Servers : /\ EpOf[s] = e /\ net.ref[s] = 0 /\ s \notin net.fd
                             /\ \A b \in batch : b.c # s}

\* socket, net_pull_add: stat stays CLOSED until the connection is made.
Opened(s) == [net EXCEPT !.fd = @ \cup {s}, !.reg = @ \cup {s}, !.ref[s] = 1]

\* conn_init, then the connection enters the pool and is returned as well.
Established(n, s) == mem_incref([n EXCEPT !.stat[s] = "open"], s)

conn_get_by_endpoint ==
    /\ At("req", "connect")
    /\ \/ \E s \in Fresh(Ep) :
             /\ srv' = s
             /\ down' = down \ {s}
             /\ \/ /\ net' = Established(Opened(s), s)
                   /\ cxt' = [cxt EXCEPT !.pool[Ep] = s]
                   /\ Goto("req", AfterConnect)
                \/ /\ net' = net_pull_set_handler(Opened(s), s, "read", "req")
                   /\ pc' = [pc EXCEPT !["req"] = "conn_wait"]
                   /\ run' = "main" /\ again' = FALSE
                   /\ UNCHANGED cxt
             /\ UNCHANGED at
       \/ /\ "connect_fail" \in Faults
          /\ at' = at + 1
          /\ Goto("req", "try")
          /\ UNCHANGED <<net, down, cxt, srv>>
    /\ UNCHANGED <<mode, loop, cur, cached, hist>>

\* Mutant: a connection that had to be waited for is not pooled.
ConnectedUnpooled ==
    /\ At("req", "connected")
    /\ net' = [net EXCEPT !.stat[srv] = "open"]
    /\ Goto("req", AfterConnect)
    /\ UNCHANGED <<mode, down, loop, cxt, look, srv, hist>>

connected ==
    /\ At("req", "connected")
    /\ net' = Established(net, srv)
    /\ cxt' = [cxt EXCEPT !.pool[Ep] = srv]
    /\ Goto("req", AfterConnect)
    /\ UNCHANGED <<mode, down, loop, look, srv, hist>>

\* The attempt failed: the entry and the struct go, the descriptor stays open.
conn_failed ==
    /\ At("req", "conn_failed")
    /\ net' = [net_pull_del(net, srv) EXCEPT !.ref[srv] = 0]
    /\ srv' = None
    /\ at' = at + 1
    /\ Goto("req", "try")
    /\ UNCHANGED <<mode, down, loop, cxt, cur, cached, hist>>

Listed == [id |-> cur.id, kind |-> cur.kind, srv |-> srv]

\* Mutant: the request is put in front of those still to be answered.
EnlistFront(notify) ==
    /\ cxt' = [cxt EXCEPT !.list = <<Listed>> \o @]
    /\ net' = mem_incref(net, srv)
    /\ forwarded' = forwarded + 1
    /\ queue' = IF notify THEN Append(queue, [to |-> "rsp", more |-> TRUE])
                ELSE queue

\* The request joins the list, which holds the server; rsp may be told.
Enlist(notify) ==
    /\ cxt' = [cxt EXCEPT !.list = Append(@, Listed)]
    /\ net' = mem_incref(net, srv)
    /\ forwarded' = forwarded + 1
    /\ queue' = IF notify THEN Append(queue, [to |-> "rsp", more |-> TRUE])
                ELSE queue

\* net_http_req_handler: the header is sent, then the request is listed and rsp
\* told if it waits; if sending fails a connection is looked for again.
forward_http ==
    /\ At("req", "forward")
    /\ \/ conn_try_io("req", srv, "write")
       \/ /\ WriteOk(srv)
          /\ Enlist(cxt.rsp_blocked)
          /\ mode' = [mode EXCEPT !["req"] = "body"]
          /\ Goto("req", "copy_read")
          /\ UNCHANGED <<down, armed, batch, agenda, look, srv, sent, answered>>
       \/ /\ WriteFails(srv)
          /\ net' = mem_decref(conn_close(net, srv), srv)
          /\ srv' = None
          /\ Goto("req", "lookup")
          /\ UNCHANGED <<mode, down, loop, cxt, look, hist>>

\* net_connect_req_handler: listed at once, rsp told in any case.
enlist_connect ==
    /\ At("req", "enlist")
    /\ Enlist(TRUE)
    /\ mode' = [mode EXCEPT !["req"] = "tunnel"]
    /\ Goto("req", "connect_ok")
    /\ UNCHANGED <<down, armed, batch, agenda, look, srv, sent, answered>>

\* "HTTP/1.1 200 OK", written by req itself.
connect_ok ==
    /\ At("req", "connect_ok")
    /\ \/ conn_try_io("req", Client, "write")
       \/ /\ WriteOk(Client)
          /\ sent' = Replied(cur.id)
          /\ Goto("req", "copy_read")
          /\ UNCHANGED <<mode, net, down, loop, cxt, look, srv, forwarded, answered>>
       \/ /\ WriteFails(Client)
          /\ net' = conn_close(net, Client)
          /\ Goto("req", "release")
          /\ UNCHANGED <<mode, down, loop, cxt, look, srv, hist>>

req_copied ==
    /\ At("req", "copied")
    /\ net' = mem_decref(net, srv)
    /\ srv' = None
    /\ Goto("req", "top")
    /\ UNCHANGED <<mode, down, loop, cxt, look, hist>>

req_copy_failed ==
    /\ At("req", "copy_failed")
    /\ Goto("req", IF mode["req"] = "body" THEN "bad_gateway" ELSE "release")
    /\ UNCHANGED <<mode, net, down, loop, cxt, look, srv, hist>>

req_bad_gateway ==
    /\ At("req", "bad_gateway")
    /\ ReplyTo("req", cur.id, "release", FALSE)

\* The handler returns an error and drops the server it held, if any.
release ==
    /\ At("req", "release")
    /\ net' = IF srv = None THEN net ELSE mem_decref(net, srv)
    /\ srv' = None
    /\ Goto("req", "finish")
    /\ UNCHANGED <<mode, down, loop, cxt, look, hist>>

\* Mutant: req does not wait for rsp to leave.
FinishWithoutWaiting ==
    /\ At("req", "finish")
    /\ cxt' = [cxt EXCEPT !.req_will_exit = TRUE]
    /\ queue' = Append(queue, [to |-> "rsp", more |-> FALSE])
    /\ Goto("req", "clean")
    /\ UNCHANGED <<mode, net, down, armed, batch, agenda, look, srv, hist>>

\* req_done: tell rsp to leave and wait for it, unless it is known to be gone.
req_finish ==
    /\ At("req", "finish")
    /\ IF cxt.rsp_will_exited
       THEN /\ cxt' = [cxt EXCEPT !.req_will_exit = TRUE]
            /\ Goto("req", "clean")
            /\ UNCHANGED queue
       ELSE /\ cxt' = [cxt EXCEPT !.req_will_exit = TRUE, !.req_blocked = TRUE]
            /\ queue' = Append(queue, [to |-> "rsp", more |-> FALSE])
            /\ pc' = [pc EXCEPT !["req"] = "fin"]
            /\ run' = "main" /\ again' = FALSE
    /\ UNCHANGED <<mode, net, down, armed, batch, agenda, look, srv, hist>>

Pooled == {s \in Servers : \E e \in Eps : cxt.pool[e] = s}

\* The references to c that req gives back: one for each entry of the pool and of
\* the list, and its own to the client.
Drops(c) == IF c = Client THEN 1
            ELSE Cardinality({e \in Eps : cxt.pool[e] = c})
                 + Cardinality({i \in DOMAIN cxt.list : cxt.list[i].srv = c})

\* Pooled connections are closed and dropped, listed ones dropped, then the
\* event id, the client and, with the frame, the cxt.
req_clean ==
    /\ At("req", "clean")
    /\ net' = DropAll(net, {s \in Pooled : ~Closed(s)}, [c \in Conns |-> Drops(c)])
    /\ cxt' = [cxt EXCEPT !.pool = [e \in Eps |-> None], !.list = <<>>]
    /\ armed' = armed \ {"req"}
    /\ pc' = [pc EXCEPT !["req"] = "done"]
    /\ run' = "main" /\ again' = FALSE
    /\ UNCHANGED <<mode, down, queue, batch, agenda, look, srv, hist>>
-----------------------------------------------------------------------------
(***************************************************************************)
(* net_rsp_handler                                                         *)
(***************************************************************************)
Oldest == Head(cxt.list)

\* Lines 221-232: wait for a request, or start on the oldest one.
NextRequest ==
    \/ /\ cxt.list = <<>>
       /\ cxt' = [cxt EXCEPT !.rsp_blocked = TRUE]
       /\ pc' = [pc EXCEPT !["rsp"] = "idle"]
       /\ run' = "main" /\ again' = FALSE
       /\ UNCHANGED <<mode, net>>
    \/ /\ cxt.list # <<>> /\ net.ref[Oldest.srv] = 0
       /\ net' = [net EXCEPT !.fault = "freed"]
       /\ UNCHANGED <<pc, run, again, cxt, mode>>
    \/ /\ cxt.list # <<>> /\ net.ref[Oldest.srv] # 0
       /\ IF Oldest.kind = "http" THEN Goto("rsp", "fetch") /\ UNCHANGED mode
          ELSE Goto("rsp", "copy_read") /\ mode' = [mode EXCEPT !["rsp"] = "tunnel"]
       /\ UNCHANGED <<cxt, net>>

\* Mutant: rsp does not look whether the client is closed.
TopUnchecked ==
    /\ At("rsp", "top")
    /\ NextRequest
    /\ UNCHANGED <<down, loop, look, srv, hist>>

rsp_top ==
    /\ At("rsp", "top")
    /\ IF Closed(Client) \/ exiting THEN Goto("rsp", "exit") /\ UNCHANGED <<cxt, mode, net>>
       ELSE NextRequest
    /\ UNCHANGED <<down, loop, look, srv, hist>>

\* net_fetch_http from the server and net_parse_rsp.
rsp_fetch ==
    /\ At("rsp", "fetch")
    /\ \/ conn_try_io("rsp", Oldest.srv, "read")
       \/ /\ Goto("rsp", "header")
          /\ UNCHANGED <<mode, net, down, loop, cxt, look, srv, hist>>
       \/ /\ ReadFails(Oldest.srv) \/ "bad_response" \in Faults
          /\ net' = conn_close(net, Oldest.srv)
          /\ Goto("rsp", "bad_gateway")
          /\ UNCHANGED <<mode, down, loop, cxt, look, srv, hist>>

rsp_bad_gateway ==
    /\ At("rsp", "bad_gateway")
    /\ ReplyTo("rsp", Oldest.id, "post", FALSE)

\* net_forward_rsp_header reports success even when the write fails.
rsp_header ==
    /\ At("rsp", "header")
    /\ ReplyTo("rsp", Oldest.id, "framing", FALSE)

\* The body is delimited by length or chunks (HTTP/1.1), or by the end of the
\* stream (HTTP/1.0).
rsp_framing ==
    /\ At("rsp", "framing")
    /\ \E m \in {"body", "close"} : mode' = [mode EXCEPT !["rsp"] = m]
    /\ Goto("rsp", "copy_read")
    /\ UNCHANGED <<net, down, loop, cxt, look, srv, hist>>

\* A copy to the end of the stream closes both sides.  After a body that was copied
\* the handler returns the code: 100 keeps the request in the list (it would not
\* after the other copies: the server is closed, or the handler failed).
rsp_copy_over ==
    /\ Runs("rsp") /\ pc["rsp"] \in {"copied", "copy_failed"}
    /\ net' = IF mode["rsp"] # "close" THEN net
              ELSE conn_close(conn_close(net, Client), Oldest.srv)
    /\ \/ Goto("rsp", "post")
       \/ pc["rsp"] = "copied" /\ mode["rsp"] = "body" /\ Goto("rsp", "continue")
    /\ UNCHANGED <<mode, down, loop, cxt, look, srv, hist>>

\* Mutant: the pool entry goes but the pool's reference is kept.
ForgetKeepsRef(n, s) == mem_decref(n, s)

\* Lines 241 and 248: a closed server loses the pool's and the list's reference.
Forget(n, s) == mem_decref(mem_decref(n, s), s)

\* Lines 235-253.  The pool entry deleted is the one found under the server's
\* endpoint, and a null pointer is dereferenced when there is none.
rsp_post ==
    /\ Runs("rsp") /\ pc["rsp"] \in {"post", "continue"}
    /\ LET s == Oldest.srv
           e == EpOf[s]
       IN  IF Closed(s) /\ cxt.pool[e] = None
           THEN /\ net' = [net EXCEPT !.fault = "null"]
                /\ UNCHANGED <<pc, run, again, cxt, answered>>
           ELSE IF ~Closed(s) /\ pc["rsp"] = "continue"
           THEN Goto("rsp", "top") /\ UNCHANGED <<net, cxt, answered>>
           ELSE /\ net' = IF Closed(s) THEN Forget(net, s) ELSE mem_decref(net, s)
                /\ cxt' = [cxt EXCEPT !.list = Tail(@),
                                      !.pool[e] = IF Closed(s) THEN None ELSE @]
                /\ answered' = answered + 1
                /\ Goto("rsp", "top")
    /\ UNCHANGED <<mode, down, loop, look, srv, sent, forwarded>>

\* Lines 256-265: the wrong flag is set, rsp_will_exited stays 0.
rsp_exit ==
    /\ At("rsp", "exit")
    /\ cxt' = [cxt EXCEPT !.req_will_exit = TRUE]
    /\ queue' = IF cxt.req_blocked THEN Append(queue, [to |-> "req", more |-> FALSE])
                ELSE queue
    /\ armed' = armed \ {"rsp"}
    /\ net' = mem_decref(net, Client)
    /\ pc' = [pc EXCEPT !["rsp"] = "done"]
    /\ run' = "main" /\ again' = FALSE
    /\ UNCHANGED <<mode, down, batch, agenda, look, srv, hist>>
-----------------------------------------------------------------------------
(***************************************************************************)
(* proxy_done, on a signal while the main loop waits: net_pull_done closes *)
(* the descriptors it knows and clears its table, then calls the handlers  *)
(* of each entry with an error; event_module_done lets the events that     *)
(* were posted meanwhile be handled, and the process exits.                *)
(***************************************************************************)
Doomed(c) == [c |-> c, hr |-> net.hr[c], hw |-> net.hw[c]]

\* The table lists the client first: its entry is the oldest.
proxy_done ==
    /\ MainTurn /\ batch = {} /\ queue = <<>> /\ ~exiting
    /\ "shutdown" \in Faults
    /\ exiting' = TRUE
    /\ \E servers \in SetToSeqs(net.reg \ {Client}) :
          doomed' = [i \in 1 .. Cardinality(net.reg) |->
                        Doomed((IF Client \in net.reg THEN <<Client>> \o servers ELSE servers)[i])]
    /\ net' = [net EXCEPT !.fd = @ \ net.reg, !.reg = {},
                          !.hr = [c \in Conns |-> None], !.hw = [c \in Conns |-> None]]
    /\ UNCHANGED <<world, pc, mode, run, again, down, loop, cxt, look, srv, hist>>

\* Mutant: only the readers are told.
ReadersOnly(d) == Call(d.hr, TRUE)

Waiting(d) == Call(d.hr, TRUE) \o Call(d.hw, TRUE)

\* conn_err_handler writes to the connection, which must still be there.
net_pull_done ==
    /\ MainTurn /\ doomed # <<>>
    /\ doomed' = Tail(doomed)
    /\ LET d == Head(doomed)
       IN  /\ net' = IF net.ref[d.c] = 0 THEN [net EXCEPT !.fault = "freed"]
                     ELSE [net EXCEPT !.stat[d.c] = "closed"]
           /\ agenda' = Waiting(d)
    /\ UNCHANGED <<world, exiting, pc, mode, run, again, down, queue, armed, batch,
                   cxt, look, srv, hist>>
-----------------------------------------------------------------------------
MainLoop == \/ event_work \/ epoll_wait \/ net_pull_work
            \/ conn_epoll_handler \/ dns_notify_handler

ReqHandler == \/ req_top \/ req_fetch \/ net_bad_request
              \/ net_dns_lookup_a \/ dns_final \/ try_address
              \/ conn_get_by_endpoint \/ connected \/ conn_failed
              \/ forward_http \/ enlist_connect \/ connect_ok
              \/ conn_copy_read("req") \/ conn_copy_write("req") \/ CopyEnds("req")
              \/ req_copied \/ req_copy_failed \/ req_bad_gateway \/ release
              \/ req_finish \/ req_clean

RspHandler == \/ rsp_top \/ rsp_fetch \/ rsp_bad_gateway
              \/ rsp_header \/ rsp_framing
              \/ conn_copy_read("rsp") \/ conn_copy_write("rsp") \/ CopyEnds("rsp")
              \/ rsp_copy_over \/ rsp_post \/ rsp_exit

Step == \/ MainLoop \/ ReqHandler \/ RspHandler
        \/ \E c \in Conns : PeerCloses(c)

Next == \/ Step /\ UNCHANGED env
        \/ proxy_done \/ net_pull_done

Spec == Init /\ [][Next]_vars
-----------------------------------------------------------------------------
ReqLabels == {"init", "top", "fetch", "bad_request", "lookup", "dns_wait",
              "dns_final", "try", "connect", "conn_wait", "connected",
              "conn_failed", "forward", "enlist", "connect_ok", "copy_read",
              "copy_write", "copied", "copy_failed", "bad_gateway", "release",
              "finish", "fin", "clean", "done"}
RspLabels == {"init", "top", "idle", "fetch", "bad_gateway", "header", "framing",
              "copy_read", "copy_write", "copied", "copy_failed", "post",
              "continue", "exit", "done"}

(***************************************************************************)
(* Types; the processor is with a coroutine only when it is not paused on  *)
(* an event; a connection that can be polled has an open descriptor; a     *)
(* connection that is not closed is polled and referenced.                 *)
(***************************************************************************)
TypeOK ==
    /\ pc["req"] \in ReqLabels /\ pc["rsp"] \in RspLabels
    /\ run \in {"main", "req", "rsp"} /\ again \in BOOLEAN
    /\ run # "main" => pc[run] \notin EventWaits \cup {"dns_wait", "conn_wait", "done"}
    /\ net.reg \subseteq net.fd
    /\ \A c \in Conns : ~Closed(c) => (c \in net.reg \/ exiting) /\ net.ref[c] > 0
    /\ \A c \in Conns : c \notin net.reg => net.hr[c] = None /\ net.hw[c] = None
    /\ armed \subseteq {"req", "rsp", "dns"}
    /\ srv \in Servers \cup {None}
    /\ answered + Len(cxt.list) <= MaxReq

\* Worlds in which no server closes or answers badly (and no response is HTTP/1.0,
\* whose normal end is a close); in which nobody closes an
\* established connection, neither a peer nor net_bad_request; in which nothing
\* goes wrong until the process is told to stop, and nobody asks for a tunnel.
ServersStay == Faults \cap {"server_close", "bad_response"} = {}
PeersStay   == Faults \subseteq {"dns_fail", "connect_fail"}
Calm        == Faults \subseteq {"shutdown"} /\ Kinds = {"http"}

\* What points to a connection and has to give its reference back.
Holders(c) ==
    IF c = Client THEN Cardinality({k \in Coros : pc[k] # "done"})
    ELSE Cardinality({e \in Eps : cxt.pool[e] = c})
         + Cardinality({i \in DOMAIN cxt.list : cxt.list[i].srv = c})
         + (IF srv = c THEN 1 ELSE 0)

(***************************************************************************)
(* Reference counts are exact while servers stay: a server is held once by *)
(* the pool, once per listed request and once by req while it uses it, the *)
(* client by each coroutine that has not ended.  And while peers stay      *)
(* nothing follows a null pointer or uses a freed connection or coroutine. *)
(* A server that closes under two listed requests breaks both (see         *)
(* DeletesOwnEntry).  The second is also broken when the client is closed, *)
(* by itself or for a bad request, through the handler conn.c:149 leaves   *)
(* registered for a coroutine that has ended, and by net_pull_done, when   *)
(* it comes to the entry of a connection that a coroutine it has just      *)
(* resumed freed.                                                          *)
(***************************************************************************)
RefsExact == /\ ServersStay => \A c \in Conns : net.ref[c] = Holders(c)
             /\ PeersStay => net.fault = "none"

(***************************************************************************)
(* A descriptor that is open has an owner: its connection is still         *)
(* referenced.  (An owner that waits for ever, see NoOrphanWait, does not  *)
(* close it.)  A connect that fails after EINPROGRESS leaves one open that *)
(* nobody owns (conn.c:450).                                               *)
(***************************************************************************)
NoFdLeak == "connect_fail" \notin Faults => \A c \in net.fd : net.ref[c] > 0

(***************************************************************************)
(* Replies reach the client in the order of its requests (README.md:55).   *)
(* See SteadyOrder for when they do.                                       *)
(***************************************************************************)
InOrder == \A i \in 1 .. Len(sent) - 1 : sent[i] < sent[i + 1]

\* InOrder holds while nothing fails and nobody asks for a tunnel: rsp alone
\* writes to the client then, from the head of the list (net_handle.c:221).
SteadyOrder == Calm => InOrder

\* Something can still resume k: any handler, call, notice or lookup will do.
Wakeable(k) == \/ run = k
               \/ \E c \in Conns : net.hr[c] = k \/ net.hw[c] = k
               \/ \E i \in DOMAIN agenda : agenda[i].k = k
               \/ \E i \in DOMAIN queue : queue[i].to \in armed /\ Owner(queue[i].to) = k
               \/ k = "req" /\ "dns" \in armed

\* The I/O operation a coroutine is in, by its label: the connection, the direction.
InIo(k) == IF k = "req"
           THEN pc["req"] \in {"fetch", "bad_request", "conn_wait", "forward", "connect_ok",
                               "copy_read", "copy_write", "bad_gateway"}
           ELSE pc["rsp"] \in {"fetch", "header", "copy_read", "copy_write", "bad_gateway"}

IoDir(k) == IF pc[k] \in {"fetch", "copy_read", "conn_wait"} THEN "read" ELSE "write"

IoConn(k) == IF k = "req"
             THEN IF pc["req"] \in {"conn_wait", "forward", "copy_write"} THEN srv ELSE Client
             ELSE IF IoDir("rsp") = "read" THEN Oldest.srv ELSE Client

\* The coroutine that net_pull's entry for the operation of k resumes.
Slot(k) == IF IoDir(k) = "read" THEN net.hr[IoConn(k)] ELSE net.hw[IoConn(k)]

\* k is in an I/O operation it will get back to: it has the processor, a handler
\* that resumes it is about to be called, or it is registered for that operation.
Served(k) == run = k \/ (\E i \in DOMAIN agenda : agenda[i].k = k) \/ Slot(k) = k

Lost(k) == InIo(k) /\ ~Served(k)

Other(k) == IF k = "req" THEN "rsp" ELSE "req"

\* The other coroutine closes the connection: net_pull_del drops the entry.
Dropped(k) == run = Other(k) /\ IoConn(k) \in net.reg \ net'.reg

\* The other coroutine starts to wait for the same operation: its handler takes the
\* place of k's (conn.c:149).
Overwritten(k) ==
    /\ run = Other(k) /\ Slot(k)' = Other(k) /\ InIo(Other(k))'
    /\ <<IoConn("req"), IoDir("req")>>' = <<IoConn("rsp"), IoDir("rsp")>>'

(***************************************************************************)
(* Before the process is told to stop, a coroutine paused in an I/O        *)
(* operation loses its registration for it in two ways only, in every      *)
(* world: the other coroutine closes the connection, as the end of an      *)
(* HTTP/1.0 response does to the client (net_http.c:207), or it starts to  *)
(* wait for the very same operation, as both do that write to the client   *)
(* (conn.c:149).  So no event is lost between a wait and the next try, no  *)
(* wait begins on a connection nobody polls, and a read never takes the    *)
(* place of a write.                                                       *)
(***************************************************************************)
IoLostTwoWays ==
    [][\A k \in Coros : (Lost(k)' /\ ~Lost(k) /\ ~exiting') => Dropped(k) \/ Overwritten(k)]_vars

Stopped == exiting /\ doomed = <<>> /\ agenda = <<>> /\ queue = <<>> /\ run = "main"

(***************************************************************************)
(* When proxy_done has told every entry and its events are handled, no     *)
(* coroutine is still paused in an I/O operation: net_pull_done reached    *)
(* it, and it left its loop on EXITING instead of waiting again.  With a   *)
(* tunnel or an error reply, where both coroutines may wait to write to    *)
(* the client, one of them can be missed: its registration has been        *)
(* overwritten, or removed with a connection the other one closed.         *)
(***************************************************************************)
StopReachesAll == (Calm /\ Stopped) =>
                      \A k \in Coros : pc[k] \in EventWaits \cup {"dns_wait", "done"}

(***************************************************************************)
(* The two coroutines do not wait for each other (net_handle.c:223 means   *)
(* rsp to wait for a req that still serves).  A failed lookup or a bad     *)
(* request makes them (see README); a client that leaves does not, see     *)
(* RspNotLeft.                                                             *)
(***************************************************************************)
NoMutualWait == ~(/\ pc["req"] = "fin" /\ ~Wakeable("req")
                  /\ pc["rsp"] = "idle" /\ ~Wakeable("rsp"))

\* A notice for k is queued.
Noticed(k) == \E i \in DOMAIN queue : queue[i].to = k /\ k \in armed

(***************************************************************************)
(* When the client has gone away and req waits for rsp to leave, rsp is    *)
(* never left behind: it is served in its I/O operation, or a notice is on *)
(* its way to it.  req may have closed the client under a write rsp was    *)
(* waiting for, and a notice may have been spent on resuming rsp in the    *)
(* middle of an operation; the next notice and the test of                 *)
(* net_handle.c:217 make up for both.  Nothing is said of req, which may   *)
(* wait for ever then (NoOrphanWait).                                      *)
(***************************************************************************)
RspNotLeft ==
    (Faults \subseteq {"client_close"} /\ Kinds = {"http"})
    => (pc["req"] = "fin" /\ pc["rsp"] # "done"
            => Noticed("rsp") \/ run = "rsp" \/ (InIo("rsp") /\ Served("rsp")))

(***************************************************************************)
(* req does not wait for an rsp that has already ended (the test of        *)
(* rsp_will_exited at net_handle.c:167 is there to avoid it).              *)
(***************************************************************************)
NoOrphanWait == (pc["req"] = "fin" /\ pc["rsp"] = "done") => Wakeable("req")

BlockPoints(k) == {c \in Conns : net.hr[c] = k} \X {"read"}
                  \cup {c \in Conns : net.hw[c] = k} \X {"write"}

(***************************************************************************)
(* A call stack is blocked on one I/O operation of one descriptor          *)
(* (README.md:55).                                                         *)
(***************************************************************************)
OneBlockPoint == \A k \in Coros : Cardinality(BlockPoints(k)) <= 1

(***************************************************************************)
(* For req it is true, in every world: its handler is taken out before it  *)
(* is resumed (net_pull.c:59), and rsp notifies it only while it waits for *)
(* that (net_handle.c:258), so that no event resumes it in the middle of   *)
(* an I/O operation, as happens to rsp.                                    *)
(***************************************************************************)
ReqBlocksOnce == Cardinality(BlockPoints("req")) <= 1

(***************************************************************************)
(* When req has ended and its stack is freed (async.c:25), nothing in      *)
(* the main loop will resume it, in any world: no handler, no call of one, *)
(* no notice, no lookup.  rsp may leave a handler behind (conn.c:149).     *)
(***************************************************************************)
ReqGone == pc["req"] = "done" => ~Wakeable("req")

(***************************************************************************)
(* The pool entry rsp deletes for a closed server is that server's         *)
(* (net_handle.c:236-241); it always is while servers stay.                *)
(***************************************************************************)
DeletesOwnEntry ==
    (pc["rsp"] \in {"post", "continue"} /\ Closed(Oldest.srv))
        => cxt.pool[EpOf[Oldest.srv]] = Oldest.srv

\* While servers stay, rsp finds a connection closed on this side still in the pool
\* under its endpoint (net_handle.c:238).
SteadyPool == ServersStay => DeletesOwnEntry

\* Where Handshake.tla has the two coroutines, and the notices they exchange: the
\* queue without the resolver's event, of which there is one at most.
ReqState == IF pc["req"] \in {"init", "fin", "clean", "done"} THEN pc["req"]
            ELSE IF run = "req" THEN "run" ELSE "io"
RspState == IF pc["rsp"] \in {"init", "idle", "exit", "done"} THEN pc["rsp"]
            ELSE IF run = "rsp" THEN "run" ELSE "io"

DnsEvents(q) == {i \in 1 .. Len(q) : q[i].to = "dns"}

Notices(q) == IF DnsEvents(q) = {} THEN q
              ELSE RemoveAt(q, CHOOSE i \in DnsEvents(q) : TRUE)

Handshake1 == INSTANCE Handshake WITH
    req <- ReqState, rsp <- RspState, queue <- Notices(queue), armed <- armed \ {"dns"}

(***************************************************************************)
(* The session implements the protocol of Handshake.tla.                   *)
(***************************************************************************)
ImplementsHandshake == Handshake1!Spec
=============================================================================
