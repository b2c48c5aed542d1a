-------------------------------- MODULE Pipe --------------------------------
(***************************************************************************)
(* One HTTP message on its way through the proxy: conn_io.c reads it from  *)
(* a connection in whatever pieces recv returns, net_fetch_http and the    *)
(* parsers of Message.tla take it apart, and net_http.c writes the header  *)
(* and the body to the other connection.  A request goes from the client   *)
(* to a server, a response the other way.                                  *)
(*                                                                         *)
(* Blocking and waking up are Session.tla's subject; here a read that      *)
(* would block is an action that is not enabled.                           *)
(***************************************************************************)
EXTENDS Message

CONSTANTS Messages,      \* what the sender may send: see WellFormed below
          BufCap,        \* CONN_IOBUF_SIZE
          HeaderMax,     \* HTTP_HEADER_MAXLEN
          ChunkMax,      \* HTTP_CHUNK_HEADER_MAXLEN
          CopyMax        \* 64*1024, what a tunnel copies at a time

ASSUME PipeAssumption ==
    /\ {BufCap, HeaderMax, ChunkMax, CopyMax} \subseteq Nat \ {0}

VARIABLES
    msg,     \* the message, as its sender means it
    sender,  \* "open", "closed", or "cut": closed before everything was sent
    wire,    \* what recv can still return
    sink,    \* "up", "gone" while sends to the receiver fail, "back" when they work again
    out,     \* what the receiver has been sent
    reply,   \* the answers written back to src
    closed,  \* the connections with stat CONN_CLOSED, of "src" and "dst"
    rx,      \* src's buffer: [buf, s], buf_e = Len(buf)
    data,    \* the net_data being filled
    parsed,  \* what the parsers found: the net_req or net_rsp
    line,    \* the local strbuf of the chunk loop
    gets,    \* conn_gets: [on, cr, n], whether it runs, saw CR, has counted
    left,    \* the len of conn_copy
    pc       \* where the coroutine is

vars == <<msg, sender, wire, sink, out, reply, closed, rx, data, parsed, line, gets, left, pc>>

\* The bytes of the message: lines end in msg.eol, the sender's own choice.
Flat(lines, eol) == FlattenSeq([i \in DOMAIN lines |-> lines[i] \o eol])

Header(h) == <<h.name, ":">> \o h.blank \o h.val

Input(m) == Flat(<<m.start>> \o [i \in DOMAIN m.headers |-> Header(m.headers[i])]
                 \o <<<<>>>>, m.eol) \o m.body \o m.next

Reading == [on |-> TRUE, cr |-> FALSE, n |-> 0]
Returned(n) == [on |-> FALSE, cr |-> FALSE, n |-> n]

Init ==
    /\ msg \in Messages
    /\ sender = "open" /\ wire = Input(msg)
    /\ sink = "up" /\ out = <<>> /\ reply = <<>> /\ closed = {}
    /\ rx = [buf |-> <<>>, s |-> 0]
    /\ data = net_data_init /\ parsed = <<>> /\ line = strbuf_init
    /\ gets = Reading /\ left = 0
    /\ pc = "start"

Unread == SubSeq(rx.buf, rx.s + 1, Len(rx.buf))

-----------------------------------------------------------------------------
(***************************************************************************)
(* conn_io.c.  A read has a set of outcomes: one for every number of       *)
(* bytes recv may return, none while it would block.                       *)
(***************************************************************************)
Pieces(cap) == 1 .. (IF Len(wire) < cap THEN Len(wire) ELSE cap)

ERR == "-1"

\* The end of the stream, or a connection that this side has closed.
AtEnd == (wire = <<>> /\ sender # "open") \/ "src" \in closed

Got(ch, buf, s, w) == [ch |-> ch, rx |-> [buf |-> buf, s |-> s], wire |-> w, eof |-> FALSE]

End == [ch |-> ERR, rx |-> [buf |-> <<>>, s |-> 0], wire |-> wire, eof |-> TRUE]

\* The buffer holds chars: byte 0xFF, token FF, is the error value -1.
Char(t) == IF t = "FF" THEN ERR ELSE t

conn_getc ==
    IF rx.s < Len(rx.buf) THEN {Got(Char(rx.buf[rx.s + 1]), rx.buf, rx.s + 1, wire)}
    ELSE IF AtEnd THEN {End}
    ELSE {Got(Char(wire[1]), SubSeq(wire, 1, k), 1, SubSeq(wire, k + 1, Len(wire))) :
             k \in Pieces(BufCap)}

\* Mutant: what followed the CR is not put back.
UngetNothing(g) == g.rx

conn_ungetc(g) == [g.rx EXCEPT !.s = IF @ > 0 THEN @ - 1 ELSE @]

\* The state of src after a read, closed when the stream has ended.
Take(g, r) == /\ rx' = r
              /\ wire' = g.wire
              /\ closed' = IF g.eof THEN closed \cup {"src"} ELSE closed

Writable == sink # "gone" /\ "dst" \notin closed

\* What the receiver may have been sent when s is written: a send can fail after
\* others of the same call have taken a part of it.
SentOf(s) == IF Writable THEN {out \o s}
             ELSE IF "dst" \in closed THEN {out}
             ELSE {out \o SubSeq(s, 1, k) : k \in 0 .. (Len(s) - 1)}

\* Mutant: a failure leaves the connection as it is.
FailureForgotten(s) == out' \in SentOf(s) /\ closed' = closed

\* A failure closes the connection, and nothing is written to it any more.
conn_write(s) == /\ out' \in SentOf(s)
                 /\ closed' = IF Writable THEN closed ELSE closed \cup {"dst"}

-----------------------------------------------------------------------------
(***************************************************************************)
(* conn_gets, one character per step, into the message's own buffer or     *)
(* into the local one of the chunk loop.                                   *)
(***************************************************************************)
InHeader == pc \in {"start", "header"}

Target == IF InHeader THEN data.buf ELSE line

Limit == IF pc = "chunk" THEN ChunkMax ELSE HeaderMax

Fill(b) == IF InHeader THEN data' = [data EXCEPT !.buf = b] /\ line' = line
           ELSE line' = b /\ data' = data

gets_rest == <<msg, sender, sink, out, reply, parsed, left, pc>>

gets_limit ==
    /\ gets.on /\ ~gets.cr /\ Target.len + 1 = Limit
    /\ gets' = Returned(-1)
    /\ UNCHANGED <<gets_rest, wire, closed, rx, data, line>>

gets_char ==
    /\ gets.on /\ ~gets.cr /\ Target.len + 1 # Limit
    /\ \E g \in conn_getc :
          /\ Take(g, g.rx)
          /\ gets' = CASE g.ch = ERR -> Returned(-1)
                       [] g.ch = CR -> [gets EXCEPT !.cr = TRUE]
                       [] g.ch = LF -> Returned(gets.n)
                       [] OTHER -> [gets EXCEPT !.n = @ + 1]
          /\ Fill(IF g.ch \in {ERR, CR, LF} THEN Target ELSE strbuf_append(Target, g.ch))
    /\ UNCHANGED gets_rest

gets_lf ==
    /\ gets.on /\ gets.cr
    /\ \E g \in conn_getc :
          /\ Take(g, IF g.ch \in {ERR, LF} THEN g.rx ELSE conn_ungetc(g))
          /\ gets' = Returned(IF g.ch = ERR THEN -1 ELSE gets.n)
    /\ UNCHANGED <<gets_rest, data, line>>

conn_gets == gets_limit \/ gets_char \/ gets_lf

-----------------------------------------------------------------------------
(***************************************************************************)
(* The header: net_fetch_http, then the handlers up to the body.           *)
(***************************************************************************)
IsReq == msg.dir = "req"

\* net_bad_request on the client, or the answers of net_http_rsp_handler to a
\* response it cannot read: the server is closed, the client gets a 502.
Refuse ==
    /\ IF IsReq
       THEN /\ reply' = IF "src" \in closed THEN reply ELSE Append(reply, "400")
            /\ closed' = closed \cup {"src"} /\ UNCHANGED out
       ELSE /\ out' = IF Writable THEN Append(out, "502") ELSE out
            /\ closed' = closed \cup {"src"} \cup (IF sink # "gone" THEN {} ELSE {"dst"})
            /\ UNCHANGED reply
    /\ pc' = "failed"

net_fetch_http ==
    /\ pc = "start" /\ ~gets.on
    /\ \/ /\ gets.n > 0
          /\ data' = [data EXCEPT !.buf = strbuf_append(@, NUL)]
          /\ gets' = Reading /\ pc' = "header"
          /\ UNCHANGED <<out, reply, closed>>
       \/ gets.n = 0 /\ pc' = "parse" /\ UNCHANGED <<data, gets, out, reply, closed>>
       \/ gets.n < 0 /\ Refuse /\ UNCHANGED <<data, gets>>
    /\ UNCHANGED <<msg, sender, wire, sink, rx, parsed, line, left>>

HeaderParsed == net_parse_header([data EXCEPT !.buf = strbuf_append(@, NUL)],
                                 data.buf.len - gets.n)

net_fetch_headers ==
    /\ pc = "header" /\ ~gets.on
    /\ \/ /\ gets.n > 0 /\ HeaderParsed.ok
          /\ data' = HeaderParsed.d /\ gets' = Reading
          /\ UNCHANGED <<pc, out, reply, closed>>
       \/ gets.n = 0 /\ pc' = "parse" /\ UNCHANGED <<data, gets, out, reply, closed>>
       \/ /\ gets.n < 0 \/ (gets.n > 0 /\ ~HeaderParsed.ok)
          /\ Refuse /\ UNCHANGED <<data, gets>>
    /\ UNCHANGED <<msg, sender, wire, sink, rx, parsed, line, left>>

\* net_req_handler, net_http_rsp_handler: the start line.
Parse ==
    /\ pc = "parse"
    /\ LET r == IF IsReq THEN net_parse_req(data) ELSE net_parse_rsp(data)
       IN  \/ /\ IsReq => net_get_handler(data)
              /\ r.ok /\ parsed' = r /\ data' = r.d
              /\ pc' = IF IsReq /\ data.buf.p[1] = "CONNECT" THEN "connect" ELSE "forward"
              /\ UNCHANGED <<out, reply, closed>>
           \/ /\ (IsReq /\ ~net_get_handler(data)) \/ ~r.ok
              /\ Refuse /\ UNCHANGED <<parsed, data>>
    /\ UNCHANGED <<msg, sender, wire, sink, rx, line, gets, left>>

\* net_http_req_handler: the name of the server is added when the request does
\* not have it (lines 122-123).
WithHost == IF net_data_get_ent_offset(data, "Host") # -1 THEN data
            ELSE net_data_set_ent_offset(data, "Host", parsed.host)

\* Lines 109-130.  A write that fails is tried again on another connection, or
\* there is none; what the lost server was sent does not matter any more.
forward_req ==
    /\ pc = "forward" /\ IsReq
    /\ data' = WithHost
    /\ IF Writable
       THEN /\ out' = out \o net_forward_req_header([parsed EXCEPT !.d = WithHost])
            /\ pc' = "body" /\ UNCHANGED <<sink, closed, reply>>
       ELSE \/ /\ sink' = "up" /\ out' = <<>> /\ closed' = closed \ {"dst"}
               /\ UNCHANGED <<pc, reply>>
            \/ /\ reply' = IF "src" \in closed THEN reply ELSE Append(reply, "502")
               /\ closed' = closed \cup {"dst"} /\ pc' = "failed"
               /\ UNCHANGED <<sink, out>>
    /\ UNCHANGED <<msg, sender, wire, rx, parsed, line, gets, left>>

\* Lines 189-209: the outcome of the write is not looked at.
forward_rsp ==
    /\ pc = "forward" /\ ~IsReq
    /\ conn_write(net_forward_rsp_header(parsed))
    /\ IF parsed.ver[1] * 100 + parsed.ver[2] > 100
       THEN pc' = "body" /\ left' = left
       ELSE pc' = "tunnel" /\ left' = CopyMax
    /\ UNCHANGED <<msg, sender, wire, sink, reply, rx, data, parsed, line, gets>>

\* net_connect_req_handler: 200 to the client, then its bytes to the server.
\* The write can fail when the client has gone.
Connect ==
    /\ pc = "connect"
    /\ \/ /\ reply' = Append(reply, "200") /\ pc' = "tunnel" /\ left' = CopyMax
          /\ UNCHANGED closed
       \/ /\ sender # "open"
          /\ closed' = closed \cup {"src"} /\ pc' = "failed" /\ UNCHANGED <<reply, left>>
    /\ UNCHANGED <<msg, sender, wire, sink, out, rx, data, parsed, line, gets>>

-----------------------------------------------------------------------------
(***************************************************************************)
(* The body: net_transfer_body_HTTP_1_1, or everything up to the end of    *)
(* the stream (an HTTP/1.0 response, a tunnel).                            *)
(***************************************************************************)
Copying == {"copy", "chunk_copy", "tunnel"}

\* The handler gives up: a client that sent a request is told.
GiveUp(c) ==
    /\ pc' = "failed"
    /\ reply' = IF IsReq /\ "src" \notin c THEN Append(reply, "502") ELSE reply

Chunked == Value(data, "Transfer-Encoding") = <<"chunked">>

net_transfer_body ==
    /\ pc = "body"
    /\ LET len == atoi(Value(data, "Content-Length"))
       IN  IF StrAt(data.buf, 0) = <<"HEAD">> \/ (~Chunked /\ len = 0)
           THEN pc' = "done" /\ UNCHANGED <<line, gets, left>>
           ELSE IF Chunked
           THEN pc' = "chunk" /\ line' = strbuf_init /\ gets' = Reading /\ UNCHANGED left
           ELSE pc' = "copy" /\ left' = len /\ UNCHANGED <<line, gets>>
    /\ UNCHANGED <<msg, sender, wire, sink, out, reply, closed, rx, data, parsed>>

NextLine == line' = strbuf_reset(line) /\ gets' = Reading

\* sscanf "%x" leaves the -1 the variable had when there is no number.
ChunkLen == IF line.p[1] \in Numbers THEN Val[line.p[1]] ELSE -1

\* Also copies the line end that follows a chunk.
chunk_line ==
    /\ pc = "chunk" /\ ~gets.on
    /\ IF gets.n <= 0
       THEN /\ GiveUp(closed) /\ UNCHANGED <<out, closed, line, gets, left>>
       ELSE /\ conn_write(Sent(strbuf_cat(line, <<CR, LF>>)))
            /\ IF ~Writable THEN GiveUp(closed) /\ UNCHANGED <<line, gets, left>>
               ELSE IF ChunkLen = 0
               THEN pc' = "trailer" /\ NextLine /\ UNCHANGED <<reply, left>>
               ELSE /\ pc' = "chunk_copy" /\ left' = ChunkLen + 2
                    /\ line' = strbuf_cat(line, <<CR, LF>>) /\ UNCHANGED <<reply, gets>>
    /\ UNCHANGED <<msg, sender, wire, sink, rx, data, parsed>>

\* Mutant: the empty line is taken for one more trailer.
TrailerGoesOn == FALSE

TrailerDone == gets.n = 0

\* Up to the empty line.
trailer_line ==
    /\ pc = "trailer" /\ ~gets.on
    /\ IF gets.n < 0
       THEN GiveUp(closed) /\ UNCHANGED <<out, closed, line, gets>>
       ELSE /\ conn_write(Sent(strbuf_cat(line, <<CR, LF>>)))
            /\ IF ~Writable THEN GiveUp(closed) /\ UNCHANGED <<line, gets>>
               ELSE IF TrailerDone THEN pc' = "done" /\ UNCHANGED <<reply, line, gets>>
               ELSE NextLine /\ UNCHANGED <<pc, reply>>
    /\ UNCHANGED <<msg, sender, wire, sink, rx, data, parsed, left>>

Consume(n) == [rx EXCEPT !.s = @ + n]

Shorter(a, b) == IF a < b THEN a ELSE b

\* conn_copy, lines 145-153: what the buffer still holds goes first, and whether
\* it could be written is not looked at.
copy_buffered ==
    /\ pc \in Copying /\ left > 0 /\ Unread # <<>>
    /\ LET n == Shorter(left, Len(Unread))
       IN  /\ conn_write(SubSeq(Unread, 1, n))
           /\ rx' = Consume(n) /\ left' = left - n
    /\ UNCHANGED <<msg, sender, wire, sink, reply, data, parsed, line, gets, pc>>

\* conn_copy returned -1.  A tunnel ends so; an HTTP/1.0 response closes both.
CopyFailed(c) ==
    IF pc # "tunnel" THEN closed' = c /\ GiveUp(c)
    ELSE /\ closed' = IF IsReq THEN c ELSE {"src", "dst"}
         /\ pc' = "done" /\ UNCHANGED reply

copy_recv ==
    /\ pc \in Copying /\ left > 0 /\ Unread = <<>>
    /\ \/ /\ AtEnd
          /\ rx' = [buf |-> <<>>, s |-> 0]
          /\ CopyFailed(closed \cup {"src"}) /\ UNCHANGED <<wire, out, left>>
       \/ /\ ~AtEnd
          /\ \E k \in Pieces(BufCap) :
                LET n == Shorter(left, k)
                IN  /\ wire' = SubSeq(wire, k + 1, Len(wire))
                    /\ out' \in SentOf(SubSeq(wire, 1, n))
                    /\ IF Writable
                       THEN /\ rx' = [buf |-> SubSeq(wire, 1, k), s |-> n] /\ left' = left - n
                            /\ UNCHANGED <<pc, closed, reply>>
                       ELSE /\ rx' = [buf |-> SubSeq(wire, 1, k), s |-> 0]
                            /\ CopyFailed(closed \cup {"dst"}) /\ UNCHANGED left
    /\ UNCHANGED <<msg, sender, sink, data, parsed, line, gets>>

\* conn_copy returned 0.
copy_end ==
    /\ pc \in Copying /\ left = 0
    /\ CASE pc = "copy" -> pc' = "done" /\ UNCHANGED <<line, gets, left>>
         [] pc = "chunk_copy" -> pc' = "chunk" /\ NextLine /\ UNCHANGED left
         [] pc = "tunnel" -> left' = CopyMax /\ UNCHANGED <<pc, line, gets>>
    /\ UNCHANGED <<msg, sender, wire, sink, out, reply, closed, rx, data, parsed>>

-----------------------------------------------------------------------------
(***************************************************************************)
(* The peers: the sender closes, possibly before it has sent everything;   *)
(* sends to the receiver begin to fail, because it has gone away or the    *)
(* kernel has no memory for them, and may work again later.                *)
(***************************************************************************)
peer_rest == <<msg, out, reply, closed, rx, data, parsed, line, gets, left, pc>>

Running == pc \notin {"done", "failed"}

SenderCloses ==
    /\ Running /\ sender = "open"
    /\ \/ sender' = "closed" /\ wire' = wire
       \/ sender' = "cut" /\ wire # <<>> /\ wire' = <<>>
    /\ UNCHANGED <<peer_rest, sink>>

SendsFail == Running /\ sink = "up" /\ sink' = "gone" /\ UNCHANGED <<peer_rest, sender, wire>>

SendsWork == Running /\ sink = "gone" /\ sink' = "back" /\ UNCHANGED <<peer_rest, sender, wire>>

Proxy == \/ conn_gets
         \/ net_fetch_http \/ net_fetch_headers \/ Parse
         \/ forward_req \/ forward_rsp \/ Connect
         \/ net_transfer_body \/ chunk_line \/ trailer_line
         \/ copy_buffered \/ copy_recv \/ copy_end

\* The handler has returned; a coroutine that hangs before that is a deadlock
\* once its peers are gone.
Finished == ~Running /\ UNCHANGED vars

Next == Proxy \/ SenderCloses \/ SendsFail \/ SendsWork \/ Finished

\* conn_try_io has something to return, or is not needed.
CanRun == Running /\ ~(/\ \/ gets.on /\ (gets.cr \/ Target.len + 1 # Limit)
                          \/ pc \in Copying /\ left > 0
                       /\ Unread = <<>> /\ wire = <<>> /\ ~AtEnd)

\* The coroutine runs on whenever its reads can return (weak fairness of Proxy,
\* with what ENABLED means written out); the peers do what they like.
Spec == Init /\ [][Next]_vars /\ (<>[]CanRun => []<><<Proxy>>_vars)
-----------------------------------------------------------------------------
(***************************************************************************)
(* What the sender means: msg.want is the header the receiver must get,    *)
(* as lines, and msg.to the server, port and path of a request.  msg.plain *)
(* holds of the messages the proxy has to forward: see MCPipe.             *)
(***************************************************************************)
Reference == Flat(msg.want, <<CR, LF>>) \o msg.body

\* A buffer has room for its NUL, which is there.
StrbufOK(b) == b.len < Len(b.p) /\ b.p[b.len + 1] = NUL

\* The buffers stay within their capacities and limits.  strbuf_append is the
\* only place where a strbuf grows, and conn_gets compares the length with its
\* limit by equality (conn_io.c:101): a length that skipped it would be unbounded.
TypeOK ==
    /\ msg \in Messages /\ sender \in {"open", "closed", "cut"} /\ sink \in {"up", "gone", "back"}
    /\ closed \subseteq {"src", "dst"}
    /\ rx.s \in 0 .. Len(rx.buf) /\ Len(rx.buf) <= BufCap
    /\ StrbufOK(data.buf) /\ (pc \in {"chunk", "trailer"} /\ gets.n > 0 => StrbufOK(line))
    /\ InHeader => data.buf.len < HeaderMax
    /\ pc = "chunk" => line.len < ChunkMax
    /\ left \in (0 .. CopyMax) \cup {Val[t] + 2 : t \in Numbers}
    /\ gets.n \in -1 .. HeaderMax
    /\ pc \in {"start", "header", "parse", "forward", "connect", "body", "chunk",
               "trailer", "done", "failed"} \cup Copying

\* Whatever the pieces the message arrives in, whoever goes away and whichever
\* send fails, the receiver has been sent a prefix of what the sender meant:
\* nothing twice, nothing out of order, nothing of the next message
\* (conn_io.c:143-175 together with net_http.c:17-88).  conn_copy and
\* net_http_rsp_handler go on after a write that failed (conn_io.c:149); what
\* keeps a gap out of the stream is that conn_write has closed the connection.
\* A 502 may follow what the receiver has of a response.
ForwardsPrefix ==
    msg.plain => \/ IsPrefix(out, Reference)
                 \/ out # <<>> /\ Last(out) = "502" /\ IsPrefix(Front(out), Reference)

\* A plain message whose peers stay is forwarded completely, and what follows
\* it on the connection is left for the next round of the handler.
Delivered ==
    msg.plain /\ ~Running /\ sink = "up" /\ sender = "open"
    => pc = "done" /\ out = Reference /\ Unread \o wire = msg.next

\* The server that is asked is the one the request names, whichever form its
\* target has: the parser cuts the buffer in place, and the host may end where
\* the path begins (net_data.c:201-207).
RightServer ==
    msg.plain /\ IsReq /\ parsed # <<>>
    => /\ StrAt(data.buf, parsed.host) = <<msg.to.host>>
       /\ StrAt(data.buf, parsed.path) = msg.to.path
       /\ parsed.port = msg.to.port

\* A message of known length ends; any message ends once its sender has closed,
\* as long as the servers do not fail one after the other for ever.
MessageEnds ==
    (<>[](sink = "up") \/ <>[](sink = "gone") \/ <>[](sink = "back"))
    => ((sender # "open" \/ (msg.plain /\ msg.framed)) ~> ~Running)
=============================================================================
