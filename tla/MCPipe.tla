------------------------------- MODULE MCPipe -------------------------------
(* Requests and responses of every form the parsers tell apart.             *)
EXTENDS Pipe

CRLF == <<CR, LF>>

MCVal == [t \in {"0", "1", "2", "80", "81", "200"} |->
             CASE t = "0" -> 0 [] t = "1" -> 1 [] t = "2" -> 2
               [] t = "80" -> 80 [] t = "81" -> 81 [] t = "200" -> 200]

MCMethods == <<"GET", "POST", "HEAD", "PUT", "DELETE", "CONNECT">>

H(name, val) == [name |-> name, blank |-> <<" ">>, val |-> val]

Lines(hs) == [i \in DOMAIN hs |-> <<hs[i].name, ":", " ">> \o hs[i].val]

V11 == <<"HTTP/", "1", ".", "1">>
V10 == <<"HTTP/", "1", ".", "0">>

\* Targets of requests: what is written, and what is meant.
Target0(written, host, port, path) ==
    [written |-> written, to |-> [host |-> host, port |-> port, path |-> path]]
Absolute == {Target0(<<"http", ":", "//", "h">>, "h", 80, <<"/">>),
             Target0(<<"http", ":", "//", "h", "/p">>, "h", 80, <<"/p">>)}
Ported   == {Target0(<<"http", ":", "//", "h", ":", "81", "/p">>, "h", 81, <<"/p">>),
             Target0(<<"http", ":", "//", "h", ":", "81">>, "h", 81, <<"/">>)}
Origin   == {Target0(<<"/p">>, "h", 80, <<"/p">>)}
Host     == H("Host", <<"h">>)

\* The ways a body is framed: header, body, known length.
NoBody  == [headers |-> <<>>, body |-> <<>>]
Length  == [headers |-> <<H("Content-Length", <<"2">>)>>, body |-> <<"b", CR>>]
Chunks  == [headers |-> <<H("Transfer-Encoding", <<"chunked">>)>>,
            body |-> <<"2", ";x", CR, LF, LF, "0", CR, LF, "0", CR, LF, "T", ":", CR, LF, CR, LF>>]
Framings == {NoBody, Length, Chunks}

Next1 == <<"GET", " ">>

Msg(dir, start, hs, eol, f, want, to, plain) ==
    [dir |-> dir, start |-> start, headers |-> hs, eol |-> eol, body |-> f.body,
     next |-> Next1, want |-> want, to |-> to, plain |-> plain, framed |-> TRUE]

Req(method, t, hs, eol, f) ==
    LET all == hs \o f.headers
        added == IF Host \in {hs[i] : i \in DOMAIN hs} THEN <<>> ELSE <<<<"Host", ":", " ", "h">>>>
    IN  Msg("req", <<method, " ">> \o t.written \o <<" ">> \o V11, all, eol, f,
            <<<<method, " ">> \o t.to.path \o <<" ">> \o V11>> \o Lines(all) \o added \o <<<<>>>>,
            t.to, TRUE)

Requests ==
    {Req("POST", t, <<Host>>, eol, f) : t \in Absolute \cup Ported \cup Origin,
                                        eol \in {CRLF, <<LF>>, <<CR>>}, f \in Framings}
    \cup {Req("GET", t, <<>>, CRLF, NoBody) : t \in Absolute}
    \cup {Req("HEAD", t, <<Host>>, CRLF, NoBody) : t \in Origin}

\* A tunnel: the header is not forwarded, and everything after it is.
Tunnels ==
    {[Msg("req", <<"CONNECT", " ", "h", ":", "81", " ">> \o V11, <<>>, CRLF,
          [body |-> <<"a", LF, CR, "b">>], <<>>,
          [host |-> "h", port |-> 81, path |-> <<"h">>], TRUE)
      EXCEPT !.next = <<>>, !.framed = FALSE]}

Rsp(v, hs, eol, f) ==
    LET all == hs \o f.headers
        start == v \o <<" ", "200", " ", "OK">>
    IN  Msg("rsp", start, all, eol, f, <<start>> \o Lines(all) \o <<<<>>>>, <<>>, TRUE)

Responses ==
    {Rsp(V11, hs, eol, f) : hs \in {<<>>, <<[name |-> "Server", blank |-> <<>>, val |-> <<"x", " ", "y">>]>>,
                                    <<[name |-> "Server", blank |-> <<" ", " ">>, val |-> <<>>]>>},
                            eol \in {CRLF, <<LF>>, <<CR>>}, f \in Framings}
    \cup {[Rsp(V10, <<>>, CRLF, [headers |-> <<>>, body |-> <<"a", LF, CR, "b">>])
           EXCEPT !.next = <<>>, !.framed = FALSE]}

\* What the proxy refuses or reads in its own way.
Odd(dir, start, hs, f) ==
    [Msg(dir, start, hs, CRLF, f, <<>>, <<>>, FALSE) EXCEPT !.framed = FALSE]

OddFraming(h, body) == [headers |-> <<h>>, body |-> body]

GetLine == <<"GET", " ", "/p", " ">> \o V11
OkLine  == V11 \o <<" ", "200", " ", "OK">>

Oddities ==
    { Odd("req", <<>>, <<>>, NoBody),                                  \* empty start line
      Odd("req", <<"BREW", " ", "/p", " ">> \o V11, <<Host>>, NoBody),  \* no handler
      Odd("req", <<"GET", " ", "/p">>, <<Host>>, NoBody),               \* no version
      Odd("req", GetLine, <<>>, NoBody),                               \* no host
      Odd("req", GetLine, <<H("Host", <<"/p">>)>>, NoBody),             \* not a host
      Odd("req", GetLine, <<H("Host", <<"h", ":", "81">>)>>, NoBody),   \* the port is cut off
      Odd("req", GetLine, <<H("X5", <<"a", ":", "b">>), Host>>, NoBody),\* a digit in a name
      Odd("req", GetLine, <<H("X5", <<"v">>)>>, NoBody),
      Odd("req", GetLine, <<Host, H("Server", <<"FF">>)>>, NoBody),     \* byte 0xFF
      Odd("req", GetLine, [i \in 1 .. 8 |-> Host], NoBody),             \* too long a header
      Odd("rsp", OkLine, <<H("Long", <<"v">>)>>, NoBody),               \* 32 bytes of name
      Odd("rsp", SubSeq(OkLine, 1, 7), <<>>, NoBody),                  \* no reason
      Odd("rsp", OkLine, <<H("content-length", <<"2">>)>>, Length),     \* not the spelling looked for
      Odd("rsp", OkLine, <<>>, OddFraming(H("Content-Length", <<"many">>), <<"b">>)),
      Odd("rsp", OkLine, <<>>, OddFraming(H("Transfer-Encoding", <<"chunked">>), <<"zz", CR, LF, "b">>)),
      Odd("rsp", OkLine, <<>>, OddFraming(H("Transfer-Encoding", <<"chunked">>), <<CR, "b">>)),
      Odd("rsp", OkLine, <<>>, OddFraming(H("Transfer-Encoding", <<"chunked">>),
                                          [i \in 1 .. 9 |-> "2"])),    \* too long a size line
      Odd("rsp", OkLine, <<H("Content-Length", <<"2">>)>>, NoBody) }    \* the answer to a HEAD

MCMessages == Requests \cup Tunnels \cup Responses \cup Oddities
=============================================================================
