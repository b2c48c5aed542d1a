------------------------------ MODULE Message ------------------------------
(***************************************************************************)
(* strbuf.c and net_data.c: the buffer a message is read into, the header  *)
(* table over it, the parsing that cuts the buffer into strings in place,  *)
(* and the header that is sent on.                                         *)
(*                                                                         *)
(* A buffer holds tokens.  A token stands for the longest run of bytes the *)
(* patterns treat alike (a name, a number, a path) or for one separator;   *)
(* positions, lengths and capacities count tokens.  Offsets are from 0, as *)
(* in the code.  The hash table of headers is the list Table.tla promises. *)
(***************************************************************************)
EXTENDS Integers, Sequences, SequencesExt, FiniteSetsExt

CONSTANTS Letters,    \* tokens [a-zA-Z-]+: methods, schemes, header names
          LongNames,  \* the ones of at least HTTP_HEADER_KEY_MAXLEN bytes
          HostNames,  \* tokens [a-zA-Z0-9.-]+ that occur as a host
          Val,        \* the value of each token [0-9]+, in either base
          Paths,      \* tokens that start with a slash
          Methods,    \* the sequence net_http_module_init registers
          MaxHandlers, \* CONN_MAX_HANDLER_NUM
          InitCap     \* STRBUF_INIT_LEN

ASSUME MessageAssumption ==
    /\ LongNames \subseteq Letters /\ Methods \in Seq(Letters) /\ MaxHandlers \in Nat
    /\ \A t \in DOMAIN Val : Val[t] \in Nat
    /\ InitCap \in Nat /\ InitCap > 1

Numbers == DOMAIN Val

\* atoi: 0 when the string starts with no digits.
atoi(s) == IF s # <<>> /\ s[1] \in Numbers THEN Val[s[1]] ELSE 0

\* sprintf of a number: its numeral without leading zeros.
Numeral(n) == CHOOSE t \in Numbers : Val[t] = n

NUL == "NUL"  \* '\0'
CR == "CR"    \* '\r'
LF == "LF"    \* '\n'
JUNK == "?"   \* memory that was never written

Junk(n) == SubSeq([i \in 1 .. n |-> JUNK], 1, n)

(***************************************************************************)
(* strbuf.c: [p, len], with capacity Len(p).                               *)
(***************************************************************************)
strbuf_init == [p |-> <<NUL>> \o Junk(InitCap - 1), len |-> 0]

strbuf_reset(b) == [b EXCEPT !.len = 0]

\* Mutant: grows when the buffer is full, which is one too late for the NUL.
RoomWhenFull(b, n) == Min({c \in {Len(b.p) * 2^k : k \in 0 .. n} : c >= b.len + n})

\* The capacity after n appends: doubled whenever only the NUL's place is left.
Room(b, n) == Min({c \in {Len(b.p) * 2^k : k \in 0 .. n} : c > b.len + n})

\* What does not fit the capacity is not in the buffer.
strbuf_cat(b, s) ==
    LET cap == Room(b, Len(s))
    IN  [p |-> SubSeq(SubSeq(b.p, 1, b.len) \o s \o <<NUL>>
                      \o SubSeq(b.p, b.len + Len(s) + 2, Len(b.p)) \o Junk(cap), 1, cap),
         len |-> b.len + Len(s)]

strbuf_append(b, ch) == strbuf_cat(b, <<ch>>)

\* The NUL-terminated string at offset o.
StrAt(b, o) ==
    LET ends == {i \in o + 1 .. Len(b.p) : b.p[i] = NUL}
    IN  SubSeq(b.p, o + 1, IF ends = {} THEN Len(b.p) ELSE Min(ends) - 1)

Cut(b, offsets) ==
    LET last == Len(b.p)
    IN  [b EXCEPT !.p = SubSeq([i \in 1 .. last |-> IF i - 1 \in offsets THEN NUL ELSE @[i]], 1, last)]

(***************************************************************************)
(* The header table: [buf, table], table a list of [key, val_offset].      *)
(***************************************************************************)
net_data_init == [buf |-> strbuf_init, table |-> <<>>]

\* strncpy leaves no room for the NUL of a long name: what follows it in the
\* struct is then read as part of the key.
StoredKey(name) == IF name \in LongNames THEN <<name, JUNK>> ELSE <<name>>

\* struct net_header_ent.
HeaderEnt(name, o) == [key |-> StoredKey(name), val_offset |-> o]

net_data_set_ent_offset(d, name, o) == [d EXCEPT !.table = Append(@, HeaderEnt(name, o))]

\* HASH_FIND_STR: of several entries, the one added last (while its bucket has
\* not been redistributed); -1 stands for none.
net_data_get_ent_offset(d, name) ==
    LET found == SelectSeq(d.table, LAMBDA h : h.key = <<name>>)
    IN  IF found = <<>> THEN -1 ELSE Last(found).val_offset

Value(d, name) == LET o == net_data_get_ent_offset(d, name)
                  IN  IF o = -1 THEN <<NUL>> ELSE StrAt(d.buf, o)

Failed(d) == [ok |-> FALSE, d |-> d]

\* "([a-zA-Z\-]+): *(.*)$", not anchored: a run of letters that ends at a colon is
\* a name, wherever it is in the line.
header_patt(s) == {i \in 1 .. Len(s) - 1 : s[i] \in Letters /\ s[i + 1] = ":"}

\* The first match is taken; the colon becomes the NUL of the name.
net_parse_header(d, o) ==
    LET s == StrAt(d.buf, o)
        names == header_patt(s)
        i == Min(names)
        value == Min({j \in i + 2 .. Len(s) + 1 : j > Len(s) \/ s[j] # " "})
    IN  IF names = {} THEN Failed(d)
        ELSE [ok |-> TRUE,
              d |-> net_data_set_ent_offset([d EXCEPT !.buf = Cut(@, {o + i})],
                                            s[i], o + value - 1)]

\* "^...HTTP/([0-9]+)\.([0-9]+)$" at the end of s.
EndsInVersion(s) == LET n == Len(s)
                    IN  /\ s[n - 4] = " " /\ s[n - 3] = "HTTP/" /\ s[n - 1] = "."
                        /\ s[n - 2] \in Numbers /\ s[n] \in Numbers

\* Mutant: the host is never copied, even when the path follows it directly.
NeverCopied(b, host, path) == [buf |-> b, host |-> host]

\* A host that ends where the path begins has no room for a NUL: copy it.
HostCopied(b, host, path) ==
    IF host + 1 # path THEN [buf |-> b, host |-> host]
    ELSE [buf |-> strbuf_append(strbuf_append(b, b.p[host + 1]), NUL), host |-> b.len]

\* struct net_req: where its parts are in the buffer.
ReqParts(d, r, host, port) == [ok |-> TRUE, d |-> d, path |-> r.path, host |-> host,
                               port |-> port, ver |-> r.ver]

\* "^([a-zA-Z0-9\.\-]+)(:[0-9]+)?", and whether the second group is there.
host_patt(h) == h # <<>> /\ h[1] \in HostNames
HasPort(h) == Len(h) >= 3 /\ h[2] = ":" /\ h[3] \in Numbers

\* Lines 195-220: the host at offset host, with the port after it.
ParseHost(d, r) ==
    LET h == StrAt(d.buf, r.host)
        c == HostCopied(d.buf, r.host, r.path)
    IN  IF ~host_patt(h) THEN Failed(d)
        ELSE IF HasPort(h)
        THEN ReqParts([d EXCEPT !.buf = Cut(c.buf, {r.host + 1})], r, c.host, Val[h[3]])
        ELSE ReqParts([d EXCEPT !.buf = c.buf], r, c.host, 80)

\* "^([a-z]+)://([a-zA-Z0-9:\.\-]+)(/.*)?$"
IsUri(t) == /\ Len(t) >= 4 /\ t[1] \in Letters /\ t[2] = ":" /\ t[3] = "//"
            /\ \A i \in 4 .. Len(t) : \/ t[i] \in HostNames \cup Numbers \cup {":"}
                                      \/ i > 4 /\ i = Len(t) /\ t[i] \in Paths

\* The request line at offset 0: method, target, version.
net_parse_req(d) ==
    LET s == StrAt(d.buf, 0)
        n == Len(s)
        t == SubSeq(s, 3, n - 5)
        cut == [d EXCEPT !.buf = Cut(@, {1, n - 5, n - 2})]
        r == [path |-> 2, host |-> 2, ver |-> <<Val[s[n - 2]], Val[s[n]]>>]
        uri == [d EXCEPT !.buf = Cut(@, {1, n - 5, n - 2, 3})]
        host == net_data_get_ent_offset(d, "Host")
    IN  IF n < 8 \/ ~EndsInVersion(s) \/ s[1] \notin Letters \/ s[2] # " "
        THEN Failed(d)
        ELSE IF s[1] = "CONNECT" THEN ParseHost(cut, r)
        ELSE IF IsUri(t) /\ Last(t) \in Paths
        THEN ParseHost(uri, [r EXCEPT !.host = 5, !.path = n - 6])
        ELSE IF IsUri(t)
        THEN ParseHost([uri EXCEPT !.buf = strbuf_cat(@, <<"/">>)],
                       [r EXCEPT !.host = 5, !.path = uri.buf.len])
        ELSE IF host = -1 THEN Failed(cut)
        ELSE ParseHost(cut, [r EXCEPT !.host = host])

\* "^HTTP/([0-9]+)\.([0-9]+) ([0-9]+) (.+)$": a reason phrase is required.
rsp_patt(s) == /\ Len(s) >= 8 /\ {s[2], s[4], s[6]} \subseteq Numbers
               /\ s[1] = "HTTP/" /\ s[3] = "." /\ s[5] = " " /\ s[7] = " "

\* struct net_rsp.
RspParts(d, s) == [ok |-> TRUE, d |-> d, ver |-> <<Val[s[2]], Val[s[4]]>>, code |-> Val[s[6]],
                   http_msg |-> 7]

net_parse_rsp(d) ==
    LET s == StrAt(d.buf, 0)
    IN  IF rsp_patt(s) THEN RspParts([d EXCEPT !.buf = Cut(@, {2, 4, 6})], s) ELSE Failed(d)

\* What does not fit the table is logged and not registered.
net_handle_register(table, method) ==
    IF Len(table) < MaxHandlers THEN Append(table, method) ELSE table

handlers == FoldLeft(net_handle_register, <<>>, Methods)

\* method_strcmp up to the first blank, with each entry of the table.
net_get_handler(d) ==
    LET s == StrAt(d.buf, 0)
    IN  s # <<>> /\ (Len(s) = 1 \/ s[2] = " ") /\ \E i \in DOMAIN handlers : s[1] = handlers[i]

net_append_headers(d, b) ==
    strbuf_cat(b, FlattenSeq([i \in DOMAIN d.table |->
                      d.table[i].key \o <<":", " ">>
                      \o StrAt(d.buf, d.table[i].val_offset) \o <<CR, LF>>]) \o <<CR, LF>>)

Sent(b) == SubSeq(b.p, 1, b.len)

Version(v) == <<"HTTP/", Numeral(v[1]), ".", Numeral(v[2])>>

net_forward_req_header(r) ==
    Sent(net_append_headers(r.d,
        strbuf_cat(strbuf_init, StrAt(r.d.buf, 0) \o <<" ">> \o StrAt(r.d.buf, r.path)
                   \o <<" ">> \o Version(r.ver) \o <<CR, LF>>)))

net_forward_rsp_header(r) ==
    Sent(net_append_headers(r.d,
        strbuf_cat(strbuf_init, Version(r.ver) \o <<" ", Numeral(r.code), " ">>
                   \o StrAt(r.d.buf, r.http_msg) \o <<CR, LF>>)))
=============================================================================
