------------------------------ MODULE Network ------------------------------
(***************************************************************************)
(* The connections of a session as one value, and the operations of        *)
(* net_pull.c, conn.c and mem.c on it.  A network n is a record of         *)
(*    stat   conn->stat: "closed" (CONN_CLOSED) or "open" (USED and FREE,  *)
(*           which nothing in the session tells apart)                     *)
(*    fd     the connections whose descriptor is open                      *)
(*    reg    the ones with an entry in net_pull's handler table            *)
(*    hr, hw the coroutine each entry's read and write handler resumes     *)
(*    ref    reference counts; 0 when the struct is not allocated          *)
(*    fault  "none", or the first invalid memory access: "freed", "null"   *)
(* Here a descriptor belongs to one connection for ever, and recv or send  *)
(* on a closed one fails.  In the code they go to the number a closed conn *)
(* remembers, which may name another socket by then (conn_io.c:13-16; the  *)
(* test of conn_io.c:74-75 is commented out): who loses a number to whom   *)
(* is the subject of Descriptors.tla, the bytes that then go astray are    *)
(* not modelled.                                                           *)
(***************************************************************************)
EXTENDS Naturals

CONSTANT None

net_pull_del(n, c) == [n EXCEPT !.reg = @ \ {c}, !.hr[c] = None, !.hw[c] = None]

\* Mutant: the wait for reading and the wait for writing share a slot.
OneSlot(n, c, dir, k) == IF c \in n.reg THEN [n EXCEPT !.hr[c] = k] ELSE n

\* Overwrites a handler already there; an unknown descriptor is ignored.
net_pull_set_handler(n, c, dir, k) ==
    CASE c \notin n.reg -> n
      [] c \in n.reg /\ dir = "read"  -> [n EXCEPT !.hr[c] = k]
      [] c \in n.reg /\ dir = "write" -> [n EXCEPT !.hw[c] = k]

\* Mutant: close() without net_pull_del().
ShutKeepsEntry(n, c) == [n EXCEPT !.fd = @ \ {c}, !.stat[c] = "closed"]

\* net_pull_del(fd) and close(fd).
Shut(n, c) == [net_pull_del(n, c) EXCEPT !.fd = @ \ {c}, !.stat[c] = "closed"]

conn_close(n, c) == IF n.stat[c] = "closed" THEN n ELSE Shut(n, c)

\* A connection that conn_err_handler marked closed still has its descriptor.
conn_done(n, c) ==
    LET shut == IF n.stat[c] # "closed" THEN conn_close(n, c) ELSE Shut(n, c)
    IN  [shut EXCEPT !.ref[c] = 0]

mem_incref(n, c) == [n EXCEPT !.ref[c] = @ + 1]

mem_decref(n, c) == CASE n.ref[c] = 0 -> [n EXCEPT !.fault = "freed"]
                      [] n.ref[c] = 1 -> conn_done(n, c)
                      [] OTHER -> [n EXCEPT !.ref[c] = @ - 1]

\* Mutant: only conn_close() is left to close a descriptor.
LastRefOpen(n, drops) == {c \in DOMAIN drops : /\ n.ref[c] \in 1 .. drops[c]
                                               /\ n.stat[c] # "closed"}

\* Those whose last reference goes when each c is dropped drops[c] times.
LastRef(n, drops) == {c \in DOMAIN drops : n.ref[c] \in 1 .. drops[c]}

\* conn_close of the connections in S, and mem_decref of each c, drops[c] times, in
\* any order: whoever loses its last reference is shut.
DropAll(n, S, drops) ==
    LET shut == S \cup LastRef(n, drops)
    IN  [stat |-> [c \in DOMAIN drops |-> IF c \in shut THEN "closed" ELSE n.stat[c]],
         fd   |-> n.fd \ shut,
         reg  |-> n.reg \ shut,
         hr   |-> [c \in DOMAIN drops |-> IF c \in shut THEN None ELSE n.hr[c]],
         hw   |-> [c \in DOMAIN drops |-> IF c \in shut THEN None ELSE n.hw[c]],
         ref  |-> [c \in DOMAIN drops |-> IF n.ref[c] < drops[c] THEN 0
                                          ELSE n.ref[c] - drops[c]],
         fault |-> IF \E c \in DOMAIN drops : n.ref[c] < drops[c] THEN "freed" ELSE n.fault]
=============================================================================
