---------------------------- MODULE Descriptors ----------------------------
(***************************************************************************)
(* Descriptor numbers.  The kernel gives a new socket the lowest free      *)
(* number; net_pull.c keeps its handlers in a table keyed by the number,   *)
(* epoll_wait names ready numbers, and a struct conn remembers its number  *)
(* after conn_close.  The sessions (Session.tla) are reduced to what they  *)
(* do to connections: open, close and release them, at any time.           *)
(***************************************************************************)
EXTENDS Naturals, FiniteSets, FiniteSetsExt, Functions

CONSTANTS Fds,      \* the numbers, with the process's limit
          Clients,  \* connections that arrive
          Servers,  \* connections that sessions open
          None

ASSUME DescriptorsAssumption ==
    /\ Fds \subseteq Nat /\ IsFiniteSet(Fds) /\ Fds # {}
    /\ Clients \cap Servers = {} /\ None \notin Clients \cup Servers
    /\ "listener" \notin Clients \cup Servers \cup {None}

Conns == Clients \cup Servers

Listener == "listener"

VARIABLES
    os,       \* [sock, epoll, table, fd_cnt]: the socket each number names, the
              \* numbers epoll watches, net_pull's table (d_err by number), fd_cnt
    conn,     \* each struct conn: [st, stat, fd]
    backlog,  \* clients the kernel has not handed out yet
    edge,     \* the listening socket became readable since the last epoll_wait
    broken,   \* connections whose peer has reset them
    ready,    \* those of them epoll_wait has not reported
    batch,    \* the events of the last epoll_wait that are still to be handled
    accepting, \* conn_accept_handler is in its loop
    refused,  \* its last round ended with an error other than EAGAIN
    main_stat

vars == <<os, conn, backlog, edge, ready, broken, batch, accepting, refused, main_stat>>
rest == <<backlog, edge, ready, broken, batch, accepting, refused, main_stat>>

Free(o) == {n \in Fds : o.sock[n] = None}

\* socket(), accept(): the lowest free number.
Open(o, n, c) == [o EXCEPT !.sock[n] = c]

\* The last reference to a socket: epoll forgets it.  EBADF otherwise.
close(o, n) == [o EXCEPT !.sock[n] = None, !.epoll = @ \ {n}]

net_pull_add(o, n, c) ==
    [o EXCEPT !.epoll = @ \cup {n}, !.fd_cnt = @ + 1,
              !.table = IF n \in DOMAIN @ THEN @
                        ELSE [m \in DOMAIN @ \cup {n} |-> IF m = n THEN c ELSE @[m]]]

\* The entry stays when epoll_ctl fails, which it does for a closed number.
net_pull_del(o, n) ==
    IF n \notin DOMAIN o.table \/ n \notin o.epoll THEN o
    ELSE [o EXCEPT !.epoll = @ \ {n}, !.fd_cnt = @ - 1, !.table = Restrict(@, DOMAIN @ \ {n})]

\* Mutant: the number is closed first, and epoll_ctl fails.
CloseFirst(o, n) == net_pull_del(close(o, n), n)

\* How both conn_close and conn_done give a number up.
GiveUp(o, n) == close(net_pull_del(o, n), n)

\* conn_module_init, with the one address that is bound.
Init ==
    LET none == [sock |-> [n \in Fds |-> None], epoll |-> {}, table |-> <<>>, fd_cnt |-> 0]
        n == Min(Fds)
    IN  /\ os = net_pull_add(Open(none, n, Listener), n, None)
        /\ conn = [c \in Conns |-> [st |-> "none", stat |-> "closed", fd |-> 0]]
        /\ backlog = {} /\ edge = FALSE /\ ready = {} /\ broken = {}
        /\ batch = {} /\ accepting = FALSE /\ refused = FALSE
        /\ main_stat = "running"

-----------------------------------------------------------------------------
(***************************************************************************)
(* The peers and the kernel.                                               *)
(***************************************************************************)
ClientArrives(c) ==
    /\ main_stat = "running" /\ conn[c].st = "none" /\ c \notin backlog
    /\ backlog' = backlog \cup {c} /\ edge' = TRUE
    /\ UNCHANGED <<os, conn, ready, broken, batch, accepting, refused, main_stat>>

\* Events without an error resume coroutines and change nothing here.
PeerResets(c) ==
    /\ main_stat = "running" /\ c \notin broken
    /\ \E n \in Fds : os.sock[n] = c
    /\ broken' = broken \cup {c} /\ ready' = ready \cup {c}
    /\ UNCHANGED <<os, conn, backlog, edge, batch, accepting, refused, main_stat>>

-----------------------------------------------------------------------------
(***************************************************************************)
(* net_pull_work and the handlers it calls.                                *)
(***************************************************************************)
Running == main_stat = "running" /\ ~accepting

News(n) == os.sock[n] \in ready \/ (os.sock[n] = Listener /\ edge)

epoll_wait ==
    /\ Running /\ batch = {} /\ os.fd_cnt > 0
    /\ \E n \in os.epoll : News(n)
    /\ batch' = {n \in os.epoll : News(n)}
    /\ ready' = {} /\ edge' = FALSE
    /\ UNCHANGED <<os, conn, backlog, broken, accepting, refused, main_stat>>

\* Sets the state and leaves the descriptor open.
conn_err_handler(c) == conn' = [conn EXCEPT ![c].stat = "closed"]

\* The number is looked up again: it may name something else by now.  The listening
\* socket has a handler for errors too (conn.c:192-196, which stops listening);
\* the kernel reports none for a socket that is never shut down or reset.
net_pull_work ==
    /\ Running
    /\ \E n \in batch :
          /\ batch' = batch \ {n}
          /\ \/ n \notin DOMAIN os.table /\ UNCHANGED <<conn, accepting>>
             \/ /\ n \in DOMAIN os.table /\ os.table[n] = None
                /\ accepting' = TRUE /\ UNCHANGED conn
             \/ /\ n \in DOMAIN os.table /\ os.table[n] # None
                /\ conn_err_handler(os.table[n]) /\ UNCHANGED accepting
    /\ UNCHANGED <<os, backlog, edge, ready, broken, refused, main_stat>>

Opened(o, c, n) == net_pull_add(Open(o, n, c), n, c)

\* Mutant: the struct is used as it was allocated.
NotInitialised(n) == [st |-> "live", stat |-> "?", fd |-> n]

Accepted(n) == [st |-> "live", stat |-> "used", fd |-> n]

\* Mutant: one client is taken per event.
AcceptOnce == FALSE

\* The loop goes on until accept fails.
AcceptsMore == TRUE

\* The client that is accepted gets its two coroutines at once; neither opens
\* or closes anything before it yields.
accept_client ==
    /\ accepting
    /\ \E c \in backlog :
          /\ Free(os) # {}
          /\ os' = Opened(os, c, Min(Free(os)))
          /\ conn' = [conn EXCEPT ![c] = Accepted(Min(Free(os)))]
          /\ backlog' = backlog \ {c}
    /\ accepting' = AcceptsMore
    /\ UNCHANGED <<edge, ready, broken, batch, refused, main_stat>>

\* EAGAIN, or another error: no number is left, or the client is lost (it is gone
\* already, or its descriptor cannot be made non-blocking and is closed).
accept_ends ==
    /\ accepting /\ accepting' = FALSE
    /\ \/ backlog = {} /\ refused' = FALSE /\ UNCHANGED <<conn, backlog>>
       \/ backlog # {} /\ Free(os) = {} /\ refused' = TRUE /\ UNCHANGED <<conn, backlog>>
       \/ \E c \in backlog :
             /\ backlog' = backlog \ {c} /\ refused' = TRUE
             /\ conn' = [conn EXCEPT ![c].st = "freed"]
    /\ UNCHANGED <<os, edge, ready, broken, batch, main_stat>>

-----------------------------------------------------------------------------
(***************************************************************************)
(* What sessions do between two events, in any order.                      *)
(***************************************************************************)
Set(c, st, stat, n) == conn' = [conn EXCEPT ![c] = [st |-> st, stat |-> stat, fd |-> n]]

Entry(c) == conn[c].fd \in DOMAIN os.table /\ os.table[conn[c].fd] = c

\* conn_get_by_endpoint.  The pool of free connections is empty: conn_free has no
\* caller.  An attempt that fails at once leaves nothing behind.
conn_get_by_endpoint(c) ==
    /\ Running /\ conn[c].st = "none" /\ Free(os) # {}
    /\ os' = Opened(os, c, Min(Free(os)))
    /\ \/ Set(c, "live", "free", Min(Free(os)))
       \/ Set(c, "connecting", "closed", Min(Free(os)))
    /\ UNCHANGED rest

\* The handler in the number's entry resumes the coroutine that waits.
connected(c) ==
    /\ Running /\ conn[c].st = "connecting" /\ Entry(c)
    /\ Set(c, "live", "free", conn[c].fd)
    /\ UNCHANGED <<os, rest>>

\* Mutant: the entry stays.
FailedKeepsEntry(o, n) == o

\* The number stays open.
Failed(o, n) == net_pull_del(o, n)

connect_failed(c) ==
    /\ ~accepting /\ conn[c].st = "connecting" /\ (Entry(c) \/ main_stat = "exiting")
    /\ os' = Failed(os, conn[c].fd)
    /\ Set(c, "failed", "closed", 0)
    /\ UNCHANGED rest

\* Mutant: a connection is closed again.
AnyStat(c) == TRUE

NotClosed(c) == conn[c].stat # "closed"

conn_close(c) ==
    /\ ~accepting /\ conn[c].st = "live" /\ NotClosed(c)
    /\ os' = GiveUp(os, conn[c].fd)
    /\ Set(c, "live", "closed", conn[c].fd)
    /\ UNCHANGED rest

\* Mutant: a connection marked closed is taken to have no descriptor.
ReleaseIfOpen(c) == IF NotClosed(c) THEN GiveUp(os, conn[c].fd)
                    ELSE net_pull_del(os, conn[c].fd)

\* Whatever its state: conn_err_handler marks it closed and closes nothing.
Release(c) == GiveUp(os, conn[c].fd)

\* The last reference is dropped.
conn_done(c) ==
    /\ ~accepting /\ conn[c].st = "live"
    /\ os' = Release(c)
    /\ Set(c, "freed", "closed", 0)
    /\ UNCHANGED rest

-----------------------------------------------------------------------------
(***************************************************************************)
(* proxy_done, on a signal or when nothing is left to watch: every number  *)
(* of the table is closed and the table cleared, then the handlers run.    *)
(***************************************************************************)
net_pull_done ==
    /\ Running
    /\ main_stat' = "exiting" /\ batch' = {}
    /\ os' = [os EXCEPT !.sock = [n \in Fds |-> IF n \in DOMAIN os.table THEN None ELSE @[n]],
                        !.epoll = @ \ DOMAIN os.table, !.table = <<>>]
    /\ conn' = [c \in Conns |-> IF Entry(c) THEN [conn[c] EXCEPT !.stat = "closed"] ELSE conn[c]]
    /\ UNCHANGED <<backlog, edge, ready, broken, accepting, refused>>

Session(c) == \/ conn_get_by_endpoint(c) /\ c \in Servers
              \/ connected(c) \/ connect_failed(c) \/ conn_close(c) \/ conn_done(c)

Next == \/ \E c \in Clients : ClientArrives(c)
        \/ \E c \in Conns : PeerResets(c) \/ Session(c)
        \/ epoll_wait \/ net_pull_work \/ accept_client \/ accept_ends
        \/ net_pull_done

Spec == Init /\ [][Next]_vars

-----------------------------------------------------------------------------
TypeOK ==
    /\ os.sock \in [Fds -> Conns \cup {None, Listener}]
    /\ os.epoll \subseteq Fds /\ DOMAIN os.table \subseteq Fds
    /\ Range(os.table) \subseteq Conns \cup {None}
    /\ conn \in [Conns -> [st : {"none", "connecting", "live", "failed", "freed"},
                           stat : {"used", "free", "closed"}, fd : Fds \cup {0}]]
    /\ backlog \subseteq Clients /\ ready \cup broken \subseteq Conns
    /\ batch \subseteq Fds
    /\ {edge, accepting, refused} \subseteq BOOLEAN
    /\ main_stat \in {"running", "exiting"}

\* While the proxy runs, its count and its table say what the kernel watches:
\* the main loop ends when the count is 0 (net_pull.c:37), and an entry that
\* outlived its descriptor would answer for the next socket with that number.
TableMatchesKernel ==
    main_stat = "running"
    => /\ DOMAIN os.table = os.epoll
       /\ \A n \in os.epoll : os.sock[n] # None
       /\ os.fd_cnt = Cardinality(os.epoll)

\* The error handler of a number is called with the connection whose socket the
\* number names now, and never with one that has been freed (net_pull.c:61).
\* The event may still be an old one: reported for the socket that had the number
\* when epoll_wait returned, it marks the new one closed.
HandlerIsOwners ==
    \A n \in DOMAIN os.table : os.table[n] # None =>
        /\ os.sock[n] = os.table[n]
        /\ conn[os.table[n]].st \in {"connecting", "live"}

\* A connection that is freed leaves no descriptor open; only a connection attempt
\* that failed does (conn.c:450-454).  A session that waits for ever keeps its
\* connections, and their descriptors with them (NoOrphanWait in Session.tla).
OnlyFailedLeak ==
    \A n \in Fds : os.sock[n] \in Conns => conn[os.sock[n]].st # "freed"

\* A client waits for accept without an event on its way only after a round of
\* the accept loop that ended in an error (conn.c:210): the events are
\* edge-triggered, so nothing else would bring the loop back.
NoForgottenClient ==
    main_stat = "running" /\ backlog # {} /\ ~accepting
    => \/ edge \/ refused
       \/ \E n \in batch : n \in DOMAIN os.table /\ os.table[n] = None

\* c works with a number that does not name its socket: what it reads, writes or
\* closes is another connection's, or nothing.
Robbed(c) == /\ conn[c].st = "connecting" \/ (conn[c].st = "live" /\ conn[c].stat # "closed")
             /\ os.sock[conn[c].fd] # c

\* d gives up a number that is not its own any more: it was closed before and
\* conn_done closes the remembered number again (conn.c:60-61), or its number was
\* taken from it without its knowing, and conn_close or conn_done closes it.
GivesUpAgain(d) == /\ conn[d].st = "live"
                   /\ \/ conn[d].stat = "closed" /\ conn'[d].st = "freed"
                      \/ Robbed(d) /\ conn'[d].stat = "closed"

\* While the proxy runs, a connection loses its descriptor only to another one
\* that remembers the same number and gives it up again.  The first loss is
\* therefore always due to the conn_done of a connection closed before; its
\* victim can then take the number from a third connection, and so on.  No other
\* step takes a descriptor away.
TakenByStale ==
    [][\A c \in Conns :
          ~Robbed(c) /\ Robbed(c)' /\ main_stat' = "running"
          => \E d \in Conns \ {c} : conn[d].fd = conn[c].fd /\ GivesUpAgain(d)]_vars
=============================================================================
