------------------------- MODULE DescriptorsProofs -------------------------
(***************************************************************************)
(* Proofs, for any numbers and any connections, that net_pull's table      *)
(* agrees with the kernel, that an error handler gets the connection its   *)
(* number names, that only failed attempts leave descriptors behind, that  *)
(* no client is forgotten, and how a connection loses its descriptor to    *)
(* another one.  All follow from the inductive invariant IInv. *)
(***************************************************************************)
EXTENDS Descriptors, LeastElement, FiniteSetTheorems

\* The listening socket's number.
Lfd == Min(Fds)

\* c has a descriptor number it may still close.
Has(c) == conn[c].st \in {"connecting", "live"}

ConnRecords == [st : {"none", "connecting", "live", "failed", "freed"},
                stat : {"used", "free", "closed"}, fd : Fds \cup {0}]

Shape(o) ==
    /\ o = [sock |-> o.sock, epoll |-> o.epoll, table |-> o.table, fd_cnt |-> o.fd_cnt]
    /\ o.sock \in [Fds -> Conns \cup {None, Listener}]
    /\ o.epoll \subseteq Fds /\ DOMAIN o.table \subseteq Fds
    /\ o.table \in [DOMAIN o.table -> Conns \cup {None}]

\* The number a connection remembers is never the listening socket's.
FdKept == \A c \in Conns : Has(c) => conn[c].fd \in Fds \ {Lfd}

\* A socket that is open belongs to a connection that has its number, or to an
\* attempt that failed.
SockOwned ==
    \A n \in Fds : os.sock[n] \in Conns =>
        \/ conn[os.sock[n]].st = "failed"
        \/ Has(os.sock[n]) /\ conn[os.sock[n]].fd = n

\* The listening socket keeps its number and its entry, the only one without an
\* error handler.
ListenerKept ==
    /\ main_stat = "running" => /\ os.sock[Lfd] = Listener
                                /\ Lfd \in DOMAIN os.table /\ os.table[Lfd] = None
    /\ \A n \in DOMAIN os.table : os.table[n] = None => n = Lfd

Cleared == main_stat = "exiting" => DOMAIN os.table = {}

Core == /\ Shape(os) /\ conn \in [Conns -> ConnRecords]
        /\ main_stat \in {"running", "exiting"}
        /\ FdKept /\ SockOwned /\ ListenerKept /\ Cleared
        /\ TableMatchesKernel /\ HandlerIsOwners

\* The events, and the clients that wait for accept.
Side == /\ backlog \subseteq Clients /\ ready \cup broken \subseteq Conns
        /\ batch \subseteq Fds
        /\ {edge, accepting, refused} \subseteq BOOLEAN
        /\ \A c \in backlog : conn[c].st = "none"
        /\ accepting => main_stat = "running"
        /\ main_stat = "running" /\ backlog # {} /\ ~accepting
           => edge \/ refused \/ Lfd \in batch

IInv == Core /\ Side

-----------------------------------------------------------------------------
\* The lowest number of a set of numbers is one of them.
LEMMA MinIn ==
  ASSUME NEW S, S \subseteq Fds, S # {}
  PROVE  Min(S) \in S
<1>1. S \subseteq Nat
  BY DescriptorsAssumption
<1>2. \E x \in S : \A y \in S : x <= y
  BY <1>1, LeastExists
<1> QED
  BY <1>2 DEF Min

\* What opening a socket and net_pull_add leave, for a number without an entry.
LEMMA AddFacts ==
  ASSUME NEW o, Shape(o), NEW n \in Fds, n \notin DOMAIN o.table,
         NEW x \in Conns \cup {Listener}, NEW c \in Conns \cup {None}
  PROVE  LET p == net_pull_add(Open(o, n, x), n, c)
         IN  /\ Shape(p)
             /\ p.sock = [o.sock EXCEPT ![n] = x]
             /\ p.epoll = o.epoll \cup {n} /\ p.fd_cnt = o.fd_cnt + 1
             /\ DOMAIN p.table = DOMAIN o.table \cup {n}
             /\ p.table[n] = c
             /\ \A m \in DOMAIN o.table : p.table[m] = o.table[m]
<1> DEFINE q == Open(o, n, x)
           p == net_pull_add(q, n, c)
           t == [m \in DOMAIN o.table \cup {n} |-> IF m = n THEN c ELSE o.table[m]]
           u == IF n \in DOMAIN q.table THEN q.table
                ELSE [m \in DOMAIN q.table \cup {n} |-> IF m = n THEN c ELSE q.table[m]]
<1>1. /\ q = [sock |-> q.sock, epoll |-> q.epoll, table |-> q.table, fd_cnt |-> q.fd_cnt]
      /\ q.sock = [o.sock EXCEPT ![n] = x]
      /\ q.epoll = o.epoll /\ q.table = o.table /\ q.fd_cnt = o.fd_cnt
  BY DEF Shape, Open
<1>2. p = [sock |-> [o.sock EXCEPT ![n] = x], epoll |-> o.epoll \cup {n},
           table |-> t, fd_cnt |-> o.fd_cnt + 1]
  <2> HIDE DEF q
  <2>1. u = t
    BY <1>1
  <2>2. p = [q EXCEPT !.epoll = q.epoll \cup {n}, !.fd_cnt = q.fd_cnt + 1, !.table = u]
    BY Zenon DEF net_pull_add
  <2> HIDE DEF u, t, p
  <2> QED
    BY <1>1, <2>1, <2>2
<1> HIDE DEF p
<1>3. t \in [DOMAIN o.table \cup {n} -> Conns \cup {None}]
  BY DEF Shape
<1>4. [o.sock EXCEPT ![n] = x] \in [Fds -> Conns \cup {None, Listener}]
  BY DEF Shape
<1>5. Shape(p)
  BY <1>2, <1>3, <1>4 DEF Shape
<1> QED
  BY <1>2, <1>5 DEF p

\* What net_pull_del leaves.
LEMMA DelFacts ==
  ASSUME NEW o, Shape(o), NEW n \in Fds
  PROVE  LET p == net_pull_del(o, n)
             had == n \in DOMAIN o.table /\ n \in o.epoll
         IN  /\ Shape(p) /\ p.sock = o.sock
             /\ p.epoll = (IF had THEN o.epoll \ {n} ELSE o.epoll)
             /\ p.fd_cnt = (IF had THEN o.fd_cnt - 1 ELSE o.fd_cnt)
             /\ DOMAIN p.table = (IF had THEN DOMAIN o.table \ {n} ELSE DOMAIN o.table)
             /\ \A m \in DOMAIN p.table : p.table[m] = o.table[m]
<1> DEFINE p == net_pull_del(o, n)
           t == [m \in DOMAIN o.table \ {n} |-> o.table[m]]
<1>1. CASE ~(n \in DOMAIN o.table /\ n \in o.epoll)
  BY <1>1 DEF net_pull_del
<1>2. CASE n \in DOMAIN o.table /\ n \in o.epoll
  <2>1. p = [sock |-> o.sock, epoll |-> o.epoll \ {n}, table |-> t, fd_cnt |-> o.fd_cnt - 1]
    BY <1>2 DEF Shape, net_pull_del, Restrict
  <2>2. t \in [DOMAIN o.table \ {n} -> Conns \cup {None}]
    BY DEF Shape
  <2>3. Shape(p)
    BY <2>1, <2>2 DEF Shape
  <2> QED
    BY <1>2, <2>1, <2>3
<1> QED
  BY <1>1, <1>2

\* What giving a number up leaves.
LEMMA GiveUpFacts ==
  ASSUME NEW o, Shape(o), NEW n \in Fds
  PROVE  LET p == GiveUp(o, n)
             had == n \in DOMAIN o.table /\ n \in o.epoll
         IN  /\ Shape(p) /\ p.sock = [o.sock EXCEPT ![n] = None]
             /\ p.epoll = o.epoll \ {n}
             /\ p.fd_cnt = (IF had THEN o.fd_cnt - 1 ELSE o.fd_cnt)
             /\ DOMAIN p.table = (IF had THEN DOMAIN o.table \ {n} ELSE DOMAIN o.table)
             /\ \A m \in DOMAIN p.table : p.table[m] = o.table[m]
<1> DEFINE d == net_pull_del(o, n)
           p == GiveUp(o, n)
<1>1. /\ Shape(d) /\ d.sock = o.sock /\ d.epoll \ {n} = o.epoll \ {n}
      /\ d.fd_cnt = (IF n \in DOMAIN o.table /\ n \in o.epoll THEN o.fd_cnt - 1 ELSE o.fd_cnt)
      /\ DOMAIN d.table = (IF n \in DOMAIN o.table /\ n \in o.epoll
                           THEN DOMAIN o.table \ {n} ELSE DOMAIN o.table)
      /\ \A m \in DOMAIN d.table : d.table[m] = o.table[m]
  BY DelFacts
<1> HIDE DEF d
<1>2. p = close(d, n)
  BY DEF GiveUp, d
<1>3. p = [sock |-> [o.sock EXCEPT ![n] = None], epoll |-> o.epoll \ {n},
           table |-> d.table, fd_cnt |-> d.fd_cnt]
  BY <1>1, <1>2 DEF Shape, close
<1>4. [o.sock EXCEPT ![n] = None] \in [Fds -> Conns \cup {None, Listener}]
  BY DEF Shape
<1>5. Shape(p)
  BY <1>1, <1>3, <1>4 DEF Shape
<1> QED
  BY <1>1, <1>3, <1>5

-----------------------------------------------------------------------------
\* The constants are told apart, and the listening socket has a number.
LEMMA ConstFacts ==
  /\ Lfd \in Fds /\ Listener \notin Conns /\ Listener # None /\ None \notin Conns
  /\ IsFiniteSet(Fds)
<1>1. Lfd \in Fds
  BY MinIn, DescriptorsAssumption DEF Lfd
<1> QED
  BY <1>1, DescriptorsAssumption DEF Conns, Listener

\* A set of watched numbers is finite.
LEMMA EpollFinite ==
  ASSUME NEW S, S \subseteq Fds
  PROVE  IsFiniteSet(S) /\ Cardinality(S) \in Nat
  BY ConstFacts, FS_Subset, FS_CardinalityType

\* conn_module_init.
LEMMA InitIInv == Init => IInv
<1> SUFFICES ASSUME Init PROVE IInv
  OBVIOUS
<1> DEFINE none == [sock |-> [n \in Fds |-> None], epoll |-> {}, table |-> <<>>, fd_cnt |-> 0]
<1>1. os = net_pull_add(Open(none, Lfd, Listener), Lfd, None)
  BY DEF Init, Lfd
<1>2. /\ none.sock = [n \in Fds |-> None] /\ none.epoll = {} /\ none.fd_cnt = 0
      /\ none.table = <<>> /\ DOMAIN none.table = {}
  OBVIOUS
<1>3. Shape(none)
  <2>1. none.table \in [DOMAIN none.table -> Conns \cup {None}]
    OBVIOUS
  <2> QED
    BY <1>2, <2>1 DEF Shape
<1> HIDE DEF none
<1>4. /\ Shape(os) /\ os.sock = [none.sock EXCEPT ![Lfd] = Listener]
      /\ os.epoll = {Lfd} /\ os.fd_cnt = 1
      /\ DOMAIN os.table = {Lfd} /\ os.table[Lfd] = None
  BY <1>1, <1>2, <1>3, AddFacts, ConstFacts
<1>5. \A n \in Fds : os.sock[n] = IF n = Lfd THEN Listener ELSE None
  BY <1>2, <1>4
<1>9. /\ conn \in [Conns -> ConnRecords] /\ main_stat = "running"
      /\ \A c \in Conns : conn[c].st = "none"
  BY DEF Init, ConnRecords
<1>10. FdKept /\ SockOwned /\ ListenerKept /\ Cleared
  BY <1>4, <1>5, <1>9, ConstFacts DEF FdKept, SockOwned, ListenerKept, Cleared, Has
<1>11. TableMatchesKernel /\ HandlerIsOwners
  BY <1>4, <1>5, <1>9, ConstFacts, FS_Singleton DEF TableMatchesKernel, HandlerIsOwners
<1>12. Side
  BY <1>9 DEF Init, Side
<1> QED
  BY <1>4, <1>9, <1>10, <1>11, <1>12 DEF IInv, Core

\* A new socket takes a free number: nothing watches it and nobody has it.
LEMMA OpenedCore ==
  ASSUME Core, main_stat = "running", NEW c \in Conns, ~Has(c), conn[c].st # "failed",
         Free(os) # {}, NEW r \in ConnRecords, r.st \in {"connecting", "live"},
         r.fd = Min(Free(os)), os' = Opened(os, c, Min(Free(os))),
         conn' = [conn EXCEPT ![c] = r], main_stat' = main_stat
  PROVE  Core'
<1> DEFINE n == Min(Free(os))
<1>1. n \in Fds /\ os.sock[n] = None
  BY MinIn DEF Free
<1> HIDE DEF n
<1>2. Shape(os) /\ conn \in [Conns -> ConnRecords]
  BY DEF Core
<1>3. n \notin DOMAIN os.table /\ n \notin os.epoll
  BY <1>1 DEF Core, TableMatchesKernel
<1>4. /\ Shape(os') /\ os'.sock = [os.sock EXCEPT ![n] = c]
      /\ os'.epoll = os.epoll \cup {n} /\ os'.fd_cnt = os.fd_cnt + 1
      /\ DOMAIN os'.table = DOMAIN os.table \cup {n} /\ os'.table[n] = c
      /\ \A m \in DOMAIN os.table : os'.table[m] = os.table[m]
  BY <1>1, <1>2, <1>3, AddFacts DEF n, Opened
<1>5. /\ conn' \in [Conns -> ConnRecords] /\ conn'[c] = r
      /\ \A d \in Conns \ {c} : conn'[d] = conn[d]
  BY <1>2
<1>6. /\ \A m \in Fds : os'.sock[m] = IF m = n THEN c ELSE os.sock[m]
      /\ \A m \in Fds : os.sock[m] # c
  <2>1. \A m \in Fds : os'.sock[m] = IF m = n THEN c ELSE os.sock[m]
    BY <1>1, <1>2, <1>4 DEF Shape
  <2>2. \A m \in Fds : os.sock[m] # c
    BY DEF Core, SockOwned
  <2> QED
    BY <2>1, <2>2
<1>7. n # Lfd
  BY <1>1, ConstFacts DEF Core, ListenerKept
<1>8. FdKept'
  BY <1>1, <1>5, <1>7 DEF Core, FdKept, Has, n
<1>9. SockOwned'
  BY <1>1, <1>5, <1>6 DEF Core, SockOwned, Has, n
<1>10. ListenerKept' /\ Cleared'
  BY <1>4, <1>6, <1>7, ConstFacts DEF Core, ListenerKept, Cleared
<1>11. TableMatchesKernel'
  <2>1. Cardinality(os'.epoll) = Cardinality(os.epoll) + 1
    BY <1>2, <1>3, <1>4, EpollFinite, FS_AddElement DEF Shape
  <2>2. \A m \in os'.epoll : os'.sock[m] # None
    BY <1>2, <1>4, <1>6, ConstFacts DEF Core, TableMatchesKernel, Shape
  <2> QED
    BY <1>4, <2>1, <2>2 DEF Core, TableMatchesKernel
<1>12. HandlerIsOwners'
  <2> SUFFICES ASSUME NEW m \in DOMAIN os'.table, os'.table[m] # None
               PROVE  /\ os'.sock[m] = os'.table[m]
                      /\ conn'[os'.table[m]].st \in {"connecting", "live"}
    BY DEF HandlerIsOwners
  <2>1. CASE m = n
    BY <1>1, <1>4, <1>5, <1>6, <2>1
  <2>2. CASE m # n
    <3>1. /\ m \in DOMAIN os.table /\ m \in Fds /\ os'.table[m] = os.table[m]
          /\ os.sock[m] = os.table[m] /\ os.table[m] \in Conns
          /\ conn[os.table[m]].st \in {"connecting", "live"}
      BY <1>2, <1>4, <2>2 DEF Core, HandlerIsOwners, Shape
    <3> QED
      BY <1>5, <1>6, <2>2, <3>1
  <2> QED
    BY <2>1, <2>2
<1> QED
  BY <1>4, <1>5, <1>8, <1>9, <1>10, <1>11, <1>12 DEF Core

\* A connection gives up the number it remembers, whoever has that number now,
\* and keeps it or forgets it.
LEMMA GivenUpCore ==
  ASSUME Core, NEW c \in Conns, conn[c].st = "live", NEW r \in ConnRecords,
         (r.st = "live" /\ r.fd = conn[c].fd) \/ r.st = "freed",
         os' = GiveUp(os, conn[c].fd),
         conn' = [conn EXCEPT ![c] = r], main_stat' = main_stat
  PROVE  Core'
<1> DEFINE n == conn[c].fd
<1>1. Shape(os) /\ conn \in [Conns -> ConnRecords]
  BY DEF Core
<1>2. n \in Fds /\ n # Lfd
  BY DEF Core, FdKept, Has
<1> HIDE DEF n
<1>3. /\ Shape(os') /\ os'.sock = [os.sock EXCEPT ![n] = None]
      /\ os'.epoll = os.epoll \ {n}
      /\ os'.fd_cnt = (IF n \in DOMAIN os.table /\ n \in os.epoll THEN os.fd_cnt - 1 ELSE os.fd_cnt)
      /\ DOMAIN os'.table = (IF n \in DOMAIN os.table /\ n \in os.epoll
                             THEN DOMAIN os.table \ {n} ELSE DOMAIN os.table)
      /\ \A m \in DOMAIN os'.table : os'.table[m] = os.table[m]
  <2>1. os' = GiveUp(os, n)
    BY DEF n
  <2> QED
    BY <1>1, <1>2, <2>1, GiveUpFacts
<1>4. /\ conn' \in [Conns -> ConnRecords] /\ conn'[c] = r
      /\ \A d \in Conns \ {c} : conn'[d] = conn[d]
  BY <1>1
<1>5. /\ \A m \in Fds : os'.sock[m] = IF m = n THEN None ELSE os.sock[m]
      /\ \A m \in Fds : os.sock[m] = c => m = n
  <2>1. \A m \in Fds : os'.sock[m] = IF m = n THEN None ELSE os.sock[m]
    BY <1>1, <1>2, <1>3 DEF Shape
  <2>2. \A m \in Fds : os.sock[m] = c => m = n
    BY DEF Core, SockOwned, n
  <2> QED
    BY <2>1, <2>2
<1>6. FdKept'
  BY <1>2, <1>4 DEF Core, FdKept, Has, n
<1>7. SockOwned'
  <2> SUFFICES ASSUME NEW m \in Fds, os'.sock[m] \in Conns
               PROVE  \/ conn'[os'.sock[m]].st = "failed"
                      \/ /\ conn'[os'.sock[m]].st \in {"connecting", "live"}
                         /\ conn'[os'.sock[m]].fd = m
    BY DEF SockOwned, Has
  <2>1. m # n /\ os'.sock[m] = os.sock[m] /\ os.sock[m] # c
    BY <1>5, ConstFacts
  <2> QED
    BY <1>4, <2>1 DEF Core, SockOwned, Has
<1>8. ListenerKept' /\ Cleared'
  <2>1. \A m \in DOMAIN os'.table : m \in DOMAIN os.table
    BY <1>3
  <2>2. main_stat = "running" => Lfd \in DOMAIN os'.table
    BY <1>2, <1>3 DEF Core, ListenerKept
  <2> QED
    BY <1>2, <1>3, <1>5, <2>1, <2>2, ConstFacts DEF Core, ListenerKept, Cleared
<1>9. TableMatchesKernel'
  <2> SUFFICES ASSUME main_stat = "running"
               PROVE  /\ DOMAIN os'.table = os'.epoll
                      /\ \A m \in os'.epoll : os'.sock[m] # None
                      /\ os'.fd_cnt = Cardinality(os'.epoll)
    BY DEF TableMatchesKernel
  <2>1. /\ DOMAIN os.table = os.epoll /\ os.epoll \subseteq Fds
        /\ \A m \in os.epoll : os.sock[m] # None
        /\ os.fd_cnt = Cardinality(os.epoll)
    BY <1>1 DEF Core, TableMatchesKernel, Shape
  <2>2. Cardinality(os.epoll \ {n}) = IF n \in os.epoll THEN Cardinality(os.epoll) - 1
                                      ELSE Cardinality(os.epoll)
    BY <2>1, EpollFinite, FS_RemoveElement
  <2>3. os'.fd_cnt = Cardinality(os'.epoll)
    BY <1>3, <2>1, <2>2
  <2> QED
    BY <1>3, <1>5, <2>1, <2>3
<1>10. HandlerIsOwners'
  <2> SUFFICES ASSUME NEW m \in DOMAIN os'.table, os'.table[m] # None
               PROVE  /\ os'.sock[m] = os'.table[m]
                      /\ conn'[os'.table[m]].st \in {"connecting", "live"}
    BY DEF HandlerIsOwners
  <2>1. /\ m \in DOMAIN os.table /\ m \in Fds /\ os'.table[m] = os.table[m]
        /\ os.sock[m] = os.table[m] /\ os.table[m] \in Conns
        /\ conn[os.table[m]].st \in {"connecting", "live"}
    BY <1>1, <1>3 DEF Core, HandlerIsOwners, Shape
  <2>2. main_stat = "running"
    BY <2>1 DEF Core, Cleared
  <2>3. m # n
    BY <1>3, <2>1, <2>2 DEF Core, TableMatchesKernel
  <2> QED
    BY <1>4, <1>5, <2>1, <2>3
<1> QED
  BY <1>3, <1>4, <1>6, <1>7, <1>8, <1>9, <1>10 DEF Core

\* A failed attempt loses its entry and keeps its socket.
LEMMA FailedCore ==
  ASSUME Core, NEW c \in Conns, conn[c].st = "connecting", NEW r \in ConnRecords,
         r.st = "failed", os' = net_pull_del(os, conn[c].fd),
         conn' = [conn EXCEPT ![c] = r], main_stat' = main_stat
  PROVE  Core'
<1> DEFINE n == conn[c].fd
<1>1. Shape(os) /\ conn \in [Conns -> ConnRecords]
  BY DEF Core
<1>2. n \in Fds /\ n # Lfd
  BY DEF Core, FdKept, Has
<1> HIDE DEF n
<1>3. /\ Shape(os') /\ os'.sock = os.sock
      /\ os'.epoll = (IF n \in DOMAIN os.table /\ n \in os.epoll THEN os.epoll \ {n} ELSE os.epoll)
      /\ os'.fd_cnt = (IF n \in DOMAIN os.table /\ n \in os.epoll THEN os.fd_cnt - 1 ELSE os.fd_cnt)
      /\ DOMAIN os'.table = (IF n \in DOMAIN os.table /\ n \in os.epoll
                             THEN DOMAIN os.table \ {n} ELSE DOMAIN os.table)
      /\ \A m \in DOMAIN os'.table : os'.table[m] = os.table[m]
  <2>1. os' = net_pull_del(os, n)
    BY DEF n
  <2> DEFINE p == net_pull_del(os, n)
             had == n \in DOMAIN os.table /\ n \in os.epoll
  <2>2. /\ Shape(p) /\ p.sock = os.sock
        /\ p.epoll = (IF had THEN os.epoll \ {n} ELSE os.epoll)
        /\ p.fd_cnt = (IF had THEN os.fd_cnt - 1 ELSE os.fd_cnt)
        /\ DOMAIN p.table = (IF had THEN DOMAIN os.table \ {n} ELSE DOMAIN os.table)
        /\ \A m \in DOMAIN p.table : p.table[m] = os.table[m]
    BY <1>1, <1>2, DelFacts, Zenon
  <2> QED
    BY <2>1, <2>2, Zenon
<1>4. /\ conn' \in [Conns -> ConnRecords] /\ conn'[c] = r
      /\ \A d \in Conns \ {c} : conn'[d] = conn[d]
  BY <1>1
<1>5. \A m \in Fds : os.sock[m] = c => m = n
  BY DEF Core, SockOwned, n
<1>6. FdKept' /\ SockOwned'
  BY <1>3, <1>4 DEF Core, FdKept, SockOwned, Has
<1>7. ListenerKept' /\ Cleared'
  <2>1. \A m \in DOMAIN os'.table : m \in DOMAIN os.table
    BY <1>3
  <2>2. main_stat = "running" => Lfd \in DOMAIN os'.table
    BY <1>2, <1>3 DEF Core, ListenerKept
  <2> QED
    BY <1>3, <2>1, <2>2 DEF Core, ListenerKept, Cleared
<1>8. TableMatchesKernel'
  <2> SUFFICES ASSUME main_stat = "running"
               PROVE  /\ DOMAIN os'.table = os'.epoll
                      /\ \A m \in os'.epoll : os'.sock[m] # None
                      /\ os'.fd_cnt = Cardinality(os'.epoll)
    BY DEF TableMatchesKernel
  <2>1. /\ DOMAIN os.table = os.epoll /\ os.epoll \subseteq Fds
        /\ \A m \in os.epoll : os.sock[m] # None
        /\ os.fd_cnt = Cardinality(os.epoll)
    BY <1>1 DEF Core, TableMatchesKernel, Shape
  <2>2. Cardinality(os.epoll \ {n}) = IF n \in os.epoll THEN Cardinality(os.epoll) - 1
                                      ELSE Cardinality(os.epoll)
    BY <2>1, EpollFinite, FS_RemoveElement
  <2> QED
    BY <1>3, <2>1, <2>2
<1>9. HandlerIsOwners'
  <2> SUFFICES ASSUME NEW m \in DOMAIN os'.table, os'.table[m] # None
               PROVE  /\ os'.sock[m] = os'.table[m]
                      /\ conn'[os'.table[m]].st \in {"connecting", "live"}
    BY DEF HandlerIsOwners
  <2>1. /\ m \in DOMAIN os.table /\ m \in Fds /\ os'.table[m] = os.table[m]
        /\ os.sock[m] = os.table[m] /\ os.table[m] \in Conns
        /\ conn[os.table[m]].st \in {"connecting", "live"}
    BY <1>1, <1>3 DEF Core, HandlerIsOwners, Shape
  <2>2. main_stat = "running"
    BY <2>1 DEF Core, Cleared
  <2>3. m # n
    BY <1>3, <2>1, <2>2 DEF Core, TableMatchesKernel
  <2> QED
    BY <1>3, <1>4, <1>5, <2>1, <2>3
<1> QED
  BY <1>3, <1>4, <1>6, <1>7, <1>8, <1>9 DEF Core

\* A step that leaves the numbers alone may change what a connection is marked
\* as, and free a connection that never had a number.
LEMMA MarkedCore ==
  ASSUME Core, os' = os, main_stat' = main_stat, conn' \in [Conns -> ConnRecords],
         \A c \in Conns : \/ Has(c) /\ Has(c)' /\ conn'[c].fd = conn[c].fd
                          \/ conn'[c].st = conn[c].st /\ ~Has(c)
                          \/ conn[c].st = "none" /\ ~Has(c)'
  PROVE  Core'
<1>1. FdKept' /\ SockOwned'
  BY DEF Core, FdKept, SockOwned, Has
<1>2. HandlerIsOwners'
  <2> SUFFICES ASSUME NEW m \in DOMAIN os.table, os.table[m] # None
               PROVE  /\ os.sock[m] = os.table[m]
                      /\ conn'[os.table[m]].st \in {"connecting", "live"}
    BY DEF HandlerIsOwners
  <2>1. /\ os.sock[m] = os.table[m] /\ os.table[m] \in Conns
        /\ Has(os.table[m])
    BY DEF Core, HandlerIsOwners, Shape, Has
  <2> QED
    BY <2>1 DEF Has
<1>3. ListenerKept' /\ Cleared' /\ TableMatchesKernel'
  BY DEF Core, ListenerKept, Cleared, TableMatchesKernel
<1>4. Shape(os')
  BY DEF Core
<1> QED
  BY <1>1, <1>2, <1>3, <1>4 DEF Core

\* The shutdown closes what is in the table and clears it.
LEMMA DoneIInv == IInv /\ net_pull_done => IInv'
<1> SUFFICES ASSUME IInv, net_pull_done PROVE IInv'
  OBVIOUS
<1> DEFINE s == [n \in Fds |-> IF n \in DOMAIN os.table THEN None ELSE os.sock[n]]
<1>1. /\ Shape(os) /\ conn \in [Conns -> ConnRecords]
  BY DEF IInv, Core
<1>2. /\ os'.sock = s /\ os'.epoll = os.epoll \ DOMAIN os.table /\ os'.table = <<>>
      /\ os' = [sock |-> os'.sock, epoll |-> os'.epoll, table |-> os'.table, fd_cnt |-> os'.fd_cnt]
  <2>1. os' = [os EXCEPT !.sock = s, !.epoll = os.epoll \ DOMAIN os.table, !.table = <<>>]
    BY Zenon DEF net_pull_done
  <2> HIDE DEF s
  <2> QED
    BY <1>1, <2>1 DEF Shape
<1>3. DOMAIN os'.table = {} /\ os'.table \in [DOMAIN os'.table -> Conns \cup {None}]
  BY <1>2
<1>4. s \in [Fds -> Conns \cup {None, Listener}]
  BY <1>1 DEF Shape
<1>5. Shape(os')
  BY <1>1, <1>2, <1>3, <1>4 DEF Shape
<1>6. /\ conn' \in [Conns -> ConnRecords]
      /\ \A c \in Conns : conn'[c].st = conn[c].st /\ conn'[c].fd = conn[c].fd
  BY <1>1 DEF net_pull_done, ConnRecords
<1>7. main_stat' = "exiting" /\ ~accepting'
  BY DEF net_pull_done, Running
<1>8. FdKept' /\ SockOwned'
  BY <1>2, <1>6, ConstFacts DEF IInv, Core, FdKept, SockOwned, Has
<1>9. ListenerKept' /\ Cleared' /\ TableMatchesKernel' /\ HandlerIsOwners'
  BY <1>3, <1>7 DEF ListenerKept, Cleared, TableMatchesKernel, HandlerIsOwners
<1>10. Side'
  <2>1. UNCHANGED <<backlog, edge, ready, broken, accepting, refused>> /\ batch' = {}
    BY DEF net_pull_done
  <2>2. \A c \in backlog : c \in Conns
    BY DEF IInv, Side, Conns
  <2> QED
    BY <1>6, <1>7, <2>1, <2>2 DEF IInv, Side
<1> QED
  BY <1>5, <1>6, <1>7, <1>8, <1>9, <1>10 DEF IInv, Core

-----------------------------------------------------------------------------
\* A step of a session: the clients that wait for accept are not touched.
LEMMA SessionIInv ==
  ASSUME IInv, NEW c \in Conns, Session(c)
  PROVE  IInv'
<1> USE DEF Set
<1>1. Core /\ Side /\ Shape(os) /\ conn \in [Conns -> ConnRecords]
  BY DEF IInv, Core
<1>2. ASSUME UNCHANGED rest, NEW r, conn' = [conn EXCEPT ![c] = r], c \notin backlog
      PROVE  Side'
  BY <1>1, <1>2 DEF rest, Side, Conns
<1>3. ASSUME UNCHANGED rest PROVE main_stat' = main_stat
  BY <1>3 DEF rest
<1>4. CASE conn_get_by_endpoint(c) /\ c \in Servers
  <2> DEFINE n == Min(Free(os))
  <2>1. n \in Fds
    BY <1>4, MinIn DEF conn_get_by_endpoint, Free
  <2> HIDE DEF n
  <2>2. PICK r \in ConnRecords : /\ r.st \in {"connecting", "live"} /\ r.fd = n
                                 /\ conn' = [conn EXCEPT ![c] = r]
    <3>1. \/ Set(c, "live", "free", n) \/ Set(c, "connecting", "closed", n)
      BY <1>4 DEF conn_get_by_endpoint, n
    <3>2. /\ [st |-> "live", stat |-> "free", fd |-> n] \in ConnRecords
          /\ [st |-> "connecting", stat |-> "closed", fd |-> n] \in ConnRecords
      BY <2>1 DEF ConnRecords
    <3> QED
      BY <3>1, <3>2
  <2>3. UNCHANGED rest /\ main_stat = "running" /\ conn[c].st = "none" /\ Free(os) # {}
        /\ os' = Opened(os, c, Min(Free(os)))
    BY <1>4 DEF conn_get_by_endpoint, Running
  <2>4. Core'
    BY <1>1, <1>3, <2>2, <2>3, OpenedCore DEF Has, n
  <2>5. c \notin backlog
    BY <1>1, <1>4, DescriptorsAssumption DEF Side
  <2> QED
    BY <1>2, <2>2, <2>3, <2>4, <2>5 DEF IInv
<1>5. CASE connected(c)
  <2> DEFINE r == [st |-> "live", stat |-> "free", fd |-> conn[c].fd]
  <2>1. /\ UNCHANGED <<os, rest>> /\ conn[c].st = "connecting"
        /\ conn' = [conn EXCEPT ![c] = r]
    BY <1>5 DEF connected
  <2>2. conn' \in [Conns -> ConnRecords]
    BY <1>1, <2>1 DEF ConnRecords
  <2>3. \A d \in Conns : conn'[d] = IF d = c THEN r ELSE conn[d]
    BY <1>1, <2>1
  <2>4. Core'
    BY <1>1, <1>3, <2>1, <2>2, <2>3, MarkedCore DEF Has
  <2>5. c \notin backlog
    BY <1>1, <2>1 DEF Side
  <2> QED
    BY <1>2, <2>1, <2>4, <2>5 DEF IInv
<1>6. CASE connect_failed(c)
  <2> DEFINE r == [st |-> "failed", stat |-> "closed", fd |-> 0]
  <2>1. /\ UNCHANGED rest /\ conn[c].st = "connecting"
        /\ conn' = [conn EXCEPT ![c] = r] /\ os' = net_pull_del(os, conn[c].fd)
    BY <1>6 DEF connect_failed, Failed
  <2>2. r \in ConnRecords /\ r.st = "failed"
    BY DEF ConnRecords
  <2>3. Core'
    BY <1>1, <1>3, <2>1, <2>2, FailedCore
  <2>4. c \notin backlog
    BY <1>1, <2>1 DEF Side
  <2> QED
    BY <1>2, <2>1, <2>3, <2>4 DEF IInv
<1>7. CASE conn_close(c) \/ conn_done(c)
  <2>1. conn[c].fd \in Fds \cup {0}
    BY <1>1 DEF ConnRecords
  <2>2. PICK r \in ConnRecords : /\ (r.st = "live" /\ r.fd = conn[c].fd) \/ r.st = "freed"
                                 /\ conn' = [conn EXCEPT ![c] = r]
    <3>1. \/ Set(c, "live", "closed", conn[c].fd) \/ Set(c, "freed", "closed", 0)
      BY <1>7 DEF conn_close, conn_done
    <3>2. /\ [st |-> "live", stat |-> "closed", fd |-> conn[c].fd] \in ConnRecords
          /\ [st |-> "freed", stat |-> "closed", fd |-> 0] \in ConnRecords
      BY <2>1 DEF ConnRecords
    <3> QED
      BY <3>1, <3>2
  <2>3. UNCHANGED rest /\ conn[c].st = "live" /\ os' = GiveUp(os, conn[c].fd)
    BY <1>7 DEF conn_close, conn_done, Release
  <2>4. Core'
    BY <1>1, <1>3, <2>2, <2>3, GivenUpCore
  <2>5. c \notin backlog
    BY <1>1, <2>3 DEF Side
  <2> QED
    BY <1>2, <2>2, <2>3, <2>4, <2>5 DEF IInv
<1> QED
  BY <1>4, <1>5, <1>6, <1>7 DEF Session

\* The peers, epoll_wait and the loop of accept.
LEMMA LoopIInv ==
  ASSUME IInv, \/ \E c \in Clients : ClientArrives(c)
               \/ \E c \in Conns : PeerResets(c)
               \/ epoll_wait \/ net_pull_work \/ accept_client \/ accept_ends
  PROVE  IInv'
<1>1. Core /\ Side /\ Shape(os) /\ conn \in [Conns -> ConnRecords]
  BY DEF IInv, Core
<1>2. ASSUME UNCHANGED <<os, conn, main_stat>> PROVE Core'
  <2>1. \A c \in Conns : \/ Has(c) /\ Has(c)' /\ conn'[c].fd = conn[c].fd
                         \/ conn'[c].st = conn[c].st /\ ~Has(c)
    BY <1>2 DEF Has
  <2> QED
    BY <1>1, <1>2, <2>1, MarkedCore
<1>3. ASSUME NEW c \in Clients, ClientArrives(c) PROVE IInv'
  <2>1. Side'
    BY <1>1, <1>3 DEF ClientArrives, Side
  <2> QED
    BY <1>2, <1>3, <2>1 DEF ClientArrives, IInv
<1>4. ASSUME NEW c \in Conns, PeerResets(c) PROVE IInv'
  <2>1. Side'
    BY <1>1, <1>4 DEF PeerResets, Side
  <2> QED
    BY <1>2, <1>4, <2>1 DEF PeerResets, IInv
<1>5. CASE epoll_wait
  <2>1. edge => Lfd \in batch'
    BY <1>1, <1>5 DEF epoll_wait, Running, News, Core, ListenerKept, TableMatchesKernel
  <2>2. batch' \subseteq Fds
    BY <1>1, <1>5 DEF epoll_wait, Shape
  <2>3. Side'
    BY <1>1, <1>5, <2>1, <2>2 DEF epoll_wait, Side
  <2> QED
    BY <1>2, <1>5, <2>3 DEF epoll_wait, IInv
<1>6. CASE net_pull_work
  <2>1. PICK n \in batch :
          /\ batch' = batch \ {n}
          /\ \/ n \notin DOMAIN os.table /\ UNCHANGED <<conn, accepting>>
             \/ /\ n \in DOMAIN os.table /\ os.table[n] = None
                /\ accepting' = TRUE /\ UNCHANGED conn
             \/ /\ n \in DOMAIN os.table /\ os.table[n] # None
                /\ conn_err_handler(os.table[n]) /\ UNCHANGED accepting
    BY <1>6 DEF net_pull_work
  <2>2. UNCHANGED <<os, backlog, edge, ready, broken, refused, main_stat>>
        /\ main_stat = "running"
    BY <1>6 DEF net_pull_work, Running
  <2>3. /\ conn' \in [Conns -> ConnRecords]
        /\ \A c \in Conns : conn'[c].st = conn[c].st /\ conn'[c].fd = conn[c].fd
    <3>1. CASE UNCHANGED conn
      BY <1>1, <3>1
    <3>2. CASE n \in DOMAIN os.table /\ os.table[n] # None /\ conn_err_handler(os.table[n])
      <4>1. os.table[n] \in Conns
        BY <1>1, <3>2 DEF Shape
      <4> QED
        BY <1>1, <3>2, <4>1 DEF conn_err_handler, ConnRecords
    <3> QED
      BY <2>1, <3>1, <3>2
  <2>4. Core'
    <3>1. \A c \in Conns : Has(c)' <=> Has(c)
      BY <2>3 DEF Has
    <3> QED
      BY <1>1, <2>2, <2>3, <3>1, MarkedCore
  <2>5. n = Lfd => accepting'
    BY <1>1, <2>1, <2>2 DEF Core, ListenerKept
  <2>6. \A c \in backlog : conn'[c].st = conn[c].st
    BY <1>1, <2>3 DEF Side, Conns
  <2>7. Side'
    BY <1>1, <2>1, <2>2, <2>5, <2>6 DEF Side
  <2> QED
    BY <2>4, <2>7 DEF IInv
<1>7. CASE accept_client
  <2> DEFINE n == Min(Free(os))
  <2>1. PICK c \in backlog : /\ Free(os) # {} /\ os' = Opened(os, c, Min(Free(os)))
                             /\ conn' = [conn EXCEPT ![c] = Accepted(n)]
                             /\ backlog' = backlog \ {c}
    BY <1>7 DEF accept_client
  <2>2. /\ UNCHANGED <<edge, ready, broken, batch, refused, main_stat>>
        /\ accepting /\ accepting' = TRUE
    BY <1>7 DEF accept_client, AcceptsMore
  <2>3. n \in Fds
    BY <2>1, MinIn DEF Free
  <2> HIDE DEF n
  <2>4. /\ Accepted(n) \in ConnRecords /\ Accepted(n).st = "live" /\ Accepted(n).fd = n
    BY <2>3 DEF Accepted, ConnRecords
  <2>5. c \in Conns /\ conn[c].st = "none" /\ main_stat = "running"
    BY <1>1, <2>2 DEF Side, Conns
  <2>6. Core'
    BY <1>1, <2>1, <2>2, <2>4, <2>5, OpenedCore DEF Has, n
  <2>7. \A d \in backlog' : conn'[d].st = "none"
    BY <1>1, <2>1 DEF Side, Conns
  <2>8. Side'
    BY <1>1, <2>1, <2>2, <2>5, <2>7 DEF Side
  <2> QED
    BY <2>6, <2>8 DEF IInv
<1>8. CASE accept_ends
  <2>1. /\ UNCHANGED <<os, edge, ready, broken, batch, main_stat>>
        /\ accepting' = FALSE /\ refused' \in BOOLEAN
        /\ backlog' # {} => refused'
    BY <1>8 DEF accept_ends
  <2>2. CASE UNCHANGED <<conn, backlog>>
    <3>1. Side'
      BY <1>1, <2>1, <2>2 DEF Side
    <3> QED
      BY <1>2, <2>1, <2>2, <3>1 DEF IInv
  <2>3. CASE \E c \in backlog : /\ backlog' = backlog \ {c}
                                /\ conn' = [conn EXCEPT ![c].st = "freed"]
    <3>1. PICK c \in backlog : /\ backlog' = backlog \ {c}
                               /\ conn' = [conn EXCEPT ![c].st = "freed"]
      BY <2>3
    <3>2. c \in Conns /\ conn[c].st = "none"
      BY <1>1 DEF Side, Conns
    <3>3. /\ conn' \in [Conns -> ConnRecords] /\ conn'[c].st = "freed"
          /\ \A d \in Conns \ {c} : conn'[d] = conn[d]
      BY <1>1, <3>1, <3>2 DEF ConnRecords
    <3>4. Core'
      <4>1. \A d \in Conns : \/ Has(d) /\ Has(d)' /\ conn'[d].fd = conn[d].fd
                             \/ conn'[d].st = conn[d].st /\ ~Has(d)
                             \/ conn[d].st = "none" /\ ~Has(d)'
        BY <3>2, <3>3 DEF Has
      <4> QED
        BY <1>1, <2>1, <3>3, <4>1, MarkedCore
    <3>5. \A d \in backlog' : conn'[d].st = "none"
      BY <1>1, <3>1, <3>3 DEF Side, Conns
    <3>6. Side'
      BY <1>1, <2>1, <3>1, <3>5 DEF Side
    <3> QED
      BY <3>4, <3>6 DEF IInv
  <2> QED
    BY <1>8, <2>2, <2>3 DEF accept_ends
<1> QED
  BY <1>3, <1>4, <1>5, <1>6, <1>7, <1>8

\* The invariant holds in every step.
LEMMA StepIInv == IInv /\ [Next]_vars => IInv'
<1> SUFFICES ASSUME IInv, [Next]_vars PROVE IInv'
  OBVIOUS
<1>1. CASE Next
  BY <1>1, SessionIInv, LoopIInv, DoneIInv DEF Next
<1>2. CASE UNCHANGED vars
  BY <1>2 DEF vars, IInv, Core, Side, Shape, FdKept, SockOwned, ListenerKept, Cleared,
              TableMatchesKernel, HandlerIsOwners, Has
<1> QED
  BY <1>1, <1>2

\* The inductive invariant gives those that the run checks.
LEMMA IInvImplies ==
  IInv => /\ TypeOK /\ TableMatchesKernel /\ HandlerIsOwners
          /\ OnlyFailedLeak /\ NoForgottenClient
<1> SUFFICES ASSUME IInv
             PROVE  /\ TypeOK /\ TableMatchesKernel /\ HandlerIsOwners
                    /\ OnlyFailedLeak /\ NoForgottenClient
  OBVIOUS
<1>1. TypeOK
  <2>1. Range(os.table) \subseteq Conns \cup {None}
    BY DEF IInv, Core, Shape, Range
  <2> QED
    BY <2>1 DEF IInv, Core, Side, Shape, ConnRecords, TypeOK
<1>2. OnlyFailedLeak
  BY DEF IInv, Core, SockOwned, Has, OnlyFailedLeak
<1>3. NoForgottenClient
  BY DEF IInv, Core, Side, ListenerKept, NoForgottenClient
<1> QED
  BY <1>1, <1>2, <1>3 DEF IInv, Core

\* Every state satisfies the inductive invariant.
THEOREM Inductive == Spec => []IInv
  BY InitIInv, StepIInv, PTL DEF Spec

\* TypeOK: every number, entry and connection has its type.
THEOREM TypeCorrect == Spec => []TypeOK
  BY Inductive, IInvImplies, PTL

\* TableMatchesKernel: while the proxy runs, net_pull's table and fd_cnt are what
\* epoll watches (net_pull.c).
THEOREM TableAgrees == Spec => []TableMatchesKernel
  BY Inductive, IInvImplies, PTL

\* HandlerIsOwners: net_pull_work calls an error handler with the connection
\* whose socket the number names, which has not been freed.
THEOREM HandlersAreOwners == Spec => []HandlerIsOwners
  BY Inductive, IInvImplies, PTL

\* OnlyFailedLeak: conn_done leaves no descriptor of its connection open.
THEOREM LeakFree == Spec => []OnlyFailedLeak
  BY Inductive, IInvImplies, PTL

\* NoForgottenClient: conn_accept_handler leaves a client waiting without an
\* event only after a round that ended in an error.
THEOREM ClientsNoticed == Spec => []NoForgottenClient
  BY Inductive, IInvImplies, PTL

-----------------------------------------------------------------------------
\* A step of a session that is not the owner's takes a number from c only when it
\* gives up one that is not its own any more.
LEMMA SessionTakes ==
  ASSUME IInv, NEW c \in Conns, ~Robbed(c), Robbed(c)', NEW d \in Conns, Session(d)
  PROVE  d # c /\ conn[d].fd = conn[c].fd /\ GivesUpAgain(d)
<1> USE DEF Set
<1>1. /\ Shape(os) /\ conn \in [Conns -> ConnRecords] /\ FdKept
      /\ os.sock \in [Fds -> Conns \cup {None, Listener}]
  BY DEF IInv, Core, Shape
<1>2. Has(c) => conn[c].fd \in Fds
  BY <1>1 DEF FdKept
<1>3. CASE conn_get_by_endpoint(d) /\ d \in Servers
  <2> DEFINE n == Min(Free(os))
  <2>1. n \in Fds /\ os.sock[n] = None
    BY <1>3, MinIn DEF conn_get_by_endpoint, Free
  <2> HIDE DEF n
  <2>2. n \notin DOMAIN os.table
    BY <1>3, <2>1 DEF IInv, Core, TableMatchesKernel, conn_get_by_endpoint, Running
  <2>3. os'.sock = [os.sock EXCEPT ![n] = d]
    BY <1>1, <1>3, <2>1, <2>2, AddFacts DEF conn_get_by_endpoint, Opened, n
  <2>4. conn'[d].fd = n /\ \A b \in Conns \ {d} : conn'[b] = conn[b]
    BY <1>1, <1>3 DEF conn_get_by_endpoint, n
  <2> QED
    BY <1>1, <1>2, <2>1, <2>3, <2>4, ConstFacts DEF Robbed, Has
<1>4. CASE connected(d)
  BY <1>1, <1>4 DEF connected, Robbed
<1>5. CASE connect_failed(d)
  <2>1. conn[d].fd \in Fds
    BY <1>1, <1>5 DEF connect_failed, FdKept, Has
  <2>2. os'.sock = os.sock
    BY <1>1, <1>5, <2>1, DelFacts DEF connect_failed, Failed
  <2> QED
    BY <1>1, <1>5, <2>2 DEF connect_failed, Robbed
<1>6. CASE conn_close(d) \/ conn_done(d)
  <2>1. /\ conn[d].fd \in Fds /\ conn[d].st = "live"
        /\ conn[d].stat = "closed" => conn_done(d)
    BY <1>1, <1>6 DEF conn_close, conn_done, NotClosed, FdKept, Has
  <2>2. os'.sock = [os.sock EXCEPT ![conn[d].fd] = None]
    <3>1. os' = GiveUp(os, conn[d].fd)
      BY <1>6 DEF conn_close, conn_done, Release
    <3> QED
      BY <1>1, <2>1, <3>1, GiveUpFacts
  <2>3. conn'[d].stat = "closed" /\ (conn_done(d) => conn'[d].st = "freed")
    BY <1>1, <1>6 DEF conn_close, conn_done
  <2>4. d # c /\ conn'[c] = conn[c]
    BY <1>1, <1>6, <2>3 DEF conn_close, conn_done, Robbed
  <2>5. os.sock[conn[c].fd] = c /\ conn[d].fd = conn[c].fd
    BY <1>1, <1>2, <2>1, <2>2, <2>4 DEF Robbed, Has
  <2>6. conn[d].stat # "closed" => Robbed(d)
    BY <2>1, <2>4, <2>5 DEF Robbed
  <2> QED
    BY <2>1, <2>3, <2>4, <2>5, <2>6 DEF GivesUpAgain
<1> QED
  BY <1>3, <1>4, <1>5, <1>6 DEF Session

\* The main loop takes no descriptor away.
LEMMA LoopTakesNone ==
  ASSUME IInv, NEW d \in Conns, ~Robbed(d),
         \/ \E c \in Clients : ClientArrives(c)
         \/ \E c \in Conns : PeerResets(c)
         \/ epoll_wait \/ net_pull_work \/ accept_client \/ accept_ends
  PROVE  ~Robbed(d)'
<1>1. /\ Shape(os) /\ conn \in [Conns -> ConnRecords] /\ FdKept
      /\ os.sock \in [Fds -> Conns \cup {None, Listener}]
  BY DEF IInv, Core, Shape
<1>2. CASE UNCHANGED <<os, conn>>
  BY <1>2 DEF Robbed
<1>3. CASE net_pull_work
  <2>1. os' = os
    BY <1>3 DEF net_pull_work
  <2>2. PICK n \in batch : \/ conn' = conn
                           \/ n \in DOMAIN os.table /\ os.table[n] # None /\ conn_err_handler(os.table[n])
    BY <1>3 DEF net_pull_work
  <2>3. CASE conn' = conn
    BY <2>1, <2>3 DEF Robbed
  <2>4. CASE n \in DOMAIN os.table /\ os.table[n] # None /\ conn_err_handler(os.table[n])
    <3>1. os.table[n] \in Conns
      BY <1>1, <2>4 DEF Shape
    <3>2. /\ conn'[d].st = conn[d].st /\ conn'[d].fd = conn[d].fd
          /\ conn'[d].stat = conn[d].stat \/ conn'[d].stat = "closed"
      BY <1>1, <2>4, <3>1 DEF conn_err_handler, ConnRecords
    <3> QED
      BY <2>1, <3>2 DEF Robbed
  <2> QED
    BY <2>2, <2>3, <2>4
<1>4. CASE accept_client
  <2> DEFINE n == Min(Free(os))
  <2>1. PICK c \in backlog : /\ Free(os) # {} /\ os' = Opened(os, c, n)
                             /\ conn' = [conn EXCEPT ![c] = Accepted(n)]
    BY <1>4 DEF accept_client
  <2>2. n \in Fds /\ os.sock[n] = None /\ c \in Conns
    BY <2>1, MinIn DEF Free, IInv, Side, Conns
  <2> HIDE DEF n
  <2>3. n \notin DOMAIN os.table
    BY <1>4, <2>2 DEF IInv, Core, Side, TableMatchesKernel, accept_client
  <2>4. os'.sock = [os.sock EXCEPT ![n] = c]
    BY <1>1, <2>1, <2>2, <2>3, AddFacts DEF Opened
  <2>5. conn'[c].fd = n /\ \A b \in Conns \ {c} : conn'[b] = conn[b]
    BY <1>1, <2>1, <2>2 DEF Accepted
  <2> QED
    BY <1>1, <2>2, <2>4, <2>5, ConstFacts DEF Robbed, FdKept, Has
<1>5. CASE accept_ends
  <2>1. os' = os
    BY <1>5 DEF accept_ends
  <2>2. conn' = conn \/ \E c \in backlog : conn' = [conn EXCEPT ![c].st = "freed"]
    BY <1>5 DEF accept_ends
  <2>3. conn'[d] = conn[d] \/ conn'[d].st = "freed"
    BY <1>1, <2>2 DEF IInv, Side, Conns, ConnRecords
  <2> QED
    BY <2>1, <2>3 DEF Robbed
<1> QED
  BY <1>2, <1>3, <1>4, <1>5 DEF ClientArrives, PeerResets, epoll_wait

\* TakenByStale: a connection loses its descriptor only to another one that
\* remembers its number and gives it up again, closed before (conn.c:60-61) or
\* itself robbed of it (conn.c:396).
THEOREM TakenOnlyByStale == Spec => TakenByStale
<1> DEFINE Taken == \A c \in Conns :
                       ~Robbed(c) /\ Robbed(c)' /\ main_stat' = "running"
                       => \E d \in Conns \ {c} : conn[d].fd = conn[c].fd /\ GivesUpAgain(d)
<1>1. IInv /\ [Next]_vars => [Taken]_vars
  <2> SUFFICES ASSUME IInv, Next, NEW c \in Conns, ~Robbed(c), Robbed(c)', main_stat' = "running"
               PROVE  \E d \in Conns \ {c} : conn[d].fd = conn[c].fd /\ GivesUpAgain(d)
    OBVIOUS
  <2>1. ~net_pull_done
    BY DEF net_pull_done
  <2>2. PICK d \in Conns : Session(d)
    BY <2>1, LoopTakesNone DEF Next
  <2>3. d # c /\ conn[d].fd = conn[c].fd /\ GivesUpAgain(d)
    BY <2>2, SessionTakes
  <2> QED
    BY <2>3
<1> QED
  BY <1>1, Inductive, PTL DEF Spec, TakenByStale
=============================================================================
