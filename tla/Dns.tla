-------------------------------- MODULE Dns --------------------------------
(***************************************************************************)
(* net_utils.c: asynchronous name lookups of several coroutines.  A lookup *)
(* runs in the resolver's thread; its completion is the signal SIGUSR1     *)
(* with a pointer to the event id in the frame of net_dns_lookup_a.  The   *)
(* signal is blocked and read from a signalfd by the main loop, which      *)
(* posts the event that resumes the coroutine.                             *)
(*                                                                         *)
(* SIGUSR1 is not a real-time signal: while one is pending another is      *)
(* discarded.  Coroutine c stands for its frame of net_dns_lookup_a.       *)
(***************************************************************************)
EXTENDS Naturals, Sequences, FiniteSets

CONSTANTS Coros,      \* coroutines that look names up
          Hosts,      \* names
          None,
          MaxLookups  \* bound: event ids handed out

ASSUME DnsAssumption ==
    /\ None \notin Coros \cup Hosts /\ MaxLookups \in Nat
    /\ {"none", "running"} \cap (Hosts \cup {None}) = {}

VARIABLES
    at,        \* "out" of net_dns_lookup_a, or "waiting" in async_yield
    host,      \* its argument
    eid,       \* its local variable eid
    job,       \* the resolver's work: "none", "running", or ar_result: a host or None
    pending,   \* the pending signal: whose frame sival_ptr points into, or None
    edge,      \* the signalfd has become readable since epoll_wait
    armed,     \* net_pull has dns_notify_handler for the signalfd
    reading,   \* dns_notify_handler is in its loop
    queue,     \* posted events (EventFifo.tla)
    handlers,  \* event handlers: set of [eid, c]
    next,      \* event_get_id's counter
    cache,     \* dns_cache: set of [host, result]; duplicates are not told apart
    result,    \* what a coroutine's last call stored in *result
    lost       \* history: coroutines whose signal was discarded

frame == <<at, host, eid>>
signal == <<pending, edge, lost>>
loop == <<armed, reading, queue>>
vars == <<frame, job, signal, loop, handlers, next, cache, result>>

\* net_utils_init: the signal is blocked, its descriptor polled and handled.
Init ==
    /\ at = [c \in Coros |-> "out"]
    /\ host = [c \in Coros |-> None]
    /\ eid = [c \in Coros |-> 0]
    /\ job = [c \in Coros |-> "none"]
    /\ pending = None /\ edge = FALSE /\ lost = {}
    /\ armed = TRUE /\ reading = FALSE /\ queue = <<>>
    /\ handlers = {} /\ next = 0
    /\ cache = {}
    /\ result = [c \in Coros |-> None]

\* The main loop is not inside a handler.
MainTurn == ~reading

Cached(h) == {e \in cache : e.host = h}
-----------------------------------------------------------------------------
\* A call answered by the cache.
lookup_hit(c) ==
    /\ MainTurn /\ at[c] = "out"
    /\ \E e \in cache :
          /\ host' = [host EXCEPT ![c] = e.host]
          /\ result' = [result EXCEPT ![c] = e.result]
    /\ UNCHANGED <<at, eid, job, signal, loop, handlers, next, cache>>

\* Mutant: eid is a static variable, one for all calls.
SharedId(c, id) == [d \in Coros |-> id]

OwnId(c, id) == [eid EXCEPT ![c] = id]

\* A miss: a fresh id, the request is handed to the resolver and the coroutine
\* yields; conn_async_final registers it for the event.
lookup_miss(c, h) ==
    /\ MainTurn /\ at[c] = "out" /\ Cached(h) = {}
    /\ next < MaxLookups
    /\ next' = next + 1
    /\ host' = [host EXCEPT ![c] = h]
    /\ eid' = OwnId(c, next)
    /\ at' = [at EXCEPT ![c] = "waiting"]
    /\ job' = [job EXCEPT ![c] = "running"]
    /\ handlers' = handlers \cup {[eid |-> next, c |-> c]}
    /\ UNCHANGED <<signal, loop, cache, result>>

\* getaddrinfo_a refuses: dns_final at once, with ar_result still NULL.
lookup_refused(c, h) ==
    /\ MainTurn /\ at[c] = "out" /\ Cached(h) = {}
    /\ next < MaxLookups
    /\ next' = next + 1
    /\ host' = [host EXCEPT ![c] = h]
    /\ result' = [result EXCEPT ![c] = None]
    /\ UNCHANGED <<at, eid, job, signal, loop, handlers, cache>>

\* The resolver's thread finishes c's request, at any moment, and signals.
Resolve(c, answer) ==
    /\ job[c] = "running"
    /\ job' = [job EXCEPT ![c] = answer]
    /\ IF pending = None
       THEN pending' = c /\ edge' = TRUE /\ UNCHANGED lost
       ELSE lost' = lost \cup {c} /\ UNCHANGED <<pending, edge>>
    /\ UNCHANGED <<frame, loop, handlers, next, cache, result>>
-----------------------------------------------------------------------------
\* Mutant: the handler does not register itself again.
EnterUnarmed ==
    /\ MainTurn /\ queue = <<>> /\ edge
    /\ edge' = FALSE
    /\ armed' = FALSE
    /\ reading' = armed
    /\ UNCHANGED <<frame, job, pending, lost, queue, handlers, next, cache, result>>

\* epoll_wait reports the signalfd, once per edge; net_pull_work takes the
\* handler out and calls it, and the handler puts itself back.
dns_notify_enter ==
    /\ MainTurn /\ queue = <<>> /\ edge
    /\ edge' = FALSE
    /\ reading' = armed
    /\ UNCHANGED <<frame, job, pending, lost, armed, queue, handlers, next, cache, result>>

\* One signalfd_siginfo: post the id its pointer leads to.
dns_notify_read ==
    /\ reading /\ pending # None
    /\ queue' = Append(queue, eid[pending])
    /\ pending' = None
    /\ UNCHANGED <<frame, job, edge, lost, armed, reading, handlers, next, cache, result>>

\* Mutant: the loop may end with a signal still to be read.
LeaveEarly ==
    /\ reading
    /\ reading' = FALSE
    /\ UNCHANGED <<frame, job, signal, armed, queue, handlers, next, cache, result>>

\* read() has nothing more: the loop ends.
dns_notify_leave ==
    /\ reading /\ pending = None
    /\ reading' = FALSE
    /\ UNCHANGED <<frame, job, signal, armed, queue, handlers, next, cache, result>>

\* Mutant: the id keeps its handler.
FinalKeepsId(c) ==
    /\ at' = [at EXCEPT ![c] = "out"]
    /\ result' = [result EXCEPT ![c] = job[c]]
    /\ cache' = IF job[c] = None THEN cache
                ELSE cache \cup {[host |-> host[c], result |-> job[c]]}
    /\ job' = [job EXCEPT ![c] = "none"]
    /\ UNCHANGED handlers

\* Mutant: the result is taken from the cache, whichever entry comes first.
FinalFromCache(c) ==
    /\ at' = [at EXCEPT ![c] = "out"]
    /\ handlers' = {e \in handlers : e.eid # eid[c]}
    /\ result' = [result EXCEPT ![c] = IF cache = {} THEN job[c]
                                       ELSE (CHOOSE e \in cache : TRUE).result]
    /\ cache' = IF job[c] = None THEN cache
                ELSE cache \cup {[host |-> host[c], result |-> job[c]]}
    /\ job' = [job EXCEPT ![c] = "none"]

\* dns_final: the id is freed, an answer is cached and returned.
dns_final(c) ==
    /\ at' = [at EXCEPT ![c] = "out"]
    /\ handlers' = {e \in handlers : e.eid # eid[c]}
    /\ result' = [result EXCEPT ![c] = job[c]]
    /\ cache' = IF job[c] = None THEN cache
                ELSE cache \cup {[host |-> host[c], result |-> job[c]]}
    /\ job' = [job EXCEPT ![c] = "none"]

\* event_work: resume the coroutine registered for the event, or drop it.
event_work ==
    /\ MainTurn /\ queue # <<>>
    /\ queue' = Tail(queue)
    /\ \/ \E e \in handlers : e.eid = Head(queue) /\ dns_final(e.c)
       \/ /\ \A e \in handlers : e.eid # Head(queue)
          /\ UNCHANGED <<at, handlers, result, cache, job>>
    /\ UNCHANGED <<host, eid, signal, armed, reading, next>>
-----------------------------------------------------------------------------
MainLoop == dns_notify_enter \/ dns_notify_read \/ dns_notify_leave \/ event_work

Resolver(c) == \E answer \in {host[c], None} : Resolve(c, answer)

Next == \/ MainLoop
        \/ \E c \in Coros : \/ lookup_hit(c)
                            \/ \E h \in Hosts : lookup_miss(c, h) \/ lookup_refused(c, h)
                            \/ Resolver(c)

\* The main loop goes on for ever; the resolver gives up in the end.
Fairness == WF_vars(MainLoop) /\ \A c \in Coros : WF_vars(Resolver(c))

Spec == Init /\ [][Next]_vars /\ Fairness
-----------------------------------------------------------------------------
(***************************************************************************)
(* Types; an id is registered for one coroutine, the one that waits on it. *)
(***************************************************************************)
TypeOK ==
    /\ at \in [Coros -> {"out", "waiting"}]
    /\ pending \in Coros \cup {None}
    /\ handlers = {[eid |-> eid[c], c |-> c] : c \in {d \in Coros : at[d] = "waiting"}}
    /\ \A c, d \in Coros : at[c] = "waiting" /\ at[d] = "waiting" /\ c # d
                               => eid[c] # eid[d]
    /\ \A c \in Coros : job[c] = "none" <=> at[c] = "out"
    /\ pending # None => at[pending] = "waiting"

(***************************************************************************)
(* What a completed lookup still needs is always somewhere: its signal is  *)
(* pending with an edge or a reader to notice it, its event is queued, or  *)
(* the kernel has discarded the signal.                                    *)
(***************************************************************************)
CompletionKept ==
    \A c \in Coros :
        (at[c] = "waiting" /\ job[c] # "running") =>
            \/ pending = c /\ armed /\ (edge \/ reading)
            \/ \E i \in DOMAIN queue : queue[i] = eid[c]
            \/ c \in lost

(***************************************************************************)
(* A call returns, and its frame with the resolver's request in it goes,   *)
(* only when the resolver is through with that request.                    *)
(***************************************************************************)
ReturnsAfterAnswer ==
    [][\A c \in Coros : (at[c] = "waiting" /\ at'[c] = "out") => job[c] # "running"]_vars

(***************************************************************************)
(* A name is answered with its own address, from the cache too.            *)
(***************************************************************************)
RightAnswer == /\ \A e \in cache : e.result = e.host
               /\ \A c \in Coros : at[c] = "out" => result[c] \in {None, host[c]}

(***************************************************************************)
(* Every lookup returns, unless its signal was discarded.                  *)
(***************************************************************************)
EveryLookupReturns ==
    \A c \in Coros : (at[c] = "waiting") ~> (at[c] = "out" \/ c \in lost)
=============================================================================
