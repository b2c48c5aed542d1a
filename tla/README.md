# A TLA+ model of http-proxy

The program is a single-threaded HTTP proxy: an epoll loop drives coroutines
(`ucontext` stacks), two for each client connection.  One coroutine reads the
client's pipelined requests and forwards them, the other copies the responses
back.  All its difficulty is in that pair: they share a structure on one of the
two stacks, wake each other through a home-made event queue, share connections
through reference counts, and either of them may close a connection the other
is waiting on.

This directory models that core and what it stands on (descriptors, name
lookups, HTTP messages and byte streams, the hash table), checks it with TLC,
and proves with TLAPS what carries the rest: the event queue, the protocol
between the two coroutines, the detailed session's refinement of it and every
invariant that is checked of the session, the lookups and the descriptor table, each
for instances of any size.

## 1. Inventory

| component (source) | state | operations | talks to |
|---|---|---|---|
| main loop (`main.c`) | `main_stat` | drain events, then one `epoll_wait` batch, for ever | event, net_pull |
| event queue (`event.c`) | linked list `head`/`tail`, handler table, id counter | get/free id, set handler, post, work | called from everywhere; calls handlers, which post again |
| epoll dispatcher (`net_pull.c`) | handler table by descriptor: read, write, error | add, set handler, del, work | conn handlers, DNS signalfd, accept |
| coroutines (`async.c`) | status, stack, yield value | call, yield, resume | conn handlers resume them |
| connections (`conn.c`, `conn_io.c`) | `fd`, `stat`, read buffer, reference count | accept, connect, close, done, try_io, getc/gets/read/write/copy | net_pull, async |
| reference counts (`mem.c`) | a counter per object | alloc_auto, incref, decref | all |
| session (`net_handle.c`, `net_http.c`) | `struct net_handle_cxt`: request list, connection pool, two event ids, four flags | `net_req_handler`, `net_rsp_handler`, connect to server, error replies, CONNECT | all of the above |
| DNS (`net_utils.c`) | cache, pending lookups | asynchronous lookup, signal to event | event, net_pull |
| HTTP messages (`net_data.c`) | header table, buffer | parse request, response, headers; forward them | session |
| body framing (`net_http.c:17-88`) | - | transfer by length, chunks | conn_io |
| string buffer (`strbuf.c`) | array, length, capacity | append, cat, number | net_data |
| free connection pool (`conn.c:74-131`, `470-495`) | connections by endpoint | add, take, closed while free | nobody: `conn_free` has no caller |
| listening, shutdown (`conn.c:188-380`, `main.c`) | listening descriptors | bind, accept, done | net_pull |
| hash table (`uthash/uthash.h`) | buckets with chains, a list in order of insertion, counts | find, add, delete, iterate, clear, expand | header table, pools, handler tables |
| log, arguments, entry (`log.c`, `arg.c`, `proxy.c`), `csapp.c`, rest of `uthash/` | - | output, start-up, third-party code | - |

What is hard, and what makes each component correct:

* **Event queue.**  `event_work` keeps the cell it dispatches in the list while
  its handler runs, and handlers post.  Correct: in order, once, nothing lost,
  no freed cell reachable, nothing starves.
* **Two coroutines.**  The `cxt` is on req's stack; rsp must be over before req
  returns.  A request listed while rsp waits must wake it.  The exit notice is
  the last one.  Neither may wait for the other for ever.
* **Resuming.**  A coroutine can be resumed by its event, by epoll, by a handler
  left over from an earlier wait.  A wait must be resumed by something, a
  finished coroutine by nothing.
* **Connections.**  A server connection is held by the pool, by each listed
  request and by req; counts must be exact, descriptors must have an owner.
* **Order.**  Replies reach the client in the order of its requests.
* **Descriptor numbers.**  The kernel hands a closed number out again at once,
  while batches, table entries and closed connections still name it.
* **Lookups.**  Completions arrive as a signal that does not queue, with a
  pointer into the frame of the caller.
* **Messages.**  `recv` cuts a message anywhere; the parser cuts the buffer into
  strings in place.  Correct: what is forwarded is what was meant, to the server
  that was meant, and no byte of the next message is touched.
* **Hash table.**  An addition may rebuild every chain.
* **Stopping.**  `net_pull_done` has to reach every paused coroutine.

`PROJECT.json` lists every hazard at its line.

## 2. Modules

| module | models | kind |
|---|---|---|
| `EventFifo` | what `event.c` promises: a FIFO of events delivered to the handler registered at delivery | abstract |
| `Event` | `event.c`: list cells that are allocated, freed and reused | implements `EventFifo` |
| `Handshake` | the protocol of req and rsp: who waits, which notices are queued, how many requests are forwarded and answered | abstract |
| `HandshakeProofs`, `EventProofs`, `DnsProofs`, `DescriptorsProofs` | the theorems about the module of that name | proofs |
| `SessionInvariant` | the inductive invariant of `Session`, lemmas about the operations on connections and on the event queue | proofs |
| `SessionProofs` | the theorems about `Session` that hold in every world, one lemma for each kind of step | proofs |
| `SessionWorldProofs` | the theorems about `Session` that hold as long as certain things do not go wrong | proofs |
| `LeastElement` | every non-empty set of naturals has a least member: the induction of the other proofs | proofs |
| `Network` | the connections as a value with the operations of `net_pull.c`, `conn.c`, `mem.c` on it | operators |
| `Session` | one client session: both handlers from yield to yield, main loop, pool, list, references, shutdown | implements `Handshake`, on `Network` |
| `Descriptors` | descriptor numbers: the accept loop, `net_pull.c`'s table, epoll batches, close and `conn_done` | detailed |
| `Dns` | `net_utils.c`: concurrent lookups, the signal, the signalfd, the cache | detailed |
| `Message` | `strbuf.c`, `net_data.c`, the method table: buffers, header table, parsing in place, the header sent on | operators |
| `Pipe` | one message from one connection to another: `conn_io.c`, `net_fetch_*`, `net_transfer_body_HTTP_1_1` | detailed, on `Message` |
| `Table` | what the program expects of a hash table: a list in order of addition | abstract |
| `Uthash` | `uthash.h`: chains, back pointers, expansion | implements `Table` |
| `MC*` | instances for TLC | |

The layers meet where the code's do.  `Event` shows that the queue is a FIFO;
`Session`, `Handshake` and `Dns` use a sequence for it.  `Uthash` shows that a
table is a list; `Message` uses a list for the headers.  `Session` takes a read
or a write as success, block or failure, which is what `Pipe` makes of bytes, and
its connections keep their descriptor, which `Descriptors` justifies up to the
thefts it names.

### Correspondence

*Event.*  `cell`, `live` are the heap: `event_post` takes any address not
live, so a freed cell is soon handed out again.  `phase` says where `event_work`
is; its loop body is cut where a handler is called, because handlers are the
callers.  `arg` is the context passed to the running handler, kept because the
handler may unregister itself.

*Handshake.*  Positions of the two coroutines are named for what they wait on:
`init`, `fin` (req, `net_handle.c:170`) and `idle` (rsp, line 225) are waits on
the event, `io` any other wait, `run`/`clean`/`exit` have the processor.  A
notice is `[to, more]`, `more` being `data != NULL`.  A notice that arrives in
`io` only makes the system call be tried again (`conn_io.c:30-34`).

*Session.*  `pc` has one label for each stretch of code between two points at
which the coroutine may yield or the handlers branch; labels carry the names of
the code (`fetch`, `lookup`, `forward`, `copy_read`, `post`, ...).  `run` says
who has the processor.  A blocking operation `conn_try_io(k, c, dir)` registers
`k` in the read or write slot of `c` and returns to the main loop with `pc`
unchanged; when resumed, the same label is tried `again`.  `async_resume`
moves the other waits on according to what `async_yield` returns: 0, 1 for a
NULL notice, -1 for an epoll error.  `net_pull_work` takes one event of the
batch: clears both slots, marks the connection on error, and puts the handlers
on `agenda`, which `conn_epoll_handler` works off before the next event, as the
C code does.  `cxt` has the fields of the struct, the list and the pool being a
sequence and a function from endpoints.  `proxy_done` sets `exiting` and copies
the table into `doomed`; `net_pull_done` takes one entry after the other: its
error handler, then its waiting coroutines.  `sent`, `forwarded`,
`answered` are history variables.  `net.fault` records the first invalid access
(a count below zero, a freed coroutine or connection, a null pool entry); nothing
is specified after it.  A session lives in one of the `Worlds`: where
connections lead, what DNS answers, which methods, how many requests, which
faults may happen.

*Descriptors.*  `os` is the kernel's table of sockets, epoll's set, and
`net_pull.c`'s handler table with its counter, all by number; a struct conn has
a lifetime (`st`), its `stat` and the number it remembers.  Sessions are reduced
to opening, closing and releasing in any order.  `edge` and `ready` are
edge-triggered readiness: reported once.

*Dns.*  A coroutine stands for its frame in `net_dns_lookup_a`; the pending
signal names the frame it points into.  `lost` records the signals the kernel
discards because one is pending.

*Message.*  A buffer holds tokens: the longest runs of bytes the patterns treat
alike, or one separator.  Positions and capacities count tokens.  The regular
expressions are operators of the names they have in the code (`header_patt`,
`host_patt`, `rsp_patt`; `EndsInVersion` and `IsUri` for the other two).

*Pipe.*  `wire` is what the sender sent and `recv` has not returned, `rx` the
`conn->buf` of the source, `out` what the receiver was sent.  A read returns any
non-empty piece (`Pieces`).  `gets` is a `conn_gets` in progress, cut at each
character it may block on.

*Uthash.*  `tbl` is `UT_hash_table` with its buckets, `hh` the handles in the
elements.  The hash value of a key is a constant, so that collisions are chosen.

### What is abstracted

* In `Session`, bytes: a read may succeed on any connection, since there may be
  bytes in `conn->buf`; the end of a body is a choice; a copy to the end of
  the stream and a tunnel end only by failing.  In `Session` too, `epoll_wait`
  may report any descriptors with a handler, or with an error, in any order: more
  than edge triggering reports.  Over-approximation is safe for the passing
  runs; the traces of the violation runs were read and need only reports the
  kernel gives.
* The same fault, `server_close`, stands for a server that breaks off and for one that
  ends an HTTP/1.0 response.
* In `Session`, `recv` and `send` on a closed descriptor fail.  In the code they go to
  the remembered number, which may name another socket by then (`conn_io.c:13-16`; the
  test of `conn_io.c:74-75` is commented out).  `Descriptors` says when a number is
  another's; the bytes that go astray are in no model.
* In `Pipe`, sends fail from some moment on, in the middle of a write too, and may work
  again later.  In `Pipe`, one message; which responses belong to which request is in
  `Session`.  In `Message`, what `net_data_done` frees.
* In `Descriptors`, one listening socket; who waits on a connection is in
  `Session`.  The accept handler's branch for an error of the listening socket
  (`conn.c:192-196`, it stops listening) is left out: the kernel reports an error or a
  hangup for a listening socket only after it has been shut down, which the code never
  does.
* Shutdown comes between two steps of the main loop.  The code runs it inside
  the signal handler, wherever that interrupts.

## 3. Runs

Passing:

| run | bounds | shows |
|---|---|---|
| `event` | 3 cells, 2 ids, 2 contexts, 2 data values | list intact, FIFO refinement, every event leaves |
| `handshake` | 3 requests | safety of the protocol; every forwarded request is answered or the session ends |
| `session` | 2 server connections, up to 3 requests, 6 worlds | see below |
| `dns` | 3 coroutines, 2 names, 3 misses | a completion is lost only with its signal; right answers; a frame is not left before its answer; every other lookup returns |
| `uthash` | 6 elements, 3 of one key, 1 bucket that doubles up to three times | `HASH_FSCK`; lookups; refinement of `Table` |
| `http` | 95 messages, pieces of up to 3 tokens, buffers from 4 tokens, sends that fail and work again | what is forwarded; to whom; that it ends |
| `descriptors` | 3 numbers, 2 clients, 2 servers | table and kernel agree; events reach the owner; what leaks; who is forgotten; who takes a number away |

The worlds of `session`, with what holds in which (`ImplementsHandshake`,
`TypeOK`, `ReqBlocksOnce`, `ReqGone` and `IoLostTwoWays` hold in all):

| world | methods, requests, hosts | faults | also holds |
|---|---|---|---|
| `Hostile` | both, 2, one endpoint | all but shutdown | |
| `Unlucky` | both, 2, a host with 2 addresses | client close, DNS, connect, bad request | `RefsExact` (counts), `SteadyPool` |
| `Misled` | both, 3, a host with 2 addresses | DNS, connect | and no invalid access |
| `Steady` | GET-like, 3, two hosts | none | everything |
| `Leaving` | GET-like, 2, two hosts | client close | `RefsExact` (counts), `SteadyPool`, `NoFdLeak`, `RspNotLeft` |
| `Stopping` | GET-like, 2, two hosts | shutdown | `RefsExact` (counts), `SteadyPool`, `NoFdLeak`, `StopReachesAll` |

Each conditional property names its worlds in its hypothesis:

| hypothesis | means | of |
|---|---|---|
| `ServersStay` | no server closes or answers badly (nor ends an HTTP/1.0 response, which it does by closing) | `RefsExact` (counts), `SteadyPool` |
| `PeersStay` | only lookups and connection attempts fail | `RefsExact` (no invalid access) |
| no `connect_fail` | every connection attempt succeeds | `NoFdLeak` |
| only `client_close`, no tunnel | the client goes away, at any moment | `RspNotLeft` |
| `Calm` | nothing goes wrong until the process is told to stop, no tunnel | `SteadyOrder`, `StopReachesAll` |

That the hypotheses are needed was found with TLC: `InOrder` and `NoMutualWait` fail
once a lookup fails, `NoFdLeak` once a connect fails, the counts and
`DeletesOwnEntry` once a server closes.  Invalid accesses appear when a server
closes (null pool entry), when the client closes or, with three requests, is closed
after a bad request (a stale registration resumes a coroutine that has ended), and at
shutdown (`net_pull.c:169` touches a connection the coroutine resumed just before has
freed).

`IoLostTwoWays` is said of every world.  That a coroutine is always registered for
the operation it is paused in is true only while nothing goes wrong (`Registered`
in section 4).  It stops being true in two ways, and the property says that there is
no third: one coroutine closes the connection the other waits on (when the client
goes away, and at the normal end of an HTTP/1.0 response, `net_http.c:207`, which drops
the read registration of req), or it begins to wait for the very same operation (both
write to the client when req sends an error reply or runs a tunnel; there is one slot,
`conn.c:149`).  `RspNotLeft` says what becomes of rsp then, where only the client goes
away: req, when it has closed the client, posts the exit notice in the same turn.
Nothing of the kind is true of req (`session_orphan`).  For the same reasons a
shutdown misses a coroutine in a tunnel, after a failed lookup or connect, after a
bad request, and when the client closes: each of these four faults alone, added to
the shutdown, gives a counterexample to `StopReachesAll` without its hypothesis.

Violations, each a statement of the repository that the code does not keep:

| run | statement | what happens |
|---|---|---|
| `session_order` | README.md:55, 57: responses are copied back in order | req writes the 502 of request 2 itself while request 1 is still unanswered |
| `session_block` | README.md:55: a call stack blocks on one I/O operation at a time | a notice resumes rsp inside a read, whose registration stays while rsp blocks elsewhere |
| `session_pool` | `net_handle.c:236`: "Delete server connection from the pool" | a second listed request finds no entry, or its replacement |
| `session_wait` | `net_handle.c:223`: "Waiting for req_handler" | the exit notice is consumed by a retry of I/O; both wait |
| `session_orphan` | `net_handle.c:167`, `184` | `rsp_will_exited` is never set; req waits for an rsp that is gone |

**Why the bounds are enough.**  Three cells are one being dispatched, one
behind it and one appended: with two the list never has an inner cell.  Two
requests are one being answered while the other is listed, replaced or fails; the
third adds one arriving behind two.  Two server connections to one endpoint are
the closed one and its replacement; two endpoints give pooled connections that
must not be confused.  Three lookups are one signal pending, one discarded and
one read.  Three numbers, one of them the listening socket's, for four
connections: numbers run out, and a number passes from a closed connection to
another while the first still remembers it and a batch still names it.  Six
elements over one to eight buckets: chains that split, chains that do not, and
duplicates.  The messages have every form the parsers tell apart; a buffer of
three tokens splits every separator of two; capacities from 4 tokens double
several times in a header.

**Deadlock** is checked in `event`, `uthash` and `http`.  Elsewhere the system may
stop: a session ends, one with silent peers waits for ever, lookups need not be
made, and after a shutdown nothing happens.

**Fairness.**  `Event`: `WF` of `event_work`, since the main loop always comes
back to it and a resumed coroutine gives the stack back at its next yield.
`Handshake`: `WF` of each coroutine's steps, since no call blocks; `SF` of
`EventWork`, since the queue is drained between two `epoll_wait` batches, so
I/O wakeups cannot pass it over for ever; `SF` of `IoWakeRsp` and `Answer`, the
assumption that the server and the client of a response are alive.  Without the
last nothing can be promised: there are no timeouts in the code.  `Dns`: `WF` of
the main loop, and of the resolver, which has timeouts of its own.  `Pipe`: the
coroutine runs on whenever its reads can return (epoll resumes it); nothing is
assumed of the peers, so `MessageEnds` speaks of messages that were sent
completely, or whose sender has closed.

## 4. Proofs

Everything below is proved with TLAPS for every value of the constants that
satisfies the module's assumption: any number of requests, cells, event ids,
coroutines, names, descriptor numbers, connections.  Each proof module has one
inductive invariant `IInv`, which TLC checked on the instance of the module's run
before it was proved, a lemma that `Init` implies it and one that every step keeps
it (one lemma or step for each action).

### Event queue (`EventProofs`)

| theorem | statement |
|---|---|
| `TypeCorrect` | `Spec => []TypeOK` |
| `ListStaysIntact` | `Spec => []ListIntact`: head, next and tail describe one list of exactly the allocated cells, between any two calls and inside a handler |
| `EventImplementsFifo` | `Spec => ImplementsFifo`: the list refines the queue of `EventFifo` |

From `EventAssumption`: finitely many cells, of which `NULL` is none.  The list
is defined by the pointers: `Queue` is a sequence of cells that starts at `head`,
follows `next` and ends at a null pointer (`Follows`).  The main lemma,
`ChainIsQueue`, says that the pointers leave no choice, so an action only has to
be shown to produce *some* linked sequence (`PostChain`: the old one with a new
cell at its end; `PopChain`: its tail).  `ChainIsQueue` needs an induction
along the list; it is done as a least counterexample (`LeastElement`: the first
place where two sequences that follow the same pointers differ).  `IInv` adds to
`ListIntact` that an allocated cell has an id, and that a running handler
was called for the cell at the head: without it `event_work` could free a cell
that is not there.  The refinement maps every `event_post`, registration,
delivery and drop to the step of the same name of `EventFifo`; entering and
leaving the loop are stuttering steps.

### Protocol of req and rsp (`HandshakeProofs`)

| theorem | statement |
|---|---|
| `Typing` | `Spec => []TypeOK`, with the mutual exclusion of the two coroutines |
| `CxtOutlivesRsp` | `Spec => []FrameAlive`: the frame with the `cxt` outlives rsp |
| `WakeupsAreKept` | `Spec => []NoLostWakeup` |
| `ExitComesLast` | `Spec => []ExitNoticeLast` |

For every `MaxReq \in Nat` (the only assumption).  `FrameAlive` is not inductive:
it needs that a notice for req, once req has left its first wait, is posted only
by an rsp that is over (`ReqNoticeLast`), which in turn needs to know the queue
before that first wait (`FirstEvent`).  `ExitNoticeLast` needs that an exit
notice in the queue means that req is in its last wait (`ExitMeansFin`).
`NoLostWakeup` needs that a blocked rsp still has its handler registered
(`ArmedWhileAlive`): otherwise `event_work` would drop the notice.
`EventWorkIInv`, with the four cases of an event taken out of the queue, is the
heart.

### Session (`SessionInvariant`, `SessionProofs`)

| theorem | statement |
|---|---|
| `SessionTypes` | `Spec => []TypeOK` |
| `SessionImplementsHandshake` | `Spec => ImplementsHandshake`: the detailed session refines `Handshake` |
| `SessionKeepsFrame` | the frame with the `cxt` outlives rsp, said of the session itself |
| `SessionWakesRsp` | an rsp that waits while a request is listed has a notice on its way and a handler for it |
| `ReqBlockedOnce` | `Spec => []ReqBlocksOnce`: req is registered for one I/O operation at most |
| `ReqNeverResumedLate` | `Spec => []ReqGone`: nothing resumes req after its end |

For any worlds, hence with every fault and shutdown, any number of requests and any
finite sets of servers and endpoints (`SessionAssumption`: each world maps servers
to endpoints and hosts to lists of endpoints that are not empty, since a lookup without
an address is one that failed, and the client, the servers, `None` and the coroutines'
names are distinct).

The mapping takes a coroutine that is neither at one of the protocol's waits nor at
its end to `run` or `io` according to who has the processor, and takes the
resolver's event out of the queue: `Handshake` does not know it.  The lemmas
`NoticesPost`, `NoticesResolver` and `NoticesPop` say what that leaves of a queue
that is posted to or popped; they need that the resolver has one event queued at
most (`OneDns`).

`IInv` is `Own`, about the session, and `Handshake`'s `IInv` under the mapping.
Neither is inductive alone.  That rsp has ended when req cleans up, and that it
still has its handler when a notice is posted, is known only through the protocol.
The protocol's step needs of the session:

* `Control`: a coroutine that has the processor is not paused;
* `CxtOk`: the flags `req_blocked` and `rsp_blocked` say where the coroutines are,
  and `rsp_will_exited` is never set.  The code posts by the flags, the protocol by
  the positions;
* `Numbers`: the list holds what is forwarded and not answered, and rsp works on
  a request only while one is listed;
* `ReqNotice` and `Handlers`: req is resumed only where it waits for what resumes
  it.  `Handlers` speaks of all the places in which a handler can be (`Sites`: the
  slots of a connection, a call that is due, an entry of the table that
  `net_pull_done` works off), and says that req has one at most and none while it
  waits for an event.  Of rsp nothing like it is true: a notice resumes it in the
  middle of an I/O operation.  This is the protocol's `StaleWakeRsp`;
* `Loop`, `NetOk`, `Serving`: a resolver's event finds req waiting for it, the
  connections are well formed, and a connection attempt has a server.

Each step is shown to keep `Own` and to be a step of the protocol or a stutter
(`Sim`), given `IInv`; `NextSession` collects the steps, and `NextIInv` of
`HandshakeProofs` then gives the other half of `IInv` without a second look at the
session.  The steps that only move a coroutine between labels the protocol does not
tell apart, or only change connections, share a lemma each (`ReqQuiet`, `RspMoves`,
`NetOnly`, ...); `ResumeFacts` covers every `async_resume`.  The last four theorems
are what `IInv` says in the session's own terms.

### Session, world by world (`SessionWorldProofs`)

| theorem | statement |
|---|---|
| `DescriptorsOwned` | `Spec => []NoFdLeak` |
| `SteadyPoolHolds` | `Spec => []SteadyPool` |
| `RefsAlwaysExact` | `Spec => []RefsExact`: exact counts, and no use of what is freed |
| `RepliesInOrder` | `Spec => []SteadyOrder` |
| `StopReaches` | `Spec => []StopReachesAll` |
| `RegistrationsLostTwoWays` | `Spec => IoLostTwoWays`, an action property, in every world |
| `RspIsNotLeft` | `Spec => []RspNotLeft` |

From the same assumption.  The properties speak of what may go wrong in a world, and
a world does not change (`SameWorld`), so an invariant may have the world as its
hypothesis.  Several hold only until the process exits; the hypothesis then says
that too, and `proxy_done` is where it ends.  The layers, each resting on `IInv` and
on those above it:

| invariant | where | says | gives |
|---|---|---|---|
| `General` | every world | which labels have the processor, that once the process exits no connection is made and only errors are reported, that an error epoll reports has happened, that what is polled is referenced | |
| `Tidy` | no connect fails | open descriptors are polled, and an attempt req waits for is not reported as failed | `DescriptorsOwned` |
| `Stay` | servers stay | counts are what the pool, the list and req hold (`Balanced`); a pooled connection is under its endpoint (`Filed`), a listed one is pooled as long as rsp may still come to it (`Placed`), a pooled one is open until the exit (`Alive`) | `SteadyPoolHolds`, half of `RefsAlwaysExact` |
| `Quiet` | only lookups and connects fail, until the exit | no invalid access; rsp leaves only after req has given up (`LeftLast`); its handlers are at the client or a pooled server (`RspAsked`) | the other half |
| `Plain`, `Dismissed` | only the client goes away, no tunnel, until the exit | req gives up only when the client is closed; if both wait, rsp's notice is queued | half of `RspIsNotLeft` |
| `Sorted`, `InTurn` | every world; `Calm` | the list is sorted; nothing that is listed is older than what was sent last | `RepliesInOrder` |
| `Registered` | `Calm`, until the exit | a paused coroutine is in the slot of the operation it waits for, or about to be resumed | the start of `Told` |
| `Told` | `Calm`, after the exit | a coroutine is running, about to be resumed, in an entry still to be told, or no longer in I/O | `StopReaches` |
| `Unpolled` | every world, until the exit | a descriptor that is open and not polled is one a failed attempt left behind, at the end of its stream, so no wait begins on it | `RegistrationsLostTwoWays` |
| `Recalled` | only the client goes away, no tunnel, until the exit | an rsp that has lost its registration, or has not started, has a notice, or req is on its way to post one | the other half of `RspIsNotLeft` |

What made these hard, and what the proofs say about the code:

* The counts are not inductive without the places.  That the last reference to a
  server is not given back while a request lists it needs that the listed server is
  still in the pool (`Placed`), which is why a replaced pool entry, with a server that
  closes, breaks the counts.  There is one moment at which a pooled connection is
  closed though servers stay: rsp has closed it after a reply that ends with the
  stream, and has not yet deleted the entry (`Closing`).
* The counts are cardinalities; `CountAppend`, `CountTail` and `PoolCount` reduce a
  step to a difference of one.
* `Quiet` has to exclude a call of rsp after its end, although rsp may leave a handler
  behind.  Such a handler is at the client or at a pooled server (`RspAsked`).  rsp ends
  with no report and no call outstanding, and its notice makes req clean up before the
  next `epoll_wait`; then nothing is polled any more (`LeftLast`).  A bad request
  removes the argument: rsp may then end in the middle of a batch.
* `Dismissed` is about the order of two tests: rsp looks at the client's state before
  it waits (`net_handle.c:217`), and req gives up only when the client is closed
  (`Plain`) and posts its notice then (`net_handle.c:168`).
* `Registered` needs that the two coroutines never use one slot: req reads from the
  client and writes to its server, rsp reads from a server and writes to the client.
  An error reply or a tunnel breaks exactly that.
* `Told` starts from `Registered`: at the moment of the signal every paused coroutine
  is in the table, `EveryEntryDoomed` says that the copy `net_pull_done` works off
  has every entry, and from then on no I/O operation registers again.

* `RegistrationsLostTwoWays` looks at each step: a step of a coroutine is a wait, which
  registers it, or changes the slots only by a close (`ReqWaitsOrPasses`,
  `RspWaitsOrPasses`); a step of the main loop turns registrations into calls
  (`MainLosesNothing`).  That a wait registers at all needs that the connection is in
  net_pull's table (`Unpolled`): `net_pull_set_handler` ignores a descriptor it does not
  know.
* `RspIsNotLeft` uses that result: rsp's registration goes only by a step of req, and
  in these worlds only where req has found the client closed and is on its way, without
  stopping, to the exit notice (`ReqDropsClient`, `Gone`).  A notice stays queued until it
  resumes rsp (`NoticeStays`).

`Registered` and `Told`, like the others, were checked with TLC on the worlds of the
`session` run before they were proved.

### Lookups (`DnsProofs`)

| theorem | statement |
|---|---|
| `TypeCorrect` | `Spec => []TypeOK` |
| `NoCompletionDropped` | `Spec => []CompletionKept`: only the kernel, by not queueing a signal, loses a completion |
| `AnswersMatch` | `Spec => []RightAnswer` |
| `FrameOutlivesRequest` | `Spec => ReturnsAfterAnswer`, an action property: no lookup returns while the resolver uses its frame |

From `DnsAssumption`: the marks `none` and `running` of a request are no host
names.  The invariant ties each waiting call to its id (`IdsUnique`: no two calls
and no queued event share one; `Registered`: exactly the waiting calls have a
handler), to its request (`JobOfCall`) and to the signal (`PendingIsDone`: the
pointer in a pending signal leads to a frame that is still there and whose answer
is in; `QueuedIsDone`: so is that of a queued event).  `FrameOutlivesRequest`
follows from `QueuedIsDone`, since a call returns only through its event.

### Descriptor numbers (`DescriptorsProofs`)

| theorem | statement |
|---|---|
| `TypeCorrect` | `Spec => []TypeOK` |
| `TableAgrees` | `Spec => []TableMatchesKernel` |
| `HandlersAreOwners` | `Spec => []HandlerIsOwners` |
| `LeakFree` | `Spec => []OnlyFailedLeak` |
| `ClientsNoticed` | `Spec => []NoForgottenClient` |
| `TakenOnlyByStale` | `Spec => TakenByStale`, an action property: a number is taken from a connection only by another that remembers it and gives it up again |

From `DescriptorsAssumption`: the numbers are a finite set of positive numbers,
clients and servers are distinct and none of them is the listener.  The
number of a connection that is closed may belong to another, so the invariant
cannot say that a connection owns the number it remembers.  It says the
converse: an open socket belongs to a connection that remembers its number, or to
an attempt that failed (`SockOwned`), and the listening socket's number is
remembered by nobody (`FdKept`, `ListenerKept`).  The actions share their
effects on the table; `OpenedCore`, `GivenUpCore`, `FailedCore`, `MarkedCore`
show once for each effect that the invariant is kept.  `TakenByStale` speaks of all
states, also those after a first theft: the thief is a connection closed before, whose
`conn_done` closes its number again, or one that was robbed itself, whose `conn_close`
or `conn_done` does.  Since the first thief cannot have been robbed, every chain begins
with a `conn_done`.

### Only model-checked

Liveness (`EveryEventLeaves`, `EveryRequestAnswered`, `EveryLookupReturns`,
`MessageEnds`): fairness is out of the prover's reach.  `Uthash` (`HASH_FSCK`,
`FindsExactly`, its types, its refinement of `Table`) and `Pipe` with the parsers and
buffers of `Message` (`ForwardsPrefix`, `Delivered`, `RightServer`, its types): they
say what a walk along a chain, a fold over elements or a parse of a message computes,
and that needs induction over data, which is out of the prover's reach too.  The
least-counterexample argument of `EventProofs` replaces induction for one list whose
operations touch its ends; an expansion of the hash table rebuilds all chains in one
fold, and the parsers are folds themselves.

## 5. What else the models show of the code

Behaviour that was met while modelling, that no statement of the repository
contradicts, and that the models contain as it is:

* A second completion while one is pending is discarded by the kernel
  (`SIGUSR1` does not queue): its lookup never returns, there is no timeout.
* `conn_done` closes the number of a connection that was closed before; if the
  number belongs to another connection by then, that one loses its descriptor.  It
  does not notice: when the number is given out once more, its `conn_close` takes it
  from a third connection (`TakenByStale`), and its reads and writes go there.
* An event of a batch that is handled after its number has passed to another
  connection marks that connection closed (`net_pull.c:52-61`).
* A connect that fails after `EINPROGRESS` leaves its descriptor open
  (`conn.c:450`), although the function's other error path closes it.
* After an accept error other than `EAGAIN`, clients in the backlog wait for the
  next arrival.
* Header names: the pattern is not anchored and has no digits, so `X5: a: b` is
  read as a header `a`, and `X5: v` is refused; a name of 32 bytes or more is
  forwarded with what follows it in memory; names are compared with their case.
* `Host: h:81` loses its port when the target has no host of its own.
* A status line without a reason phrase is refused.  Byte 0xFF reads as an error.
* The response to a HEAD is given the body its headers announce.
* A chunk size that is not a number makes one byte be copied (`-1 + 2`).
* A bare CR as line end is recognised only with the byte behind it.
* `conn_copy` ignores the result of writing its buffered bytes; the order of what
  is sent survives, since the failed write has closed the receiver.
* Elements with one key change their order in a chain when buckets are doubled;
  which of two equal headers is found depends on it.

## 6. What is left

Every invariant that is checked of `Event`, `Handshake`, `Session`, `Dns` and
`Descriptors` is proved, and so are their action properties and the refinements of
`EventFifo` and `Handshake`.  The next step would be `Uthash`: the expansion split into a
step for each element, so that chains can be followed as in `EventProofs`.

**Not modelled.**  The free connection pool: `conn_free` has no caller (the call
at `net_handle.c:177` is commented out), so no state of the program has an entry
in it.  `conn_read`, `net_data_set_ent`, `net_data_del_ent`, `net_dns_lookup`,
`net_connect`: no caller.  A signal handler that interrupts a coroutine: what it
finds in the middle of a library call is not the program's own state.
`event_module_done`, `conn_module_done` and start-up: straight-line code before
the loop and before `exit`.  The wrap of the id counter: 2^32 ids.  Logging,
argument parsing, `proxy.c` (output and start-up), `csapp.c`, `utlist.h`,
`utstring.h`, `utarray.h` (third-party code that `core/` does not use), and in
`uthash.h` the hash functions, `HASH_SORT`, `HASH_SELECT` and the Bloom filter.
