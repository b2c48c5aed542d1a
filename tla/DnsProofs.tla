----------------------------- MODULE DnsProofs -----------------------------
(***************************************************************************)
(* Proofs, for any number of coroutines, names and lookups, that only the  *)
(* kernel can lose a completion, that a lookup's frame is not left before  *)
(* its answer is in, and that every name gets its own answer.  All follow  *)
(* from the inductive invariant IInv.                                      *)
(***************************************************************************)
EXTENDS Dns, TLAPS, SequenceTheorems

Waits(c) == at[c] = "waiting"

Queued(c) == \E i \in 1 .. Len(queue) : queue[i] = eid[c]

\* What each variable holds; ids are below the counter that hands them out.
Types ==
    /\ at \in [Coros -> {"out", "waiting"}]
    /\ host \in [Coros -> Hosts \cup {None}]
    /\ eid \in [Coros -> Nat]
    /\ job \in [Coros -> Hosts \cup {None, "none", "running"}]
    /\ pending \in Coros \cup {None}
    /\ {edge, armed, reading} \subseteq BOOLEAN
    /\ queue \in Seq(Nat)
    /\ next \in Nat
    /\ lost \subseteq Coros
    /\ cache \subseteq [host : Hosts, result : Hosts]
    /\ result \in [Coros -> Hosts \cup {None}]

\* An id belongs to one call: neither a waiting coroutine nor a queued event has
\* one that is still to be handed out, and no two calls have the same.
IdsUnique ==
    /\ \A c \in Coros : Waits(c) => eid[c] < next
    /\ \A i \in 1 .. Len(queue) : queue[i] < next
    /\ \A c, d \in Coros : Waits(c) /\ Waits(d) /\ c # d => eid[c] # eid[d]

\* conn_async_final registers exactly the coroutines that wait.
Registered == handlers = {[eid |-> eid[c], c |-> c] : c \in {d \in Coros : Waits(d)}}

\* The resolver works for the calls that wait, and answers their question.
JobOfCall ==
    \A c \in Coros : /\ job[c] = "none" <=> ~Waits(c)
                     /\ job[c] \in {"none", "running", None, host[c]}

\* The signal's pointer leads into a frame that is still there: its call has its
\* answer and has not been posted.
PendingIsDone ==
    pending # None => /\ Waits(pending) /\ job[pending] # "running"
                      /\ ~Queued(pending)
                      /\ edge \/ reading

\* A call whose event is queued has its answer.
QueuedIsDone == \A c \in Coros : Waits(c) /\ Queued(c) => job[c] # "running"

\* Every completed call is on its way back, or the kernel dropped its signal.
Kept == \A c \in Coros : Waits(c) /\ job[c] # "running"
                         => pending = c \/ Queued(c) \/ c \in lost

IInv == /\ Types /\ IdsUnique /\ Registered /\ JobOfCall /\ armed
        /\ PendingIsDone /\ QueuedIsDone /\ Kept /\ RightAnswer

-----------------------------------------------------------------------------
\* At the start no call is under way.
LEMMA InitIInv == Init => IInv
<1> SUFFICES ASSUME Init PROVE IInv
  OBVIOUS
<1>1. \A c \in Coros : ~Waits(c)
  BY DEF Init, Waits
<1>2. queue = <<>> /\ queue \in Seq(Nat) /\ Len(queue) = 0
  BY DEF Init
<1>3. Types
  BY <1>2 DEF Init, Types
<1>4. Registered
  BY <1>1 DEF Init, Registered
<1>5. JobOfCall /\ RightAnswer
  BY <1>1 DEF Init, JobOfCall, RightAnswer
<1>6. IdsUnique /\ QueuedIsDone /\ Kept
  BY <1>1, <1>2 DEF IdsUnique, QueuedIsDone, Kept
<1>7. armed /\ PendingIsDone
  BY DEF Init, PendingIsDone
<1> QED
  BY <1>3, <1>4, <1>5, <1>6, <1>7 DEF IInv

\* A call the cache answers: the entry found has the name and its address.
LEMMA HitIInv ==
  ASSUME IInv, NEW c \in Coros, lookup_hit(c)
  PROVE  IInv'
<1> USE DEF frame, signal, loop
<1>1. /\ UNCHANGED <<at, eid, job, pending, edge, lost, armed, reading, queue, handlers, next, cache>>
      /\ at[c] = "out"
  BY DEF lookup_hit
<1>2. PICK e \in cache : /\ host' = [host EXCEPT ![c] = e.host]
                         /\ result' = [result EXCEPT ![c] = e.result]
  BY DEF lookup_hit
<1>3. e.host \in Hosts /\ e.result = e.host
  BY DEF IInv, Types, RightAnswer
<1>4. Types'
  BY <1>1, <1>2, <1>3 DEF IInv, Types
<1>5. \A d \in Coros : (Waits(d)' <=> Waits(d)) /\ (Queued(d)' <=> Queued(d))
  BY <1>1 DEF Waits, Queued
<1>6. IdsUnique' /\ Registered' /\ QueuedIsDone' /\ Kept' /\ PendingIsDone' /\ armed'
  BY <1>1
     DEF IInv, IdsUnique, Registered, QueuedIsDone, Kept, PendingIsDone, Waits, Queued
<1>7. JobOfCall'
  BY <1>1, <1>2 DEF IInv, Types, JobOfCall, Waits
<1>8. RightAnswer'
  BY <1>1, <1>2, <1>3 DEF IInv, Types, RightAnswer
<1> QED
  BY <1>4, <1>6, <1>7, <1>8 DEF IInv

\* A miss takes a fresh id: no event with it is queued, and no other call has it.
LEMMA MissIInv ==
  ASSUME IInv, NEW c \in Coros, NEW h \in Hosts, lookup_miss(c, h)
  PROVE  IInv'
<1> USE DEF frame, signal, loop
<1>1. /\ UNCHANGED <<pending, edge, lost, armed, reading, queue, cache, result>>
      /\ at[c] = "out"
      /\ next' = next + 1
      /\ host' = [host EXCEPT ![c] = h]
      /\ eid' = [eid EXCEPT ![c] = next]
      /\ at' = [at EXCEPT ![c] = "waiting"]
      /\ job' = [job EXCEPT ![c] = "running"]
      /\ handlers' = handlers \cup {[eid |-> next, c |-> c]}
  BY DEF lookup_miss, OwnId
<1>2. Types /\ IdsUnique
  BY DEF IInv
<1>3. Types'
  BY <1>1, <1>2 DEF Types
<1>4. /\ ~Waits(c) /\ Waits(c)' /\ eid'[c] = next
      /\ \A d \in Coros \ {c} : (Waits(d)' <=> Waits(d)) /\ eid'[d] = eid[d]
                                /\ job'[d] = job[d] /\ host'[d] = host[d]
  BY <1>1, <1>2 DEF Types, Waits
<1>5. /\ ~Queued(c)'
      /\ \A d \in Coros \ {c} : Queued(d)' <=> Queued(d)
  BY <1>1, <1>2, <1>4 DEF IdsUnique, Queued, Types
<1>6. IdsUnique'
  BY <1>1, <1>2, <1>4 DEF IdsUnique, Types
<1>7. Registered'
  <2>1. {d \in Coros : Waits(d)'} = {d \in Coros : Waits(d)} \cup {c}
    BY <1>4
  <2> QED
    BY <1>1, <1>4, <2>1 DEF IInv, Registered
<1>8. JobOfCall'
  BY <1>1, <1>2, <1>4 DEF IInv, JobOfCall, Types
<1>9. PendingIsDone'
  <2> SUFFICES ASSUME pending' # None PROVE PendingIsDone'
    BY DEF PendingIsDone
  <2>1. pending \in Coros /\ pending # None /\ Waits(pending) /\ pending # c
    BY <1>1, <1>2, <1>4 DEF IInv, PendingIsDone, Types
  <2> QED
    BY <1>1, <1>4, <1>5, <2>1 DEF IInv, PendingIsDone
<1>10. QueuedIsDone' /\ Kept'
  BY <1>1, <1>2, <1>4, <1>5 DEF IInv, QueuedIsDone, Kept, Types
<1>11. RightAnswer'
  BY <1>1, <1>2, <1>4 DEF IInv, RightAnswer, Waits
<1> QED
  BY <1>1, <1>3, <1>6, <1>7, <1>8, <1>9, <1>10, <1>11 DEF IInv

\* A call getaddrinfo_a refuses takes an id that is never used.
LEMMA RefusedIInv ==
  ASSUME IInv, NEW c \in Coros, NEW h \in Hosts, lookup_refused(c, h)
  PROVE  IInv'
<1> USE DEF frame, signal, loop
<1>1. /\ UNCHANGED <<at, eid, job, pending, edge, lost, armed, reading, queue, handlers, cache>>
      /\ at[c] = "out" /\ next' = next + 1
      /\ host' = [host EXCEPT ![c] = h]
      /\ result' = [result EXCEPT ![c] = None]
  BY DEF lookup_refused
<1>2. Types'
  BY <1>1 DEF IInv, Types
<1>3. IdsUnique'
  BY <1>1 DEF IInv, IdsUnique, Types, Waits
<1>4. Registered' /\ QueuedIsDone' /\ Kept' /\ PendingIsDone' /\ armed'
  BY <1>1 DEF IInv, Registered, QueuedIsDone, Kept, PendingIsDone, Waits, Queued
<1>5. JobOfCall' /\ RightAnswer'
  BY <1>1 DEF IInv, Types, JobOfCall, RightAnswer, Waits
<1> QED
  BY <1>1, <1>2, <1>3, <1>4, <1>5 DEF IInv

\* A completion is signalled, or its signal is discarded.
LEMMA ResolveIInv ==
  ASSUME IInv, NEW c \in Coros, NEW answer \in {host[c], None}, Resolve(c, answer)
  PROVE  IInv'
<1> USE DEF frame, signal, loop
<1>1. /\ UNCHANGED <<at, host, eid, armed, reading, queue, handlers, next, cache, result>>
      /\ job[c] = "running" /\ job' = [job EXCEPT ![c] = answer]
      /\ \/ pending = None /\ pending' = c /\ edge' = TRUE /\ lost' = lost
         \/ pending # None /\ lost' = lost \cup {c} /\ pending' = pending /\ edge' = edge
  BY DEF Resolve
<1>2. Types /\ JobOfCall
  BY DEF IInv
<1>3. Types'
  BY <1>1, <1>2 DEF Types
<1>4. /\ Waits(c) /\ job'[c] = answer /\ answer \notin {"none", "running"}
      /\ \A d \in Coros \ {c} : job'[d] = job[d]
      /\ \A d \in Coros : (Waits(d)' <=> Waits(d)) /\ (Queued(d)' <=> Queued(d))
  BY <1>1, <1>2, DnsAssumption DEF Types, JobOfCall, Waits, Queued
<1>5. IdsUnique' /\ Registered' /\ armed' /\ RightAnswer'
  BY <1>1 DEF IInv, IdsUnique, Registered, RightAnswer, Waits
<1>6. JobOfCall'
  BY <1>1, <1>2, <1>4 DEF JobOfCall
<1>7. ~Queued(c)
  BY <1>1, <1>4 DEF IInv, QueuedIsDone
<1>8. PendingIsDone'
  <2>1. CASE pending = None
    BY <1>1, <1>4, <1>7, <2>1 DEF PendingIsDone
  <2>2. CASE pending # None
    <3>1. pending \in Coros /\ pending # c /\ pending' = pending
      BY <1>1, <1>2, <2>2 DEF IInv, PendingIsDone, Types
    <3> QED
      BY <1>1, <1>4, <2>2, <3>1 DEF IInv, PendingIsDone
  <2> QED
    BY <2>1, <2>2
<1>9. QueuedIsDone'
  BY <1>4, <1>7 DEF IInv, QueuedIsDone
<1>10. Kept'
  <2> SUFFICES ASSUME NEW d \in Coros, Waits(d)', job'[d] # "running"
               PROVE  pending' = d \/ Queued(d)' \/ d \in lost'
    BY DEF Kept
  <2>1. CASE d = c
    BY <1>1, <2>1
  <2>2. CASE d # c
    <3>1. pending = d \/ Queued(d) \/ d \in lost
      BY <1>4, <2>2 DEF IInv, Kept
    <3> QED
      BY <1>1, <1>2, <1>4, <3>1, DnsAssumption DEF Types
  <2> QED
    BY <2>1, <2>2
<1> QED
  BY <1>3, <1>5, <1>6, <1>8, <1>9, <1>10 DEF IInv

\* The handler starts its loop: armed, so the edge is not lost on it.
LEMMA EnterIInv == IInv /\ dns_notify_enter => IInv'
<1> SUFFICES ASSUME IInv, dns_notify_enter PROVE IInv'
  OBVIOUS
<1> USE DEF frame, signal, loop
<1>1. /\ UNCHANGED <<at, host, eid, job, pending, lost, armed, queue, handlers, next, cache, result>>
      /\ edge' = FALSE /\ reading' = armed /\ armed
  BY DEF IInv, dns_notify_enter
<1>2. Types'
  BY <1>1 DEF IInv, Types
<1>3. IdsUnique' /\ Registered' /\ JobOfCall' /\ QueuedIsDone' /\ Kept' /\ RightAnswer'
  BY <1>1 DEF IInv, IdsUnique, Registered, JobOfCall, QueuedIsDone, Kept,
              RightAnswer, Waits, Queued
<1>4. PendingIsDone'
  BY <1>1 DEF IInv, PendingIsDone, Waits, Queued
<1> QED
  BY <1>1, <1>2, <1>3, <1>4 DEF IInv

\* A signal is read: the event of its call goes into the queue.
LEMMA ReadIInv == IInv /\ dns_notify_read => IInv'
<1> SUFFICES ASSUME IInv, dns_notify_read PROVE IInv'
  OBVIOUS
<1> USE DEF frame, signal, loop
<1>1. /\ UNCHANGED <<at, host, eid, job, edge, lost, armed, reading, handlers, next, cache, result>>
      /\ pending # None /\ queue' = Append(queue, eid[pending]) /\ pending' = None
  BY DEF dns_notify_read
<1>2. /\ pending \in Coros /\ eid[pending] \in Nat /\ queue \in Seq(Nat)
      /\ Waits(pending) /\ job[pending] # "running" /\ eid[pending] < next
  BY <1>1 DEF IInv, Types, PendingIsDone, IdsUnique
<1>3. /\ queue' \in Seq(Nat) /\ Len(queue) \in Nat /\ Len(queue') = Len(queue) + 1
      /\ \A i \in 1 .. Len(queue) : queue'[i] = queue[i]
      /\ queue'[Len(queue) + 1] = eid[pending]
  BY <1>1, <1>2, AppendProperties
<1>4. Types'
  BY <1>1, <1>3 DEF IInv, Types
<1>5. /\ \A c \in Coros : Waits(c)' <=> Waits(c)
      /\ \A c \in Coros : Queued(c)' <=> (Queued(c) \/ eid[c] = eid[pending])
  BY <1>1, <1>3 DEF Waits, Queued
<1>6. IdsUnique'
  BY <1>1, <1>2, <1>3, <1>5 DEF IInv, IdsUnique
<1>7. Registered' /\ JobOfCall' /\ RightAnswer'
  BY <1>1 DEF IInv, Registered, JobOfCall, RightAnswer, Waits
<1>8. PendingIsDone'
  BY <1>1 DEF PendingIsDone
<1>9. QueuedIsDone' /\ Kept'
  BY <1>1, <1>2, <1>5 DEF IInv, IdsUnique, QueuedIsDone, Kept
<1> QED
  BY <1>1, <1>4, <1>6, <1>7, <1>8, <1>9 DEF IInv

\* The loop ends only with no signal pending, so none is left without an edge.
LEMMA LeaveIInv == IInv /\ dns_notify_leave => IInv'
<1> SUFFICES ASSUME IInv, dns_notify_leave PROVE IInv'
  OBVIOUS
<1> USE DEF frame, signal, loop
<1>1. /\ UNCHANGED <<at, host, eid, job, pending, edge, lost, armed, queue, handlers, next, cache, result>>
      /\ reading' = FALSE /\ pending = None
  BY DEF dns_notify_leave
<1>2. Types'
  BY <1>1 DEF IInv, Types
<1>3. IdsUnique' /\ Registered' /\ JobOfCall' /\ QueuedIsDone' /\ Kept' /\ RightAnswer'
  BY <1>1 DEF IInv, IdsUnique, Registered, JobOfCall, QueuedIsDone, Kept,
              RightAnswer, Waits, Queued
<1>4. PendingIsDone'
  BY <1>1 DEF PendingIsDone
<1> QED
  BY <1>1, <1>2, <1>3, <1>4 DEF IInv

\* An event resumes the call that waits on its id.
LEMMA FinalIInv ==
  ASSUME IInv, event_work, NEW c \in Coros, Waits(c), eid[c] = Head(queue), dns_final(c)
  PROVE  IInv'
<1> USE DEF frame, signal, loop
<1>1. /\ UNCHANGED <<host, eid, pending, edge, lost, armed, reading, next>>
      /\ queue # <<>> /\ queue' = Tail(queue)
      /\ at' = [at EXCEPT ![c] = "out"]
      /\ handlers' = {e \in handlers : e.eid # eid[c]}
      /\ result' = [result EXCEPT ![c] = job[c]]
      /\ cache' = IF job[c] = None THEN cache
                  ELSE cache \cup {[host |-> host[c], result |-> job[c]]}
      /\ job' = [job EXCEPT ![c] = "none"]
  BY DEF event_work, dns_final
<1>2. Types /\ IdsUnique /\ JobOfCall
  BY DEF IInv
<1>3. /\ queue' \in Seq(Nat) /\ Len(queue) \in Nat /\ Len(queue) >= 1
      /\ Len(queue') = Len(queue) - 1 /\ Head(queue) = queue[1]
      /\ \A i \in 1 .. Len(queue') : queue'[i] = queue[i + 1]
  BY <1>1, <1>2, HeadTailProperties, EmptySeq DEF Types
<1>4. Queued(c)
  BY <1>3 DEF Queued
<1>5. job[c] \in {None, host[c]} /\ job[c] \notin {"none", "running"}
  BY <1>2, <1>4 DEF IInv, QueuedIsDone, JobOfCall
<1>6. job[c] # None => job[c] \in Hosts /\ job[c] = host[c]
  BY <1>2, <1>5 DEF Types
<1>7. Types'
  <2>1. cache' \subseteq [host : Hosts, result : Hosts]
    BY <1>1, <1>2, <1>6 DEF Types
  <2>2. /\ at' \in [Coros -> {"out", "waiting"}]
        /\ job' \in [Coros -> Hosts \cup {None, "none", "running"}]
        /\ result' \in [Coros -> Hosts \cup {None}]
    BY <1>1, <1>2, <1>5, <1>6 DEF Types
  <2> QED
    BY <1>1, <1>2, <1>3, <2>1, <2>2 DEF Types
<1>8. /\ ~Waits(c)' /\ job'[c] = "none" /\ result'[c] = job[c]
      /\ \A d \in Coros \ {c} : /\ Waits(d)' <=> Waits(d)
                                /\ job'[d] = job[d] /\ result'[d] = result[d]
  BY <1>1, <1>2 DEF Types, Waits
<1>9. \A d \in Coros : Waits(d) /\ d # c => (Queued(d)' <=> Queued(d))
  <2> SUFFICES ASSUME NEW d \in Coros, Waits(d), d # c
               PROVE  Queued(d)' <=> Queued(d)
    OBVIOUS
  <2>1. eid[d] # eid[c] /\ eid' = eid
    BY <1>1, <1>2 DEF IdsUnique
  <2>2. ASSUME Queued(d) PROVE Queued(d)'
    <3>1. PICK i \in 1 .. Len(queue) : queue[i] = eid[d]
      BY <2>2 DEF Queued
    <3>2. i # 1 /\ i - 1 \in 1 .. Len(queue')
      BY <1>3, <2>1, <3>1
    <3>3. queue'[i - 1] = eid'[d]
      BY <1>3, <2>1, <3>1, <3>2
    <3> QED
      BY <3>2, <3>3 DEF Queued
  <2>3. ASSUME Queued(d)' PROVE Queued(d)
    <3>1. PICK i \in 1 .. Len(queue') : queue'[i] = eid[d]
      BY <2>1, <2>3 DEF Queued
    <3>2. i + 1 \in 1 .. Len(queue) /\ queue[i + 1] = eid[d]
      BY <1>3, <3>1
    <3> QED
      BY <3>2 DEF Queued
  <2> QED
    BY <2>2, <2>3
<1>10. IdsUnique'
  <2>1. \A i \in 1 .. Len(queue') : queue'[i] < next
    BY <1>2, <1>3 DEF IdsUnique
  <2> QED
    BY <1>1, <1>2, <1>8, <2>1 DEF IdsUnique
<1>11. Registered'
  <2>1. {d \in Coros : Waits(d)'} = {d \in Coros : Waits(d)} \ {c}
    BY <1>8
  <2>2. handlers = {[eid |-> eid[d], c |-> d] : d \in {b \in Coros : Waits(b)}}
    BY DEF IInv, Registered
  <2>3. handlers' = {[eid |-> eid[d], c |-> d] : d \in {b \in Coros : Waits(b)} \ {c}}
    BY <1>1, <1>2, <2>2 DEF IdsUnique
  <2> QED
    BY <1>1, <2>1, <2>3 DEF Registered
<1>12. JobOfCall'
  BY <1>1, <1>2, <1>8 DEF JobOfCall
<1>13. PendingIsDone'
  <2> SUFFICES ASSUME pending' # None PROVE PendingIsDone'
    BY DEF PendingIsDone
  <2>1. /\ pending \in Coros /\ Waits(pending) /\ job[pending] # "running"
        /\ ~Queued(pending) /\ (edge \/ reading) /\ pending # c
    BY <1>1, <1>2, <1>4 DEF IInv, PendingIsDone, Types
  <2> QED
    BY <1>1, <1>8, <1>9, <2>1 DEF PendingIsDone
<1>14. QueuedIsDone' /\ Kept'
  BY <1>1, <1>8, <1>9 DEF IInv, QueuedIsDone, Kept
<1>15. RightAnswer'
  <2>1. \A e \in cache' : e.result = e.host
    BY <1>1, <1>6 DEF IInv, RightAnswer
  <2>2. \A d \in Coros : at'[d] = "out" => result'[d] \in {None, host'[d]}
    BY <1>1, <1>2, <1>5, <1>8 DEF IInv, RightAnswer, Types
  <2> QED
    BY <2>1, <2>2 DEF RightAnswer
<1> QED
  BY <1>1, <1>7, <1>10, <1>11, <1>12, <1>13, <1>14, <1>15 DEF IInv

\* An event nobody waits for is dropped; nothing waits for the others less.
LEMMA DroppedIInv ==
  ASSUME IInv, event_work, \A e \in handlers : e.eid # Head(queue),
         UNCHANGED <<at, handlers, result, cache, job>>
  PROVE  IInv'
<1> USE DEF frame, signal, loop
<1>1. /\ UNCHANGED <<host, eid, pending, edge, lost, armed, reading, next>>
      /\ queue # <<>> /\ queue' = Tail(queue)
  BY DEF event_work
<1>2. Types /\ IdsUnique
  BY DEF IInv
<1>3. /\ queue' \in Seq(Nat) /\ Len(queue) \in Nat /\ Len(queue) >= 1
      /\ Len(queue') = Len(queue) - 1 /\ Head(queue) = queue[1]
      /\ \A i \in 1 .. Len(queue') : queue'[i] = queue[i + 1]
  BY <1>1, <1>2, HeadTailProperties, EmptySeq DEF Types
<1>4. \A d \in Coros : Waits(d) => eid[d] # queue[1]
  <2> SUFFICES ASSUME NEW d \in Coros, Waits(d) PROVE eid[d] # queue[1]
    OBVIOUS
  <2>1. [eid |-> eid[d], c |-> d] \in handlers
    BY DEF IInv, Registered
  <2>2. [eid |-> eid[d], c |-> d].eid = eid[d]
    OBVIOUS
  <2> QED
    BY <1>3, <2>1, <2>2
<1>5. \A d \in Coros : Waits(d) => (Queued(d)' <=> Queued(d))
  <2> SUFFICES ASSUME NEW d \in Coros, Waits(d)
               PROVE  Queued(d)' <=> Queued(d)
    OBVIOUS
  <2>1. ASSUME Queued(d) PROVE Queued(d)'
    <3>1. PICK i \in 1 .. Len(queue) : queue[i] = eid[d]
      BY <2>1 DEF Queued
    <3>2. i # 1 /\ i - 1 \in 1 .. Len(queue')
      BY <1>3, <1>4, <3>1
    <3>3. queue'[i - 1] = eid'[d]
      BY <1>1, <1>3, <3>1, <3>2
    <3> QED
      BY <3>2, <3>3 DEF Queued
  <2>2. ASSUME Queued(d)' PROVE Queued(d)
    <3>1. PICK i \in 1 .. Len(queue') : queue'[i] = eid[d]
      BY <1>1, <2>2 DEF Queued
    <3>2. i + 1 \in 1 .. Len(queue) /\ queue[i + 1] = eid[d]
      BY <1>3, <3>1
    <3> QED
      BY <3>2 DEF Queued
  <2> QED
    BY <2>1, <2>2
<1>6. Types'
  BY <1>1, <1>2, <1>3 DEF Types
<1>7. IdsUnique'
  <2>1. \A i \in 1 .. Len(queue') : queue'[i] < next
    BY <1>2, <1>3 DEF IdsUnique
  <2> QED
    BY <1>1, <1>2, <2>1 DEF IdsUnique, Waits
<1>8. Registered' /\ JobOfCall' /\ RightAnswer' /\ armed'
  BY <1>1 DEF IInv, Registered, JobOfCall, RightAnswer, Waits
<1>9. PendingIsDone' /\ QueuedIsDone' /\ Kept'
  <2>1. PendingIsDone'
    <3> SUFFICES ASSUME pending' # None PROVE PendingIsDone'
      BY DEF PendingIsDone
    <3>1. /\ pending \in Coros /\ Waits(pending) /\ job[pending] # "running"
          /\ ~Queued(pending) /\ (edge \/ reading)
      BY <1>1, <1>2 DEF IInv, PendingIsDone, Types
    <3> QED
      BY <1>1, <1>5, <3>1 DEF PendingIsDone, Waits
  <2>2. QueuedIsDone' /\ Kept'
    BY <1>1, <1>5 DEF IInv, QueuedIsDone, Kept, Waits
  <2> QED
    BY <2>1, <2>2
<1> QED
  BY <1>6, <1>7, <1>8, <1>9 DEF IInv

\* event_work finds the call of the event at the head, or none.
LEMMA WorkCases ==
  ASSUME IInv, event_work
  PROVE  \/ \E c \in Coros : Waits(c) /\ eid[c] = Head(queue) /\ dns_final(c)
         \/ /\ \A e \in handlers : e.eid # Head(queue)
            /\ UNCHANGED <<at, handlers, result, cache, job>>
<1>1. CASE \E e \in handlers : e.eid = Head(queue) /\ dns_final(e.c)
  <2>1. PICK e \in handlers : e.eid = Head(queue) /\ dns_final(e.c)
    BY <1>1
  <2>2. PICK c \in Coros : Waits(c) /\ e = [eid |-> eid[c], c |-> c]
    BY DEF IInv, Registered
  <2>3. e.c = c /\ e.eid = eid[c]
    BY <2>2
  <2> QED
    BY <2>1, <2>2, <2>3
<1> QED
  BY <1>1 DEF event_work

\* The invariant holds in every step.
LEMMA StepIInv == IInv /\ [Next]_vars => IInv'
<1> SUFFICES ASSUME IInv, [Next]_vars PROVE IInv'
  OBVIOUS
<1>1. ASSUME NEW c \in Coros, lookup_hit(c) PROVE IInv'
  BY <1>1, HitIInv
<1>2. ASSUME NEW c \in Coros, NEW h \in Hosts, lookup_miss(c, h) PROVE IInv'
  BY <1>2, MissIInv
<1>3. ASSUME NEW c \in Coros, NEW h \in Hosts, lookup_refused(c, h) PROVE IInv'
  BY <1>3, RefusedIInv
<1>4. ASSUME NEW c \in Coros, Resolver(c) PROVE IInv'
  BY <1>4, ResolveIInv DEF Resolver
<1>5. CASE MainLoop
  BY <1>5, EnterIInv, ReadIInv, LeaveIInv, WorkCases, FinalIInv, DroppedIInv DEF MainLoop
<1>6. CASE UNCHANGED vars
  BY <1>6 DEF vars, frame, signal, loop, IInv, Types, IdsUnique, Registered, JobOfCall,
              PendingIsDone, QueuedIsDone, Kept, RightAnswer, Waits, Queued
<1> QED
  BY <1>1, <1>2, <1>3, <1>4, <1>5, <1>6 DEF Next

\* The inductive invariant gives the three that the run checks.
LEMMA IInvImplies == IInv => TypeOK /\ CompletionKept /\ RightAnswer
<1> SUFFICES ASSUME IInv PROVE TypeOK /\ CompletionKept /\ RightAnswer
  OBVIOUS
<1>1. TypeOK
  BY DEF IInv, Types, IdsUnique, Registered, JobOfCall, PendingIsDone, Waits, TypeOK
<1>2. CompletionKept
  <2> SUFFICES ASSUME NEW c \in Coros, Waits(c), job[c] # "running"
               PROVE  \/ pending = c /\ armed /\ (edge \/ reading)
                      \/ \E i \in DOMAIN queue : queue[i] = eid[c]
                      \/ c \in lost
    BY DEF CompletionKept, Waits
  <2>1. pending = c => armed /\ (edge \/ reading)
    BY DnsAssumption DEF IInv, PendingIsDone
  <2>2. DOMAIN queue = 1 .. Len(queue)
    BY DEF IInv, Types
  <2> QED
    BY <2>1, <2>2 DEF IInv, Kept, Queued
<1> QED
  BY <1>1, <1>2 DEF IInv

\* Every state satisfies the inductive invariant.
THEOREM Inductive == Spec => []IInv
  BY InitIInv, StepIInv, PTL DEF Spec

\* TypeOK: an id is registered for the one coroutine that waits on it, and the
\* pending signal points into a frame that exists (net_utils.c, conn_async_final).
THEOREM TypeCorrect == Spec => []TypeOK
  BY Inductive, IInvImplies, PTL

\* CompletionKept: dns_notify_handler and event_work lose no completion; only
\* the kernel does, by discarding a signal while another is pending.
THEOREM NoCompletionDropped == Spec => []CompletionKept
  BY Inductive, IInvImplies, PTL

\* RightAnswer: dns_final stores and returns each name's own address, however
\* the lookups of several coroutines overlap.
THEOREM AnswersMatch == Spec => []RightAnswer
  BY Inductive, IInvImplies, PTL

\* ReturnsAfterAnswer: the frame that getaddrinfo_a's request lies in is left
\* only once the resolver is through with it.
THEOREM FrameOutlivesRequest == Spec => ReturnsAfterAnswer
<1>1. IInv /\ [Next]_vars =>
        [\A c \in Coros : (at[c] = "waiting" /\ at'[c] = "out") => job[c] # "running"]_vars
  <2> SUFFICES ASSUME IInv, Next, NEW c \in Coros, at[c] = "waiting", at'[c] = "out"
               PROVE  job[c] # "running"
    OBVIOUS
  <2> USE DEF frame
  <2>1. at \in [Coros -> {"out", "waiting"}]
    BY DEF IInv, Types
  <2>2. event_work
    <3>1. at' # at
      OBVIOUS
    <3>2. ASSUME NEW d \in Coros, NEW h \in Hosts PROVE ~lookup_miss(d, h)
      BY <2>1 DEF lookup_miss
    <3> QED
      BY <3>1, <3>2 DEF Next, MainLoop, Resolver, Resolve, lookup_hit, lookup_refused,
                        dns_notify_enter, dns_notify_read, dns_notify_leave
  <2>3. PICK d \in Coros : Waits(d) /\ eid[d] = Head(queue) /\ dns_final(d)
    BY <2>2, WorkCases
  <2>4. d = c
    BY <2>1, <2>3 DEF dns_final
  <2>5. queue \in Seq(Nat) /\ queue # <<>>
    BY <2>2 DEF IInv, Types, event_work
  <2>6. Len(queue) \in Nat /\ Len(queue) >= 1 /\ Head(queue) = queue[1]
    BY <2>5, HeadTailProperties, EmptySeq
  <2> QED
    BY <2>3, <2>4, <2>6 DEF IInv, QueuedIsDone, Queued
<1> QED
  BY <1>1, Inductive, PTL DEF Spec, ReturnsAfterAnswer
=============================================================================
