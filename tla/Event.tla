------------------------------- MODULE Event -------------------------------
(***************************************************************************)
(* core/event.c: the event queue of the single-threaded main loop, with    *)
(* its singly linked list of heap cells and its head and tail pointers.    *)
(*                                                                         *)
(* event_work() leaves the cell it is dispatching at the head of the list  *)
(* while the handler runs, so a handler that posts appends behind a cell   *)
(* that is about to be freed; tail is cleared only when the loop ends.     *)
(* Cells are memory: a cell that was freed may be handed out again by the  *)
(* next mem_alloc, which is how a stale tail would corrupt the queue.      *)
(***************************************************************************)
EXTENDS Naturals, Sequences, FiniteSets, Functions

CONSTANTS Cells,       \* addresses malloc can return; bounds the queue
          NULL,        \* the null pointer
          MaxId,       \* bound on the number of ids event_get_id hands out
          Datas, Contexts, NoHandler

ASSUME EventAssumption == /\ NULL \notin Cells /\ IsFiniteSet(Cells)
                          /\ NoHandler \notin Contexts
                          /\ MaxId \in Nat

Ids == 0 .. MaxId - 1

VARIABLES head, tail,  \* static struct event *head, *tail
          cell,        \* [Cells -> [eid, data, next]]
          live,        \* the allocated cells
          handlers,    \* the handler table: [Ids -> Contexts \cup {NoHandler}]
          id_max,      \* the next id of event_get_id
          arg,         \* the context passed to the handler being called
          phase        \* "idle": not in event_work; "loop": at its while test;
                       \* "handler": inside h->handler(...)

vars == <<head, tail, cell, live, handlers, id_max, arg, phase>>
list == <<head, tail, cell, live>>

\* What a freed cell holds is not looked at: one value stands for it.
Blank == [eid |-> 0, data |-> NULL, next |-> NULL]

Init == /\ head = NULL /\ tail = NULL
        /\ cell = [c \in Cells |-> Blank]
        /\ live = {}
        /\ handlers = [e \in Ids |-> NoHandler]
        /\ id_max = 0
        /\ arg = NoHandler
        /\ phase = "idle"
-----------------------------------------------------------------------------
\* The callers of the module run outside event_work or in a handler.
ClientTurn == phase \in {"idle", "handler"}

event_get_id ==
    /\ ClientTurn /\ id_max < MaxId
    /\ id_max' = id_max + 1
    /\ UNCHANGED <<list, handlers, arg, phase>>

event_set_handler(e, ctx) ==
    /\ ClientTurn /\ e < id_max
    /\ handlers' = [handlers EXCEPT ![e] = ctx]
    /\ UNCHANGED <<list, id_max, arg, phase>>

event_free_id(e) ==
    /\ ClientTurn /\ handlers[e] # NoHandler
    /\ handlers' = [handlers EXCEPT ![e] = NoHandler]
    /\ UNCHANGED <<list, id_max, arg, phase>>

\* Mutant: the second event posted is linked but tail is left behind.
AppendKeepsTail(c, e, d) ==
    LET fresh == [cell EXCEPT ![c] = [eid |-> e, data |-> d, next |-> NULL]]
    IN  /\ live' = live \cup {c}
        /\ head' = IF tail = NULL THEN c ELSE head
        /\ tail' = IF tail = NULL THEN c ELSE tail
        /\ cell' = IF tail = NULL THEN fresh
                   ELSE [fresh EXCEPT ![tail].next = c]

\* Mutant: a post made while the queue is not empty goes in right behind head.
AppendBehindHead(c, e, d) ==
    LET rest  == IF tail = NULL THEN NULL ELSE cell[head].next
        fresh == [cell EXCEPT ![c] = [eid |-> e, data |-> d, next |-> rest]]
    IN  /\ live' = live \cup {c}
        /\ head' = IF tail = NULL THEN c ELSE head
        /\ tail' = IF rest = NULL THEN c ELSE tail
        /\ cell' = IF tail = NULL THEN fresh
                   ELSE [fresh EXCEPT ![head].next = c]

\* The list update of event_post: c is the cell mem_alloc returned.
AppendCell(c, e, d) ==
    LET fresh == [cell EXCEPT ![c] = [eid |-> e, data |-> d, next |-> NULL]]
    IN  /\ live' = live \cup {c}
        /\ head' = IF tail = NULL THEN c ELSE head
        /\ tail' = c
        /\ cell' = IF tail = NULL THEN fresh
                   ELSE [fresh EXCEPT ![tail].next = c]

event_post(e, d) ==
    /\ ClientTurn /\ e < id_max
    /\ \E c \in Cells \ live : AppendCell(c, e, d)
    /\ UNCHANGED <<handlers, id_max, arg, phase>>
-----------------------------------------------------------------------------
\* Lines 98-100: the head cell is freed and the list advances.
PopHead ==
    /\ head' = cell[head].next
    /\ live' = live \ {head}
    /\ cell' = [cell EXCEPT ![head] = Blank]
    /\ UNCHANGED tail

event_work_enter ==
    /\ phase = "idle" /\ phase' = "loop"
    /\ UNCHANGED <<list, handlers, id_max, arg>>

\* A handler is registered for the event: it is called, head stays in the list.
event_work_dispatch ==
    /\ phase = "loop" /\ head # NULL
    /\ handlers[cell[head].eid] # NoHandler
    /\ phase' = "handler" /\ arg' = handlers[cell[head].eid]
    /\ UNCHANGED <<list, handlers, id_max>>

\* Mutant: an event without a handler ends the loop instead of being dropped.
DropEndsLoop ==
    /\ phase = "loop" /\ head # NULL
    /\ handlers[cell[head].eid] = NoHandler
    /\ phase' = "idle"
    /\ UNCHANGED <<list, handlers, id_max, arg>>

\* "NO HANDLER FOUND!": the event is dropped.
event_work_drop ==
    /\ phase = "loop" /\ head # NULL
    /\ handlers[cell[head].eid] = NoHandler
    /\ PopHead
    /\ UNCHANGED <<handlers, id_max, arg, phase>>

event_work_advance ==
    /\ phase = "handler" /\ phase' = "loop"
    /\ arg' = NoHandler
    /\ PopHead
    /\ UNCHANGED <<handlers, id_max>>

\* Mutant: the loop ends without clearing tail.
LeaveKeepsTail ==
    /\ phase = "loop" /\ head = NULL
    /\ phase' = "idle"
    /\ UNCHANGED <<list, handlers, id_max, arg>>

event_work_leave ==
    /\ phase = "loop" /\ head = NULL
    /\ tail' = NULL
    /\ phase' = "idle"
    /\ UNCHANGED <<head, cell, live, handlers, id_max, arg>>

EventWork == \/ event_work_enter \/ event_work_dispatch \/ event_work_drop
             \/ event_work_advance \/ event_work_leave

Callers == \/ event_get_id
           \/ \E e \in Ids : \/ event_free_id(e)
                             \/ \E d \in Datas : event_post(e, d)
                             \/ \E c \in Contexts : event_set_handler(e, c)

Next == EventWork \/ Callers

\* The main loop calls event_work for ever, and a handler always returns to it:
\* a coroutine it resumes gives the stack back at its next async_yield.
Spec == Init /\ [][Next]_vars /\ WF_vars(EventWork)
-----------------------------------------------------------------------------
\* The allocated cells from head on, by following next, each of them once.
Follows(q) ==
    /\ IsInjective(q)
    /\ IF q = <<>> THEN head \notin live
       ELSE /\ q[1] = head
            /\ \A i \in 1 .. Len(q) - 1 : q[i + 1] = cell[q[i]].next
            /\ cell[q[Len(q)]].next \notin live \ Range(q)

Queue == CHOOSE q \in UNION {[1 .. n -> live] : n \in 0 .. Cardinality(live)} : Follows(q)

(***************************************************************************)
(* Every value has its type, and between two steps of event_work the       *)
(* pointers it keeps point to allocated cells: neither a post nor the loop *)
(* can touch freed memory through head or tail.                            *)
(***************************************************************************)
TypeOK ==
    /\ live \subseteq Cells
    /\ head \in live \cup {NULL}
    /\ phase # "loop" => tail \in live \cup {NULL}
    /\ cell \in [Cells -> [eid : Ids \cup {0}, data : Datas \cup {NULL},
                           next : Cells \cup {NULL}]]
    /\ handlers \in [Ids -> Contexts \cup {NoHandler}]
    /\ id_max \in 0 .. MaxId
    /\ arg \in Contexts \cup {NoHandler}
    /\ phase \in {"idle", "loop", "handler"}

(***************************************************************************)
(* The list is intact whatever handlers do: following next from head       *)
(* meets every allocated cell once (no event is lost, no cell leaks),      *)
(* ends in a null pointer, and tail is its last cell.                      *)
(***************************************************************************)
ListIntact ==
    /\ Len(Queue) = 0 => live = {} /\ head = NULL
    /\ Len(Queue) > 0 => /\ live = {Queue[i] : i \in 1 .. Len(Queue)}
                         /\ tail = Queue[Len(Queue)]
                         /\ cell[tail].next = NULL
    /\ phase = "handler" => head # NULL

(***************************************************************************)
(* Refinement: the list is the promised FIFO.  The cell at head while a    *)
(* handler runs has already been delivered, so it is not pending.          *)
(***************************************************************************)
Events(q) == [i \in 1 .. Len(q) |-> <<cell[q[i]].eid, cell[q[i]].data>>]

Fifo == INSTANCE EventFifo WITH
          MaxLen     <- Cardinality(Cells),
          pending    <- Events(IF phase = "handler" THEN Tail(Queue) ELSE Queue),
          registered <- handlers,
          call       <- IF phase = "handler"
                        THEN <<cell[head].eid, arg, cell[head].data>> ELSE <<>>,
          working    <- phase # "idle"

(***************************************************************************)
(* The list implements the promised queue: in order, each event once, to   *)
(* the handler registered when it is delivered, until nothing is left.     *)
(***************************************************************************)
ImplementsFifo == Fifo!Spec

(***************************************************************************)
(* Every posted event leaves the queue again, however many more events the *)
(* handlers post meanwhile.                                                *)
(***************************************************************************)
EveryEventLeaves == \A c \in Cells : (c \in live) ~> (c \notin live)
=============================================================================
