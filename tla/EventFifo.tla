----------------------------- MODULE EventFifo -----------------------------
(***************************************************************************)
(* What the event module (core/event.c) promises to its callers: a queue   *)
(* of posted events that event_work() delivers one at a time, in the order *)
(* in which they were posted, each at most once, to the handler registered *)
(* for its id at the moment of delivery.  Handlers may themselves post,    *)
(* register and unregister.  Nothing is said here about the linked list    *)
(* that implements the queue; Event.tla is that list and implements this   *)
(* specification.                                                          *)
(***************************************************************************)
EXTENDS Naturals, Sequences

CONSTANTS Ids,         \* event ids
          Datas,       \* the void* data of a posted event
          Contexts,    \* the void* data registered with a handler
          NoHandler,   \* an id without a handler
          MaxLen       \* bound on the number of undelivered events

VARIABLES pending,     \* posted and not yet delivered, oldest first
          registered,  \* [Ids -> Contexts \cup {NoHandler}]
          call,        \* the handler call in progress, or <<>>
          working      \* event_work() is on the stack

vars == <<pending, registered, call, working>>

Init == /\ pending = <<>>
        /\ registered = [e \in Ids |-> NoHandler]
        /\ call = <<>>
        /\ working = FALSE

\* Other code runs only between two calls of event_work, or inside a handler.
ClientTurn == working => call # <<>>

Post(e, d) ==
    /\ ClientTurn /\ Len(pending) < MaxLen
    /\ pending' = Append(pending, <<e, d>>)
    /\ UNCHANGED <<registered, call, working>>

Register(e, c) ==
    /\ ClientTurn
    /\ registered' = [registered EXCEPT ![e] = c]
    /\ UNCHANGED <<pending, call, working>>

Enter == /\ ~working /\ working' = TRUE
         /\ UNCHANGED <<pending, registered, call>>

\* The oldest event leaves the queue: delivered if its id has a handler.
Deliver ==
    /\ working /\ call = <<>> /\ pending # <<>>
    /\ pending' = Tail(pending)
    /\ LET e == Head(pending)[1]
       IN  call' = IF registered[e] = NoHandler THEN <<>>
                   ELSE <<e, registered[e], Head(pending)[2]>>
    /\ UNCHANGED <<registered, working>>

HandlerReturns == /\ call # <<>> /\ call' = <<>>
                  /\ UNCHANGED <<pending, registered, working>>

\* event_work() returns only when nothing is left to deliver.
Leave == /\ working /\ call = <<>> /\ pending = <<>>
         /\ working' = FALSE
         /\ UNCHANGED <<pending, registered, call>>

Next == \/ \E e \in Ids : \/ \E d \in Datas : Post(e, d)
                          \/ \E c \in Contexts \cup {NoHandler} : Register(e, c)
        \/ Enter \/ Deliver \/ HandlerReturns \/ Leave

Spec == Init /\ [][Next]_vars
=============================================================================
