------------------------------ MODULE MCEvent ------------------------------
(* The event queue with three heap cells, so that an address is handed out *)
(* again while events are pending, two ids and two handler contexts.       *)
EXTENDS Event
=============================================================================
