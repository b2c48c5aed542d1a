------------------------------- MODULE Table -------------------------------
(***************************************************************************)
(* What the program expects of a uthash table: the elements added and not  *)
(* deleted, in the order of their addition, which is the order HASH_ITER   *)
(* visits them in.  Several elements may have one key.                     *)
(***************************************************************************)
EXTENDS Sequences, SequencesExt

CONSTANT Elems

VARIABLE items

Init == items = <<>>

Add(e) == e \notin ToSet(items) /\ items' = Append(items, e)

Delete(e) == e \in ToSet(items) /\ items' = SelectSeq(items, LAMBDA x : x # e)

Clear == items' = <<>>

Next == Clear \/ \E e \in Elems : Add(e) \/ Delete(e)

Spec == Init /\ [][Next]_items
=============================================================================
