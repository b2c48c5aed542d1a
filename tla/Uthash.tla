------------------------------- MODULE Uthash -------------------------------
(***************************************************************************)
(* uthash.h as the program uses it: the tables of headers (net_data.c),    *)
(* event handlers (event.c), descriptors (net_pull.c), pooled connections  *)
(* (net_handle.c, conn.c) and DNS answers (net_utils.c).  An element is in *)
(* two doubly linked lists, the one of the table and the one of its        *)
(* bucket; buckets double in number when one grows too long.               *)
(*                                                                         *)
(* The table frees itself with its last element.  Callers add a freshly    *)
(* allocated element and free what they delete in the same step; the       *)
(* handle of an element that is not allocated is NoHandle.                 *)
(***************************************************************************)
EXTENDS Integers, Sequences, FiniteSets, SequencesExt

CONSTANTS Elems,     \* the structs with a hash handle
          KeyOf,     \* [Elems -> keys]; two elements may have one key
          HashOf,    \* [Elems -> Nat]: the hash value of the key
          Null,
          Buckets,   \* HASH_INITIAL_NUM_BUCKETS
          Thresh     \* HASH_BKT_CAPACITY_THRESH

ASSUME UthashAssumption ==
    /\ Null \notin Elems /\ IsFiniteSet(Elems)
    /\ HashOf \in [Elems -> Nat]
    /\ \A e, f \in Elems : KeyOf[e] = KeyOf[f] => HashOf[e] = HashOf[f]
    /\ \E k \in 0 .. 16 : Buckets = 2 ^ k
    /\ Thresh \in Nat \ {0}

VARIABLES tbl,   \* UT_hash_table with head; head = Null when there is none
          hh     \* UT_hash_handle of every element

vars == <<tbl, hh>>

NoBucket == [hh_head |-> Null, count |-> 0, expand_mult |-> 0]

\* HASH_MAKE_TABLE, and the state before it.
NewTable == [head |-> Null, tail |-> Null, num_items |-> 0, num_buckets |-> Buckets,
             buckets |-> [b \in 0 .. Buckets - 1 |-> NoBucket],
             ineff_expands |-> 0, noexpand |-> FALSE]

NoHandle == [prev |-> Null, next |-> Null, hh_prev |-> Null, hh_next |-> Null]

Init == tbl = NewTable /\ hh = [e \in Elems |-> NoHandle]

\* The elements from e on along the pointers of field f.
Follow(h, f, e) ==
    LET N == Cardinality(Elems)
        at[i \in 0 .. N] == IF i = 0 THEN e
                            ELSE IF at[i - 1] = Null THEN Null ELSE h[at[i - 1]][f]
    IN  SelectSeq([i \in 1 .. N + 1 |-> at[i - 1]], LAMBDA x : x # Null)

HASH_ITER == Follow(hh, "next", tbl.head)

Chain(b) == Follow(hh, "hh_next", tbl.buckets[b].hh_head)

\* Mutant: the bucket of the initial table is used.
ToFirstBuckets(e, n) == HashOf[e] % Buckets

HASH_TO_BKT(e, n) == HashOf[e] % n

\* The first of its bucket's chain with e's key.
HASH_FIND(k, hash) ==
    LET found == IF tbl.head = Null THEN <<>>
                 ELSE SelectSeq(Chain(hash % tbl.num_buckets), LAMBDA x : KeyOf[x] = k)
    IN  IF found = <<>> THEN Null ELSE Head(found)
-----------------------------------------------------------------------------
\* Mutant: elements are moved without mending hh_prev.
PushNoPrev(s, b, e) ==
    [tbl |-> [s.tbl EXCEPT !.buckets[b].hh_head = e, !.buckets[b].count = @ + 1],
     hh  |-> [s.hh EXCEPT ![e].hh_next = s.tbl.buckets[b].hh_head, ![e].hh_prev = Null]]

\* Put e in front of bucket b; s is [tbl, hh].
PushFront(s, b, e) ==
    LET first == s.tbl.buckets[b].hh_head
        h1 == [s.hh EXCEPT ![e].hh_next = first, ![e].hh_prev = Null]
    IN  [tbl |-> [s.tbl EXCEPT !.buckets[b].hh_head = e, !.buckets[b].count = @ + 1],
         hh  |-> IF first = Null THEN h1 ELSE [h1 EXCEPT ![first].hh_prev = e]]

\* One element into the doubled table; a bucket longer than ideal gets a
\* multiplier, so that it may grow further before the next expansion.
Redistribute(s, e, ideal) ==
    LET b == HASH_TO_BKT(e, s.tbl.num_buckets)
        p == PushFront(s, b, e)
        n == p.tbl.buckets[b].count
        long == n > ideal
    IN  [tbl |-> IF long THEN [p.tbl EXCEPT !.buckets[b].expand_mult = n \div ideal]
                 ELSE p.tbl,
         hh |-> p.hh,
         nonideal |-> IF long THEN s.nonideal + 1 ELSE s.nonideal]

\* Mutant: one bucket more instead of twice as many.
OneMore(n) == n + 1

Doubled(n) == 2 * n

\* The old buckets are emptied in order, each from its front.
HASH_EXPAND_BUCKETS(s) ==
    LET n == Doubled(s.tbl.num_buckets)
        order == FlattenSeq([i \in 1 .. s.tbl.num_buckets |->
                     Follow(s.hh, "hh_next", s.tbl.buckets[i - 1].hh_head)])
        items == s.tbl.num_items
        ideal == items \div n + (IF items % n # 0 THEN 1 ELSE 0)
        empty == [tbl |-> [s.tbl EXCEPT !.num_buckets = n,
                              !.buckets = [b \in 0 .. n - 1 |-> NoBucket]],
                  hh |-> s.hh, nonideal |-> 0]
        full == FoldLeft(LAMBDA a, e : Redistribute(a, e, ideal), empty, order)
        bad == IF full.nonideal > items \div 2 THEN s.tbl.ineff_expands + 1 ELSE 0
    IN  [tbl |-> [full.tbl EXCEPT !.ineff_expands = bad, !.noexpand = @ \/ bad > 1],
         hh |-> full.hh]

HASH_ADD_TO_BKT(s, b, e) ==
    LET p == PushFront(s, b, e)
        k == p.tbl.buckets[b]
    IN  IF k.count >= (k.expand_mult + 1) * Thresh /\ ~p.tbl.noexpand
        THEN HASH_EXPAND_BUCKETS(p) ELSE p

\* At the end of the table's list, then in front of its bucket.
HASH_ADD(e) ==
    /\ e \notin ToSet(HASH_ITER)
    /\ LET last == tbl.tail
           h1 == [hh EXCEPT ![e].next = Null, ![e].prev = last]
           h2 == IF tbl.head = Null THEN h1 ELSE [h1 EXCEPT ![last].next = e]
           t1 == [(IF tbl.head = Null THEN [NewTable EXCEPT !.head = e] ELSE tbl)
                     EXCEPT !.tail = e, !.num_items = @ + 1]
           s == HASH_ADD_TO_BKT([tbl |-> t1, hh |-> h2], HASH_TO_BKT(e, t1.num_buckets), e)
       IN  tbl' = s.tbl /\ hh' = s.hh

\* Set field f of x, when there is an x.
Mend(h, x, f, v) == IF x = Null THEN h ELSE [h EXCEPT ![x] = [h[x] EXCEPT ![f] = v]]

HASH_DEL_IN_BKT(s, b, e) ==
    LET p == s.hh[e].hh_prev
        n == s.hh[e].hh_next
    IN  [tbl |-> [s.tbl EXCEPT !.buckets[b].count = @ - 1,
                               !.buckets[b].hh_head = IF @ = e THEN n ELSE @],
         hh  |-> Mend(Mend(s.hh, p, "hh_next", n), n, "hh_prev", p)]

\* Mutant: the test for a first element is left out.
HeadMoves(e) == hh[e].next

NewHead(e) == IF hh[e].prev = Null THEN hh[e].next ELSE tbl.head

NewTail(e) == IF tbl.tail = e THEN hh[e].prev ELSE tbl.tail

\* The only element takes the table with it.  The caller then frees e.
HASH_DELETE(e) ==
    /\ e \in ToSet(HASH_ITER)
    /\ IF hh[e].prev = Null /\ hh[e].next = Null
       THEN tbl' = NewTable /\ hh' = [hh EXCEPT ![e] = NoHandle]
       ELSE LET p == hh[e].prev
                n == hh[e].next
                t1 == [tbl EXCEPT !.tail = NewTail(e), !.num_items = @ - 1,
                                  !.head = NewHead(e)]
                h1 == Mend(Mend(hh, p, "next", n), n, "prev", p)
                s == HASH_DEL_IN_BKT([tbl |-> t1, hh |-> h1],
                                     HASH_TO_BKT(e, tbl.num_buckets), e)
            IN  tbl' = s.tbl /\ hh' = [s.hh EXCEPT ![e] = NoHandle]

\* The table goes; the caller frees the elements.
HASH_CLEAR == tbl.head # Null /\ tbl' = NewTable /\ hh' = [e \in Elems |-> NoHandle]

Next == HASH_CLEAR \/ \E e \in Elems : HASH_ADD(e) \/ HASH_DELETE(e)

Spec == Init /\ [][Next]_vars
-----------------------------------------------------------------------------
(***************************************************************************)
(* Types; the number of buckets stays a power of two, which HASH_TO_BKT's  *)
(* mask relies on, and the tail ends the list that starts at the head.     *)
(***************************************************************************)
TypeOK ==
    /\ tbl.head \in Elems \cup {Null} /\ tbl.tail \in Elems \cup {Null}
    /\ tbl.num_items \in 0 .. Cardinality(Elems)
    /\ \E k \in 0 .. 16 : tbl.num_buckets = Buckets * 2 ^ k
    /\ DOMAIN tbl.buckets = 0 .. tbl.num_buckets - 1
    /\ tbl.tail = IF HASH_ITER = <<>> THEN Null ELSE Last(HASH_ITER)

\* Each element's back pointer names the one before it.
Linked(list, back) == \A i \in DOMAIN list :
    hh[list[i]][back] = IF i = 1 THEN Null ELSE list[i - 1]

(***************************************************************************)
(* HASH_FSCK (lines 278-328): back pointers and counts of the buckets and  *)
(* of the table's list agree with what the forward pointers lead to.       *)
(***************************************************************************)
HASH_FSCK ==
    /\ \A b \in DOMAIN tbl.buckets : /\ Linked(Chain(b), "hh_prev")
                                     /\ Len(Chain(b)) = tbl.buckets[b].count
    /\ Linked(HASH_ITER, "prev")
    /\ Len(HASH_ITER) = tbl.num_items
    /\ FoldFunction(LAMBDA b, n : b.count + n, 0, tbl.buckets) = tbl.num_items

(***************************************************************************)
(* A key is found exactly when an element with it is in the table, and     *)
(* what is found has that key, however often the buckets were doubled.     *)
(***************************************************************************)
FindsExactly ==
    \A e \in Elems :
        LET same == {x \in ToSet(HASH_ITER) : KeyOf[x] = KeyOf[e]}
            found == HASH_FIND(KeyOf[e], HashOf[e])
        IN  IF same = {} THEN found = Null ELSE found \in same

Items == INSTANCE Table WITH items <- HASH_ITER

(***************************************************************************)
(* The table is a list of its elements in order of addition (Table.tla).   *)
(***************************************************************************)
ImplementsTable == Items!Spec
=============================================================================
