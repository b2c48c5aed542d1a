---------------------------- MODULE EventProofs ----------------------------
(***************************************************************************)
(* Proofs, for any number of cells, ids and contexts, that the linked list *)
(* of event.c stays intact and implements the promised queue               *)
(* (EventFifo.tla).  The pointers determine the list, so a step only has   *)
(* to be shown to leave some sequence of cells linked: that one is Queue.  *)
(***************************************************************************)
EXTENDS Event, LeastElement, FiniteSetTheorems, SequenceTheorems

\* q is the list: linked from head to a null pointer, all that is allocated, and
\* tail points to its last cell.
Chain(q) ==
    /\ q \in Seq(live)
    /\ \A i, j \in 1 .. Len(q) : q[i] = q[j] => i = j
    /\ \A c \in live : \E i \in 1 .. Len(q) : q[i] = c
    /\ \A i \in 1 .. Len(q) - 1 : q[i + 1] = cell[q[i]].next
    /\ q = <<>> => head = NULL
    /\ q # <<>> => q[1] = head /\ tail = q[Len(q)] /\ cell[tail].next = NULL

\* An allocated cell holds an id that has been handed out.
LiveIds == \A c \in live : cell[c].eid \in Ids

IInv == /\ TypeOK /\ LiveIds /\ Chain(Queue)
        /\ phase = "handler" => head # NULL
-----------------------------------------------------------------------------
\* What every sequence of cells is.
LEMMA SeqFacts ==
  ASSUME NEW S, NEW q \in Seq(S)
  PROVE  /\ Len(q) \in Nat /\ q \in [1 .. Len(q) -> S] /\ DOMAIN q = 1 .. Len(q)
         /\ q = <<>> <=> Len(q) = 0
  BY LenProperties, EmptySeq

\* A sequence whose elements are all in T is a sequence over T.
LEMMA SeqOver ==
  ASSUME NEW S, NEW T, NEW q \in Seq(S), \A i \in 1 .. Len(q) : q[i] \in T
  PROVE  q \in Seq(T)
<1>1. Len(q) \in Nat /\ q \in [1 .. Len(q) -> T]
  BY SeqFacts
<1> QED
  BY <1>1, SeqDef

\* Two sequences that both follow next from head agree where both are defined.
LEMMA FollowsAgree ==
  ASSUME NEW q \in Seq(live), NEW r \in Seq(live), Follows(q), Follows(r)
  PROVE  \A i \in 1 .. Len(q) : i <= Len(r) => q[i] = r[i]
<1> DEFINE T == {i \in 1 .. Len(q) : i <= Len(r) /\ q[i] # r[i]}
<1>1. /\ Len(q) \in Nat /\ Len(r) \in Nat
      /\ (q = <<>> <=> Len(q) = 0) /\ (r = <<>> <=> Len(r) = 0)
  BY SeqFacts
<1> SUFFICES ASSUME T # {} PROVE FALSE
  OBVIOUS
<1>2. PICK i \in T : \A j \in T : i <= j
  <2>1. T \subseteq Nat
    BY <1>1
  <2> QED
    BY <2>1, LeastExists
<1>3. i \in 1 .. Len(q) /\ i \in 1 .. Len(r) /\ q # <<>> /\ r # <<>>
  BY <1>1, <1>2
<1>4. CASE i = 1
  BY <1>2, <1>3, <1>4 DEF Follows
<1>5. CASE i # 1
  <2>1. /\ i - 1 \in 1 .. Len(q) - 1 /\ i - 1 \in 1 .. Len(r) - 1
        /\ i - 1 \in 1 .. Len(q) /\ i - 1 <= Len(r) /\ ~(i <= i - 1)
    BY <1>1, <1>3, <1>5
  <2>2. q[i - 1] = r[i - 1]
    BY <1>2, <2>1
  <2>3. q[(i - 1) + 1] = cell[q[i - 1]].next /\ r[(i - 1) + 1] = cell[r[i - 1]].next
    BY <1>3, <2>1 DEF Follows
  <2>4. (i - 1) + 1 = i
    BY <1>3
  <2> QED
    BY <1>2, <2>2, <2>3, <2>4
<1> QED
  BY <1>4, <1>5

\* Neither of them ends before the other.
LEMMA FollowsLength ==
  ASSUME NEW q \in Seq(live), NEW r \in Seq(live), Follows(q), Follows(r)
  PROVE  ~(Len(q) < Len(r))
<1> SUFFICES ASSUME Len(q) < Len(r) PROVE FALSE
  OBVIOUS
<1>1. /\ Len(q) \in Nat /\ Len(r) \in Nat
      /\ (q = <<>> <=> Len(q) = 0) /\ (r = <<>> <=> Len(r) = 0)
      /\ DOMAIN q = 1 .. Len(q) /\ DOMAIN r = 1 .. Len(r)
  BY SeqFacts
<1>2. r # <<>> /\ r[1] = head /\ r[1] \in live
  BY <1>1, ElementOfSeq DEF Follows
<1>3. q # <<>>
  BY <1>2 DEF Follows
<1> DEFINE k == Len(q)
<1>4. k \in 1 .. Len(q) /\ k \in 1 .. Len(r) - 1 /\ k + 1 \in 1 .. Len(r)
  BY <1>1, <1>3
<1>5. q[k] = r[k]
  BY <1>4, FollowsAgree
<1>6. r[k + 1] = cell[q[k]].next /\ r[k + 1] \in live
  BY <1>2, <1>4, <1>5, ElementOfSeq DEF Follows
<1>7. r[k + 1] \notin Range(q)
  <2> SUFFICES ASSUME NEW j \in 1 .. Len(q), q[j] = r[k + 1] PROVE FALSE
    BY <1>1 DEF Range
  <2>1. j \in 1 .. Len(r) /\ q[j] = r[j] /\ j # k + 1
    BY <1>1, FollowsAgree
  <2> QED
    BY <1>1, <1>4, <2>1 DEF Follows, IsInjective
<1> QED
  BY <1>3, <1>6, <1>7 DEF Follows

\* The list has as many cells as are allocated.
LEMMA ChainLength ==
  ASSUME NEW q, Chain(q)
  PROVE  Cardinality(live) = Len(q)
<1>1. Len(q) \in Nat /\ q \in [1 .. Len(q) -> live] /\ DOMAIN q = 1 .. Len(q)
  BY SeqFacts DEF Chain
<1>2. q \in Bijection(1 .. Len(q), live)
  BY <1>1 DEF Chain, Bijection, Injection, Surjection, IsInjective
<1> QED
  BY <1>1, <1>2, FS_CountingElements DEF ExistsBijection

\* The pointers determine the list: the chain there is, is Queue.
LEMMA ChainIsQueue ==
  ASSUME live \subseteq Cells, NEW q, Chain(q)
  PROVE  Queue = q
<1> DEFINE W == UNION {[1 .. n -> live] : n \in 0 .. Cardinality(live)}
<1>1. /\ q \in Seq(live) /\ Len(q) \in Nat /\ q \in [1 .. Len(q) -> live]
      /\ DOMAIN q = 1 .. Len(q) /\ (q = <<>> <=> Len(q) = 0)
  BY SeqFacts DEF Chain
<1>2. Follows(q)
  <2>1. IsInjective(q)
    BY <1>1 DEF Chain, IsInjective
  <2>2. CASE q = <<>>
    BY <2>1, <2>2, EventAssumption DEF Chain, Follows
  <2>3. CASE q # <<>>
    <3>1. cell[q[Len(q)]].next = NULL /\ NULL \notin live
      BY <2>3, EventAssumption DEF Chain
    <3> QED
      BY <2>1, <2>3, <3>1 DEF Chain, Follows
  <2> QED
    BY <2>2, <2>3
<1>3. q \in W
  <2>1. Cardinality(live) = Len(q)
    BY ChainLength
  <2> QED
    BY <1>1, <2>1
<1>4. W \subseteq Seq(live)
  <2> SUFFICES ASSUME NEW n \in 0 .. Cardinality(live), NEW r \in [1 .. n -> live]
               PROVE  r \in Seq(live)
    OBVIOUS
  <2>1. n \in Nat
    OBVIOUS
  <2> QED
    BY <2>1, SeqDef
<1>5. \A r \in W : Follows(r) => r = q
  <2> SUFFICES ASSUME NEW r \in W, Follows(r) PROVE r = q
    OBVIOUS
  <2>1. r \in Seq(live) /\ Len(r) \in Nat
    BY <1>4, SeqFacts
  <2>2. Len(r) = Len(q)
    BY <1>1, <1>2, <2>1, FollowsLength
  <2>3. \A i \in 1 .. Len(r) : r[i] = q[i]
    BY <1>1, <1>2, <2>1, <2>2, FollowsAgree
  <2> QED
    BY <1>1, <2>1, <2>2, <2>3, SeqEqual
<1> HIDE DEF W
<1>6. Queue = CHOOSE r \in W : Follows(r)
  BY DEF Queue, W
<1> QED
  BY <1>2, <1>3, <1>5, <1>6

\* The same after a step.
LEMMA ChainIsQueueNext ==
  ASSUME NEW q
  PROVE  (live \subseteq Cells /\ Chain(q) => Queue = q)'
<1>1. live \subseteq Cells /\ Chain(q) => Queue = q
  BY ChainIsQueue
<1> QED
  BY <1>1, PTL

-----------------------------------------------------------------------------
\* event_post links the new cell behind the last one.
LEMMA PostChain ==
  ASSUME TypeOK, phase # "loop", NEW q, Chain(q), NEW c \in Cells \ live,
         NEW e, NEW d, AppendCell(c, e, d)
  PROVE  /\ Chain(Append(q, c))'
         /\ cell'[c].eid = e /\ cell'[c].data = d /\ cell'[c].next = NULL
         /\ \A b \in live : /\ b # c /\ cell'[b].eid = cell[b].eid
                            /\ cell'[b].data = cell[b].data
         /\ q # <<>> => head' = head
         /\ cell' \in [Cells -> [eid : {e} \cup Ids \cup {0}, data : {d} \cup Datas \cup {NULL},
                                 next : Cells \cup {NULL}]]
<1> DEFINE s == Append(q, c)
           fresh == [cell EXCEPT ![c] = [eid |-> e, data |-> d, next |-> NULL]]
<1>1. /\ live' = live \cup {c} /\ head' = (IF tail = NULL THEN c ELSE head) /\ tail' = c
      /\ cell' = IF tail = NULL THEN fresh ELSE [fresh EXCEPT ![tail].next = c]
  BY DEF AppendCell
<1>2. /\ q \in Seq(live) /\ Len(q) \in Nat /\ q \in [1 .. Len(q) -> live]
      /\ (q = <<>> <=> Len(q) = 0)
  BY SeqFacts DEF Chain
<1>3. /\ live \subseteq Cells /\ c \notin live /\ NULL \notin Cells
      /\ tail \in live \cup {NULL}
      /\ cell \in [Cells -> [eid : Ids \cup {0}, data : Datas \cup {NULL},
                             next : Cells \cup {NULL}]]
  BY EventAssumption DEF TypeOK
<1>4. tail = NULL <=> q = <<>>
  BY <1>2, <1>3 DEF Chain
<1>5. /\ s \in Seq(live') /\ s # <<>> /\ Len(s) = Len(q) + 1
      /\ \A i \in 1 .. Len(q) : s[i] = q[i] /\ s[i] # c /\ s[i] \in live
      /\ s[Len(q) + 1] = c
  <2>1. q \in Seq(live') /\ c \in live'
    BY <1>1, <1>2, SeqMonotonic
  <2> QED
    BY <1>2, <1>3, <2>1, AppendProperties
<1> HIDE DEF s
<1>6. /\ cell' \in [Cells -> [eid : {e} \cup Ids \cup {0}, data : {d} \cup Datas \cup {NULL},
                              next : Cells \cup {NULL}]]
      /\ cell'[c].eid = e /\ cell'[c].data = d /\ cell'[c].next = NULL
      /\ \A b \in live : /\ b # c /\ cell'[b].eid = cell[b].eid /\ cell'[b].data = cell[b].data
                         /\ b # tail => cell'[b].next = cell[b].next
      /\ tail # NULL => cell'[tail].next = c
  <2>1. CASE tail = NULL
    BY <1>1, <1>3, <2>1
  <2>2. CASE tail # NULL
    <3>1. tail \in Cells /\ tail # c
      BY <1>3, <2>2
    <3> QED
      BY <1>1, <1>3, <2>2, <3>1
  <2> QED
    BY <2>1, <2>2
<1>7. \A i, j \in 1 .. Len(s) : s[i] = s[j] => i = j
  <2> SUFFICES ASSUME NEW i \in 1 .. Len(s), NEW j \in 1 .. Len(s), s[i] = s[j]
               PROVE  i = j
    OBVIOUS
  <2>1. (i \in 1 .. Len(q) \/ i = Len(q) + 1) /\ (j \in 1 .. Len(q) \/ j = Len(q) + 1)
    BY <1>2, <1>5
  <2>2. \A a, b \in 1 .. Len(q) : q[a] = q[b] => a = b
    BY DEF Chain
  <2>3. CASE i \in 1 .. Len(q) /\ j \in 1 .. Len(q)
    BY <1>5, <2>2, <2>3
  <2>4. CASE i = Len(q) + 1 \/ j = Len(q) + 1
    BY <1>5, <2>1, <2>4
  <2> QED
    BY <2>1, <2>3, <2>4
<1>8. \A b \in live' : \E i \in 1 .. Len(s) : s[i] = b
  <2> SUFFICES ASSUME NEW b \in live' PROVE \E i \in 1 .. Len(s) : s[i] = b
    OBVIOUS
  <2>1. CASE b = c
    BY <1>2, <1>5, <2>1
  <2>2. CASE b \in live
    <3>1. PICK i \in 1 .. Len(q) : q[i] = b
      BY <2>2 DEF Chain
    <3> QED
      BY <1>2, <1>5, <3>1
  <2> QED
    BY <1>1, <2>1, <2>2
<1>9. \A i \in 1 .. Len(s) - 1 : s[i + 1] = cell'[s[i]].next
  <2> SUFFICES ASSUME NEW i \in 1 .. Len(q) PROVE s[i + 1] = cell'[s[i]].next
    BY <1>2, <1>5
  <2>1. CASE i = Len(q)
    <3>1. tail = s[i] /\ tail # NULL
      BY <1>2, <1>4, <1>5, <2>1 DEF Chain
    <3> QED
      BY <1>5, <1>6, <2>1, <3>1
  <2>2. CASE i # Len(q)
    <3>1. i \in 1 .. Len(q) - 1 /\ i + 1 \in 1 .. Len(q) /\ Len(q) \in 1 .. Len(q) /\ q # <<>>
      <4>1. Len(q) \in Nat /\ (q = <<>> => Len(q) = 0)
        BY <1>2
      <4>2. i \in 1 .. Len(q) - 1 /\ i + 1 \in 1 .. Len(q) /\ Len(q) \in 1 .. Len(q) /\ Len(q) # 0
        BY <2>2, <4>1
      <4> QED
        BY <4>1, <4>2
    <3>2. tail = q[Len(q)] /\ q[i] # q[Len(q)] /\ q[i + 1] = cell[q[i]].next
      BY <2>2, <3>1, Zenon DEF Chain
    <3> QED
      BY <1>5, <1>6, <3>1, <3>2
  <2> QED
    BY <2>1, <2>2
<1>10. s[1] = head' /\ tail' = s[Len(s)] /\ cell'[tail'].next = NULL
  <2>1. CASE q = <<>>
    BY <1>1, <1>2, <1>4, <1>5, <1>6, <2>1
  <2>2. CASE q # <<>>
    <3>1. 1 \in 1 .. Len(q) /\ q[1] = head
      BY <1>2, <2>2 DEF Chain
    <3> QED
      BY <1>1, <1>4, <1>5, <1>6, <2>2, <3>1
  <2> QED
    BY <2>1, <2>2
<1>11. Chain(s)'
  BY <1>5, <1>7, <1>8, <1>9, <1>10 DEF Chain
<1> QED
  BY <1>1, <1>4, <1>6, <1>11 DEF s

\* event_work's unlinking of the head leaves the rest of the list.
LEMMA PopChain ==
  ASSUME TypeOK, NEW q, Chain(q), head # NULL, PopHead
  PROVE  /\ Chain(Tail(q))' /\ q # <<>> /\ q[1] = head
         /\ \A b \in live' : b \in live /\ b # head /\ cell'[b] = cell[b]
         /\ live' \subseteq live
         /\ cell' \in [Cells -> [eid : Ids \cup {0}, data : Datas \cup {NULL},
                                 next : Cells \cup {NULL}]]
<1> DEFINE s == Tail(q)
<1>1. /\ head' = cell[head].next /\ live' = live \ {head} /\ tail' = tail
      /\ cell' = [cell EXCEPT ![head] = Blank]
  BY DEF PopHead
<1>2. /\ q \in Seq(live) /\ Len(q) \in Nat /\ q \in [1 .. Len(q) -> live]
      /\ q # <<>> /\ Len(q) >= 1 /\ q[1] = head
  BY SeqFacts DEF Chain
<1>3. /\ live \subseteq Cells /\ NULL \notin Cells
      /\ cell \in [Cells -> [eid : Ids \cup {0}, data : Datas \cup {NULL},
                             next : Cells \cup {NULL}]]
  BY EventAssumption DEF TypeOK
<1>4. /\ s \in Seq(live) /\ Len(s) = Len(q) - 1 /\ (s = <<>> <=> Len(s) = 0)
      /\ \A i \in 1 .. Len(s) : s[i] = q[i + 1] /\ i + 1 \in 1 .. Len(q)
      /\ Len(s) = 0 => Len(q) = 1
  <2>1. s \in Seq(live) /\ Len(s) = Len(q) - 1 /\ \A i \in 1 .. Len(s) : s[i] = q[i + 1]
    BY <1>2, HeadTailProperties
  <2>2. s = <<>> <=> Len(s) = 0
    BY <2>1, SeqFacts
  <2>3. \A i \in 1 .. Len(s) : i + 1 \in 1 .. Len(q)
    BY <1>2, <2>1
  <2>4. Len(s) = 0 => Len(q) = 1
    <3>1. \A n \in Nat : 0 = n - 1 => n = 1
      OBVIOUS
    <3> QED
      BY <1>2, <2>1, <3>1, Zenon
  <2> QED
    BY <2>1, <2>2, <2>3, <2>4
<1> HIDE DEF s
<1>5. \A i \in 1 .. Len(s) : s[i] # head /\ s[i] \in live'
  <2> SUFFICES ASSUME NEW i \in 1 .. Len(s) PROVE s[i] # head /\ s[i] \in live'
    OBVIOUS
  <2>1. s[i] = q[i + 1] /\ i + 1 \in 1 .. Len(q) /\ 1 \in 1 .. Len(q) /\ i + 1 # 1
    BY <1>2, <1>4
  <2>2. q[i + 1] # q[1]
    BY <2>1, Zenon DEF Chain
  <2>3. q[i + 1] \in live
    BY <1>2, <2>1
  <2> QED
    BY <1>1, <1>2, <2>1, <2>2, <2>3
<1>6. s \in Seq(live')
  BY <1>4, <1>5, SeqOver
<1>7. /\ \A b \in live' : b \in live /\ b # head /\ cell'[b] = cell[b]
      /\ cell' \in [Cells -> [eid : Ids \cup {0}, data : Datas \cup {NULL},
                              next : Cells \cup {NULL}]]
  BY <1>1, <1>2, <1>3 DEF Blank
<1>8. \A i, j \in 1 .. Len(s) : s[i] = s[j] => i = j
  BY <1>2, <1>4 DEF Chain
<1>9. \A b \in live' : \E i \in 1 .. Len(s) : s[i] = b
  <2> SUFFICES ASSUME NEW b \in live' PROVE \E i \in 1 .. Len(s) : s[i] = b
    OBVIOUS
  <2>1. PICK i \in 1 .. Len(q) : q[i] = b
    BY <1>7 DEF Chain
  <2>2. i # 1 /\ i - 1 \in 1 .. Len(s) /\ (i - 1) + 1 = i
    BY <1>2, <1>4, <1>7, <2>1
  <2> QED
    BY <1>4, <2>1, <2>2
<1>10. \A i \in 1 .. Len(s) - 1 : s[i + 1] = cell'[s[i]].next
  <2> SUFFICES ASSUME NEW i \in 1 .. Len(s) - 1 PROVE s[i + 1] = cell'[s[i]].next
    OBVIOUS
  <2>1. i \in 1 .. Len(s) /\ i + 1 \in 1 .. Len(s) /\ i + 1 \in 1 .. Len(q) - 1
    BY <1>2, <1>4
  <2>2. q[(i + 1) + 1] = cell[q[i + 1]].next
    BY <2>1 DEF Chain
  <2> QED
    BY <1>4, <1>5, <1>7, <2>1, <2>2
<1>11. s = <<>> => head' = NULL
  <2> SUFFICES ASSUME s = <<>> PROVE head' = NULL
    OBVIOUS
  <2>1. Len(q) = 1
    BY <1>4, Zenon
  <2>2. tail = q[Len(q)] /\ cell[tail].next = NULL
    BY <1>2, Zenon DEF Chain
  <2> QED
    BY <1>1, <1>2, <2>1, <2>2, Zenon
<1>12. s # <<>> => s[1] = head' /\ tail' = s[Len(s)] /\ cell'[tail'].next = NULL
  <2> SUFFICES ASSUME s # <<>>
               PROVE  s[1] = head' /\ tail' = s[Len(s)] /\ cell'[tail'].next = NULL
    OBVIOUS
  <2>1. 1 \in 1 .. Len(s) /\ Len(s) \in 1 .. Len(s) /\ 1 \in 1 .. Len(q) - 1
        /\ Len(s) + 1 = Len(q)
    BY <1>2, <1>4
  <2>2. q[1 + 1] = cell[q[1]].next
    BY <2>1 DEF Chain
  <2>3. tail = s[Len(s)] /\ cell[tail].next = NULL
    BY <1>2, <1>4, <2>1 DEF Chain
  <2> QED
    BY <1>1, <1>2, <1>4, <1>5, <1>7, <2>1, <2>2, <2>3
<1>13. Chain(s)'
  BY <1>6, <1>8, <1>9, <1>10, <1>11, <1>12 DEF Chain
<1> QED
  BY <1>1, <1>2, <1>7, <1>13 DEF s

-----------------------------------------------------------------------------
CellRecords == [Cells -> [eid : Ids \cup {0}, data : Datas \cup {NULL},
                          next : Cells \cup {NULL}]]

\* The list is empty at the start.
LEMMA InitIInv == Init => IInv
<1> SUFFICES ASSUME Init PROVE IInv
  OBVIOUS
<1>1. TypeOK /\ LiveIds /\ live = {} /\ head = NULL /\ phase = "idle"
  BY EventAssumption DEF Init, TypeOK, LiveIds, Blank, Ids
<1>2. <<>> \in Seq(live) /\ Len(<<>>) = 0
  BY EmptySeq
<1>3. Chain(<<>>)
  BY <1>1, <1>2 DEF Chain
<1>4. Queue = <<>>
  BY <1>1, <1>3, ChainIsQueue
<1> QED
  BY <1>1, <1>3, <1>4 DEF IInv

\* What event_post does to the list.
LEMMA PostFacts ==
  ASSUME IInv, NEW e \in Ids, NEW d \in Datas, event_post(e, d)
  PROVE  /\ IInv' /\ UNCHANGED <<handlers, id_max, arg, phase>>
         /\ Queue # <<>> => head' = head
         /\ \E c \in Cells \ live :
               /\ Queue' = Append(Queue, c)
               /\ cell'[c].eid = e /\ cell'[c].data = d
               /\ \A b \in live : cell'[b].eid = cell[b].eid /\ cell'[b].data = cell[b].data
<1>1. PICK q : q = Queue
  OBVIOUS
<1>2. PICK c \in Cells \ live : AppendCell(c, e, d)
  BY DEF event_post
<1>3. TypeOK /\ LiveIds /\ Chain(q) /\ phase # "loop"
      /\ UNCHANGED <<handlers, id_max, arg, phase>>
  BY <1>1 DEF IInv, event_post, ClientTurn
<1>4. /\ Chain(Append(q, c))'
      /\ cell'[c].eid = e /\ cell'[c].data = d
      /\ \A b \in live : b # c /\ cell'[b].eid = cell[b].eid /\ cell'[b].data = cell[b].data
      /\ q # <<>> => head' = head
      /\ cell' \in [Cells -> [eid : {e} \cup Ids \cup {0}, data : {d} \cup Datas \cup {NULL},
                              next : Cells \cup {NULL}]]
  BY <1>2, <1>3, PostChain
<1>5. live' = live \cup {c} /\ tail' = c /\ head' \in {head, c} /\ live' \subseteq Cells
  BY <1>2, <1>3 DEF AppendCell, TypeOK
<1>6. Queue' = Append(q, c)
  BY <1>4, <1>5, ChainIsQueueNext
<1>7. Chain(Queue)'
  BY <1>4, <1>6, Zenon
<1>8. cell' \in CellRecords
  <2>1. {e} \cup Ids \cup {0} = Ids \cup {0} /\ {d} \cup Datas \cup {NULL} = Datas \cup {NULL}
    OBVIOUS
  <2> QED
    BY <1>4, <2>1 DEF CellRecords
<1>9. TypeOK' /\ LiveIds'
  BY <1>3, <1>4, <1>5, <1>8 DEF TypeOK, LiveIds, CellRecords
<1>10. head # NULL => head' # NULL
  BY <1>5, EventAssumption
<1>11. IInv'
  BY <1>3, <1>7, <1>9, <1>10 DEF IInv
<1> QED
  BY <1>1, <1>3, <1>4, <1>6, <1>11

\* While there is a head, tail is an allocated cell.
LEMMA TailLive ==
  ASSUME NEW q, Chain(q), head # NULL
  PROVE  q # <<>> /\ tail \in live
<1>1. q \in Seq(live) /\ q # <<>> /\ tail = q[Len(q)]
  BY DEF Chain
<1> QED
  BY <1>1, EmptySeq, ElementOfSeq

\* What freeing the head does to the list.
LEMMA PopFacts ==
  ASSUME IInv, head # NULL, PopHead
  PROVE  /\ Queue # <<>> /\ Queue[1] = head /\ Queue' = Tail(Queue) /\ Chain(Queue)'
         /\ \A b \in live' : b \in live /\ cell'[b] = cell[b]
         /\ live' \subseteq live /\ cell' \in CellRecords
         /\ LiveIds' /\ head' \in live' \cup {NULL}
<1>1. PICK q : q = Queue
  OBVIOUS
<1>2. TypeOK /\ LiveIds /\ Chain(q)
  BY <1>1 DEF IInv
<1>3. /\ Chain(Tail(q))' /\ q # <<>> /\ q[1] = head
      /\ \A b \in live' : b \in live /\ b # head /\ cell'[b] = cell[b]
      /\ live' \subseteq live /\ cell' \in CellRecords
  BY <1>2, PopChain DEF CellRecords
<1>4. Queue' = Tail(q)
  BY <1>2, <1>3, ChainIsQueueNext DEF TypeOK
<1>5. Chain(Queue)'
  BY <1>3, <1>4, Zenon
<1>6. LiveIds'
  BY <1>2, <1>3 DEF LiveIds
<1>7. head' \in live' \cup {NULL}
  <2>1. Tail(q) \in Seq(live')
    BY <1>3 DEF Chain
  <2>2. Tail(q) # <<>> => Len(Tail(q)) \in Nat \ {0}
    BY <2>1, EmptySeq
  <2> QED
    BY <1>3, <2>1, <2>2, ElementOfSeq DEF Chain
<1> QED
  BY <1>1, <1>3, <1>4, <1>5, <1>6, <1>7

\* A step that leaves the list alone.
LEMMA SameList ==
  ASSUME IInv, UNCHANGED list
  PROVE  Queue' = Queue /\ Chain(Queue)' /\ LiveIds'
<1>1. PICK q : q = Queue
  OBVIOUS
<1>2. UNCHANGED <<head, tail, cell, live>> /\ Chain(q) /\ LiveIds /\ live \subseteq Cells
  BY <1>1 DEF IInv, list, TypeOK
<1>3. Chain(q)' /\ LiveIds'
  BY <1>2 DEF Chain, LiveIds
<1>4. Queue' = q
  BY <1>2, <1>3, ChainIsQueueNext
<1>5. Chain(Queue)'
  BY <1>3, <1>4, Zenon
<1> QED
  BY <1>1, <1>3, <1>4, <1>5

\* event_work clears tail when nothing is left.
LEMMA LeaveFacts ==
  ASSUME IInv, event_work_leave
  PROVE  IInv' /\ Queue = <<>> /\ Queue' = <<>>
<1>1. PICK q : q = Queue
  OBVIOUS
<1>2. /\ head = NULL /\ tail' = NULL /\ phase' = "idle"
      /\ UNCHANGED <<head, cell, live, handlers, id_max, arg>>
  BY DEF event_work_leave
<1>3. TypeOK /\ LiveIds /\ Chain(q) /\ NULL \notin live
  BY <1>1, EventAssumption DEF IInv, TypeOK
<1>4. q = <<>>
  <2>1. q \in Seq(live) /\ (q # <<>> => q[1] = head)
    BY <1>3 DEF Chain
  <2>2. q # <<>> => Len(q) \in Nat \ {0}
    BY <2>1, EmptySeq
  <2>3. q # <<>> => q[1] \in live
    BY <2>1, <2>2, ElementOfSeq
  <2> QED
    BY <1>2, <1>3, <2>1, <2>3
<1>5. Chain(q)'
  BY <1>2, <1>3, <1>4 DEF Chain
<1>6. TypeOK' /\ LiveIds'
  BY <1>2, <1>3 DEF TypeOK, LiveIds
<1>7. Queue' = q
  BY <1>5, <1>6, ChainIsQueueNext DEF TypeOK
<1>8. Chain(Queue)'
  BY <1>5, <1>7, Zenon
<1> QED
  BY <1>1, <1>2, <1>4, <1>6, <1>7, <1>8 DEF IInv

\* The invariant holds in every step.
LEMMA StepIInv == IInv /\ [Next]_vars => IInv'
<1> SUFFICES ASSUME IInv, [Next]_vars PROVE IInv'
  OBVIOUS
<1>1. TypeOK /\ LiveIds /\ (phase = "handler" => head # NULL)
  BY DEF IInv
<1>2. ASSUME UNCHANGED list, TypeOK', phase' = "handler" => head # NULL PROVE IInv'
  BY <1>2, SameList DEF IInv, list
<1>3. CASE event_get_id
  <2>1. UNCHANGED list /\ phase' = phase /\ TypeOK'
    BY <1>1, <1>3, EventAssumption DEF event_get_id, TypeOK, list
  <2> QED
    BY <1>1, <1>2, <2>1
<1>4. ASSUME NEW e \in Ids, event_free_id(e) \/ \E c \in Contexts : event_set_handler(e, c)
      PROVE  IInv'
  <2>1. UNCHANGED list /\ phase' = phase /\ TypeOK'
    BY <1>1, <1>4 DEF event_free_id, event_set_handler, TypeOK, list
  <2> QED
    BY <1>1, <1>2, <2>1
<1>5. ASSUME NEW e \in Ids, NEW d \in Datas, event_post(e, d) PROVE IInv'
  BY <1>5, PostFacts
<1>6. CASE event_work_enter
  <2>1. UNCHANGED list /\ phase' = "loop" /\ TypeOK'
    BY <1>1, <1>6 DEF event_work_enter, TypeOK, list
  <2> QED
    BY <1>2, <2>1
<1>7. CASE event_work_dispatch
  <2>1. UNCHANGED list /\ head # NULL
    BY <1>7 DEF event_work_dispatch
  <2>2. tail \in live
    BY <2>1, TailLive DEF IInv
  <2>3. TypeOK'
    BY <1>1, <1>7, <2>1, <2>2 DEF event_work_dispatch, TypeOK, LiveIds, list
  <2> QED
    BY <1>2, <2>1, <2>3
<1>8. CASE event_work_drop
  <2>1. head # NULL /\ PopHead /\ UNCHANGED <<handlers, id_max, arg, phase>> /\ phase = "loop"
    BY <1>8 DEF event_work_drop
  <2>2. TypeOK'
    BY <1>1, <2>1, PopFacts DEF TypeOK, CellRecords
  <2> QED
    BY <2>1, <2>2, PopFacts DEF IInv
<1>9. CASE event_work_advance
  <2>1. head # NULL /\ PopHead /\ UNCHANGED <<handlers, id_max>> /\ phase' = "loop"
        /\ arg' = NoHandler
    BY <1>1, <1>9 DEF event_work_advance
  <2>2. TypeOK'
    BY <1>1, <2>1, PopFacts DEF TypeOK, CellRecords
  <2> QED
    BY <2>1, <2>2, PopFacts DEF IInv
<1>10. CASE event_work_leave
  BY <1>10, LeaveFacts
<1>11. CASE UNCHANGED vars
  <2>1. UNCHANGED list /\ phase' = phase /\ TypeOK'
    BY <1>1, <1>11 DEF vars, TypeOK, list
  <2> QED
    BY <1>1, <1>2, <2>1
<1> QED
  BY <1>3, <1>4, <1>5, <1>6, <1>7, <1>8, <1>9, <1>10, <1>11 DEF Next, EventWork, Callers

\* The inductive invariant gives ListIntact.
LEMMA IInvImplies == IInv => TypeOK /\ ListIntact
<1> SUFFICES ASSUME IInv PROVE TypeOK /\ ListIntact
  OBVIOUS
<1>1. Chain(Queue) /\ Queue \in Seq(live)
  BY DEF IInv, Chain
<1>2. Len(Queue) \in Nat /\ (Queue = <<>> <=> Len(Queue) = 0)
  BY <1>1, SeqFacts
<1>3. Len(Queue) = 0 => live = {} /\ head = NULL
  BY <1>1, <1>2 DEF Chain
<1>4. live = {Queue[i] : i \in 1 .. Len(Queue)}
  BY <1>1, ElementOfSeq DEF Chain
<1>5. Len(Queue) > 0 => tail = Queue[Len(Queue)] /\ cell[tail].next = NULL
  BY <1>1, <1>2 DEF Chain
<1> QED
  BY <1>3, <1>4, <1>5 DEF IInv, ListIntact

\* Every state satisfies the inductive invariant.
THEOREM Inductive == Spec => []IInv
  BY InitIInv, StepIInv, PTL DEF Spec

\* TypeOK: head and tail never point to a freed cell (event.c).
THEOREM TypeCorrect == Spec => []TypeOK
  BY Inductive, IInvImplies, PTL

\* ListIntact: whatever handlers post while event_work holds the head, no cell is
\* lost and tail is the last one.
THEOREM ListStaysIntact == Spec => []ListIntact
  BY Inductive, IInvImplies, PTL

-----------------------------------------------------------------------------
(***************************************************************************)
(* The refinement: what each step does to the sequence of events.          *)
(***************************************************************************)
Pairs == (Ids \cup {0}) \X (Datas \cup {NULL})

\* The events in the cells of q, in memory f.
Contents(f, q) == [i \in 1 .. Len(q) |-> <<f[q[i]].eid, f[q[i]].data>>]

\* The contents are a sequence of the same length.
LEMMA ContentsSeq ==
  ASSUME NEW f \in CellRecords, NEW q \in Seq(Cells)
  PROVE  /\ Contents(f, q) \in Seq(Pairs) /\ Len(Contents(f, q)) = Len(q)
         /\ Len(q) \in Nat
         /\ \A i \in 1 .. Len(q) : /\ q[i] \in Cells
                                   /\ Contents(f, q)[i] = <<f[q[i]].eid, f[q[i]].data>>
<1> DEFINE C == Contents(f, q)
<1>1. Len(q) \in Nat /\ \A i \in 1 .. Len(q) : q[i] \in Cells
  BY SeqFacts, ElementOfSeq
<1>2. /\ C \in [1 .. Len(q) -> Pairs]
      /\ \A i \in 1 .. Len(q) : C[i] = <<f[q[i]].eid, f[q[i]].data>>
  BY <1>1 DEF Contents, CellRecords, Pairs
<1> HIDE DEF C
<1>3. C \in Seq(Pairs)
  BY <1>1, <1>2, SeqDef
<1>4. Len(C) = Len(q)
  BY <1>1, <1>2, <1>3, SeqFacts
<1> QED
  BY <1>1, <1>2, <1>3, <1>4 DEF C

\* The contents depend on nothing but the cells of the list.
LEMMA ContentsSame ==
  ASSUME NEW f \in CellRecords, NEW g \in CellRecords, NEW q \in Seq(Cells),
         \A i \in 1 .. Len(q) : f[q[i]].eid = g[q[i]].eid /\ f[q[i]].data = g[q[i]].data
  PROVE  Contents(f, q) = Contents(g, q)
<1> DEFINE C == Contents(f, q)
           D == Contents(g, q)
<1>1. /\ C \in Seq(Pairs) /\ Len(C) = Len(q)
      /\ \A i \in 1 .. Len(q) : C[i] = <<f[q[i]].eid, f[q[i]].data>>
  BY ContentsSeq
<1>2. /\ D \in Seq(Pairs) /\ Len(D) = Len(q)
      /\ \A i \in 1 .. Len(q) : D[i] = <<g[q[i]].eid, g[q[i]].data>>
  BY ContentsSeq
<1> HIDE DEF C, D
<1>3. \A i \in 1 .. Len(q) : C[i] = D[i]
  BY <1>1, <1>2
<1>4. C = D
  BY <1>1, <1>2, <1>3, SeqEqual
<1> QED
  BY <1>4 DEF C, D

\* A cell more is an event more.
LEMMA ContentsAppend ==
  ASSUME NEW f \in CellRecords, NEW g \in CellRecords, NEW q \in Seq(Cells), NEW c \in Cells,
         \A i \in 1 .. Len(q) : f[q[i]].eid = g[q[i]].eid /\ f[q[i]].data = g[q[i]].data
  PROVE  Contents(g, Append(q, c)) = Append(Contents(f, q), <<g[c].eid, g[c].data>>)
<1> DEFINE s == Append(q, c)
           ev == <<g[c].eid, g[c].data>>
           C == Contents(f, q)
           D == Contents(g, s)
<1>1. /\ s \in Seq(Cells) /\ Len(s) = Len(q) + 1 /\ Len(q) \in Nat
      /\ \A i \in 1 .. Len(q) : s[i] = q[i]
      /\ s[Len(q) + 1] = c
  BY AppendProperties, SeqFacts
<1>2. ev \in Pairs
  BY DEF CellRecords, Pairs
<1> HIDE DEF s
<1>3. /\ C \in Seq(Pairs) /\ Len(C) = Len(q)
      /\ \A i \in 1 .. Len(q) : C[i] = <<f[q[i]].eid, f[q[i]].data>>
  BY ContentsSeq
<1>4. /\ D \in Seq(Pairs) /\ Len(D) = Len(q) + 1
      /\ \A i \in 1 .. Len(q) + 1 : D[i] = <<g[s[i]].eid, g[s[i]].data>>
  BY <1>1, ContentsSeq
<1> HIDE DEF C, D, ev
<1> DEFINE A == Append(C, ev)
<1>5. /\ A \in Seq(Pairs) /\ Len(A) = Len(q) + 1
      /\ \A i \in 1 .. Len(q) : A[i] = C[i]
      /\ A[Len(q) + 1] = ev
  BY <1>2, <1>3, AppendProperties
<1> HIDE DEF A
<1>6. ASSUME NEW i \in 1 .. Len(q) + 1 PROVE D[i] = A[i]
  <2>1. i = Len(q) + 1 \/ i \in 1 .. Len(q)
    BY <1>1
  <2>2. CASE i = Len(q) + 1
    BY <1>1, <1>4, <1>5, <2>2 DEF ev
  <2>3. CASE i \in 1 .. Len(q)
    <3>1. D[i] = <<g[s[i]].eid, g[s[i]].data>> /\ s[i] = q[i]
      BY <1>1, <1>4, <2>3
    <3>2. A[i] = C[i] /\ C[i] = <<f[q[i]].eid, f[q[i]].data>>
      BY <1>3, <1>5, <2>3
    <3>3. f[q[i]].eid = g[q[i]].eid /\ f[q[i]].data = g[q[i]].data
      BY <2>3
    <3> QED
      BY <3>1, <3>2, <3>3
  <2> QED
    BY <2>1, <2>2, <2>3
<1>7. D = A
  BY <1>4, <1>5, <1>6, SeqEqual
<1> QED
  BY <1>7 DEF A, D, C, ev, s

\* A cell less is an event less.
LEMMA ContentsTail ==
  ASSUME NEW f \in CellRecords, NEW q \in Seq(Cells), q # <<>>
  PROVE  /\ Contents(f, Tail(q)) = Tail(Contents(f, q))
         /\ Contents(f, q) # <<>>
         /\ Head(Contents(f, q)) = <<f[q[1]].eid, f[q[1]].data>>
         /\ Tail(q) \in Seq(Cells)
<1> DEFINE s == Tail(q)
           C == Contents(f, q)
           D == Contents(f, s)
<1>1. /\ s \in Seq(Cells) /\ Len(s) = Len(q) - 1 /\ Len(q) \in Nat /\ Len(q) >= 1
      /\ \A i \in 1 .. Len(s) : s[i] = q[i + 1]
  BY HeadTailProperties, SeqFacts
<1> HIDE DEF s
<1>2. /\ C \in Seq(Pairs) /\ Len(C) = Len(q)
      /\ \A i \in 1 .. Len(q) : C[i] = <<f[q[i]].eid, f[q[i]].data>>
  BY ContentsSeq
<1>3. /\ D \in Seq(Pairs) /\ Len(D) = Len(q) - 1
      /\ \A i \in 1 .. Len(q) - 1 : D[i] = <<f[s[i]].eid, f[s[i]].data>>
  BY <1>1, ContentsSeq
<1> HIDE DEF C, D
<1>4. C # <<>>
  BY <1>1, <1>2, SeqFacts
<1>5. /\ Tail(C) \in Seq(Pairs) /\ Len(Tail(C)) = Len(q) - 1
      /\ \A i \in 1 .. Len(q) - 1 : Tail(C)[i] = C[i + 1]
  BY <1>2, <1>4, HeadTailProperties
<1>6. ASSUME NEW i \in 1 .. Len(q) - 1 PROVE D[i] = Tail(C)[i]
  <2>1. i + 1 \in 1 .. Len(q)
    BY <1>1
  <2> QED
    BY <1>1, <1>2, <1>3, <1>5, <2>1
<1>7. D = Tail(C)
  BY <1>3, <1>5, <1>6, SeqEqual
<1>8. Head(C) = C[1]
  BY <1>2, <1>4
<1>9. 1 \in 1 .. Len(q)
  BY <1>1
<1> QED
  BY <1>1, <1>2, <1>4, <1>7, <1>8, <1>9 DEF C, D, s

-----------------------------------------------------------------------------
\* The promised queue's variables, as the refinement mapping gives them.
Undelivered == IF phase = "handler" THEN Tail(Queue) ELSE Queue

Pending == Events(Undelivered)

Call == IF phase = "handler" THEN <<cell[head].eid, arg, cell[head].data>> ELSE <<>>

\* The refinement mapping on the variables that the proofs name.
LEMMA MappedInit ==
  Pending = <<>> /\ handlers = [e \in Ids |-> NoHandler] /\ Call = <<>> /\ phase = "idle"
  => Fifo!Init
  BY DEF Fifo!Init, Pending, Undelivered, Call

\* A step that changes none of them is a stutter of the promised queue.
LEMMA MappedStutter ==
  UNCHANGED <<Pending, handlers, Call>> /\ (phase' = "idle" <=> phase = "idle")
  => UNCHANGED Fifo!vars
  BY DEF Fifo!vars, Pending, Undelivered, Call

\* A call in progress is not the empty one.
LEMMA CallFacts == (Call = <<>>) <=> phase # "handler"
<1>1. \A a, b, c : <<a, b, c>> # <<>>
  OBVIOUS
<1> QED
  BY <1>1 DEF Call

\* What the proofs know of the list and its contents.
LEMMA ListFacts ==
  ASSUME IInv
  PROVE  /\ Queue \in Seq(live) /\ Queue \in Seq(Cells) /\ cell \in CellRecords
         /\ live \subseteq Cells /\ phase \in {"idle", "loop", "handler"}
         /\ head # NULL => Queue # <<>> /\ Queue[1] = head /\ head \in live
         /\ head = NULL => Queue = <<>>
         /\ phase = "handler" => head # NULL
         /\ Len(Queue) = Cardinality(live)
<1>1. TypeOK /\ Chain(Queue) /\ Queue \in Seq(live) /\ (phase = "handler" => head # NULL)
  BY DEF IInv, Chain
<1>2. live \subseteq Cells /\ cell \in CellRecords /\ phase \in {"idle", "loop", "handler"}
  BY <1>1 DEF TypeOK, CellRecords
<1>3. Queue \in Seq(Cells)
  BY <1>1, <1>2, SeqMonotonic
<1>4. Queue # <<>> => Queue[1] = head /\ Queue[1] \in live
  <2>1. Queue # <<>> => Len(Queue) \in Nat \ {0}
    BY <1>1, EmptySeq
  <2> QED
    BY <1>1, <2>1, ElementOfSeq DEF Chain
<1>5. head # NULL => Queue # <<>>
  BY <1>1 DEF Chain
<1>6. NULL \notin live
  BY <1>2, EventAssumption
<1>7. Len(Queue) = Cardinality(live)
  BY <1>1, ChainLength
<1> QED
  BY <1>1, <1>2, <1>3, <1>4, <1>5, <1>6, <1>7

\* Post, in the variables of the mapping.
LEMMA MappedPost ==
  ASSUME NEW e \in Ids, NEW d \in Datas, phase # "loop", phase' = phase,
         handlers' = handlers, Call' = Call, phase = "handler" => Call # <<>>,
         phase \in {"idle", "loop", "handler"},
         Len(Pending) < Cardinality(Cells), Pending' = Append(Pending, <<e, d>>)
  PROVE  Fifo!Next
<1>1. Fifo!Post(e, d)
  BY DEF Fifo!Post, Fifo!ClientTurn, Pending, Undelivered, Call
<1> QED
  BY <1>1 DEF Fifo!Next

\* event_post is Post.
LEMMA PostRefines ==
  ASSUME IInv, NEW e \in Ids, NEW d \in Datas, event_post(e, d)
  PROVE  Fifo!Next
<1>1. PICK c \in Cells \ live :
        /\ Queue' = Append(Queue, c) /\ cell'[c].eid = e /\ cell'[c].data = d
        /\ \A b \in live : cell'[b].eid = cell[b].eid /\ cell'[b].data = cell[b].data
  BY PostFacts
<1>2. UNCHANGED <<handlers, id_max, arg, phase>> /\ phase # "loop"
  BY PostFacts DEF event_post, ClientTurn
<1>3. cell' \in CellRecords
  BY PostFacts DEF IInv, TypeOK, CellRecords
<1>4. PICK u : u = Undelivered
  OBVIOUS
<1>5. u \in Seq(live) /\ u \in Seq(Cells) /\ Len(u) \in Nat /\ Len(u) <= Cardinality(live)
      /\ Undelivered' = Append(u, c)
  <2>1. CASE phase = "handler"
    <3>1. Queue # <<>> /\ Queue \in Seq(live) /\ Len(Queue) \in Nat
      BY <2>1, ListFacts, SeqFacts
    <3>2. u = Tail(Queue) /\ Tail(Queue) \in Seq(live) /\ Len(Tail(Queue)) = Len(Queue) - 1
      BY <1>4, <2>1, <3>1, HeadTailProperties DEF Undelivered
    <3>3. Tail(Append(Queue, c)) = Append(Tail(Queue), c)
      BY <3>1, HeadTailAppend
    <3>4. Undelivered' = Append(u, c)
      BY <1>1, <1>2, <2>1, <3>2, <3>3, Zenon DEF Undelivered
    <3>5. u \in Seq(live) /\ Len(u) = Len(Queue) - 1 /\ Len(u) \in Nat
      BY <3>2, SeqFacts
    <3>6. Len(u) <= Cardinality(live)
      BY <3>1, <3>5, ListFacts
    <3> QED
      BY <3>4, <3>5, <3>6, ListFacts, SeqMonotonic
  <2>2. CASE phase # "handler"
    <3>1. u = Queue /\ Undelivered' = Append(u, c)
      BY <1>1, <1>2, <1>4, <2>2, Zenon DEF Undelivered
    <3>2. Queue \in Seq(live) /\ Queue \in Seq(Cells) /\ Len(Queue) \in Nat
          /\ Len(Queue) = Cardinality(live)
      BY ListFacts, SeqFacts
    <3> QED
      BY <3>1, <3>2
  <2> QED
    BY <2>1, <2>2
<1>6. Pending = Contents(cell, u) /\ Pending' = Contents(cell', Append(u, c))
  BY <1>4, <1>5, Zenon DEF Pending, Events, Contents
<1>7. Pending' = Append(Pending, <<e, d>>)
  <2>1. \A i \in 1 .. Len(u) : /\ cell[u[i]].eid = cell'[u[i]].eid
                               /\ cell[u[i]].data = cell'[u[i]].data
    BY <1>1, <1>5, ElementOfSeq
  <2>2. cell \in CellRecords
    BY ListFacts
  <2>3. Contents(cell', Append(u, c)) = Append(Contents(cell, u), <<cell'[c].eid, cell'[c].data>>)
    BY <1>3, <1>5, <2>1, <2>2, ContentsAppend
  <2> QED
    BY <1>1, <1>6, <2>3, Zenon
<1>8. Len(Pending) < Cardinality(Cells)
  <2>1. Len(Pending) = Len(u)
    BY <1>5, <1>6, ListFacts, ContentsSeq
  <2>2. live \in SUBSET Cells /\ live # Cells /\ IsFiniteSet(Cells)
    BY ListFacts, EventAssumption
  <2>3. Cardinality(live) <= Cardinality(Cells) /\ Cardinality(live) # Cardinality(Cells)
    BY <2>2, FS_Subset
  <2>4. Cardinality(live) \in Nat /\ Cardinality(Cells) \in Nat
    BY <2>2, FS_Subset, FS_CardinalityType
  <2> QED
    BY <1>5, <2>1, <2>3, <2>4
<1>9. Call' = Call
  <2>1. phase = "handler" => head' = head /\ head \in live
    BY ListFacts, PostFacts
  <2> QED
    BY <1>1, <1>2, <2>1 DEF Call
<1> QED
  BY <1>2, <1>7, <1>8, <1>9, MappedPost, CallFacts, ListFacts

\* A step that leaves the list alone and neither enters nor leaves a handler.
LEMMA SamePending ==
  ASSUME IInv, UNCHANGED list, (phase' = "handler") <=> (phase = "handler"),
         phase = "handler" => arg' = arg
  PROVE  UNCHANGED <<Pending, Call>>
<1>1. Queue' = Queue /\ UNCHANGED <<head, cell>>
  BY SameList DEF list
<1> QED
  BY <1>1 DEF Pending, Undelivered, Events, Call

\* event_set_handler and event_free_id are Register.
LEMMA RegisterRefines ==
  ASSUME IInv, NEW e \in Ids, event_free_id(e) \/ \E c \in Contexts : event_set_handler(e, c)
  PROVE  Fifo!Next
<1>1. UNCHANGED <<list, arg, phase>> /\ phase # "loop" /\ phase \in {"idle", "loop", "handler"}
  BY ListFacts DEF event_free_id, event_set_handler, ClientTurn
<1>2. UNCHANGED <<Pending, Call>>
  BY <1>1, SamePending
<1>3. PICK c \in Contexts \cup {NoHandler} : handlers' = [handlers EXCEPT ![e] = c]
  BY DEF event_free_id, event_set_handler
<1>4. Fifo!Register(e, c)
  BY <1>1, <1>2, <1>3, CallFacts
     DEF Fifo!Register, Fifo!ClientTurn, Pending, Undelivered, Call
<1> QED
  BY <1>4 DEF Fifo!Next

\* The first event of the list, when there is one.
LEMMA HeadEvent ==
  ASSUME IInv, head # NULL
  PROVE  /\ Events(Queue) # <<>> /\ Events(Tail(Queue)) = Tail(Events(Queue))
         /\ Head(Events(Queue)) = <<cell[head].eid, cell[head].data>>
  BY ListFacts, ContentsTail DEF Events, Contents

\* Deliver, in the variables of the mapping.
LEMMA MappedDeliver ==
  ASSUME NEW e, NEW d, phase = "loop", phase' # "idle", handlers' = handlers,
         Pending # <<>>, Head(Pending) = <<e, d>>, Pending' = Tail(Pending),
         Call' = IF handlers[e] = NoHandler THEN <<>> ELSE <<e, handlers[e], d>>
  PROVE  Fifo!Next
<1>1. Call = <<>> /\ Head(Pending)[1] = e /\ Head(Pending)[2] = d
  BY DEF Call
<1>2. Fifo!Deliver
  BY <1>1 DEF Fifo!Deliver, Pending, Undelivered, Call
<1> QED
  BY <1>2 DEF Fifo!Next

\* event_work's call of a handler is Deliver.
LEMMA DispatchRefines ==
  ASSUME IInv, event_work_dispatch
  PROVE  Fifo!Next
<1>1. /\ UNCHANGED <<list, handlers>> /\ head # NULL /\ phase = "loop" /\ phase' = "handler"
      /\ handlers[cell[head].eid] # NoHandler /\ arg' = handlers[cell[head].eid]
  BY DEF event_work_dispatch
<1>2. Queue' = Queue /\ head' = head /\ cell' = cell
  BY <1>1, SameList DEF list
<1>3. Pending = Events(Queue) /\ Pending' = Events(Tail(Queue))
  BY <1>1, <1>2 DEF Pending, Undelivered, Events
<1>4. Call' = <<cell[head].eid, handlers[cell[head].eid], cell[head].data>>
  BY <1>1, <1>2 DEF Call
<1> QED
  BY <1>1, <1>3, <1>4, HeadEvent, MappedDeliver

\* The contents of the rest of the list survive the freeing of its head.
LEMMA PopContents ==
  ASSUME IInv, head # NULL, PopHead
  PROVE  Events(Queue)' = Events(Tail(Queue))
<1>1. PICK s : s = Tail(Queue)
  OBVIOUS
<1>2. Queue' = s /\ s \in Seq(live') /\ cell' \in CellRecords
      /\ \A b \in live' : b \in live /\ cell'[b] = cell[b]
  BY <1>1, PopFacts DEF Chain
<1>3. s \in Seq(Cells) /\ cell \in CellRecords
  BY <1>1, ListFacts, ContentsTail
<1>4. \A i \in 1 .. Len(s) : /\ cell[s[i]].eid = cell'[s[i]].eid
                             /\ cell[s[i]].data = cell'[s[i]].data
  BY <1>2, ElementOfSeq
<1>5. Contents(cell, s) = Contents(cell', s)
  BY <1>2, <1>3, <1>4, ContentsSame
<1> QED
  BY <1>1, <1>2, <1>5 DEF Events, Contents

\* An event without a handler is delivered to nobody.
LEMMA DropRefines ==
  ASSUME IInv, event_work_drop
  PROVE  Fifo!Next
<1>1. /\ head # NULL /\ PopHead /\ phase = "loop" /\ phase' = phase /\ handlers' = handlers
      /\ handlers[cell[head].eid] = NoHandler
  BY DEF event_work_drop
<1>2. Pending = Events(Queue) /\ Pending' = Events(Queue)' /\ Call' = <<>>
  BY <1>1 DEF Pending, Undelivered, Call, Events
<1> QED
  BY <1>1, <1>2, HeadEvent, PopContents, MappedDeliver

\* The return of a handler: its event had left the promised queue before.
LEMMA AdvanceRefines ==
  ASSUME IInv, event_work_advance
  PROVE  Fifo!Next
<1>1. head # NULL /\ PopHead /\ phase = "handler" /\ phase' = "loop" /\ handlers' = handlers
  BY ListFacts DEF event_work_advance
<1>2. Pending = Events(Tail(Queue)) /\ Pending' = Events(Queue)'
  BY <1>1 DEF Pending, Undelivered, Events
<1>3. Pending' = Pending /\ Call # <<>> /\ Call' = <<>>
  BY <1>1, <1>2, PopContents, CallFacts DEF Call
<1>4. Fifo!HandlerReturns
  BY <1>1, <1>3 DEF Fifo!HandlerReturns, Pending, Undelivered, Call
<1> QED
  BY <1>4 DEF Fifo!Next

\* event_work begins.
LEMMA EnterRefines ==
  ASSUME IInv, event_work_enter
  PROVE  Fifo!Next
<1>1. UNCHANGED <<list, handlers, arg>> /\ phase = "idle" /\ phase' = "loop"
  BY DEF event_work_enter
<1>2. UNCHANGED <<Pending, Call>>
  BY <1>1, SamePending
<1>3. Fifo!Enter
  BY <1>1, <1>2 DEF Fifo!Enter, Pending, Undelivered, Call
<1> QED
  BY <1>3 DEF Fifo!Next

\* event_work ends with nothing left to deliver.
LEMMA LeaveRefines ==
  ASSUME IInv, event_work_leave
  PROVE  Fifo!Next
<1>1. /\ handlers' = handlers /\ phase = "loop" /\ phase' = "idle"
      /\ Queue = <<>> /\ Queue' = <<>>
  BY LeaveFacts DEF event_work_leave
<1>2. cell \in CellRecords /\ cell' \in CellRecords
  BY LeaveFacts DEF IInv, TypeOK, CellRecords
<1>3. Contents(cell, <<>>) = <<>> /\ Contents(cell', <<>>) = <<>>
  BY DEF Contents
<1>4. Pending = <<>> /\ Pending' = <<>> /\ Call = <<>> /\ Call' = <<>>
  BY <1>1, <1>3 DEF Pending, Undelivered, Events, Contents, Call
<1>5. Fifo!Leave
  BY <1>1, <1>4 DEF Fifo!Leave, Pending, Undelivered, Call
<1> QED
  BY <1>5 DEF Fifo!Next

\* Every step of event.c is a step of the promised queue or leaves it alone.
LEMMA StepRefines == IInv /\ [Next]_vars => [Fifo!Next]_(Fifo!vars)
<1> SUFFICES ASSUME IInv, [Next]_vars PROVE Fifo!Next \/ UNCHANGED Fifo!vars
  OBVIOUS
<1>1. CASE event_get_id
  <2>1. UNCHANGED <<list, handlers, arg, phase>>
    BY <1>1 DEF event_get_id
  <2> QED
    BY <2>1, SamePending, MappedStutter
<1>2. CASE UNCHANGED vars
  <2>1. UNCHANGED <<list, handlers, arg, phase>>
    BY <1>2 DEF vars, list
  <2> QED
    BY <2>1, SamePending, MappedStutter
<1> QED
  BY <1>1, <1>2, PostRefines, RegisterRefines, DispatchRefines, DropRefines,
     AdvanceRefines, EnterRefines, LeaveRefines DEF Next, EventWork, Callers

\* ImplementsFifo: the linked list, with its head kept during a call and its tail
\* cleared at the end of the loop, is the FIFO that event.c's callers rely on.
THEOREM EventImplementsFifo == Spec => ImplementsFifo
<1>1. Init => Fifo!Init
  <2> SUFFICES ASSUME Init PROVE Fifo!Init
    OBVIOUS
  <2>1. IInv /\ head = NULL /\ phase = "idle" /\ handlers = [e \in Ids |-> NoHandler]
    BY InitIInv DEF Init
  <2>2. Queue = <<>>
    BY <2>1, ListFacts
  <2>3. Pending = <<>> /\ Call = <<>>
    BY <2>1, <2>2 DEF Pending, Undelivered, Events, Call
  <2> QED
    BY <2>1, <2>3, MappedInit
<1> QED
  BY <1>1, StepRefines, Inductive, PTL DEF Spec, ImplementsFifo, Fifo!Spec
=============================================================================
