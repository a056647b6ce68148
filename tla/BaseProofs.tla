----------------------------- MODULE BaseProofs ------------------------------
(***************************************************************************)
(* The parts of base/ that share nothing, one after the other: the pointer *)
(* operations of include/utils/bt_slist.h keep the list they describe,     *)
(* base/bt_mem_pool.c loses and shares no block, base/bt_poll.c leaves no  *)
(* event behind, base/bt_buf.c counts the references of its buffers,       *)
(* base/queue/bt_queue.c is a FIFO that strands nobody.  For every set of  *)
(* nodes, pools, buffers, threads and events, and every history of         *)
(* operations.                                                             *)
(***************************************************************************)
EXTENDS Base, BaseQueue, ListLemmas, FiniteSetTheorems

Distinct(s) == \A i, j \in 1..Len(s) : s[i] = s[j] => i = j

(* The position of a loop over the list: len nodes are behind it.          *)
WalkInv ==
  pc # "idle" =>
    /\ len <= Len(seq)
    /\ cur = IF len = Len(seq) THEN NULL ELSE seq[len + 1]
    /\ prev = IF len = 0 THEN NULL ELSE seq[len]
    /\ pc \in {"find", "remove"} => \A i \in 1..len : seq[i] # target

SInv == TypeOK /\ Distinct(seq) /\ ListShape /\ WalkInv

-----------------------------------------------------------------------------
(* Elements of a sequence of nodes are nodes, and not NULL.                *)
LEMMA NodesOfSeq ==
  ASSUME NEW s \in Seq(Nodes)
  PROVE  /\ Len(s) \in Nat
         /\ s = <<>> <=> Len(s) = 0
         /\ \A i \in 1..Len(s) : s[i] \in Nodes /\ s[i] # NULL
BY NullAssumption, LenProperties, ElementOfSeq, EmptySeq

(* Inserting in front is prepending.                                       *)
LEMMA InsertInFront ==
  ASSUME NEW S, NEW s \in Seq(S), NEW e \in S
  PROVE  InsertAt(s, 1, e) = Cons(e, s)
<1>1. Len(s) \in Nat
  BY LenProperties
<1>2. PICK k \in 1..(Len(s) + 1) : k = 1
  BY <1>1
<1>3. /\ InsertAt(s, k, e) \in Seq(S) /\ Len(InsertAt(s, k, e)) = Len(s) + 1
      /\ \A j \in 1..(Len(s) + 1) :
           InsertAt(s, k, e)[j] = IF j < k THEN s[j] ELSE IF j = k THEN e ELSE s[j - 1]
  BY InsertAtFacts
<1>4. /\ Cons(e, s) \in Seq(S) /\ Len(Cons(e, s)) = Len(s) + 1
      /\ \A j \in 1..(Len(s) + 1) : Cons(e, s)[j] = IF j = 1 THEN e ELSE s[j - 1]
  BY ConsFacts
<1>5. \A j \in 1..(Len(s) + 1) : ~(j < k)
  BY <1>1, <1>2
<1>6. \A j \in 1..Len(InsertAt(s, k, e)) : InsertAt(s, k, e)[j] = Cons(e, s)[j]
  BY <1>2, <1>3, <1>4, <1>5
<1>7. InsertAt(s, k, e) = Cons(e, s)
  BY <1>3, <1>4, <1>6, SeqEqual
<1> QED BY <1>2, <1>7

(* bt_slist_prepend puts the node in front of the list.                    *)
LEMMA PrependRep ==
  ASSUME NEW l \in Lists, NEW s \in Seq(Nodes), Distinct(s), Represents(l, s),
         NEW n \in Nodes, \A i \in 1..Len(s) : s[i] # n
  PROVE  /\ prepend(l, n) \in Lists
         /\ Represents(prepend(l, n), Cons(n, s))
         /\ Cons(n, s) \in Seq(Nodes) /\ Distinct(Cons(n, s))
<1> DEFINE t == Cons(n, s)
<1>0. /\ Len(s) \in Nat /\ (s = <<>> <=> Len(s) = 0)
      /\ \A i \in 1..Len(s) : s[i] \in Nodes /\ s[i] # NULL
  BY NodesOfSeq
<1>1. /\ t \in Seq(Nodes) /\ Len(t) = Len(s) + 1
      /\ \A j \in 1..(Len(s) + 1) : t[j] = IF j = 1 THEN n ELSE s[j - 1]
  BY ConsFacts
<1>2. prepend(l, n) \in Lists
  BY DEF prepend, Lists, Links
<1> HIDE DEF t
<1>3. Distinct(t)
  <2>1. \A j \in 1..Len(t) : j # 1 => j - 1 \in 1..Len(s) /\ t[j] = s[j - 1] /\ t[j] # n
    BY <1>0, <1>1
  <2>2. t[1] = n /\ Len(t) \in Nat
    BY <1>0, <1>1
  <2>3. ASSUME NEW i \in 1..Len(t), NEW j \in 1..Len(t), t[i] = t[j]
        PROVE  i = j
    <3>1. CASE i = 1 \/ j = 1
      BY <3>1, <2>1, <2>2, <2>3
    <3>2. CASE i # 1 /\ j # 1
      <4>1. i - 1 = j - 1
        BY <3>2, <2>1, <2>3 DEF Distinct
      <4> QED BY <4>1, <2>2
    <3> QED BY <3>1, <3>2
  <2> QED BY <2>3 DEF Distinct
<1>4. t # <<>> /\ prepend(l, n).head = t[1] /\ prepend(l, n).tail = t[Len(t)]
  BY <1>0, <1>1 DEF Represents, prepend
<1>5. ASSUME NEW i \in 1..Len(t)
      PROVE  prepend(l, n).next[t[i]] = IF i = Len(t) THEN NULL ELSE t[i + 1]
  <2>1. CASE i = 1
    BY <2>1, <1>0, <1>1 DEF Represents, prepend, Lists, Links
  <2>2. CASE i # 1
    <3>1. i - 1 \in 1..Len(s) /\ t[i] = s[i - 1] /\ s[i - 1] # n
      BY <2>2, <1>0, <1>1
    <3>2. prepend(l, n).next[t[i]] = l.next[s[i - 1]]
      BY <3>1, <1>0 DEF prepend, Lists, Links
    <3>3. l.next[s[i - 1]] = IF i - 1 = Len(s) THEN NULL ELSE s[i]
      BY <3>1, <1>0 DEF Represents
    <3>4. (i - 1 = Len(s) <=> i = Len(t)) /\ (i # Len(t) => t[i + 1] = s[i])
      BY <2>2, <1>0, <1>1
    <3> QED BY <3>1, <3>2, <3>3, <3>4
  <2> QED BY <2>1, <2>2
<1> QED BY <1>1, <1>2, <1>3, <1>4, <1>5 DEF t, Represents

(* bt_slist_append puts the node at the end, whatever its link was.        *)
LEMMA AppendRep ==
  ASSUME NEW l \in Lists, NEW s \in Seq(Nodes), Distinct(s), Represents(l, s),
         NEW n \in Nodes, \A i \in 1..Len(s) : s[i] # n
  PROVE  /\ append(l, n) \in Lists
         /\ Represents(append(l, n), Append(s, n))
         /\ Append(s, n) \in Seq(Nodes) /\ Distinct(Append(s, n))
<1> DEFINE t == Append(s, n)
<1>0. /\ Len(s) \in Nat /\ (s = <<>> <=> Len(s) = 0)
      /\ \A i \in 1..Len(s) : s[i] \in Nodes /\ s[i] # NULL
  BY NodesOfSeq
<1>1. /\ t \in Seq(Nodes) /\ Len(t) = Len(s) + 1
      /\ \A j \in 1..(Len(s) + 1) : t[j] = IF j <= Len(s) THEN s[j] ELSE n
  BY AppendFacts
<1>2. append(l, n) \in Lists
  BY DEF append, Lists, Links
<1> HIDE DEF t
<1>3. Distinct(t)
  BY <1>0, <1>1 DEF Distinct
<1>4. t # <<>> /\ append(l, n).head = t[1] /\ append(l, n).tail = t[Len(t)]
  BY <1>0, <1>1 DEF Represents, append
<1>5. append(l, n).next[n] = NULL
  BY <1>0 DEF Represents, append, Lists, Links
<1>6. ASSUME NEW i \in 1..Len(s)
      PROVE  append(l, n).next[s[i]] = IF i = Len(s) THEN n ELSE s[i + 1]
  <2>1. l.tail = s[Len(s)] /\ l.tail # NULL /\ l.tail \in Nodes /\ l.tail # n
    BY <1>0 DEF Represents
  <2>2. append(l, n).next = [[l.next EXCEPT ![n] = NULL] EXCEPT ![l.tail] = n]
    BY <2>1 DEF append
  <2>3. s[i] = l.tail <=> i = Len(s)
    BY <1>0, <2>1 DEF Distinct
  <2>4. append(l, n).next[s[i]] = IF i = Len(s) THEN n ELSE l.next[s[i]]
    BY <1>0, <2>1, <2>2, <2>3 DEF Lists, Links
  <2> QED BY <2>4 DEF Represents
<1>7. ASSUME NEW i \in 1..Len(t)
      PROVE  append(l, n).next[t[i]] = IF i = Len(t) THEN NULL ELSE t[i + 1]
  <2>1. CASE i = Len(t)
    BY <2>1, <1>0, <1>1, <1>5
  <2>2. CASE i # Len(t)
    <3>1. i \in 1..Len(s) /\ t[i] = s[i] /\ t[i + 1] = IF i = Len(s) THEN n ELSE s[i + 1]
      BY <2>2, <1>0, <1>1
    <3> QED BY <2>2, <3>1, <1>6
  <2> QED BY <2>1, <2>2
<1> QED BY <1>1, <1>2, <1>3, <1>4, <1>7 DEF t, Represents

(* bt_slist_insert puts the node behind the i-th one.                      *)
LEMMA InsertRep ==
  ASSUME NEW l \in Lists, NEW s \in Seq(Nodes), Distinct(s), Represents(l, s),
         NEW n \in Nodes, \A j \in 1..Len(s) : s[j] # n, NEW i \in 1..Len(s)
  PROVE  /\ insert(l, s[i], n) \in Lists
         /\ Represents(insert(l, s[i], n), InsertAt(s, i + 1, n))
         /\ InsertAt(s, i + 1, n) \in Seq(Nodes) /\ Distinct(InsertAt(s, i + 1, n))
<1> DEFINE t == InsertAt(s, i + 1, n)
           new == insert(l, s[i], n)
<1>0. /\ Len(s) \in Nat /\ (s = <<>> <=> Len(s) = 0)
      /\ \A j \in 1..Len(s) : s[j] \in Nodes /\ s[j] # NULL
  BY NodesOfSeq
<1>1. /\ t \in Seq(Nodes) /\ Len(t) = Len(s) + 1
      /\ \A j \in 1..(Len(s) + 1) : t[j] = IF j < i + 1 THEN s[j]
                                           ELSE IF j = i + 1 THEN n ELSE s[j - 1]
  <2>1. i + 1 \in 1..(Len(s) + 1)
    BY <1>0
  <2>2. t \in Seq(Nodes) /\ InsertedAt(s, t, i + 1, n)
    BY <2>1, InsertAtInserts
  <2> QED BY <2>2 DEF InsertedAt
<1>2. new = [head |-> l.head, tail |-> IF l.tail = s[i] THEN n ELSE l.tail,
             next |-> [[l.next EXCEPT ![n] = l.next[s[i]]] EXCEPT ![s[i]] = n]]
  BY <1>0 DEF insert
<1> HIDE DEF t, new
<1>3. new \in Lists
  BY <1>0, <1>2 DEF Lists, Links
<1>4. Distinct(t)
  <2> DEFINE old(j) == IF j < i + 1 THEN j ELSE j - 1
  <2>1. \A j \in 1..Len(t) : j # i + 1 => old(j) \in 1..Len(s) /\ t[j] = s[old(j)] /\ t[j] # n
    BY <1>0, <1>1
  <2>2. t[i + 1] = n /\ Len(t) \in Nat
    BY <1>0, <1>1
  <2>3. ASSUME NEW j \in 1..Len(t), NEW k \in 1..Len(t), t[j] = t[k]
        PROVE  j = k
    <3>1. CASE j = i + 1 \/ k = i + 1
      BY <3>1, <2>1, <2>2, <2>3
    <3>2. CASE j # i + 1 /\ k # i + 1
      <4> HIDE DEF old
      <4>1. old(j) = old(k)
        BY <3>2, <2>1, <2>3 DEF Distinct
      <4> QED BY <4>1, <3>2, <2>2 DEF old
    <3> QED BY <3>1, <3>2
  <2> QED BY <2>3 DEF Distinct
<1>5. l.tail = s[i] <=> i = Len(s)
  BY <1>0 DEF Represents, Distinct
<1>6. t # <<>> /\ new.head = t[1] /\ new.tail = t[Len(t)]
  BY <1>0, <1>1, <1>2, <1>5 DEF Represents
<1>7. new.next[n] = IF i = Len(s) THEN NULL ELSE s[i + 1]
  BY <1>0, <1>2 DEF Represents, Lists, Links
<1>8. ASSUME NEW j \in 1..Len(s)
      PROVE  new.next[s[j]] = IF j = i THEN n ELSE IF j = Len(s) THEN NULL ELSE s[j + 1]
  <2>1. s[j] = s[i] <=> j = i
    BY DEF Distinct
  <2>2. new.next[s[j]] = IF j = i THEN n ELSE l.next[s[j]]
    BY <1>0, <1>2, <2>1 DEF Lists, Links
  <2> QED BY <2>2 DEF Represents
<1>9. ASSUME NEW j \in 1..Len(t)
      PROVE  new.next[t[j]] = IF j = Len(t) THEN NULL ELSE t[j + 1]
  <2>1. CASE j < i + 1
    <3>1. j \in 1..Len(s) /\ t[j] = s[j] /\ j # Len(t)
          /\ t[j + 1] = IF j = i THEN n ELSE s[j + 1]
      BY <2>1, <1>0, <1>1
    <3>2. j # i => j # Len(s)
      BY <2>1, <1>0
    <3> QED BY <3>1, <3>2, <1>8
  <2>2. CASE j = i + 1
    <3>1. t[j] = n /\ (j = Len(t) <=> i = Len(s)) /\ (i # Len(s) => t[j + 1] = s[i + 1])
      BY <2>2, <1>0, <1>1
    <3> QED BY <3>1, <1>7
  <2>3. CASE j > i + 1
    <3>1. j - 1 \in 1..Len(s) /\ j - 1 # i /\ t[j] = s[j - 1]
          /\ (j = Len(t) <=> j - 1 = Len(s)) /\ (j - 1) + 1 = j
      BY <2>3, <1>0, <1>1
    <3>2. j # Len(t) => t[j + 1] = s[j]
      <4>0. Len(s) \in Nat /\ Len(t) = Len(s) + 1 /\ j \in Int /\ i \in Int
            /\ 1 <= j /\ j <= Len(t) /\ j > i + 1
        BY <2>3, <1>0, <1>1
      <4>1. j # Len(t) => j + 1 \in 1..(Len(s) + 1) /\ ~(j + 1 < i + 1) /\ j + 1 # i + 1
        BY ONLY <4>0
      <4>2. (j + 1) - 1 = j
        BY <1>0, <1>1
      <4> QED BY <4>1, <4>2, <1>1
    <3> QED BY <3>1, <3>2, <1>8
  <2>4. j < i + 1 \/ j = i + 1 \/ j > i + 1
    BY <1>0, <1>1
  <2> QED BY <2>1, <2>2, <2>3, <2>4
<1> QED BY <1>1, <1>3, <1>4, <1>6, <1>9 DEF t, new, Represents

(* bt_slist_remove, given the node's predecessor, unlinks it.              *)
LEMMA RemoveRep ==
  ASSUME NEW l \in Lists, NEW s \in Seq(Nodes), Distinct(s), Represents(l, s),
         NEW i \in 1..Len(s), NEW p, p = IF i = 1 THEN NULL ELSE s[i - 1]
  PROVE  /\ remove(l, p, s[i]) \in Lists
         /\ Represents(remove(l, p, s[i]), RemoveAt(s, i))
         /\ RemoveAt(s, i) \in Seq(Nodes) /\ Distinct(RemoveAt(s, i))
<1> DEFINE t == RemoveAt(s, i)
           new == remove(l, p, s[i])
           old(j) == IF j < i THEN j ELSE j + 1
<1>0. /\ Len(s) \in Nat /\ Len(s) # 0 /\ i \in Int /\ 1 <= i /\ i <= Len(s)
      /\ \A j \in 1..Len(s) : s[j] \in Nodes /\ s[j] # NULL
  BY NodesOfSeq
<1>1. /\ t \in Seq(Nodes) /\ Len(t) = Len(s) - 1 /\ (t = <<>> <=> Len(t) = 0)
      /\ \A j \in 1..(Len(s) - 1) : t[j] = s[old(j)] /\ old(j) \in 1..Len(s) /\ old(j) # i
  <2>1. t \in Seq(Nodes) /\ Len(t) = Len(s) - 1
        /\ \A j \in 1..(Len(s) - 1) : t[j] = s[old(j)]
    BY RemoveAtFacts
  <2>2. \A j \in 1..(Len(s) - 1) : old(j) \in 1..Len(s) /\ old(j) # i
    BY <1>0
  <2>3. t = <<>> <=> Len(t) = 0
    BY <2>1, NodesOfSeq
  <2> QED BY <2>1, <2>2, <2>3
<1>2. /\ p = NULL <=> i = 1
      /\ i = 1 => l.head = s[i]
      /\ i # 1 => i - 1 \in 1..Len(s) /\ p = s[i - 1] /\ l.next[p] = s[i] /\ p \in Nodes
      /\ l.next[s[i]] = IF i = Len(s) THEN NULL ELSE s[i + 1]
      /\ l.tail = s[Len(s)]
  <2>1. i # 1 => i - 1 \in 1..Len(s) /\ (i - 1) + 1 = i /\ i - 1 # Len(s)
    BY <1>0
  <2>2. s # <<>>
    BY <1>0, NodesOfSeq
  <2> QED BY <1>0, <2>1, <2>2 DEF Represents
<1>3. /\ new.head = IF i = 1 THEN l.next[s[i]] ELSE l.head
      /\ new.tail = IF i = Len(s) THEN p ELSE l.tail
      /\ new.next = [(IF i = 1 THEN l.next ELSE [l.next EXCEPT ![p] = l.next[s[i]]])
                       EXCEPT ![s[i]] = NULL]
      /\ new = [head |-> new.head, tail |-> new.tail, next |-> new.next]
  <2>1. i # Len(s) => i + 1 \in 1..Len(s) /\ s[i + 1] # NULL
    BY <1>0
  <2> QED BY <1>2, <2>1 DEF remove
<1> HIDE DEF t, new, old
<1>4. new \in Lists
  <2>1. new.next \in Links
    BY <1>0, <1>2, <1>3 DEF Lists, Links
  <2>2. new.head \in Nodes \cup {NULL} /\ new.tail \in Nodes \cup {NULL}
    BY <1>0, <1>2, <1>3 DEF Lists, Links
  <2> QED BY <2>1, <2>2, <1>3 DEF Lists
<1>5. Distinct(t)
  <2>1. ASSUME NEW j \in 1..Len(t), NEW k \in 1..Len(t), t[j] = t[k]
        PROVE  j = k
    <3>1. old(j) = old(k)
      BY <1>1, <2>1 DEF Distinct
    <3> QED BY <3>1, <1>0, <1>1 DEF old
  <2> QED BY <2>1 DEF Distinct
<1>6. new.head = IF t = <<>> THEN NULL ELSE t[1]
  <2>1. t # <<>> => 1 \in 1..(Len(s) - 1) /\ old(1) = (IF i = 1 THEN 2 ELSE 1)
    BY <1>0, <1>1 DEF old
  <2>2. t # <<>> => t[1] = IF i = 1 THEN s[2] ELSE s[1]
    BY <2>1, <1>1
  <2>3. i = 1 => (i = Len(s) <=> t = <<>>) /\ i + 1 = 2
    BY <1>0, <1>1
  <2>4. i # 1 => t # <<>> /\ l.head = s[1]
    BY <1>0, <1>1, NodesOfSeq DEF Represents
  <2> QED BY <2>2, <2>3, <2>4, <1>2, <1>3
<1>7. new.tail = IF t = <<>> THEN NULL ELSE t[Len(t)]
  <2>1. t # <<>> => Len(t) \in 1..(Len(s) - 1)
    BY <1>0, <1>1
  <2>2. CASE i = Len(s)
    <3>0. Len(t) = i - 1 /\ (t # <<>> => Len(t) \in 1..(Len(s) - 1))
      BY <2>1, <2>2, <1>0, <1>1
    <3>1. t # <<>> => old(Len(t)) = i - 1 /\ i # 1
      BY <3>0, <1>0 DEF old
    <3>2. t = <<>> => i = 1
      BY <3>0, <1>0, <1>1
    <3> QED BY <2>1, <2>2, <3>1, <3>2, <1>1, <1>2, <1>3
  <2>3. CASE i # Len(s)
    <3>1. t # <<>> /\ old(Len(t)) = Len(s)
      BY <2>3, <1>0, <1>1 DEF old
    <3> QED BY <2>1, <2>3, <3>1, <1>1, <1>2, <1>3
  <2> QED BY <2>2, <2>3
<1>8. ASSUME NEW j \in 1..Len(t)
      PROVE  new.next[t[j]] = IF j = Len(t) THEN NULL ELSE t[j + 1]
  <2>1. /\ j \in 1..(Len(s) - 1) /\ t[j] = s[old(j)] /\ old(j) \in 1..Len(s) /\ old(j) # i
        /\ j # Len(t) => t[j + 1] = s[old(j + 1)]
    BY <1>0, <1>1
  <2>2. t[j] # s[i] /\ (i # 1 => (t[j] = p <=> old(j) = i - 1))
    BY <2>1, <1>2 DEF Distinct
  <2>3. new.next[t[j]] = IF i # 1 /\ old(j) = i - 1 THEN l.next[s[i]] ELSE l.next[t[j]]
    BY <2>1, <2>2, <1>0, <1>2, <1>3 DEF Lists, Links
  <2>4. l.next[t[j]] = IF old(j) = Len(s) THEN NULL ELSE s[old(j) + 1]
    BY <2>1 DEF Represents
  <2>5. CASE i # 1 /\ old(j) = i - 1
    <3>1. (j = Len(t) <=> i = Len(s)) /\ (j # Len(t) => old(j + 1) = i + 1)
      BY <2>1, <2>5, <1>0, <1>1 DEF old
    <3> QED BY <2>1, <2>3, <2>5, <3>1, <1>2
  <2>6. CASE ~(i # 1 /\ old(j) = i - 1)
    <3>1. (j = Len(t) <=> old(j) = Len(s)) /\ (j # Len(t) => old(j + 1) = old(j) + 1)
      BY <2>1, <2>6, <1>0, <1>1 DEF old
    <3> QED BY <2>1, <2>3, <2>4, <2>6, <3>1
  <2> QED BY <2>5, <2>6
<1> QED BY <1>1, <1>4, <1>5, <1>6, <1>7, <1>8 DEF t, new, Represents

(* bt_slist_get takes the head.                                            *)
LEMMA GetRep ==
  ASSUME NEW l \in Lists, NEW s \in Seq(Nodes), Distinct(s), Represents(l, s),
         s # <<>>
  PROVE  /\ get(l) \in Lists
         /\ Represents(get(l), Tail(s))
         /\ Tail(s) \in Seq(Nodes) /\ Distinct(Tail(s))
<1>1. 1 \in 1..Len(s) /\ Len(s) \in Nat /\ s[1] # NULL /\ l.head = s[1]
  BY NodesOfSeq DEF Represents
<1>2. Tail(s) = RemoveAt(s, 1)
  <2>1. /\ RemoveAt(s, 1) \in Seq(Nodes) /\ Len(RemoveAt(s, 1)) = Len(s) - 1
        /\ \A j \in 1..(Len(s) - 1) : RemoveAt(s, 1)[j] = s[j + 1]
    BY <1>1, RemoveAtFacts
  <2>2. /\ Tail(s) \in Seq(Nodes) /\ Len(Tail(s)) = Len(s) - 1
        /\ \A j \in 1..(Len(s) - 1) : Tail(s)[j] = s[j + 1]
    BY <1>1, HeadTailProperties
  <2> QED BY <2>1, <2>2, SeqEqual
<1>3. get(l) = remove(l, NULL, s[1])
  BY <1>1, NullAssumption DEF get, remove, Lists
<1> QED BY <1>1, <1>2, <1>3, RemoveRep

-----------------------------------------------------------------------------
(* The invariant holds initially.                                          *)
LEMMA SInvInit == Init => SInv
BY EmptySeq, NullAssumption DEF Init, SInv, TypeOK, Distinct, ListShape, Represents, WalkInv, Lists

(* A loop that has not reached the end stands at a node of the list.       *)
LEMMA Position ==
  ASSUME SInv, pc # "idle", cur # NULL
  PROVE  len \in Nat /\ len < Len(seq) /\ cur = seq[len + 1] /\ len + 1 \in 1..Len(seq)
<1>1. len \in Nat /\ Len(seq) \in Nat
  BY NodesOfSeq DEF SInv, TypeOK
<1>2. len <= Len(seq) /\ cur = IF len = Len(seq) THEN NULL ELSE seq[len + 1]
  BY DEF SInv, WalkInv
<1> QED BY <1>1, <1>2

(* Every step preserves the invariant.                                     *)
LEMMA SInvNext == SInv /\ [Next]_vars => SInv'
<1> SUFFICES ASSUME SInv, [Next]_vars PROVE SInv'
  OBVIOUS
<1> USE DEF SInv
<1>0. /\ Len(seq) \in Nat /\ (seq = <<>> <=> Len(seq) = 0) /\ DOMAIN seq = 1..Len(seq)
      /\ \A i \in 1..Len(seq) : seq[i] \in Nodes /\ seq[i] # NULL
  BY NodesOfSeq, LenProperties DEF TypeOK
<1>1. ASSUME NEW n \in Nodes, Prepend(n) PROVE SInv'
  BY <1>1, <1>0, PrependRep DEF Prepend, InList, walkVars, TypeOK, ListShape, WalkInv
<1>2. ASSUME NEW n \in Nodes, Append_(n) PROVE SInv'
  BY <1>2, <1>0, AppendRep DEF Append_, InList, walkVars, TypeOK, ListShape, WalkInv
<1>3. ASSUME NEW n \in Nodes, NEW i \in 0..Len(seq), Insert(i, n) PROVE SInv'
  <2>1. CASE i = 0
    <3>1. InsertAt(seq, 1, n) = Cons(n, seq)
      BY InsertInFront DEF TypeOK
    <3>2. list' = prepend(list, n) /\ seq' = Cons(n, seq)
      BY <1>3, <2>1, <3>1 DEF Insert, insert
    <3> QED BY <1>3, <3>2, <1>0, PrependRep DEF Insert, InList, walkVars, TypeOK, ListShape, WalkInv
  <2>2. CASE i # 0
    <3>1. i \in 1..Len(seq) /\ list' = insert(list, seq[i], n)
      BY <1>3, <2>2, <1>0 DEF Insert
    <3>2. seq' = InsertAt(seq, i + 1, n) /\ pc = "idle" /\ UNCHANGED walkVars
          /\ \A j \in 1..Len(seq) : seq[j] # n
      BY <1>3, <1>0 DEF Insert, InList
    <3>3. /\ insert(list, seq[i], n) \in Lists
          /\ Represents(insert(list, seq[i], n), InsertAt(seq, i + 1, n))
          /\ InsertAt(seq, i + 1, n) \in Seq(Nodes) /\ Distinct(InsertAt(seq, i + 1, n))
      BY <3>1, <3>2, InsertRep DEF TypeOK, ListShape
    <3> QED BY <3>1, <3>2, <3>3 DEF walkVars, TypeOK, ListShape, WalkInv
  <2> QED BY <2>1, <2>2
<1>4. ASSUME Get PROVE SInv'
  <2>1. seq # <<>>
    BY <1>4 DEF Get, ListShape, Represents
  <2> QED BY <1>4, <2>1, GetRep DEF Get, walkVars, TypeOK, ListShape, WalkInv
<1>5. ASSUME NEW n \in Nodes, NEW op \in {"find", "remove", "len"}, Walk(op, n) PROVE SInv'
  <2>1. UNCHANGED <<list, seq>> /\ cur' = list.head /\ prev' = NULL /\ len' = 0
    BY <1>5 DEF Walk
  <2>2. Distinct(seq)' /\ ListShape'
    BY <2>1 DEF Distinct, ListShape, Represents
  <2>3. list.head \in Nodes \cup {NULL} /\ TypeOK'
    BY <1>5 DEF Walk, TypeOK, Lists
  <2>4. cur' = IF 0 = Len(seq) THEN NULL ELSE seq[0 + 1]
    <3>1. list.head = IF seq = <<>> THEN NULL ELSE seq[1]
      BY DEF ListShape, Represents
    <3>2. (seq = <<>> <=> 0 = Len(seq)) /\ 0 + 1 = 1
      BY <1>0
    <3> QED BY <2>1, <3>1, <3>2
  <2>5. WalkInv'
    BY <2>1, <2>4, <1>0 DEF WalkInv
  <2> QED BY <2>2, <2>3, <2>5
<1>6. ASSUME Step PROVE SInv'
  <2>1. len \in Nat /\ len < Len(seq) /\ cur = seq[len + 1] /\ len + 1 \in 1..Len(seq)
    BY <1>6, Position DEF Step
  <2>2. list.next[cur] = IF len + 1 = Len(seq) THEN NULL ELSE seq[(len + 1) + 1]
    BY <2>1 DEF ListShape, Represents
  <2>3. cur \in Nodes /\ list.next[cur] \in Nodes \cup {NULL}
    BY <2>1, <1>0 DEF TypeOK, Lists, Links
  <2>4. TypeOK' /\ Distinct(seq)' /\ ListShape'
    BY <1>6, <2>1, <2>3 DEF Step, TypeOK, Distinct, ListShape, Represents
  <2>5. pc \in {"find", "remove"} => \A i \in 1..(len + 1) : seq[i] # target
    BY <1>6, <2>1 DEF Step, WalkInv
  <2>6. /\ len + 1 <= Len(seq) /\ len + 1 # 0
        /\ cur' = IF len + 1 = Len(seq) THEN NULL ELSE seq[(len + 1) + 1]
        /\ prev' = seq[len + 1] /\ len' = len + 1 /\ UNCHANGED <<pc, target, seq>>
    <3>1. len + 1 <= Len(seq) /\ len + 1 # 0
      BY <1>0, <2>1
    <3>2. cur' = list.next[cur] /\ prev' = cur /\ len' = len + 1 /\ UNCHANGED <<pc, target, seq>>
      BY <1>6 DEF Step
    <3> QED BY <3>1, <3>2, <2>1, <2>2
  <2>7. WalkInv'
    BY <2>5, <2>6 DEF WalkInv
  <2> QED BY <2>4, <2>7
<1>7. ASSUME Hit PROVE SInv'
  <2>1. CASE pc = "remove"
    <3>1. PICK i \in 1..Len(seq) : seq[i] = target /\ seq' = RemoveAt(seq, i)
      BY <1>7, <2>1, <1>0 DEF Hit
    <3>2. len \in Nat /\ len < Len(seq) /\ cur = seq[len + 1] /\ len + 1 \in 1..Len(seq)
      BY <1>7, Position DEF Hit
    <3>3. i = len + 1
      BY <1>7, <3>1, <3>2 DEF Hit, Distinct
    <3>4. prev = IF i = 1 THEN NULL ELSE seq[i - 1]
      BY <2>1, <3>2, <3>3 DEF WalkInv
    <3>5. list' = remove(list, prev, seq[i])
      BY <1>7, <2>1, <3>1 DEF Hit
    <3> QED BY <1>7, <3>1, <3>4, <3>5, RemoveRep DEF Hit, TypeOK, ListShape, WalkInv
  <2>2. CASE pc # "remove"
    BY <1>7, <2>2 DEF Hit, TypeOK, Distinct, ListShape, Represents, WalkInv
  <2> QED BY <2>1, <2>2
<1>8. ASSUME End PROVE SInv'
  BY <1>8 DEF End, TypeOK, Distinct, ListShape, Represents, WalkInv
<1>9. ASSUME UNCHANGED vars PROVE SInv'
  BY <1>9 DEF vars, walkVars, TypeOK, Distinct, ListShape, Represents, WalkInv
<1> QED BY <1>1, <1>2, <1>3, <1>4, <1>5, <1>6, <1>7, <1>8, <1>9 DEF Next

(* Every reachable state satisfies the invariant.                          *)
THEOREM SlistInvariance == Spec => []SInv
BY SInvInit, SInvNext, PTL DEF Spec

(* Whatever operations have run, the head, the tail and the links spell    *)
(* out exactly the list that the operations describe.                      *)
THEOREM SlistKeepsShape == Spec => []ListShape
<1>1. SInv => ListShape
  BY DEF SInv
<1> QED BY <1>1, SlistInvariance, PTL

(* bt_slist_find and bt_slist_find_and_remove miss no node and stop behind *)
(* the right predecessor.                                                  *)
THEOREM SlistFindsAll == Spec => []FindExact
<1>1. SInv => FindExact
  <2> SUFFICES ASSUME SInv, pc \in {"find", "remove"} PROVE FindExact
    BY DEF FindExact
  <2>1. /\ Len(seq) \in Nat /\ len \in Nat /\ (seq = <<>> <=> Len(seq) = 0)
        /\ \A i \in 1..Len(seq) : seq[i] # NULL
    BY NodesOfSeq DEF SInv, TypeOK
  <2>2. /\ len <= Len(seq)
        /\ cur = IF len = Len(seq) THEN NULL ELSE seq[len + 1]
        /\ prev = IF len = 0 THEN NULL ELSE seq[len]
        /\ \A i \in 1..len : seq[i] # target
    BY DEF SInv, WalkInv
  <2>3. cur = NULL => len = Len(seq)
    BY <2>1, <2>2
  <2>4. prev = NULL => len = 0
    BY <2>1, <2>2
  <2>5. cur # NULL /\ prev = NULL => list.head = cur
    BY <2>1, <2>2, <2>4 DEF SInv, ListShape, Represents
  <2>6. prev # NULL => list.next[prev] = cur
    BY <2>1, <2>2 DEF SInv, ListShape, Represents
  <2> QED BY <2>2, <2>3, <2>5, <2>6 DEF FindExact
<1> QED BY <1>1, SlistInvariance, PTL

-----------------------------------------------------------------------------
(* base/bt_mem_pool.c.  A block is on the list of its pool, in the hands   *)
(* of a thread, or on its way back in a bt_mem_pool_free.                  *)
OnList(b)   == Has(poolFreeList[Pool!PoolOf(b)], b)
InHand(b)   == \E t \in PoolThreads : b \in poolHeld[t]
OnItsWay(b) == \E t \in PoolThreads : poolPc[t] = "free" /\ poolArg[t] = b

(* The shapes of the variables.                                            *)
PoolType ==
  /\ poolFreeList \in [Pools -> Seq(Pool!Block)]
  /\ poolNumUsed \in [Pools -> Int]
  /\ poolHeld \in [PoolThreads -> SUBSET Pool!Block]
  /\ DOMAIN poolPc = PoolThreads /\ DOMAIN poolArg = PoolThreads
  /\ \A t \in PoolThreads :
       /\ poolPc[t] \in {"alloc", "take"} => poolArg[t][1] \in Pools
       /\ poolPc[t] = "free" => poolArg[t] \in Pool!Block

(* A block has one place, and there is one of it.                          *)
PoolPlaces ==
  /\ \A b \in Pool!Block :
       /\ OnList(b) \/ InHand(b) \/ OnItsWay(b)
       /\ ~(OnList(b) /\ InHand(b)) /\ ~(OnList(b) /\ OnItsWay(b))
       /\ ~(InHand(b) /\ OnItsWay(b))
  /\ \A t, u \in PoolThreads :
       /\ t # u => poolHeld[t] \cap poolHeld[u] = {}
       /\ t # u /\ poolPc[t] = "free" /\ poolPc[u] = "free" => poolArg[t] # poolArg[u]

(* A list has blocks of its own pool, each once, and num_used counts the   *)
(* others.                                                                 *)
PoolLists ==
  \A p \in Pools :
    /\ Once(poolFreeList[p], Pool!Block)
    /\ \A b \in Pool!Block : Has(poolFreeList[p], b) => Pool!PoolOf(b) = p
    /\ poolNumUsed[p] = NumBlocks - Len(poolFreeList[p])

PoolInv == PoolType /\ PoolPlaces /\ PoolLists

(* The pool of a block.                                                    *)
LEMMA PoolOfBlock == \A b \in Pool!Block : Pool!PoolOf(b) \in Pools
BY DEF Pool!Block, Pool!PoolOf

(* A set whose elements are all equal has one, or none.                    *)
LEMMA AtMostOne ==
  ASSUME NEW S, \A x, y \in S : x = y
  PROVE  Cardinality(S) = IF S = {} THEN 0 ELSE 1
<1>1. CASE S = {}
  BY <1>1, FS_EmptySet
<1>2. CASE S # {}
  <2>1. PICK x : S = {x}
    BY <1>2
  <2> QED BY <1>2, <2>1, FS_Singleton
<1> QED BY <1>1, <1>2

(* Prepending an element that the list did not have.                       *)
LEMMA ConsNew ==
  ASSUME NEW S, NEW list_ \in Seq(S), NEW e \in S, Once(list_, S), ~Has(list_, e)
  PROVE  /\ Cons(e, list_) \in Seq(S) /\ Len(Cons(e, list_)) = Len(list_) + 1
         /\ \A x : Has(Cons(e, list_), x) <=> Has(list_, x) \/ x = e
         /\ Once(Cons(e, list_), S)
<1> DEFINE new == Cons(e, list_)
           n == Len(list_)
<1>0. n \in Nat
  BY LenProperties
<1>1. /\ new \in Seq(S) /\ Len(new) = n + 1
      /\ \A j \in 1..(n + 1) : new[j] = IF j = 1 THEN e ELSE list_[j - 1]
  BY ConsFacts
<1>2. new[1] = e /\ 1 \in 1..(n + 1)
  BY <1>0, <1>1
<1>3. \A j \in 1..(n + 1) : j # 1 => j - 1 \in 1..n /\ new[j] = list_[j - 1]
  BY <1>0, <1>1
<1>4. \A j \in 1..n : j + 1 \in 1..(n + 1) /\ new[j + 1] = list_[j]
  BY <1>0, <1>1
<1> HIDE DEF new
<1>5. ASSUME NEW x PROVE Has(new, x) <=> Has(list_, x) \/ x = e
  <2>1. Has(new, x) => Has(list_, x) \/ x = e
    BY <1>1, <1>2, <1>3 DEF Has
  <2>2. Has(list_, x) => Has(new, x)
    BY <1>1, <1>4 DEF Has
  <2>3. x = e => Has(new, x)
    BY <1>1, <1>2 DEF Has
  <2> QED BY <2>1, <2>2, <2>3
<1>6. ASSUME NEW i \in 1..(n + 1), NEW j \in 1..(n + 1), new[i] \in S, new[i] = new[j]
      PROVE  i = j
  <2>1. CASE i # 1 /\ j # 1
    <3>1. i - 1 = j - 1
      BY <1>3, <1>6, <2>1 DEF Once
    <3> QED BY <3>1, <1>0
  <2>2. i = 1 /\ j # 1 => FALSE
    BY <1>2, <1>3, <1>6 DEF Has
  <2>3. i # 1 /\ j = 1 => FALSE
    BY <1>2, <1>3, <1>6 DEF Has
  <2> QED BY <2>1, <2>2, <2>3
<1> QED BY <1>1, <1>5, <1>6 DEF Once, new

(* The library's operators, seen from the instance, are the library's.     *)
LEMMA PoolLibrary ==
  /\ \A S : Pool!Cardinality(S) = Cardinality(S)
  /\ \A e, s : Pool!Cons(e, s) = Cons(e, s)
BY DEF Pool!Cardinality, Cardinality, Pool!Cons, Cons

(* What the places say is what the property counts.                        *)
LEMMA PoolCounts == PoolInv => Pool!PoolConserved
<1> SUFFICES ASSUME PoolInv PROVE Pool!PoolConserved
  OBVIOUS
<1>1. ASSUME NEW b \in Pool!Block
     
      PROVE  Cardinality({i \in 1..Len(poolFreeList[Pool!PoolOf(b)]) : poolFreeList[Pool!PoolOf(b)][i] = b})
               + Cardinality({t \in PoolThreads : b \in poolHeld[t]})
               + Cardinality({t \in PoolThreads : poolPc[t] = "free" /\ poolArg[t] = b}) = 1
  <2> DEFINE A == {i \in 1..Len(poolFreeList[Pool!PoolOf(b)]) : poolFreeList[Pool!PoolOf(b)][i] = b}
             B == {t \in PoolThreads : b \in poolHeld[t]}
             C == {t \in PoolThreads : poolPc[t] = "free" /\ poolArg[t] = b}
  <2>1. \A x, y \in A : x = y
    BY <1>1, PoolOfBlock DEF PoolInv, PoolLists, Once
  <2>2. \A x, y \in B : x = y
    BY <1>1 DEF PoolInv, PoolPlaces
  <2>3. \A x, y \in C : x = y
    BY <1>1 DEF PoolInv, PoolPlaces
  <2>4. (A # {} <=> OnList(b)) /\ (B # {} <=> InHand(b)) /\ (C # {} <=> OnItsWay(b))
    BY DEF OnList, InHand, OnItsWay, Has
  <2> HIDE DEF A, B, C
  <2>5. /\ Cardinality(A) = IF A = {} THEN 0 ELSE 1
        /\ Cardinality(B) = IF B = {} THEN 0 ELSE 1
        /\ Cardinality(C) = IF C = {} THEN 0 ELSE 1
    BY <2>1, <2>2, <2>3, AtMostOne
  <2>6. /\ A # {} \/ B # {} \/ C # {}
        /\ ~(A # {} /\ B # {}) /\ ~(A # {} /\ C # {}) /\ ~(B # {} /\ C # {})
    BY <1>1, <2>4 DEF PoolInv, PoolPlaces
  <2>7. Cardinality(A) + Cardinality(B) + Cardinality(C) = 1
    BY <2>5, <2>6
  <2> QED BY <2>7 DEF A, B, C
<1>2. ASSUME NEW p \in Pools, NEW i \in 1..Len(poolFreeList[p])
      PROVE  Pool!PoolOf(poolFreeList[p][i]) = p
  <2>1. poolFreeList[p][i] \in Pool!Block
    BY <1>2, ElementOfSeq DEF PoolInv, PoolType
  <2>2. Has(poolFreeList[p], poolFreeList[p][i])
    BY <1>2 DEF Has
  <2> QED BY <1>2, <2>1, <2>2 DEF PoolInv, PoolLists
<1>3. \A p \in Pools : poolNumUsed[p] = NumBlocks - Len(poolFreeList[p])
  BY DEF PoolInv, PoolLists
<1> QED BY <1>1, <1>2, <1>3, PoolLibrary DEF Pool!PoolConserved

(* The blocks of a new pool are all on its list.                           *)
LEMMA PoolInit == Pool!Init => PoolInv
<1> SUFFICES ASSUME Pool!Init PROVE PoolInv
  OBVIOUS
<1>1. ASSUME NEW p \in Pools
      PROVE  /\ poolFreeList[p] \in Seq(Pool!Block) /\ Len(poolFreeList[p]) = NumBlocks
             /\ \A i \in 1..NumBlocks : poolFreeList[p][i] = <<p, i>>
  <2>1. poolFreeList[p] = [i \in 1..NumBlocks |-> <<p, i>>]
    BY DEF Pool!Init
  <2>2. \A i \in 1..NumBlocks : <<p, i>> \in Pool!Block
    BY DEF Pool!Block
  <2> QED BY <2>1, <2>2, NumBlocksAssumption
<1>2. PoolType
  BY <1>1 DEF Pool!Init, PoolType
<1>3. PoolLists
  <2> SUFFICES ASSUME NEW p \in Pools
               PROVE  /\ Once(poolFreeList[p], Pool!Block)
                      /\ \A b \in Pool!Block : Has(poolFreeList[p], b) => Pool!PoolOf(b) = p
                      /\ poolNumUsed[p] = NumBlocks - Len(poolFreeList[p])
    BY DEF PoolLists
  <2>1. Once(poolFreeList[p], Pool!Block)
    BY <1>1 DEF Once
  <2>2. \A b \in Pool!Block : Has(poolFreeList[p], b) => Pool!PoolOf(b) = p
    BY <1>1 DEF Has, Pool!PoolOf
  <2>3. poolNumUsed[p] = NumBlocks - Len(poolFreeList[p])
    BY <1>1, NumBlocksAssumption DEF Pool!Init
  <2> QED BY <2>1, <2>2, <2>3
<1>4. PoolPlaces
  <2>1. ASSUME NEW b \in Pool!Block PROVE OnList(b) /\ ~InHand(b) /\ ~OnItsWay(b)
    <3>1. PICK p \in Pools, i \in 1..NumBlocks : b = <<p, i>>
      BY <2>1 DEF Pool!Block
    <3>2. Pool!PoolOf(b) = p
      BY <3>1 DEF Pool!PoolOf
    <3>3. OnList(b)
      BY <1>1, <3>1, <3>2 DEF OnList, Has
    <3>4. ~InHand(b) /\ ~OnItsWay(b)
      BY DEF InHand, OnItsWay, Pool!Init
    <3> QED BY <3>3, <3>4
  <2>2. \A t, u \in PoolThreads : poolHeld[t] \cap poolHeld[u] = {} /\ poolPc[t] # "free"
    BY DEF Pool!Init
  <2> QED BY <2>1, <2>2 DEF PoolPlaces
<1> QED BY <1>2, <1>3, <1>4 DEF PoolInv

(* The places of the blocks follow from the lists, the hands and the frees *)
(* in progress: where those are unchanged, so are they.                    *)
LEMMA PoolFrame ==
  ASSUME PoolInv, PoolType', UNCHANGED <<poolFreeList, poolNumUsed, poolHeld>>,
         \A t \in PoolThreads : /\ poolPc'[t] = "free" <=> poolPc[t] = "free"
                                /\ poolPc[t] = "free" => poolArg'[t] = poolArg[t]
  PROVE  PoolInv'
<1>1. \A b : /\ OnList(b)' <=> OnList(b)
             /\ InHand(b)' <=> InHand(b)
             /\ OnItsWay(b)' <=> OnItsWay(b)
  BY DEF OnList, InHand, OnItsWay
<1>2. PoolPlaces'
  BY <1>1 DEF PoolInv, PoolPlaces
<1>3. PoolLists'
  BY DEF PoolInv, PoolLists
<1> QED BY <1>2, <1>3 DEF PoolInv

(* TakeBlock: the first block of the list goes to a thread that frees      *)
(* nothing.                                                                *)
LEMMA PoolTake ==
  ASSUME PoolInv, NEW t \in PoolThreads, NEW p \in Pools,
         poolFreeList[p] # <<>>, Pool!TakeBlock(t, p), poolPc[t] # "free"
  PROVE  PoolInv'
<1> DEFINE l == poolFreeList[p]
           b == Head(l)
<1>0. PoolType /\ PoolPlaces /\ PoolLists
  BY DEF PoolInv
<1>1. l \in Seq(Pool!Block) /\ l # <<>> /\ Once(l, Pool!Block)
  BY <1>0 DEF PoolType, PoolLists
<1>2. /\ Tail(l) \in Seq(Pool!Block) /\ b \in Pool!Block
      /\ \A x \in Pool!Block : Has(Tail(l), x) <=> Has(l, x) /\ x # b
      /\ Once(Tail(l), Pool!Block)
  BY <1>1, TailHas
<1>3. Len(Tail(l)) = Len(l) - 1 /\ Len(l) \in Nat /\ Has(l, b)
  <2>1. Len(l) \in Nat \ {0} /\ b = l[1] /\ Len(Tail(l)) = Len(l) - 1
    BY <1>1, LenProperties, EmptySeq, HeadTailProperties
  <2>2. 1 \in 1..Len(l)
    BY <2>1
  <2> QED BY <2>1, <2>2 DEF Has
<1>4. Pool!PoolOf(b) = p /\ OnList(b)
  BY <1>0, <1>2, <1>3 DEF PoolLists, OnList
<1> HIDE DEF b
<1>5. /\ poolHeld' = [poolHeld EXCEPT ![t] = @ \cup {b}]
      /\ poolFreeList' = [poolFreeList EXCEPT ![p] = Tail(@)]
      /\ poolNumUsed' = [poolNumUsed EXCEPT ![p] = @ + 1]
      /\ poolPc' = [poolPc EXCEPT ![t] = "idle"]
      /\ poolArg' = [poolArg EXCEPT ![t] = NULL]
  BY DEF Pool!TakeBlock, Pool!Return, b
<1>6. /\ poolFreeList'[p] = Tail(l) /\ poolNumUsed'[p] = poolNumUsed[p] + 1
      /\ \A q \in Pools : q # p => poolFreeList'[q] = poolFreeList[q] /\ poolNumUsed'[q] = poolNumUsed[q]
  BY <1>0, <1>5 DEF PoolType
<1>7. /\ poolHeld'[t] = poolHeld[t] \cup {b} /\ poolPc'[t] = "idle"
      /\ \A u \in PoolThreads :
           u # t => poolHeld'[u] = poolHeld[u] /\ poolPc'[u] = poolPc[u] /\ poolArg'[u] = poolArg[u]
  BY <1>0, <1>5 DEF PoolType
<1>8. PoolType'
  <2>1. poolFreeList' \in [Pools -> Seq(Pool!Block)]
    BY <1>0, <1>2, <1>5 DEF PoolType
  <2>2. poolNumUsed' \in [Pools -> Int]
    BY <1>0, <1>5 DEF PoolType
  <2>3. poolHeld' \in [PoolThreads -> SUBSET Pool!Block]
    BY <1>0, <1>2, <1>5 DEF PoolType
  <2>4. DOMAIN poolPc' = PoolThreads /\ DOMAIN poolArg' = PoolThreads
    BY <1>0, <1>5 DEF PoolType
  <2>5. ASSUME NEW u \in PoolThreads
        PROVE  /\ poolPc'[u] \in {"alloc", "take"} => poolArg'[u][1] \in Pools
               /\ poolPc'[u] = "free" => poolArg'[u] \in Pool!Block
    BY <1>0, <1>7 DEF PoolType
  <2> QED BY <2>1, <2>2, <2>3, <2>4, <2>5 DEF PoolType
<1>9. PoolLists'
  <2> SUFFICES ASSUME NEW q \in Pools
               PROVE  /\ Once(poolFreeList'[q], Pool!Block)
                      /\ \A x \in Pool!Block : Has(poolFreeList'[q], x) => Pool!PoolOf(x) = q
                      /\ poolNumUsed'[q] = NumBlocks - Len(poolFreeList'[q])
    BY DEF PoolLists
  <2>1. CASE q # p
    BY <1>0, <1>6, <2>1 DEF PoolLists
  <2>2. CASE q = p
    <3>1. poolNumUsed'[p] = NumBlocks - Len(Tail(l))
      BY <1>0, <1>3, <1>6, NumBlocksAssumption DEF PoolLists
    <3> QED BY <1>0, <1>2, <1>6, <2>2, <3>1 DEF PoolLists
  <2> QED BY <2>1, <2>2
<1>10. ASSUME NEW x \in Pool!Block
       PROVE  /\ OnList(x)' <=> OnList(x) /\ x # b
              /\ InHand(x)' <=> InHand(x) \/ x = b
              /\ OnItsWay(x)' <=> OnItsWay(x)
  <2>1. OnList(x)' <=> OnList(x) /\ x # b
    <3>1. OnList(x)' <=> Has(poolFreeList'[Pool!PoolOf(x)], x)
      BY DEF OnList, Pool!PoolOf
    <3>2. CASE Pool!PoolOf(x) = p
      BY <1>2, <1>6, <3>1, <3>2 DEF OnList
    <3>3. CASE Pool!PoolOf(x) # p
      BY <1>4, <1>6, <3>1, <3>3, PoolOfBlock DEF OnList
    <3> QED BY <3>2, <3>3
  <2>2. InHand(x)' <=> InHand(x) \/ x = b
    BY <1>7 DEF InHand
  <2>3. OnItsWay(x)' <=> OnItsWay(x)
    BY <1>7 DEF OnItsWay
  <2> QED BY <2>1, <2>2, <2>3
<1>11. PoolPlaces'
  <2>1. ASSUME NEW x \in Pool!Block
        PROVE  /\ OnList(x)' \/ InHand(x)' \/ OnItsWay(x)'
               /\ ~(OnList(x)' /\ InHand(x)') /\ ~(OnList(x)' /\ OnItsWay(x)')
               /\ ~(InHand(x)' /\ OnItsWay(x)')
    BY <1>0, <1>4, <1>10 DEF PoolPlaces
  <2>2. \A u \in PoolThreads : b \notin poolHeld[u]
    BY <1>0, <1>2, <1>4 DEF PoolPlaces, InHand
  <2>3. ASSUME NEW u \in PoolThreads, NEW v \in PoolThreads
        PROVE  /\ u # v => poolHeld'[u] \cap poolHeld'[v] = {}
               /\ u # v /\ poolPc'[u] = "free" /\ poolPc'[v] = "free" => poolArg'[u] # poolArg'[v]
    <3>1. u # v => poolHeld[u] \cap poolHeld[v] = {}
      BY <1>0 DEF PoolPlaces
    <3>2. u # v => poolHeld'[u] \cap poolHeld'[v] = {}
      BY <1>7, <2>2, <3>1
    <3>3. u # v /\ poolPc'[u] = "free" /\ poolPc'[v] = "free" => poolArg'[u] # poolArg'[v]
      BY <1>0, <1>7 DEF PoolPlaces
    <3> QED BY <3>2, <3>3
  <2> QED BY <2>1, <2>3 DEF PoolPlaces
<1> QED BY <1>8, <1>9, <1>11 DEF PoolInv

(* A thread that calls bt_mem_pool_free lets go of its block.              *)
LEMMA PoolCallFree ==
  ASSUME PoolInv, NEW t \in PoolThreads, NEW b \in Pool!Block, Pool!CallFree(t, b)
  PROVE  PoolInv'
<1>0. PoolType /\ PoolPlaces /\ PoolLists
  BY DEF PoolInv
<1>1. /\ poolPc[t] = "idle" /\ b \in poolHeld[t]
      /\ poolHeld' = [poolHeld EXCEPT ![t] = @ \ {b}]
      /\ poolPc' = [poolPc EXCEPT ![t] = "free"]
      /\ poolArg' = [poolArg EXCEPT ![t] = b]
      /\ UNCHANGED <<poolFreeList, poolNumUsed>>
  BY DEF Pool!CallFree
<1>2. /\ poolHeld'[t] = poolHeld[t] \ {b} /\ poolPc'[t] = "free" /\ poolArg'[t] = b
      /\ \A u \in PoolThreads :
           u # t => poolHeld'[u] = poolHeld[u] /\ poolPc'[u] = poolPc[u] /\ poolArg'[u] = poolArg[u]
  BY <1>0, <1>1 DEF PoolType
<1>3. PoolType'
  <2>1. poolHeld' \in [PoolThreads -> SUBSET Pool!Block]
    BY <1>0, <1>1 DEF PoolType
  <2>2. DOMAIN poolPc' = PoolThreads /\ DOMAIN poolArg' = PoolThreads
    BY <1>0, <1>1 DEF PoolType
  <2>3. ASSUME NEW u \in PoolThreads
        PROVE  /\ poolPc'[u] \in {"alloc", "take"} => poolArg'[u][1] \in Pools
               /\ poolPc'[u] = "free" => poolArg'[u] \in Pool!Block
    BY <1>0, <1>2 DEF PoolType
  <2> QED BY <1>0, <1>1, <2>1, <2>2, <2>3 DEF PoolType
<1>4. PoolLists'
  BY <1>0, <1>1 DEF PoolLists
<1>5. /\ InHand(b) /\ \A u \in PoolThreads : u # t => b \notin poolHeld[u]
      /\ ~OnList(b) /\ ~OnItsWay(b)
  BY <1>0, <1>1 DEF InHand, PoolPlaces
<1>6. ASSUME NEW x \in Pool!Block
      PROVE  /\ OnList(x)' <=> OnList(x)
             /\ InHand(x)' <=> InHand(x) /\ x # b
             /\ OnItsWay(x)' <=> OnItsWay(x) \/ x = b
  <2>1. OnList(x)' <=> OnList(x)
    BY <1>1 DEF OnList
  <2>2. InHand(x)' <=> InHand(x) /\ x # b
    BY <1>2, <1>5 DEF InHand
  <2>3. OnItsWay(x)' <=> OnItsWay(x) \/ x = b
    BY <1>1, <1>2 DEF OnItsWay
  <2> QED BY <2>1, <2>2, <2>3
<1>7. ASSUME NEW x \in Pool!Block
      PROVE  /\ OnList(x)' \/ InHand(x)' \/ OnItsWay(x)'
             /\ ~(OnList(x)' /\ InHand(x)') /\ ~(OnList(x)' /\ OnItsWay(x)')
             /\ ~(InHand(x)' /\ OnItsWay(x)')
  BY <1>0, <1>5, <1>6 DEF PoolPlaces
<1>8. ASSUME NEW u \in PoolThreads, NEW v \in PoolThreads
      PROVE  /\ u # v => poolHeld'[u] \cap poolHeld'[v] = {}
             /\ u # v /\ poolPc'[u] = "free" /\ poolPc'[v] = "free" => poolArg'[u] # poolArg'[v]
  <2>1. u # v => poolHeld[u] \cap poolHeld[v] = {}
    BY <1>0 DEF PoolPlaces
  <2>2. u # v => poolHeld'[u] \cap poolHeld'[v] = {}
    BY <1>2, <2>1
  <2>3. u # v /\ poolPc'[u] = "free" /\ poolPc'[v] = "free" => poolArg'[u] # poolArg'[v]
    BY <1>0, <1>2, <1>5 DEF PoolPlaces, OnItsWay
  <2> QED BY <2>2, <2>3
<1>9. PoolPlaces'
  BY <1>7, <1>8 DEF PoolPlaces
<1> QED BY <1>3, <1>4, <1>9 DEF PoolInv

(* bt_mem_pool_free: the block is the first of its list again.             *)
LEMMA PoolFree ==
  ASSUME PoolInv, NEW t \in PoolThreads, Pool!bt_mem_pool_free(t)
  PROVE  PoolInv'
<1> DEFINE b == poolArg[t]
           p == Pool!PoolOf(b)
           l == poolFreeList[p]
<1>0. PoolType /\ PoolPlaces /\ PoolLists /\ poolPc[t] = "free"
  BY DEF PoolInv, Pool!bt_mem_pool_free
<1>1. b \in Pool!Block /\ p \in Pools /\ OnItsWay(b) /\ ~InHand(b) /\ ~Has(l, b)
  <2>1. b \in Pool!Block /\ OnItsWay(b)
    BY <1>0 DEF PoolType, OnItsWay
  <2> QED BY <1>0, <2>1, PoolOfBlock DEF PoolPlaces, OnList
<1>2. l \in Seq(Pool!Block) /\ Once(l, Pool!Block)
  BY <1>0, <1>1 DEF PoolType, PoolLists
<1> DEFINE new == Cons(b, l)
<1>3. /\ new \in Seq(Pool!Block) /\ Len(new) = Len(l) + 1
      /\ \A x : Has(new, x) <=> Has(l, x) \/ x = b
      /\ Once(new, Pool!Block)
  BY <1>1, <1>2, ConsNew
<1>4. /\ poolFreeList' = [poolFreeList EXCEPT ![p] = new]
      /\ poolNumUsed' = [poolNumUsed EXCEPT ![p] = @ - 1]
      /\ poolPc' = [poolPc EXCEPT ![t] = "idle"]
      /\ poolArg' = [poolArg EXCEPT ![t] = NULL]
      /\ poolHeld' = poolHeld
  <2>1. Pool!Cons(b, l) = new
    BY PoolLibrary
  <2> QED BY <2>1 DEF Pool!bt_mem_pool_free, Pool!Return
<1> HIDE DEF new
<1>5. /\ poolFreeList'[p] = new /\ poolNumUsed'[p] = poolNumUsed[p] - 1
      /\ \A q \in Pools : q # p => poolFreeList'[q] = poolFreeList[q] /\ poolNumUsed'[q] = poolNumUsed[q]
  BY <1>0, <1>1, <1>4 DEF PoolType
<1>6. /\ poolPc'[t] = "idle"
      /\ \A u \in PoolThreads : u # t => poolPc'[u] = poolPc[u] /\ poolArg'[u] = poolArg[u]
  BY <1>0, <1>4 DEF PoolType
<1>7. PoolType'
  <2>1. poolFreeList' \in [Pools -> Seq(Pool!Block)]
    BY <1>0, <1>3, <1>4 DEF PoolType
  <2>2. poolNumUsed' \in [Pools -> Int]
    <3> HIDE DEF p
    <3> QED BY <1>0, <1>1, <1>4 DEF PoolType
  <2>3. DOMAIN poolPc' = PoolThreads /\ DOMAIN poolArg' = PoolThreads
    BY <1>0, <1>4 DEF PoolType
  <2>4. ASSUME NEW u \in PoolThreads
        PROVE  /\ poolPc'[u] \in {"alloc", "take"} => poolArg'[u][1] \in Pools
               /\ poolPc'[u] = "free" => poolArg'[u] \in Pool!Block
    BY <1>0, <1>6 DEF PoolType
  <2> QED BY <1>0, <1>4, <2>1, <2>2, <2>3, <2>4 DEF PoolType
<1>8. PoolLists'
  <2> SUFFICES ASSUME NEW q \in Pools
               PROVE  /\ Once(poolFreeList'[q], Pool!Block)
                      /\ \A x \in Pool!Block : Has(poolFreeList'[q], x) => Pool!PoolOf(x) = q
                      /\ poolNumUsed'[q] = NumBlocks - Len(poolFreeList'[q])
    BY DEF PoolLists
  <2>1. CASE q # p
    BY <1>0, <1>5, <2>1 DEF PoolLists
  <2>2. CASE q = p
    <3>0. Len(l) \in Nat
      BY <1>2, LenProperties
    <3>1. poolNumUsed'[p] = NumBlocks - Len(new)
      BY <1>0, <1>1, <1>3, <1>5, <3>0, NumBlocksAssumption DEF PoolLists
    <3>2. \A x \in Pool!Block : Has(new, x) => Pool!PoolOf(x) = p
      BY <1>0, <1>1, <1>3 DEF PoolLists
    <3> QED BY <1>3, <1>5, <2>2, <3>1, <3>2
  <2> QED BY <2>1, <2>2
<1>9. ASSUME NEW x \in Pool!Block
      PROVE  /\ OnList(x)' <=> OnList(x) \/ x = b
             /\ InHand(x)' <=> InHand(x)
             /\ OnItsWay(x)' <=> OnItsWay(x) /\ x # b
  <2>1. OnList(x)' <=> OnList(x) \/ x = b
    <3>1. OnList(x)' <=> Has(poolFreeList'[Pool!PoolOf(x)], x)
      BY DEF OnList, Pool!PoolOf
    <3>2. CASE Pool!PoolOf(x) = p
      BY <1>3, <1>5, <3>1, <3>2 DEF OnList
    <3>3. CASE Pool!PoolOf(x) # p
      BY <1>5, <3>1, <3>3, PoolOfBlock DEF OnList
    <3> QED BY <3>2, <3>3
  <2>2. InHand(x)' <=> InHand(x)
    BY <1>4 DEF InHand
  <2>3. OnItsWay(x)' <=> OnItsWay(x) /\ x # b
    BY <1>0, <1>6 DEF OnItsWay, PoolPlaces
  <2> QED BY <2>1, <2>2, <2>3
<1>10. ASSUME NEW x \in Pool!Block
       PROVE  /\ OnList(x)' \/ InHand(x)' \/ OnItsWay(x)'
              /\ ~(OnList(x)' /\ InHand(x)') /\ ~(OnList(x)' /\ OnItsWay(x)')
              /\ ~(InHand(x)' /\ OnItsWay(x)')
  BY <1>0, <1>1, <1>9 DEF PoolPlaces
<1>11. ASSUME NEW u \in PoolThreads, NEW v \in PoolThreads
       PROVE  /\ u # v => poolHeld'[u] \cap poolHeld'[v] = {}
              /\ u # v /\ poolPc'[u] = "free" /\ poolPc'[v] = "free" => poolArg'[u] # poolArg'[v]
  BY <1>0, <1>4, <1>6 DEF PoolPlaces
<1>12. PoolPlaces'
  BY <1>10, <1>11 DEF PoolPlaces
<1> QED BY <1>7, <1>8, <1>12 DEF PoolInv

(* Every step of a thread keeps the blocks together.                       *)
LEMMA PoolNext ==
  ASSUME PoolInv, Pool!Next
  PROVE  PoolInv'
<1>0. PoolType
  BY DEF PoolInv
<1> PICK t \in PoolThreads :
      \/ \E p \in Pools, how \in PoolTimeouts : Pool!CallAlloc(t, p, how)
      \/ Pool!bt_mem_pool_alloc(t)
      \/ Pool!SemTaken(t)
      \/ Pool!SemTimedOut(t)
      \/ \E b \in Pool!Block : Pool!CallFree(t, b)
      \/ Pool!bt_mem_pool_free(t)
  BY DEF Pool!Next
<1>1. ASSUME NEW p \in Pools, NEW how \in PoolTimeouts, Pool!CallAlloc(t, p, how) PROVE PoolInv'
  <2>1. /\ poolPc[t] = "idle" /\ UNCHANGED <<poolFreeList, poolNumUsed, poolHeld>>
        /\ poolPc' = [poolPc EXCEPT ![t] = "alloc"]
        /\ poolArg' = [poolArg EXCEPT ![t] = <<p, how>>]
    BY <1>1 DEF Pool!CallAlloc
  <2>2. /\ poolPc'[t] = "alloc" /\ poolArg'[t][1] = p
        /\ \A u \in PoolThreads : u # t => poolPc'[u] = poolPc[u] /\ poolArg'[u] = poolArg[u]
        /\ DOMAIN poolPc' = PoolThreads /\ DOMAIN poolArg' = PoolThreads
    BY <1>0, <2>1 DEF PoolType
  <2>3. PoolType'
    BY <1>0, <2>1, <2>2 DEF PoolType
  <2> QED BY <2>1, <2>2, <2>3, PoolFrame
<1>2. ASSUME poolPc[t] # "free", Pool!Return(t), UNCHANGED <<poolFreeList, poolNumUsed, poolHeld>>
      PROVE  PoolInv'
  <2>1. /\ poolPc'[t] = "idle"
        /\ \A u \in PoolThreads : u # t => poolPc'[u] = poolPc[u] /\ poolArg'[u] = poolArg[u]
        /\ DOMAIN poolPc' = PoolThreads /\ DOMAIN poolArg' = PoolThreads
    BY <1>0, <1>2 DEF PoolType, Pool!Return
  <2>2. PoolType'
    BY <1>0, <1>2, <2>1 DEF PoolType
  <2> QED BY <1>2, <2>1, <2>2, PoolFrame
<1>3. ASSUME NEW at \in {"take", "abort"}, poolPc[t] \in {"alloc", "take"},
             poolPc' = [poolPc EXCEPT ![t] = at],
             UNCHANGED <<poolFreeList, poolNumUsed, poolHeld, poolArg>>
      PROVE  PoolInv'
  <2>1. /\ poolPc'[t] = at /\ DOMAIN poolPc' = PoolThreads
        /\ \A u \in PoolThreads : u # t => poolPc'[u] = poolPc[u]
    BY <1>0, <1>3 DEF PoolType
  <2>2. PoolType'
    BY <1>0, <1>3, <2>1 DEF PoolType
  <2>3. \A u \in PoolThreads : poolPc'[u] = "free" <=> poolPc[u] = "free"
    BY <1>3, <2>1
  <2> QED BY <1>3, <2>2, <2>3, PoolFrame
<1>4. ASSUME Pool!bt_mem_pool_alloc(t) PROVE PoolInv'
  <2>1. poolPc[t] = "alloc" /\ poolArg[t][1] \in Pools
    BY <1>0, <1>4 DEF Pool!bt_mem_pool_alloc, PoolType
  <2>2. \/ poolFreeList[poolArg[t][1]] # <<>> /\ Pool!TakeBlock(t, poolArg[t][1])
        \/ Pool!Return(t) /\ UNCHANGED <<poolFreeList, poolNumUsed, poolHeld>>
        \/ /\ poolPc' = [poolPc EXCEPT ![t] = "take"]
           /\ UNCHANGED <<poolFreeList, poolNumUsed, poolHeld, poolArg>>
    BY <1>4 DEF Pool!bt_mem_pool_alloc
  <2> QED BY <1>2, <1>3, <2>1, <2>2, PoolTake
<1>5. ASSUME Pool!SemTaken(t) PROVE PoolInv'
  <2>1. poolPc[t] = "take" /\ poolArg[t][1] \in Pools
    BY <1>0, <1>5 DEF Pool!SemTaken, PoolType
  <2>2. \/ poolFreeList[poolArg[t][1]] # <<>> /\ Pool!TakeBlock(t, poolArg[t][1])
        \/ /\ poolPc' = [poolPc EXCEPT ![t] = "abort"]
           /\ UNCHANGED <<poolFreeList, poolNumUsed, poolHeld, poolArg>>
    BY <1>5 DEF Pool!SemTaken
  <2> QED BY <1>3, <2>1, <2>2, PoolTake
<1>6. ASSUME Pool!SemTimedOut(t) PROVE PoolInv'
  <2>1. poolPc[t] = "take" /\ Pool!Return(t) /\ UNCHANGED <<poolFreeList, poolNumUsed, poolHeld>>
    BY <1>6 DEF Pool!SemTimedOut
  <2> QED BY <1>2, <2>1
<1> QED BY <1>1, <1>4, <1>5, <1>6, PoolCallFree, PoolFree

(* Whatever threads allocate and free, with whatever timeouts, every block *)
(* is on the list of its pool once, with one thread, or on its way back,   *)
(* and num_used counts the blocks that are not on the list.                *)
THEOREM BlocksConserved == BaseSpec => []PoolConserved
<1> DEFINE Inv == part = "pool" => PoolInv
<1>1. BaseInit => Inv
  BY PoolInit DEF BaseInit
<1>2. Inv /\ [BaseNext]_<<part, vars, poolVars, pollVars, bufVars>> => Inv'
  <2> SUFFICES ASSUME Inv, [BaseNext]_<<part, vars, poolVars, pollVars, bufVars>>, part' = "pool"
               PROVE  PoolInv'
    OBVIOUS
  <2>1. part = "pool" /\ PoolInv
    BY DEF BaseNext
  <2>2. Pool!Next \/ UNCHANGED poolVars
    BY <2>1 DEF BaseNext
  <2>3. CASE UNCHANGED poolVars
    <3>1. PoolType'
      BY <2>1, <2>3 DEF PoolInv, PoolType, poolVars
    <3> QED BY <2>1, <2>3, <3>1, PoolFrame DEF poolVars
  <2> QED BY <2>1, <2>2, <2>3, PoolNext
<1>3. Inv => PoolConserved
  BY PoolCounts DEF PoolConserved
<1> QED BY <1>1, <1>2, <1>3, PTL DEF BaseSpec

-----------------------------------------------------------------------------
(* base/bt_poll.c.  The events of all pollers.                             *)
AllEvents == UNION {Poll!Events(p) : p \in Pollers}

(* The shapes of the variables.                                            *)
PollType ==
  /\ pollEvents \in [Poll!Objects -> Seq(AllEvents)]
  /\ pollIi \in [Pollers -> Int] /\ pollRegistered \in [Pollers -> Nat]
  /\ DOMAIN pollPc = Pollers /\ DOMAIN pollTimeout = Pollers
  /\ DOMAIN pollIsPolling = Pollers /\ DOMAIN pollSem = Pollers /\ DOMAIN pollRet = Pollers
  /\ DOMAIN pollRaising = Raisers
  /\ \A r \in Raisers : pollRaising[r] # NULL => pollRaising[r] \in Signals

(* The events registered are the first ones, until an object is ready; the *)
(* clearing goes down through them.                                        *)
Counted(p) ==
  /\ pollPc[p] = "register" =>
       /\ pollIi[p] >= 1 /\ pollIi[p] <= Poll!NumEvents(p) + 1
       /\ pollRegistered[p] < pollIi[p]
       /\ pollIsPolling[p] /\ pollTimeout[p] # "nowait" => pollRegistered[p] = pollIi[p] - 1
  /\ pollPc[p] # "idle" => pollRegistered[p] <= Poll!NumEvents(p)
  /\ pollPc[p] = "clear" => pollIi[p] >= 0 /\ pollIi[p] <= pollRegistered[p]

PollCounts == \A p \in Pollers : Counted(p)

(* An event on a list: its object, its poller and its call.                *)
Waiting(e, o) ==
  /\ EventsOf[e[1]][e[2]] = o /\ e \in pollAttached
  /\ pollPc[e[1]] # "idle" /\ pollTimeout[e[1]] # "nowait"
  /\ e[2] <= pollRegistered[e[1]]
  /\ pollPc[e[1]] = "clear" => e[2] <= pollIi[e[1]]

PollLists ==
  \A o \in Poll!Objects :
    /\ Once(pollEvents[o], AllEvents)
    /\ \A e \in AllEvents : Has(pollEvents[o], e) => Waiting(e, o)

(* A poller that has been told so, in whatever way, has a ready event.     *)
Told(p) ==
  \/ pollPc[p] = "register" /\ ~pollIsPolling[p]
  \/ pollSem[p] = 1
  \/ /\ pollPc[p] \in {"waited", "clear", "idle"}
     /\ pollRet[p] = "ok" /\ pollTimeout[p] # "nowait"

PollReady ==
  \A p \in Pollers : Told(p) => \E e \in AllEvents : e[1] = p /\ e \in pollReady

PollInv == PollType /\ PollCounts /\ PollLists /\ PollReady

(* The library's operators, seen from the instance, are the library's.     *)
LEMMA PollLibrary == \A s, k : Poll!RemoveAt(s, k) = RemoveAt(s, k)
BY DEF Poll!RemoveAt, RemoveAt

(* The events and the objects are the same in every state.                 *)
LEMMA PollRigid == AllEvents' = AllEvents /\ Poll!Objects' = Poll!Objects
BY DEF AllEvents, Poll!Events, Poll!NumEvents, Poll!Objects

(* Events are pairs of a poller and a position.                            *)
LEMMA EventFacts ==
  /\ \A p \in Pollers : /\ Poll!NumEvents(p) \in Nat
                        /\ \A i \in 1..Poll!NumEvents(p) : EventsOf[p][i] \in Poll!Objects
  /\ \A p \in Pollers, i \in Int :
       <<p, i>> \in AllEvents <=> i >= 1 /\ i <= Poll!NumEvents(p)
  /\ \A e \in AllEvents : /\ e[1] \in Pollers /\ e[2] \in Nat /\ e[2] >= 1
                          /\ e[2] <= Poll!NumEvents(e[1])
                          /\ e = <<e[1], e[2]>> /\ e \in Poll!Events(e[1])
  /\ \A p, i : <<p, i>>[1] = p /\ <<p, i>>[2] = i
<1>1. ASSUME NEW p \in Pollers
      PROVE  /\ Poll!NumEvents(p) \in Nat
             /\ \A i \in 1..Poll!NumEvents(p) : EventsOf[p][i] \in Poll!Objects
  <2>1. EventsOf[p] \in Seq(Signals \cup Queues)
    BY EventsOfAssumption
  <2> QED BY <2>1, LenProperties, ElementOfSeq DEF Poll!NumEvents, Poll!Objects
<1>2. ASSUME NEW p \in Pollers, NEW i \in Int
      PROVE  <<p, i>> \in AllEvents <=> i >= 1 /\ i <= Poll!NumEvents(p)
  BY <1>1 DEF AllEvents, Poll!Events
<1>3. ASSUME NEW e \in AllEvents
      PROVE  /\ e[1] \in Pollers /\ e[2] \in Nat /\ e[2] >= 1
             /\ e[2] <= Poll!NumEvents(e[1])
             /\ e = <<e[1], e[2]>> /\ e \in Poll!Events(e[1])
  <2>1. /\ e[1] \in Pollers /\ e[2] \in Nat /\ e[2] \in 1..Poll!NumEvents(e[1])
        /\ e = <<e[1], e[2]>>
    BY <1>1 DEF AllEvents, Poll!Events
  <2> QED BY <1>1, <2>1 DEF Poll!Events
<1> QED BY <1>1, <1>2, <1>3

(* What the invariant says of the lists and the results.                   *)
LEMMA PollMeans == PollInv => Poll!PollExact
<1> SUFFICES ASSUME PollInv PROVE Poll!PollExact
  OBVIOUS
<1>0. PollType /\ PollLists /\ PollReady
  BY DEF PollInv
<1>1. ASSUME NEW o \in Poll!Objects, NEW k \in 1..Len(pollEvents[o])
      PROVE  /\ Waiting(pollEvents[o][k], o)
             /\ \A j \in 1..Len(pollEvents[o]) : pollEvents[o][j] = pollEvents[o][k] => j = k
  <2>1. pollEvents[o][k] \in AllEvents
    BY <1>0, <1>1, ElementOfSeq DEF PollType
  <2>2. Has(pollEvents[o], pollEvents[o][k])
    BY <1>1 DEF Has
  <2>3. Waiting(pollEvents[o][k], o)
    BY <1>0, <1>1, <2>1, <2>2 DEF PollLists
  <2> QED BY <1>0, <1>1, <2>1, <2>3 DEF PollLists, Once
<1>2. Poll!NoStaleEvent
  BY <1>1 DEF Poll!NoStaleEvent, Waiting
<1>3. ASSUME NEW p \in Pollers, pollPc[p] = "idle", pollRet[p] = "ok", pollTimeout[p] # "nowait"
      PROVE  pollReady \cap Poll!Events(p) # {}
  <2>1. PICK e \in AllEvents : e[1] = p /\ e \in pollReady
    BY <1>0, <1>3 DEF PollReady, Told
  <2> QED BY <2>1, EventFacts
<1>4. Poll!OkMeansReady
  BY <1>3 DEF Poll!OkMeansReady
<1> QED BY <1>2, <1>4 DEF Poll!PollExact

(* No event is on a list before the first call.                            *)
LEMMA PollInit == Poll!Init => PollInv
<1> SUFFICES ASSUME Poll!Init PROVE PollInv
  OBVIOUS
<1>1. PollType
  <2>1. pollEvents \in [Poll!Objects -> Seq(AllEvents)]
    BY DEF Poll!Init
  <2> QED BY <2>1 DEF Poll!Init, PollType
<1>2. PollCounts
  BY DEF Poll!Init, PollCounts, Counted
<1>3. PollLists
  <2>1. \A o \in Poll!Objects : pollEvents[o] = <<>>
    BY DEF Poll!Init
  <2>2. Len(<<>>) = 0 /\ 1..0 = {}
    OBVIOUS
  <2> QED BY <2>1, <2>2 DEF PollLists, Once, Has
<1>4. PollReady
  BY DEF Poll!Init, PollReady, Told
<1> QED BY <1>1, <1>2, <1>3, <1>4 DEF PollInv

(* Where the lists stay, only what an event waits for can change.          *)
LEMMA PollListsFrame ==
  ASSUME PollLists, pollEvents' = pollEvents,
         \A o \in Poll!Objects, e \in AllEvents :
           Has(pollEvents[o], e) /\ Waiting(e, o) => Waiting(e, o)'
  PROVE  PollLists'
BY DEF PollLists, Poll!Objects

(* A poller that was told before keeps its ready event.                    *)
LEMMA PollReadyFrame ==
  ASSUME PollReady,
         \A q \in Pollers : Told(q)' =>
           \/ \E e \in AllEvents : e[1] = q /\ e \in pollReady'
           \/ Told(q) /\ \A e \in AllEvents : e[1] = q /\ e \in pollReady => e \in pollReady'
  PROVE  PollReady'
<1> SUFFICES ASSUME NEW q \in Pollers, Told(q)'
             PROVE  \E e \in AllEvents : e[1] = q /\ e \in pollReady'
  BY DEF PollReady, AllEvents, Poll!Events, Poll!NumEvents
<1> QED BY DEF PollReady

(* A new call has no event on any list.                                    *)
LEMMA PollCallPoll ==
  ASSUME PollInv, NEW p \in Pollers, NEW how, Poll!CallPoll(p, how)
  PROVE  PollInv'
<1>0. PollType /\ PollCounts /\ PollLists /\ PollReady
  BY DEF PollInv
<1>1. /\ pollPc[p] = "idle" /\ UNCHANGED <<pollEvents, pollRaising>>
      /\ pollPc' = [pollPc EXCEPT ![p] = "register"]
      /\ pollTimeout' = [pollTimeout EXCEPT ![p] = how]
      /\ pollIi' = [pollIi EXCEPT ![p] = 1]
      /\ pollRegistered' = [pollRegistered EXCEPT ![p] = 0]
      /\ pollIsPolling' = [pollIsPolling EXCEPT ![p] = TRUE]
      /\ pollSem' = [pollSem EXCEPT ![p] = 0]
      /\ pollRet' = [pollRet EXCEPT ![p] = NULL]
      /\ pollReady' = pollReady \ Poll!Events(p)
      /\ pollAttached' = pollAttached \ Poll!Events(p)
  BY DEF Poll!CallPoll
<1>2. /\ pollPc'[p] = "register" /\ pollIi'[p] = 1 /\ pollRegistered'[p] = 0
      /\ pollIsPolling'[p] = TRUE /\ pollSem'[p] = 0
      /\ \A q \in Pollers : q # p =>
           /\ pollPc'[q] = pollPc[q] /\ pollTimeout'[q] = pollTimeout[q] /\ pollIi'[q] = pollIi[q]
           /\ pollRegistered'[q] = pollRegistered[q] /\ pollIsPolling'[q] = pollIsPolling[q]
           /\ pollSem'[q] = pollSem[q] /\ pollRet'[q] = pollRet[q]
  BY <1>0, <1>1 DEF PollType
<1>3. \A q \in Pollers, e \in AllEvents : q # p /\ e[1] = q => e \notin Poll!Events(p)
  BY EventFacts DEF Poll!Events
<1>4. PollType'
  <2>1. pollIi' \in [Pollers -> Int] /\ pollRegistered' \in [Pollers -> Nat]
    BY <1>0, <1>1 DEF PollType
  <2>2. /\ DOMAIN pollPc' = Pollers /\ DOMAIN pollTimeout' = Pollers
        /\ DOMAIN pollIsPolling' = Pollers /\ DOMAIN pollSem' = Pollers /\ DOMAIN pollRet' = Pollers
    BY <1>0, <1>1 DEF PollType
  <2> QED BY <1>0, <1>1, <2>1, <2>2 DEF PollType
<1>5. PollCounts'
  <2> SUFFICES ASSUME NEW q \in Pollers PROVE Counted(q)'
    BY DEF PollCounts
  <2>1. CASE q = p
    <3>1. Poll!NumEvents(p) \in Nat
      BY EventFacts
    <3> QED BY <1>2, <2>1, <3>1 DEF Poll!NumEvents, Counted
  <2>2. CASE q # p
    BY <1>0, <1>2, <2>2 DEF PollCounts, Counted, Poll!NumEvents
  <2> QED BY <2>1, <2>2
<1>6. PollLists'
  <2>1. ASSUME NEW o \in Poll!Objects, NEW e \in AllEvents, Has(pollEvents[o], e), Waiting(e, o)
        PROVE  Waiting(e, o)'
    <3>1. e[1] \in Pollers /\ e[1] # p
      BY <1>1, <2>1, EventFacts DEF Waiting
    <3>2. e \notin Poll!Events(p)
      BY <1>3, <3>1
    <3> QED BY <1>1, <1>2, <2>1, <3>1, <3>2 DEF Waiting
  <2> QED BY <1>0, <1>1, <2>1, PollListsFrame
<1>7. PollReady'
  <2>1. ASSUME NEW q \in Pollers, Told(q)'
        PROVE  Told(q) /\ \A e \in AllEvents : e[1] = q /\ e \in pollReady => e \in pollReady'
    <3>1. q # p
      BY <1>2, <2>1 DEF Told
    <3>2. Told(q)
      BY <1>2, <2>1, <3>1 DEF Told
    <3> QED BY <1>1, <1>3, <3>1, <3>2
  <2> QED BY <1>0, <2>1, PollReadyFrame
<1> QED BY <1>4, <1>5, <1>6, <1>7 DEF PollInv

(* One round of the registration.                                          *)
LEMMA PollRegister ==
  ASSUME PollInv, NEW p \in Pollers, Poll!register_events(p)
  PROVE  PollInv'
<1> DEFINE i == pollIi[p]
           e == <<p, i>>
           obj == EventsOf[p][i]
<1>0. PollType /\ PollCounts /\ PollLists /\ PollReady
  BY DEF PollInv
<1>1. /\ pollPc[p] = "register" /\ i <= Poll!NumEvents(p)
      /\ pollIi' = [pollIi EXCEPT ![p] = @ + 1]
      /\ UNCHANGED <<pollPc, pollTimeout, pollSem, pollRet, pollRaising>>
  BY DEF Poll!register_events
<1>2. /\ i \in Int /\ i >= 1 /\ pollRegistered[p] \in Nat /\ pollRegistered[p] < i
      /\ Poll!NumEvents(p) \in Nat /\ i \in 1..Poll!NumEvents(p)
      /\ e \in AllEvents /\ e[1] = p /\ e[2] = i /\ obj \in Poll!Objects
  BY <1>0, <1>1, EventFacts DEF PollType, PollCounts, Counted
<1>3. pollIi'[p] = i + 1 /\ \A q \in Pollers : q # p => pollIi'[q] = pollIi[q]
  BY <1>0, <1>1 DEF PollType
<1>4. \A o \in Poll!Objects : ~Has(pollEvents[o], e)
  BY <1>0, <1>2 DEF PollLists, Waiting
<1> HIDE DEF i, e, obj
<1>5. pollIi' \in [Pollers -> Int]
  BY <1>0, <1>1 DEF PollType
<1>6. CASE /\ UNCHANGED <<pollEvents, pollRegistered>>
           /\ pollAttached \ {e} \subseteq pollAttached'
           /\ \/ /\ pollReady' = pollReady \cup {e}
                 /\ pollIsPolling' = [pollIsPolling EXCEPT ![p] = FALSE]
              \/ /\ UNCHANGED <<pollReady, pollIsPolling>>
                 /\ ~(pollTimeout[p] # "nowait" /\ pollIsPolling[p])
  <2>1. /\ DOMAIN pollIsPolling' = Pollers
        /\ \A q \in Pollers : q # p => pollIsPolling'[q] = pollIsPolling[q]
        /\ ~(pollTimeout[p] # "nowait" /\ pollIsPolling'[p])
        /\ pollReady \subseteq pollReady'
        /\ pollIsPolling'[p] = pollIsPolling[p] \/ e \in pollReady'
    BY <1>0, <1>6 DEF PollType
  <2>2. PollType'
    BY <1>0, <1>1, <1>5, <1>6, <2>1 DEF PollType
  <2>3. PollCounts'
    <3> SUFFICES ASSUME NEW q \in Pollers PROVE Counted(q)'
      BY DEF PollCounts
    <3>1. CASE q = p
      <4>1. /\ pollIi'[p] >= 1 /\ pollIi'[p] <= Poll!NumEvents(p) + 1 /\ pollRegistered[p] < pollIi'[p]
            /\ pollRegistered[p] <= Poll!NumEvents(p)
        BY <1>1, <1>2, <1>3 DEF i
      <4> QED BY <1>1, <1>6, <2>1, <3>1, <4>1 DEF Poll!NumEvents, Counted
    <3>2. CASE q # p
      BY <1>0, <1>1, <1>3, <1>6, <2>1, <3>2 DEF PollCounts, Counted, Poll!NumEvents
    <3> QED BY <3>1, <3>2
  <2>4. PollLists'
    <3>1. ASSUME NEW o \in Poll!Objects, NEW f \in AllEvents, Has(pollEvents[o], f), Waiting(f, o)
          PROVE  Waiting(f, o)'
      <4>1. f # e /\ f[1] \in Pollers
        BY <1>4, <3>1, EventFacts
      <4>2. pollPc[f[1]] = "clear" => f[1] # p
        BY <1>1
      <4> QED BY <1>1, <1>3, <1>6, <3>1, <4>1, <4>2 DEF Waiting
    <3> QED BY <1>0, <1>6, <3>1, PollListsFrame
  <2>5. PollReady'
    <3>1. ASSUME NEW q \in Pollers, Told(q)'
          PROVE  \/ \E f \in AllEvents : f[1] = q /\ f \in pollReady'
                 \/ Told(q) /\ \A f \in AllEvents : f[1] = q /\ f \in pollReady => f \in pollReady'
      <4>1. CASE q # p \/ pollIsPolling'[p] = pollIsPolling[p]
        <5>1. Told(q)
          BY <1>1, <2>1, <3>1, <4>1 DEF Told
        <5> QED BY <2>1, <5>1
      <4>2. CASE q = p /\ e \in pollReady'
        BY <1>2, <4>2
      <4> QED BY <2>1, <4>1, <4>2
    <3> QED BY <1>0, <3>1, PollReadyFrame
  <2> QED BY <2>2, <2>3, <2>4, <2>5 DEF PollInv
<1>7. CASE /\ pollTimeout[p] # "nowait" /\ pollIsPolling[p]
           /\ pollEvents' = [pollEvents EXCEPT ![obj] = Append(@, e)]
           /\ pollAttached' = pollAttached \cup {e}
           /\ pollRegistered' = [pollRegistered EXCEPT ![p] = @ + 1]
           /\ UNCHANGED <<pollReady, pollIsPolling>>
  <2>1. /\ pollRegistered'[p] = i /\ pollRegistered' \in [Pollers -> Nat]
        /\ \A q \in Pollers : q # p => pollRegistered'[q] = pollRegistered[q]
    <3>1. pollRegistered[p] = i - 1
      BY <1>0, <1>1, <1>7 DEF PollCounts, Counted, i
    <3> QED BY <1>0, <1>2, <1>7, <3>1 DEF PollType
  <2>2. pollEvents[obj] \in Seq(AllEvents) /\ Once(pollEvents[obj], AllEvents)
    BY <1>0, <1>2 DEF PollType, PollLists
  <2>3. /\ Append(pollEvents[obj], e) \in Seq(AllEvents)
        /\ \A x : Has(Append(pollEvents[obj], e), x) <=> Has(pollEvents[obj], x) \/ x = e
        /\ Once(Append(pollEvents[obj], e), AllEvents)
    BY <1>2, <1>4, <2>2, AppendHas, AppendFacts
  <2>4. /\ pollEvents'[obj] = Append(pollEvents[obj], e)
        /\ \A o \in Poll!Objects : o # obj => pollEvents'[o] = pollEvents[o]
        /\ pollEvents' \in [Poll!Objects -> Seq(AllEvents)]
    BY <1>0, <1>2, <1>7, <2>3 DEF PollType
  <2>5. PollType'
    <3>1. pollEvents' \in [Poll!Objects' -> Seq(AllEvents')]
      BY <2>4 DEF Poll!Objects, AllEvents, Poll!Events, Poll!NumEvents
    <3> QED BY <1>0, <1>1, <1>5, <1>7, <2>1, <3>1 DEF PollType
  <2>6. PollCounts'
    <3> SUFFICES ASSUME NEW q \in Pollers PROVE Counted(q)'
      BY DEF PollCounts
    <3>1. CASE q = p
      <4>1. /\ pollIi'[p] >= 1 /\ pollIi'[p] <= Poll!NumEvents(p) + 1
            /\ pollRegistered'[p] < pollIi'[p] /\ pollRegistered'[p] = pollIi'[p] - 1
            /\ pollRegistered'[p] <= Poll!NumEvents(p)
        BY <1>1, <1>2, <1>3, <2>1 DEF i
      <4> QED BY <1>1, <3>1, <4>1 DEF Poll!NumEvents, Counted
    <3>2. CASE q # p
      BY <1>0, <1>1, <1>3, <1>7, <2>1, <3>2 DEF PollCounts, Counted, Poll!NumEvents
    <3> QED BY <3>1, <3>2
  <2>7. ASSUME NEW o \in Poll!Objects, NEW f \in AllEvents, Has(pollEvents[o], f)
        PROVE  Waiting(f, o)'
    <3>1. Waiting(f, o) /\ f[1] \in Pollers /\ f[2] \in Nat
      BY <1>0, <2>7, EventFacts DEF PollLists
    <3>2. CASE f[1] = p
      <4>1. f[2] <= pollRegistered'[p]
        BY <1>2, <2>1, <3>1, <3>2 DEF Waiting
      <4> QED BY <1>1, <1>7, <3>1, <3>2, <4>1 DEF Waiting
    <3>3. CASE f[1] # p
      BY <1>1, <1>3, <1>7, <2>1, <3>1, <3>3 DEF Waiting
    <3> QED BY <3>2, <3>3
  <2>8. ASSUME NEW f \in AllEvents, NEW o, f = e, o = obj
        PROVE  Waiting(f, o)'
    BY <1>1, <1>2, <1>7, <2>1, <2>8 DEF Waiting, obj
  <2>9. PollLists'
    <3> SUFFICES ASSUME NEW o \in Poll!Objects
                 PROVE  /\ Once(pollEvents'[o], AllEvents)
                        /\ \A f \in AllEvents : Has(pollEvents'[o], f) => Waiting(f, o)'
      BY PollRigid DEF PollLists
    <3>1. CASE o = obj
      BY <2>3, <2>4, <2>7, <2>8, <3>1
    <3>2. CASE o # obj
      BY <1>0, <2>4, <2>7, <3>2 DEF PollLists
    <3> QED BY <3>1, <3>2
  <2>10. PollReady'
    BY <1>0, <1>1, <1>7 DEF PollReady, Told
  <2> QED BY <2>5, <2>6, <2>9, <2>10 DEF PollInv
<1> QED BY <1>6, <1>7 DEF Poll!register_events, Poll!set_event_ready, i, e, obj

(* A poller goes on, and leaves the lists and the events as they are.      *)
LEMMA PollMove ==
  ASSUME PollInv, NEW p \in Pollers, NEW at, at # "register",
         pollPc' = [pollPc EXCEPT ![p] = at],
         UNCHANGED <<pollEvents, pollAttached, pollReady, pollTimeout, pollRegistered, pollRaising>>,
         pollIi' \in [Pollers -> Int], DOMAIN pollIsPolling' = Pollers,
         DOMAIN pollSem' = Pollers, DOMAIN pollRet' = Pollers,
         \A q \in Pollers : q # p =>
           /\ pollIi'[q] = pollIi[q] /\ pollIsPolling'[q] = pollIsPolling[q]
           /\ pollSem'[q] = pollSem[q] /\ pollRet'[q] = pollRet[q],
         pollPc[p] # "idle",
         at = "idle" => \A o \in Poll!Objects, e \in AllEvents : Has(pollEvents[o], e) => e[1] # p,
         at = "clear" => pollIi'[p] = pollRegistered[p],
         Told(p)' => Told(p)
  PROVE  PollInv'
<1>0. PollType /\ PollCounts /\ PollLists /\ PollReady
  BY DEF PollInv
<1>1. /\ pollPc'[p] = at /\ DOMAIN pollPc' = Pollers
      /\ \A q \in Pollers : q # p => pollPc'[q] = pollPc[q]
  BY <1>0 DEF PollType
<1>2. PollType'
  BY <1>0, <1>1, PollRigid DEF PollType
<1>3. PollCounts'
  <2> SUFFICES ASSUME NEW q \in Pollers PROVE Counted(q)'
    BY DEF PollCounts
  <2>1. CASE q = p
    <3>1. pollRegistered[p] \in Nat /\ pollRegistered[p] <= Poll!NumEvents(p)
      BY <1>0 DEF PollType, PollCounts, Counted
    <3> QED BY <1>1, <2>1, <3>1 DEF Counted, Poll!NumEvents
  <2>2. CASE q # p
    BY <1>0, <1>1, <2>2 DEF PollCounts, Counted, Poll!NumEvents
  <2> QED BY <2>1, <2>2
<1>4. PollLists'
  <2>1. ASSUME NEW o \in Poll!Objects, NEW e \in AllEvents, Has(pollEvents[o], e), Waiting(e, o)
        PROVE  Waiting(e, o)'
    <3>1. e[1] \in Pollers
      BY EventFacts
    <3>2. CASE e[1] = p
      BY <1>1, <2>1, <3>2 DEF Waiting
    <3>3. CASE e[1] # p
      BY <1>1, <2>1, <3>1, <3>3 DEF Waiting
    <3> QED BY <3>2, <3>3
  <2> QED BY <1>0, <2>1, PollListsFrame
<1>5. PollReady'
  <2>1. ASSUME NEW q \in Pollers, Told(q)' PROVE Told(q)
    BY <1>1, <2>1 DEF Told
  <2> QED BY <1>0, <2>1, PollReadyFrame
<1> QED BY <1>2, <1>3, <1>4, <1>5 DEF PollInv

(* The decision after the registration.                                    *)
LEMMA PollDecide ==
  ASSUME PollInv, NEW p \in Pollers, Poll!Decide(p)
  PROVE  PollInv'
<1>0. PollType /\ PollCounts /\ PollLists
  BY DEF PollInv
<1>1. /\ pollPc[p] = "register"
      /\ UNCHANGED <<pollEvents, pollAttached, pollReady, pollTimeout, pollRegistered, pollSem, pollRaising>>
  BY DEF Poll!Decide, Poll!objVars
<1>2. CASE /\ ~pollIsPolling[p] /\ Poll!clear_event_registrations(p)
           /\ pollRet' = [pollRet EXCEPT ![p] = "ok"] /\ UNCHANGED pollIsPolling
  <2>1. /\ pollPc' = [pollPc EXCEPT ![p] = "clear"]
        /\ pollIi' = [pollIi EXCEPT ![p] = pollRegistered[p]]
    BY <1>2 DEF Poll!clear_event_registrations
  <2>2. /\ pollIi' \in [Pollers -> Int] /\ pollIi'[p] = pollRegistered[p]
        /\ DOMAIN pollRet' = Pollers
        /\ \A q \in Pollers : q # p => pollIi'[q] = pollIi[q] /\ pollRet'[q] = pollRet[q]
    BY <1>0, <1>2, <2>1 DEF PollType
  <2>3. DOMAIN pollIsPolling' = Pollers /\ DOMAIN pollSem' = Pollers
    BY <1>0, <1>1, <1>2 DEF PollType
  <2>4. Told(p)
    BY <1>1, <1>2 DEF Told
  <2> QED BY <1>1, <1>2, <2>1, <2>2, <2>3, <2>4, PollMove
<1>3. CASE /\ pollTimeout[p] = "nowait" /\ Poll!Return(p, "ok")
           /\ pollIsPolling' = [pollIsPolling EXCEPT ![p] = FALSE] /\ UNCHANGED pollIi
  <2>1. /\ pollPc' = [pollPc EXCEPT ![p] = "idle"]
        /\ pollRet' = [pollRet EXCEPT ![p] = "ok"]
    BY <1>3 DEF Poll!Return
  <2>2. /\ DOMAIN pollRet' = Pollers /\ DOMAIN pollIsPolling' = Pollers /\ pollIi' \in [Pollers -> Int]
        /\ \A q \in Pollers : q # p => pollRet'[q] = pollRet[q] /\ pollIsPolling'[q] = pollIsPolling[q]
        /\ DOMAIN pollSem' = Pollers /\ pollPc'[p] = "idle"
    BY <1>0, <1>1, <1>3, <2>1 DEF PollType
  <2>3. ASSUME NEW o \in Poll!Objects, NEW e \in AllEvents, Has(pollEvents[o], e) PROVE e[1] # p
    BY <1>0, <1>3, <2>3 DEF PollLists, Waiting
  <2>4. Told(p)' => Told(p)
    BY <1>1, <1>3, <2>2 DEF Told
  <2> QED BY <1>1, <1>3, <2>1, <2>2, <2>3, <2>4, PollMove
<1>4. CASE /\ pollPc' = [pollPc EXCEPT ![p] = "wait"]
           /\ pollIsPolling' = [pollIsPolling EXCEPT ![p] = FALSE] /\ UNCHANGED <<pollIi, pollRet>>
  <2>1. /\ DOMAIN pollRet' = Pollers /\ DOMAIN pollIsPolling' = Pollers /\ pollIi' \in [Pollers -> Int]
        /\ \A q \in Pollers : q # p => pollIsPolling'[q] = pollIsPolling[q]
        /\ DOMAIN pollSem' = Pollers /\ pollPc'[p] = "wait"
    BY <1>0, <1>1, <1>4 DEF PollType
  <2>2. Told(p)' => Told(p)
    BY <1>1, <2>1 DEF Told
  <2> QED BY <1>1, <1>4, <2>1, <2>2, PollMove
<1> QED BY <1>2, <1>3, <1>4 DEF Poll!Decide

(* os_sem_take returns: success means that an event has given the token.   *)
LEMMA PollWaited ==
  ASSUME PollInv, NEW p \in Pollers, Poll!Waited(p)
  PROVE  PollInv'
<1>0. PollType
  BY DEF PollInv
<1>1. /\ pollPc[p] = "wait" /\ pollPc' = [pollPc EXCEPT ![p] = "waited"]
      /\ pollRet' = [pollRet EXCEPT ![p] = IF pollSem[p] = 1 THEN "ok" ELSE "timeout"]
      /\ pollSem' = [pollSem EXCEPT ![p] = 0]
      /\ UNCHANGED <<pollEvents, pollAttached, pollReady, pollTimeout, pollRegistered, pollRaising,
                     pollIi, pollIsPolling>>
  BY DEF Poll!Waited, Poll!objVars
<1>2. /\ DOMAIN pollRet' = Pollers /\ DOMAIN pollSem' = Pollers /\ DOMAIN pollIsPolling' = Pollers
      /\ pollIi' \in [Pollers -> Int]
      /\ \A q \in Pollers : q # p => pollRet'[q] = pollRet[q] /\ pollSem'[q] = pollSem[q]
      /\ pollPc'[p] = "waited" /\ pollSem'[p] = 0
      /\ pollRet'[p] = IF pollSem[p] = 1 THEN "ok" ELSE "timeout"
  BY <1>0, <1>1 DEF PollType
<1>3. Told(p)' => Told(p)
  BY <1>2 DEF Told
<1> QED BY <1>1, <1>2, <1>3, PollMove

(* The mutex is taken again for the clearing.                              *)
LEMMA PollClear ==
  ASSUME PollInv, NEW p \in Pollers, Poll!Clear(p)
  PROVE  PollInv'
<1>0. PollType
  BY DEF PollInv
<1>1. /\ pollPc[p] = "waited" /\ pollPc' = [pollPc EXCEPT ![p] = "clear"]
      /\ pollIi' = [pollIi EXCEPT ![p] = pollRegistered[p]]
      /\ UNCHANGED <<pollEvents, pollAttached, pollReady, pollTimeout, pollRegistered, pollRaising,
                     pollSem, pollRet, pollIsPolling>>
  BY DEF Poll!Clear, Poll!clear_event_registrations, Poll!objVars
<1>2. /\ DOMAIN pollRet' = Pollers /\ DOMAIN pollSem' = Pollers /\ DOMAIN pollIsPolling' = Pollers
      /\ pollIi' \in [Pollers -> Int] /\ pollIi'[p] = pollRegistered[p] /\ pollPc'[p] = "clear"
      /\ \A q \in Pollers : q # p => pollIi'[q] = pollIi[q]
  BY <1>0, <1>1 DEF PollType
<1>3. Told(p)' => Told(p)
  BY <1>1, <1>2 DEF Told
<1> QED BY <1>1, <1>2, <1>3, PollMove

(* After the last round no list has an event of the call.                  *)
LEMMA PollCleared ==
  ASSUME PollInv, NEW p \in Pollers, Poll!Cleared(p)
  PROVE  PollInv'
<1>0. PollType /\ PollLists
  BY DEF PollInv
<1>1. /\ pollPc[p] = "clear" /\ pollIi[p] = 0 /\ pollPc' = [pollPc EXCEPT ![p] = "idle"]
      /\ pollRet' = [pollRet EXCEPT ![p] = pollRet[p]]
      /\ UNCHANGED <<pollEvents, pollAttached, pollReady, pollTimeout, pollRegistered, pollRaising,
                     pollSem, pollIi, pollIsPolling>>
  BY DEF Poll!Cleared, Poll!Return, Poll!objVars
<1>2. /\ DOMAIN pollRet' = Pollers /\ DOMAIN pollSem' = Pollers /\ DOMAIN pollIsPolling' = Pollers
      /\ pollIi' \in [Pollers -> Int] /\ pollRet'[p] = pollRet[p] /\ pollPc'[p] = "idle"
      /\ \A q \in Pollers : q # p => pollRet'[q] = pollRet[q]
  BY <1>0, <1>1 DEF PollType
<1>3. ASSUME NEW o \in Poll!Objects, NEW e \in AllEvents, Has(pollEvents[o], e), e[1] = p
      PROVE  FALSE
  <2>1. e[2] <= 0
    BY <1>0, <1>1, <1>3 DEF PollLists, Waiting
  <2> QED BY <2>1, EventFacts
<1>4. Told(p)' => Told(p)
  BY <1>1, <1>2 DEF Told
<1> QED BY <1>1, <1>2, <1>3, <1>4, PollMove

(* An event leaves a list, or all lists, and its poller: the others stay.  *)
LEMMA PollLeaves ==
  ASSUME PollLists, PollType, NEW f \in AllEvents, NEW obj \in Poll!Objects, NEW new \in Seq(AllEvents),
         pollEvents' = [pollEvents EXCEPT ![obj] = new], Once(new, AllEvents),
         \A x \in AllEvents : Has(new, x) <=> Has(pollEvents[obj], x) /\ x # f,
         EventsOf[f[1]][f[2]] = obj,
         \A e \in AllEvents, o \in Poll!Objects : e # f /\ Waiting(e, o) => Waiting(e, o)'
  PROVE  PollLists' /\ pollEvents' \in [Poll!Objects -> Seq(AllEvents)]
<1>1. /\ pollEvents' \in [Poll!Objects -> Seq(AllEvents)] /\ pollEvents'[obj] = new
      /\ \A o \in Poll!Objects : o # obj => pollEvents'[o] = pollEvents[o]
  BY DEF PollType
<1>2. PollLists'
  <2> SUFFICES ASSUME NEW o \in Poll!Objects
               PROVE  /\ Once(pollEvents'[o], AllEvents)
                      /\ \A e \in AllEvents : Has(pollEvents'[o], e) => Waiting(e, o)'
    BY PollRigid DEF PollLists
  <2>1. CASE o = obj
    BY <1>1, <2>1 DEF PollLists
  <2>2. CASE o # obj
    <3>1. \A e \in AllEvents : Has(pollEvents[o], e) => Waiting(e, o) /\ e # f
      BY <2>2 DEF PollLists, Waiting
    <3> QED BY <1>1, <2>2, <3>1 DEF PollLists
  <2> QED BY <2>1, <2>2
<1> QED BY <1>1, <1>2

(* One round of the clearing.                                              *)
LEMMA PollClearOne ==
  ASSUME PollInv, NEW p \in Pollers, Poll!clear_event_registration(p)
  PROVE  PollInv'
<1>0. PollType /\ PollCounts /\ PollLists /\ PollReady
  BY DEF PollInv
<1>1. /\ pollPc[p] = "clear" /\ pollIi[p] > 0
      /\ pollAttached' = pollAttached \ {<<p, pollIi[p]>>}
      /\ pollIi' = [pollIi EXCEPT ![p] = @ - 1]
      /\ UNCHANGED <<pollReady, pollPc, pollTimeout, pollRegistered, pollIsPolling, pollSem, pollRet,
                     pollRaising>>
  BY DEF Poll!clear_event_registration
<1>2. PICK f, obj : f = <<p, pollIi[p]>> /\ obj = EventsOf[p][pollIi[p]]
  OBVIOUS
<1>3. /\ pollIi[p] \in Int /\ pollIi[p] >= 1 /\ pollIi[p] <= pollRegistered[p]
      /\ pollRegistered[p] \in Nat /\ pollRegistered[p] <= Poll!NumEvents(p) /\ Poll!NumEvents(p) \in Nat
  BY <1>0, <1>1, EventFacts DEF PollType, PollCounts, Counted
<1>4. f \in AllEvents /\ obj \in Poll!Objects /\ f[1] = p /\ f[2] = pollIi[p]
      /\ EventsOf[f[1]][f[2]] = obj
  BY <1>2, <1>3, EventFacts
<1>5. /\ pollIi'[p] = pollIi[p] - 1 /\ pollIi' \in [Pollers -> Int]
      /\ \A q \in Pollers : q # p => pollIi'[q] = pollIi[q]
  BY <1>0, <1>1 DEF PollType
<1>6. ASSUME NEW e \in AllEvents, NEW o \in Poll!Objects, e # f, Waiting(e, o)
      PROVE  Waiting(e, o)'
  <2>1. e[1] \in Pollers /\ e[2] \in Nat /\ e = <<e[1], e[2]>>
    BY EventFacts
  <2>2. CASE e[1] = p
    <3>1. e[2] # pollIi[p] /\ e[2] <= pollIi[p]
      BY <1>1, <1>2, <1>6, <2>1, <2>2 DEF Waiting
    <3>2. e[2] <= pollIi'[p]
      BY <1>3, <1>5, <2>1, <3>1
    <3> QED BY <1>1, <1>2, <1>6, <2>2, <3>2 DEF Waiting
  <2>3. CASE e[1] # p
    BY <1>1, <1>2, <1>5, <1>6, <2>1, <2>3 DEF Waiting
  <2> QED BY <2>2, <2>3
<1>7. PollLists' /\ pollEvents' \in [Poll!Objects -> Seq(AllEvents)]
  <2>0. pollEvents[obj] \in Seq(AllEvents) /\ Once(pollEvents[obj], AllEvents)
    BY <1>0, <1>4 DEF PollType, PollLists
  <2>1. CASE /\ \A k \in 1..Len(pollEvents[obj]) : pollEvents[obj][k] # f
             /\ UNCHANGED pollEvents
    <3>1. \A x \in AllEvents : Has(pollEvents[obj], x) <=> Has(pollEvents[obj], x) /\ x # f
      BY <2>1 DEF Has
    <3>2. pollEvents' = [pollEvents EXCEPT ![obj] = pollEvents[obj]]
      BY <1>0, <2>1 DEF PollType
    <3> QED BY <1>0, <1>4, <1>6, <2>0, <3>1, <3>2, PollLeaves
  <2>2. CASE \E k \in 1..Len(pollEvents[obj]) :
               /\ pollEvents[obj][k] = f
               /\ pollEvents' = [pollEvents EXCEPT ![obj] = Poll!RemoveAt(@, k)]
    <3>1. PICK k \in 1..Len(pollEvents[obj]) :
               /\ pollEvents[obj][k] = f
               /\ pollEvents' = [pollEvents EXCEPT ![obj] = Poll!RemoveAt(@, k)]
      BY <2>2
    <3>2. pollEvents' = [pollEvents EXCEPT ![obj] = RemoveAt(pollEvents[obj], k)]
      BY <3>1, PollLibrary
    <3>3. /\ RemoveAt(pollEvents[obj], k) \in Seq(AllEvents)
          /\ \A x \in AllEvents : Has(RemoveAt(pollEvents[obj], k), x) <=> Has(pollEvents[obj], x) /\ x # f
          /\ Once(RemoveAt(pollEvents[obj], k), AllEvents)
      BY <2>0, <3>1, RemoveHas, RemoveAtFacts
    <3> QED BY <1>0, <1>4, <1>6, <3>2, <3>3, PollLeaves
  <2> QED BY <1>2, <2>1, <2>2 DEF Poll!clear_event_registration
<1>8. PollType'
  <2>1. pollEvents' \in [Poll!Objects' -> Seq(AllEvents')]
    BY <1>7, PollRigid
  <2> QED BY <1>0, <1>1, <1>5, <2>1 DEF PollType
<1>9. PollCounts'
  <2> SUFFICES ASSUME NEW q \in Pollers PROVE Counted(q)'
    BY DEF PollCounts
  <2>1. CASE q = p
    <3>1. pollIi'[p] >= 0 /\ pollIi'[p] <= pollRegistered[p]
      BY <1>3, <1>5
    <3> QED BY <1>1, <1>3, <2>1, <3>1 DEF Counted, Poll!NumEvents
  <2>2. CASE q # p
    BY <1>0, <1>1, <1>5, <2>2 DEF PollCounts, Counted, Poll!NumEvents
  <2> QED BY <2>1, <2>2
<1>10. PollReady'
  BY <1>0, <1>1 DEF PollReady, Told
<1> QED BY <1>7, <1>8, <1>9, <1>10 DEF PollInv

(* A raise: the first event on the list of the signal, if there is one,    *)
(* is ready, and its poller is told.                                       *)
LEMMA PollRaise ==
  ASSUME PollInv, NEW r \in Raisers, Poll!bt_poll_signal_raise(r)
  PROVE  PollInv'
<1>0. PollType /\ PollCounts /\ PollLists /\ PollReady
  BY DEF PollInv
<1>1. /\ pollRaising[r] # NULL /\ pollRaising' = [pollRaising EXCEPT ![r] = NULL]
      /\ UNCHANGED <<pollPc, pollTimeout, pollIi, pollRegistered, pollRet>>
  BY DEF Poll!bt_poll_signal_raise
<1>2. PICK s : s = pollRaising[r]
  OBVIOUS
<1>3. s \in Signals /\ s \in Poll!Objects
  BY <1>0, <1>1, <1>2 DEF PollType, Poll!Objects
<1>4. /\ DOMAIN pollRaising' = Raisers
      /\ \A u \in Raisers : pollRaising'[u] # NULL => pollRaising'[u] \in Signals
  BY <1>0, <1>1 DEF PollType
<1>5. CASE UNCHANGED <<pollEvents, pollAttached, pollReady, pollSem, pollIsPolling>>
  <2>1. PollType'
    BY <1>0, <1>1, <1>4, <1>5, PollRigid DEF PollType
  <2>2. PollCounts'
    BY <1>0, <1>1, <1>5 DEF PollCounts, Counted, Poll!NumEvents
  <2>3. PollLists'
    BY <1>0, <1>1, <1>5, PollListsFrame DEF Waiting
  <2>4. PollReady'
    BY <1>0, <1>1, <1>5 DEF PollReady, Told
  <2> QED BY <2>1, <2>2, <2>3, <2>4 DEF PollInv
<1>6. CASE /\ pollEvents[s] # <<>>
           /\ pollEvents' = [pollEvents EXCEPT ![s] = Tail(@)]
           /\ Poll!signal_poll_event(Head(pollEvents[s]), s)
  <2>0. pollEvents[s] \in Seq(AllEvents) /\ Once(pollEvents[s], AllEvents)
    BY <1>0, <1>3 DEF PollType, PollLists
  <2>1. PICK f : f = Head(pollEvents[s])
    OBVIOUS
  <2>2. /\ Tail(pollEvents[s]) \in Seq(AllEvents) /\ f \in AllEvents
        /\ \A x \in AllEvents : Has(Tail(pollEvents[s]), x) <=> Has(pollEvents[s], x) /\ x # f
        /\ Once(Tail(pollEvents[s]), AllEvents)
    BY <1>6, <2>0, <2>1, TailHas
  <2>3. Has(pollEvents[s], f)
    <3>1. 1 \in 1..Len(pollEvents[s]) /\ f = pollEvents[s][1]
      BY <1>6, <2>0, <2>1, LenProperties, EmptySeq, HeadTailProperties
    <3> QED BY <3>1 DEF Has
  <2>4. Waiting(f, s) /\ f[1] \in Pollers
    BY <1>0, <1>3, <2>2, <2>3, EventFacts DEF PollLists
  <2>5. /\ pollAttached' = pollAttached \ {f} /\ pollReady' = pollReady \cup {f}
        /\ pollSem' = [pollSem EXCEPT ![f[1]] = 1]
        /\ pollIsPolling' = [pollIsPolling EXCEPT ![f[1]] = FALSE]
    BY <1>6, <2>1, <2>4 DEF Poll!signal_poll_event, Poll!set_event_ready, Waiting
  <2>6. /\ DOMAIN pollSem' = Pollers /\ DOMAIN pollIsPolling' = Pollers
        /\ pollIsPolling'[f[1]] = FALSE
        /\ \A q \in Pollers : q # f[1] => pollSem'[q] = pollSem[q] /\ pollIsPolling'[q] = pollIsPolling[q]
    BY <1>0, <2>4, <2>5 DEF PollType
  <2>7. \A e \in AllEvents, o \in Poll!Objects : e # f /\ Waiting(e, o) => Waiting(e, o)'
    BY <1>1, <2>5 DEF Waiting
  <2>8. PollLists' /\ pollEvents' \in [Poll!Objects -> Seq(AllEvents)]
    <3>1. EventsOf[f[1]][f[2]] = s
      BY <2>4 DEF Waiting
    <3> QED BY <1>0, <1>3, <1>6, <2>2, <2>7, <3>1, PollLeaves
  <2>9. PollType'
    <3>1. pollEvents' \in [Poll!Objects' -> Seq(AllEvents')]
      BY <2>8, PollRigid
    <3> QED BY <1>0, <1>1, <1>4, <2>6, <3>1 DEF PollType
  <2>10. PollCounts'
    <3> SUFFICES ASSUME NEW q \in Pollers PROVE Counted(q)'
      BY DEF PollCounts
    <3>1. pollIsPolling'[q] => pollIsPolling[q]
      BY <2>6
    <3> QED BY <1>0, <1>1, <3>1 DEF PollCounts, Counted, Poll!NumEvents
  <2>11. PollReady'
    <3>1. ASSUME NEW q \in Pollers, Told(q)'
          PROVE  \/ \E e \in AllEvents : e[1] = q /\ e \in pollReady'
                 \/ Told(q) /\ \A e \in AllEvents : e[1] = q /\ e \in pollReady => e \in pollReady'
      <4>1. CASE q = f[1]
        BY <2>2, <2>5, <4>1
      <4>2. CASE q # f[1]
        <5>1. Told(q)
          BY <1>1, <2>6, <3>1, <4>2 DEF Told
        <5> QED BY <2>5, <5>1
      <4> QED BY <4>1, <4>2
    <3> QED BY <1>0, <3>1, PollReadyFrame
  <2> QED BY <2>8, <2>9, <2>10, <2>11 DEF PollInv
<1> QED BY <1>2, <1>5, <1>6 DEF Poll!bt_poll_signal_raise

(* A step that touches none of what the invariant is about.                *)
LEMMA PollStutter ==
  ASSUME PollInv, UNCHANGED <<pollEvents, pollAttached, pollReady, pollPc, pollTimeout, pollIi,
                              pollRegistered, pollIsPolling, pollSem, pollRet>>,
         DOMAIN pollRaising' = Raisers,
         \A r \in Raisers : pollRaising'[r] # NULL => pollRaising'[r] \in Signals
  PROVE  PollInv'
<1>0. PollType /\ PollCounts /\ PollLists /\ PollReady
  BY DEF PollInv
<1>1. PollType'
  BY <1>0, PollRigid DEF PollType
<1>2. PollCounts'
  BY <1>0 DEF PollCounts, Counted, Poll!NumEvents
<1>3. PollLists'
  BY <1>0, PollListsFrame DEF Waiting
<1>4. PollReady'
  BY <1>0 DEF PollReady, Told
<1> QED BY <1>1, <1>2, <1>3, <1>4 DEF PollInv

(* Every step of a poller, of a raiser and of the users of the queues.     *)
LEMMA PollNext ==
  ASSUME PollInv, Poll!Next
  PROVE  PollInv'
<1>0. /\ DOMAIN pollRaising = Raisers
      /\ \A r \in Raisers : pollRaising[r] # NULL => pollRaising[r] \in Signals
  BY DEF PollInv, PollType
<1>1. ASSUME NEW p \in Pollers,
             \/ \E how \in PollTimeouts : Poll!CallPoll(p, how)
             \/ Poll!register_events(p) \/ Poll!Decide(p) \/ Poll!Waited(p) \/ Poll!Clear(p)
             \/ Poll!clear_event_registration(p) \/ Poll!Cleared(p)
      PROVE  PollInv'
  BY <1>1, PollCallPoll, PollRegister, PollDecide, PollWaited, PollClear, PollClearOne, PollCleared
<1>2. ASSUME NEW r \in Raisers, NEW s \in Signals, Poll!CallRaise(r, s) PROVE PollInv'
  <2>1. /\ pollRaising' = [pollRaising EXCEPT ![r] = s]
        /\ UNCHANGED <<pollEvents, pollAttached, pollReady, pollPc, pollTimeout, pollIi,
                       pollRegistered, pollIsPolling, pollSem, pollRet>>
    BY <1>2 DEF Poll!CallRaise, Poll!objVars, Poll!pollVars
  <2>2. /\ DOMAIN pollRaising' = Raisers
        /\ \A u \in Raisers : pollRaising'[u] # NULL => pollRaising'[u] \in Signals
    BY <1>0, <1>2, <2>1
  <2> QED BY <2>1, <2>2, PollStutter
<1>3. ASSUME NEW q \in Queues, Poll!QueueChanges(q) PROVE PollInv'
  <2>1. /\ pollRaising' = pollRaising
        /\ UNCHANGED <<pollEvents, pollAttached, pollReady, pollPc, pollTimeout, pollIi,
                       pollRegistered, pollIsPolling, pollSem, pollRet>>
    BY <1>3 DEF Poll!QueueChanges, Poll!pollVars
  <2> QED BY <1>0, <2>1, PollStutter
<1> QED BY <1>1, <1>2, <1>3, PollRaise DEF Poll!Next

(* Whatever is raised between two steps of a bt_poll, it leaves no event   *)
(* on a list when it returns, an event on a list is on it once and points  *)
(* to its poller, and a bt_poll that may wait and returns 0 has an event   *)
(* for its caller.                                                         *)
THEOREM PollsAreExact == BaseSpec => []PollExact
<1> DEFINE Inv == part = "poll" => PollInv
<1>1. BaseInit => Inv
  BY PollInit DEF BaseInit
<1>2. Inv /\ [BaseNext]_<<part, vars, poolVars, pollVars, bufVars>> => Inv'
  <2> SUFFICES ASSUME Inv, [BaseNext]_<<part, vars, poolVars, pollVars, bufVars>>, part' = "poll"
               PROVE  PollInv'
    OBVIOUS
  <2>1. part = "poll" /\ PollInv
    BY DEF BaseNext
  <2>2. Poll!Next \/ UNCHANGED pollVars
    BY <2>1 DEF BaseNext
  <2>3. CASE UNCHANGED pollVars
    <3>1. /\ pollRaising' = pollRaising
          /\ UNCHANGED <<pollEvents, pollAttached, pollReady, pollPc, pollTimeout, pollIi,
                         pollRegistered, pollIsPolling, pollSem, pollRet>>
      BY <2>3 DEF pollVars
    <3>2. /\ DOMAIN pollRaising' = Raisers
          /\ \A r \in Raisers : pollRaising'[r] # NULL => pollRaising'[r] \in Signals
      BY <2>1, <3>1 DEF PollInv, PollType
    <3> QED BY <2>1, <3>1, <3>2, PollStutter
  <2> QED BY <2>1, <2>2, <2>3, PollNext
<1>3. Inv => PollExact
  BY PollMeans DEF PollExact
<1> QED BY <1>1, <1>2, <1>3, PTL DEF BaseSpec
-----------------------------------------------------------------------------
(* base/bt_buf.c, where no two threads have references of one buffer.      *)
BufBusy == {"ref", "unref", "store", "destroy"}
BufKinds == {"alloc", "data", "clone", "append"}

BufType ==
  /\ bufUninit \in 0..BufCount
  /\ bufFree \in Seq(Buf!Bufs) /\ bufList \in Seq(Buf!Bufs)
  /\ bufRef \in [Buf!Bufs -> Nat] /\ bufFrags \in [Buf!Bufs -> Buf!Bufs \cup {NULL}]
  /\ bufPc \in [BufThreads -> {"idle", "alloc", "get"} \cup BufBusy]
  /\ bufCall \in [BufThreads -> [kind : BufKinds, src : Buf!Bufs \cup {NULL}, how : BufTimeouts \cup {"nowait"}]]
  /\ bufCur \in [BufThreads -> Buf!Bufs \cup {NULL}] /\ bufVal \in [BufThreads -> Nat]
  /\ bufRest \in [BufThreads -> Buf!Bufs \cup {NULL}]
  /\ bufOwn \in [BufThreads -> [Buf!Bufs -> Nat]]

(* The local variables of a call: what it has loaded is still so, since    *)
(* no other thread has references of the buffer it works on.               *)
BufLocal(t) ==
  /\ bufPc[t] \in BufBusy => bufCur[t] \in Buf!Bufs
  /\ bufPc[t] \in {"ref", "store"} => bufVal[t] = bufRef[bufCur[t]]
  /\ bufPc[t] \in {"store", "destroy"} => bufRest[t] = bufFrags[bufCur[t]]
  /\ bufPc[t] \in {"idle", "alloc", "get"} => bufRest[t] = NULL
  /\ bufPc[t] \in {"alloc", "get"} /\ bufCall[t].kind \in {"clone", "append"} =>
       bufCall[t].src \in Buf!Bufs /\ bufOwn[t][bufCall[t].src] > 0
  /\ bufPc[t] = "ref" => bufOwn[t][bufCur[t]] > 0
BufLocals == \A t \in BufThreads : BufLocal(t)

(* Where a buffer is.                                                      *)
BufNever(b) == b > BufCount - bufUninit
BufFresh(b) == BufNever(b) \/ Has(bufFree, b)
BufDying(b) == \E t \in BufThreads : bufPc[t] = "destroy" /\ bufCur[t] = b
BufUsed(b) == ~BufFresh(b) /\ ~BufDying(b)
BufPlaces ==
  /\ Once(bufFree, Buf!Bufs) /\ Once(bufList, Buf!Bufs)
  /\ \A b \in Buf!Bufs : Has(bufFree, b) => ~BufNever(b)
  /\ \A b \in Buf!Bufs : BufFresh(b) => bufFrags[b] = NULL /\ ~BufDying(b)
  /\ \A t, u \in BufThreads :
       bufPc[t] = "destroy" /\ bufPc[u] = "destroy" /\ bufCur[t] = bufCur[u] => t = u

(* Every buffer has an owner, a thread or an entry of the list, who owns   *)
(* the rest of its chain too; only the owner has references of it.         *)
BufOwners == ({"thread"} \X BufThreads) \cup ({"list"} \X Buf!Bufs)
BufOwned(o) ==
  /\ \A t \in BufThreads, b \in Buf!Bufs : bufOwn[t][b] > 0 => o[b] = <<"thread", t>>
  /\ \A b \in Buf!Bufs : bufFrags[b] # NULL => o[bufFrags[b]] = o[b]
  /\ \A b \in Buf!Bufs : Has(bufList, b) => o[b] = <<"list", b>>
  /\ \A t \in BufThreads : bufPc[t] \in BufBusy => o[bufCur[t]] = <<"thread", t>>
BufOwner == \E o \in [Buf!Bufs -> BufOwners] : BufOwned(o)

BufRefs == \A b \in Buf!Bufs : Buf!References(b) = IF BufUsed(b) THEN bufRef[b] ELSE 0

BufInv == /\ BufType /\ BufLocals /\ BufPlaces /\ BufOwner /\ BufRefs
          /\ Buf!ChainEnds

-----------------------------------------------------------------------------
(* The library's operator is the same in the instance as here.             *)
LEMMA BufLibrary ==
  /\ \A S : Buf!Cardinality(S) = Cardinality(S)
BY DEF Buf!Cardinality, Cardinality

(* The buffers are finitely many, and NULL is none of them.                *)
LEMMA BufsFacts ==
  /\ Buf!Bufs = 1..BufCount /\ IsFiniteSet(Buf!Bufs) /\ NULL \notin Buf!Bufs
  /\ BufCount \in Nat /\ Buf!Bufs \subseteq Nat
<1>1. BufCount \in Nat /\ Buf!Bufs = 1..BufCount /\ NULL \notin Buf!Bufs
  BY BufAssumption DEF Buf!Bufs
<1>2. IsFiniteSet(1..BufCount)
  BY <1>1, FS_Interval
<1> QED BY <1>1, <1>2

(* The references to b, of threads, of the list, of fragments and of calls *)
(* of bt_buf_unref, as functions.                                          *)
Same(x, y) == IF x = y THEN 1 ELSE 0
In(l, x) == IF Has(l, x) THEN 1 ELSE 0
Pre(S, f, v) == {x \in S : f[x] = v}
BufTarget == [t \in BufThreads |-> IF bufPc[t] \in {"unref", "store"} THEN bufCur[t] ELSE NULL]
BufHeld(own, b) == UNION {{t} \X (1..own[t][b]) : t \in BufThreads}
BufHolds(own, b) == Cardinality(BufHeld(own, b))
BufFollows(frags, b) == Cardinality(Pre(Buf!Bufs, frags, b))
BufGiven(giving, b) == Cardinality(Pre(BufThreads, giving, b))

(* One more reference in the account of a thread.                          *)
LEMMA HeldFinite ==
  ASSUME NEW own \in [BufThreads -> [Buf!Bufs -> Nat]], NEW b \in Buf!Bufs
  PROVE  IsFiniteSet(BufHeld(own, b)) /\ BufHolds(own, b) \in Nat
<1> DEFINE S == {{t} \X (1..own[t][b]) : t \in BufThreads}
<1>1. ASSUME NEW t \in BufThreads PROVE IsFiniteSet({t} \X (1..own[t][b]))
  <2>0. own[t][b] \in Int /\ 1 \in Int
    OBVIOUS
  <2>1. IsFiniteSet({t}) /\ IsFiniteSet(1..own[t][b])
    BY <2>0, FS_Singleton, FS_Interval
  <2> QED BY <2>1, FS_Product
<1>2. IsFiniteSet(S)
  <2> DEFINE f == [t \in BufThreads |-> {t} \X (1..own[t][b])]
  <2>1. f \in [BufThreads -> S] /\ \A T \in S : \E t \in BufThreads : f[t] = T
    OBVIOUS
  <2>2. f \in Surjection(BufThreads, S)
    BY <2>1 DEF Surjection
  <2> QED BY <2>2, BufAssumption, FS_Surjection
<1>3. \A T \in S : IsFiniteSet(T)
  BY <1>1
<1>4. IsFiniteSet(UNION S)
  BY <1>2, <1>3, FS_UNION
<1> QED BY <1>4, FS_CardinalityType DEF BufHeld, BufHolds

OwnAdds(own, new, t, b) ==
  /\ new[t][b] = own[t][b] + 1
  /\ \A u \in BufThreads, c \in Buf!Bufs : u # t \/ c # b => new[u][c] = own[u][c]

(* One more reference in the account of a thread.                          *)
LEMMA OwnMore ==
  ASSUME NEW own \in [BufThreads -> [Buf!Bufs -> Nat]], NEW t \in BufThreads, NEW b \in Buf!Bufs,
         NEW new, OwnAdds(own, new, t, b)
  PROVE  \A c \in Buf!Bufs : BufHolds(own, c) \in Nat /\ BufHolds(new, c) = BufHolds(own, c) + Same(c, b)
<1>2. /\ new[t][b] = own[t][b] + 1
      /\ \A u \in BufThreads, c \in Buf!Bufs : u # t \/ c # b => new[u][c] = own[u][c]
  BY DEF OwnAdds
<1>3. \A c \in Buf!Bufs : c # b => BufHeld(new, c) = BufHeld(own, c)
  BY <1>2 DEF BufHeld
<1>4. BufHeld(new, b) = BufHeld(own, b) \cup {<<t, own[t][b] + 1>>}
  <2>1. own[t][b] \in Nat
    OBVIOUS
  <2>2. 1..(own[t][b] + 1) = 1..own[t][b] \cup {own[t][b] + 1}
    <3>1. ASSUME NEW n \in Nat PROVE 1..(n + 1) = 1..n \cup {n + 1}
      <4>1. \A i \in 1..(n + 1) : i \in 1..n \/ i = n + 1
        BY <3>1
      <4>2. \A i \in 1..n : i \in 1..(n + 1)
        BY <3>1
      <4>3. n + 1 \in 1..(n + 1)
        BY <3>1
      <4> QED BY <4>1, <4>2, <4>3
    <3> QED BY <2>1, <3>1
  <2>3. {t} \X (1..new[t][b]) = ({t} \X (1..own[t][b])) \cup {<<t, own[t][b] + 1>>}
    BY <1>2, <2>2
  <2>4. \A u \in BufThreads : u # t => {u} \X (1..new[u][b]) = {u} \X (1..own[u][b])
    BY <1>2
  <2> QED BY <2>3, <2>4 DEF BufHeld
<1>5. <<t, own[t][b] + 1>> \notin BufHeld(own, b)
  <2> SUFFICES ASSUME NEW u \in BufThreads, <<t, own[t][b] + 1>> \in {u} \X (1..own[u][b]) PROVE FALSE
    BY DEF BufHeld
  <2>1. u = t /\ own[t][b] + 1 \in 1..own[t][b] /\ own[t][b] \in Nat
    OBVIOUS
  <2> QED BY <2>1
<1>6. BufHolds(new, b) = BufHolds(own, b) + 1
  BY <1>4, <1>5, HeldFinite, FS_AddElement DEF BufHolds
<1>7. \A c \in Buf!Bufs : BufHolds(own, c) \in Nat
  BY HeldFinite
<1>8. \A c \in Buf!Bufs : c # b => BufHolds(new, c) = BufHolds(own, c)
  BY <1>3 DEF BufHolds
<1>9. ASSUME NEW c \in Buf!Bufs PROVE BufHolds(new, c) = BufHolds(own, c) + Same(c, b)
  BY ONLY <1>6, <1>7, <1>8, <1>9 DEF Same
<1> QED BY <1>7, <1>9

(* The preimage of v under a function that is changed at x.                *)
LEMMA Preimage ==
  ASSUME NEW S, IsFiniteSet(S), NEW f, NEW g, NEW x \in S, \A y \in S : y # x => g[y] = f[y], NEW v
  PROVE  /\ Cardinality(Pre(S, f, v)) \in Nat /\ Cardinality(Pre(S, g, v)) \in Nat
         /\ Cardinality(Pre(S, g, v)) + Same(f[x], v) = Cardinality(Pre(S, f, v)) + Same(g[x], v)
<1> DEFINE F == Pre(S, f, v)
           G == Pre(S, g, v)
<1>1. IsFiniteSet(F) /\ IsFiniteSet(G) /\ Cardinality(F) \in Nat /\ Cardinality(G) \in Nat
  BY FS_Subset, FS_CardinalityType DEF Pre
<1>2. F \ {x} = G \ {x} /\ (x \in F <=> f[x] = v) /\ (x \in G <=> g[x] = v)
  BY DEF Pre
<1> HIDE DEF F, G
<1>3. /\ Cardinality(F \ {x}) = IF x \in F THEN Cardinality(F) - 1 ELSE Cardinality(F)
      /\ Cardinality(G \ {x}) = IF x \in G THEN Cardinality(G) - 1 ELSE Cardinality(G)
  BY <1>1, FS_RemoveElement
<1>4. Cardinality(G) + Same(f[x], v) = Cardinality(F) + Same(g[x], v)
  BY <1>1, <1>2, <1>3 DEF Same
<1> QED BY <1>1, <1>4 DEF F, G

(* The buffers before b, when the next fragment of x changes,              *)
LEMMA FragsSet ==
  ASSUME NEW f, NEW x \in Buf!Bufs, NEW v, NEW g, \A y \in Buf!Bufs : g[y] = IF y = x THEN v ELSE f[y]
  PROVE  \A b : /\ BufFollows(f, b) \in Nat
                /\ BufFollows(g, b) = BufFollows(f, b) - Same(f[x], b) + Same(v, b)
<1>1. g[x] = v /\ \A y \in Buf!Bufs : y # x => g[y] = f[y]
  OBVIOUS
<1> SUFFICES ASSUME NEW b PROVE /\ BufFollows(f, b) \in Nat
                                /\ BufFollows(g, b) = BufFollows(f, b) - Same(f[x], b) + Same(v, b)
  OBVIOUS
<1>2. /\ BufFollows(f, b) \in Nat /\ BufFollows(g, b) \in Nat
      /\ BufFollows(g, b) + Same(f[x], b) = BufFollows(f, b) + Same(g[x], b)
  BY <1>1, BufsFacts, Preimage DEF BufFollows
<1> QED BY <1>1, <1>2 DEF Same

(* and the calls that give b up, when the call of x changes.               *)
LEMMA TargetSet ==
  ASSUME NEW f, NEW x \in BufThreads, NEW v, NEW g, \A y \in BufThreads : g[y] = IF y = x THEN v ELSE f[y]
  PROVE  \A b : /\ BufGiven(f, b) \in Nat
                /\ BufGiven(g, b) = BufGiven(f, b) - Same(f[x], b) + Same(v, b)
<1>1. g[x] = v /\ \A y \in BufThreads : y # x => g[y] = f[y]
  OBVIOUS
<1> SUFFICES ASSUME NEW b PROVE /\ BufGiven(f, b) \in Nat
                                /\ BufGiven(g, b) = BufGiven(f, b) - Same(f[x], b) + Same(v, b)
  OBVIOUS
<1>2. /\ BufGiven(f, b) \in Nat /\ BufGiven(g, b) \in Nat
      /\ BufGiven(g, b) + Same(f[x], b) = BufGiven(f, b) + Same(g[x], b)
  BY <1>1, BufAssumption, Preimage DEF BufGiven
<1> QED BY <1>1, <1>2 DEF Same

(* A list without repetitions has an element at one place, or at none.     *)
LEMMA PositionsFacts ==
  ASSUME NEW l \in Seq(Buf!Bufs), Once(l, Buf!Bufs), NEW b \in Buf!Bufs
  PROVE  Cardinality({i \in 1..Len(l) : l[i] = b}) = In(l, b)
<1> DEFINE P == {i \in 1..Len(l) : l[i] = b}
<1>1. \A i, j \in P : i = j
  BY DEF Once
<1>2. P # {} <=> Has(l, b)
  BY DEF Has
<1> HIDE DEF P
<1>3. Cardinality(P) = In(l, b)
  BY <1>1, <1>2, AtMostOne DEF In
<1> QED BY <1>3 DEF P

(* The number of references is the sum of four numbers.                    *)
BufSum(b) == BufHolds(bufOwn, b) + In(bufList, b) + BufFollows(bufFrags, b) + BufGiven(BufTarget, b)
LEMMA BufReferences ==
  ASSUME bufList \in Seq(Buf!Bufs), Once(bufList, Buf!Bufs), NEW b \in Buf!Bufs
  PROVE  Buf!References(b) = BufSum(b)
<1>1. {t \in BufThreads : BufTarget[t] = b} = {t \in BufThreads : bufPc[t] \in {"unref", "store"} /\ bufCur[t] = b}
  BY BufsFacts DEF BufTarget
<1>2. Buf!References(b) = BufHolds(bufOwn, b) + Cardinality({i \in 1..Len(bufList) : bufList[i] = b})
    + BufFollows(bufFrags, b)
    + Cardinality({t \in BufThreads : bufPc[t] \in {"unref", "store"} /\ bufCur[t] = b})
  BY BufLibrary DEF Buf!References, Buf!Held, BufHeld, BufHolds, BufFollows, Pre, Buf!Positions
<1> QED BY <1>1, <1>2, PositionsFacts DEF BufSum, BufGiven, Pre

(* The same after a step.                                                  *)
LEMMA BufReferencesNext ==
  ASSUME bufList' \in Seq(Buf!Bufs), Once(bufList', Buf!Bufs), NEW b \in Buf!Bufs
  PROVE  Buf!References(b)' = BufSum(b)'
<1>0. (Buf!Bufs)' = Buf!Bufs
  BY DEF Buf!Bufs
<1>1. {t \in BufThreads : BufTarget'[t] = b} = {t \in BufThreads : bufPc'[t] \in {"unref", "store"} /\ bufCur'[t] = b}
  BY BufsFacts DEF BufTarget
<1>2. Buf!References(b)' = BufHolds(bufOwn', b) + Cardinality({i \in 1..Len(bufList') : bufList'[i] = b})
    + BufFollows(bufFrags', b)
    + Cardinality({t \in BufThreads : bufPc'[t] \in {"unref", "store"} /\ bufCur'[t] = b})
  BY <1>0, BufLibrary DEF Buf!References, Buf!Held, BufHeld, BufHolds, BufFollows, Pre, Buf!Positions
<1>3. BufSum(b)' = BufHolds(bufOwn', b) + In(bufList', b) + BufFollows(bufFrags', b) + BufGiven(BufTarget', b)
  BY <1>0 DEF BufSum, BufHolds, BufHeld, In, Has, BufFollows, BufGiven, Pre
<1> QED BY <1>1, <1>2, <1>3, PositionsFacts DEF BufGiven, Pre

(* Its four parts are numbers.                                             *)
LEMMA PartsAreNat ==
  ASSUME NEW own \in [BufThreads -> [Buf!Bufs -> Nat]], NEW l, NEW frags, NEW giving, NEW b \in Buf!Bufs
  PROVE  /\ BufHolds(own, b) \in Nat /\ In(l, b) \in Nat
         /\ BufFollows(frags, b) \in Nat /\ BufGiven(giving, b) \in Nat
<1>1. BufFollows(frags, b) \in Nat
  BY BufsFacts, FS_Subset, FS_CardinalityType DEF BufFollows, Pre
<1>2. BufGiven(giving, b) \in Nat
  BY BufAssumption, FS_Subset, FS_CardinalityType DEF BufGiven, Pre
<1>3. BufHolds(own, b) \in Nat /\ In(l, b) \in Nat
  BY HeldFinite DEF In
<1> QED BY <1>1, <1>2, <1>3

(* Whatever refers to a buffer is counted.                                 *)
LEMMA Referred ==
  ASSUME BufInv, NEW b \in Buf!Bufs,
         \/ \E t \in BufThreads : bufOwn[t][b] > 0
         \/ Has(bufList, b)
         \/ \E c \in Buf!Bufs : bufFrags[c] = b
         \/ \E t \in BufThreads : bufPc[t] \in {"unref", "store"} /\ bufCur[t] = b
  PROVE  BufSum(b) > 0 /\ BufUsed(b) /\ bufRef[b] = BufSum(b) /\ bufRef[b] \in Nat \ {0}
<1>0. /\ bufOwn \in [BufThreads -> [Buf!Bufs -> Nat]] /\ bufList \in Seq(Buf!Bufs)
      /\ Once(bufList, Buf!Bufs) /\ bufRef[b] \in Nat
  BY DEF BufInv, BufType, BufPlaces
<1>1. Buf!References(b) = BufSum(b)
  BY <1>0, BufReferences
<1>2. /\ BufHolds(bufOwn, b) \in Nat /\ In(bufList, b) \in Nat
      /\ BufFollows(bufFrags, b) \in Nat /\ BufGiven(BufTarget, b) \in Nat
  BY <1>0, PartsAreNat
<1>3. BufHolds(bufOwn, b) > 0 \/ Has(bufList, b) \/ BufFollows(bufFrags, b) > 0 \/ BufGiven(BufTarget, b) > 0
  <2>1. ASSUME NEW t \in BufThreads, bufOwn[t][b] > 0 PROVE BufHolds(bufOwn, b) > 0
    <3>2. 1 \in 1..bufOwn[t][b]
      BY <1>0, <2>1
    <3>3. <<t, 1>> \in {t} \X (1..bufOwn[t][b])
      BY <3>2
    <3>4. BufHeld(bufOwn, b) # {}
      BY <3>3 DEF BufHeld
    <3> QED BY <1>0, <1>2, <3>4, HeldFinite, FS_EmptySet DEF BufHolds
  <2>2. ASSUME NEW t \in BufThreads, bufPc[t] \in {"unref", "store"} /\ bufCur[t] = b PROVE BufGiven(BufTarget, b) > 0
    <3> DEFINE C == {u \in BufThreads : BufTarget[u] = b}
    <3>1. t \in C
      BY <2>2 DEF BufTarget
    <3>2. IsFiniteSet(C)
      BY BufAssumption, FS_Subset
    <3>3. BufGiven(BufTarget, b) = Cardinality(C)
      BY DEF BufGiven, Pre
    <3> HIDE DEF C
    <3> QED BY <1>2, <3>1, <3>2, <3>3, FS_EmptySet
  <2>3. ASSUME NEW c \in Buf!Bufs, bufFrags[c] = b PROVE BufFollows(bufFrags, b) > 0
    <3> DEFINE C == {d \in Buf!Bufs : bufFrags[d] = b}
    <3>1. c \in C
      BY <2>3
    <3>2. IsFiniteSet(C)
      BY BufsFacts, FS_Subset
    <3>3. BufFollows(bufFrags, b) = Cardinality(C)
      BY DEF BufFollows, Pre
    <3> HIDE DEF C
    <3> QED BY <1>2, <3>1, <3>2, <3>3, FS_EmptySet
  <2> QED BY <2>1, <2>2, <2>3
<1>5. BufSum(b) > 0
  BY <1>2, <1>3 DEF In, BufSum
<1>6. Buf!References(b) = IF BufUsed(b) THEN bufRef[b] ELSE 0
  BY DEF BufInv, BufRefs
<1> QED BY <1>0, <1>1, <1>5, <1>6

(* A call works on a buffer that was given out.                            *)
LEMMA BusyIsUsed ==
  ASSUME BufInv, NEW t \in BufThreads, bufPc[t] \in BufBusy
  PROVE  /\ bufCur[t] \in Buf!Bufs /\ ~BufFresh(bufCur[t])
         /\ bufPc[t] # "destroy" => BufUsed(bufCur[t])
<1>1. BufLocal(t) /\ BufPlaces
  BY DEF BufInv, BufLocals
<1>2. bufCur[t] \in Buf!Bufs
  BY <1>1 DEF BufLocal
<1>3. CASE bufPc[t] = "destroy"
  BY <1>1, <1>2, <1>3 DEF BufPlaces, BufDying
<1>4. CASE bufPc[t] = "ref"
  <2>1. bufOwn[t][bufCur[t]] > 0
    BY <1>1, <1>4 DEF BufLocal
  <2> QED BY <1>2, <1>4, <2>1, Referred DEF BufUsed
<1>5. CASE bufPc[t] \in {"unref", "store"}
  <2>1. BufUsed(bufCur[t])
    BY <1>2, <1>5, Referred
  <2> QED BY <1>2, <1>5, <2>1 DEF BufUsed
<1> QED BY <1>3, <1>4, <1>5 DEF BufBusy

-----------------------------------------------------------------------------
(* Chains.                                                                 *)
LEMMA ChainFacts ==
  ASSUME BufType, NEW b \in Buf!Bufs
  PROVE  /\ b \in Buf!Chain(b) /\ Buf!Chain(b) \in SUBSET Buf!Bufs
         /\ \A c \in Buf!Chain(b) : bufFrags[c] \in Buf!Chain(b) \cup {NULL}
         /\ \A S \in SUBSET Buf!Bufs :
              b \in S /\ (\A c \in S : bufFrags[c] \in S \cup {NULL}) => Buf!Chain(b) \subseteq S
<1>1. \A S \in SUBSET Buf!Bufs : S \in Buf!Closed <=> \A c \in S : bufFrags[c] \in S \cup {NULL}
  BY DEF Buf!Closed
<1>2. ASSUME NEW c \in Buf!Chain(b), bufFrags[c] # NULL PROVE bufFrags[c] \in Buf!Chain(b)
  <2>1. c \in Buf!Bufs /\ bufFrags[c] \in Buf!Bufs
    BY <1>2 DEF Buf!Chain, BufType
  <2> SUFFICES ASSUME NEW S \in Buf!Closed, b \in S PROVE bufFrags[c] \in S
    BY <2>1 DEF Buf!Chain
  <2>2. c \in S
    BY <1>2 DEF Buf!Chain
  <2> QED BY <1>2, <2>2 DEF Buf!Closed
<1>3. b \in Buf!Chain(b) /\ Buf!Chain(b) \in SUBSET Buf!Bufs
  BY DEF Buf!Chain
<1>4. ASSUME NEW S \in SUBSET Buf!Bufs, b \in S, \A c \in S : bufFrags[c] \in S \cup {NULL}
      PROVE  Buf!Chain(b) \subseteq S
  <2>1. S \in Buf!Closed
    BY <1>1, <1>4
  <2> QED BY <1>4, <2>1 DEF Buf!Chain
<1> QED BY <1>2, <1>3, <1>4

(* bt_buf_frag_last finds the end.                                         *)
LEMMA LastFacts ==
  ASSUME BufType, Buf!ChainEnds, NEW b \in Buf!Bufs
  PROVE  /\ Buf!bt_buf_frag_last(b) \in Buf!Chain(b) /\ Buf!bt_buf_frag_last(b) \in Buf!Bufs
         /\ bufFrags[Buf!bt_buf_frag_last(b)] = NULL
<1>1. PICK c \in Buf!Chain(b) : bufFrags[c] \notin Buf!Chain(b)
  BY ChainFacts DEF Buf!ChainEnds
<1>2. bufFrags[c] = NULL
  BY <1>1, ChainFacts
<1>3. Buf!bt_buf_frag_last(b) \in Buf!Chain(b) /\ bufFrags[Buf!bt_buf_frag_last(b)] = NULL
  BY <1>1, <1>2 DEF Buf!bt_buf_frag_last
<1> QED BY <1>3, ChainFacts

(* A chain has one owner.                                                  *)
LEMMA ChainOwned ==
  ASSUME BufType, NEW o \in [Buf!Bufs -> BufOwners], BufOwned(o), NEW b \in Buf!Bufs
  PROVE  \A c \in Buf!Chain(b) : o[c] = o[b]
<1> DEFINE S == {c \in Buf!Bufs : o[c] = o[b]}
<1>1. ASSUME NEW c \in S PROVE bufFrags[c] \in S \cup {NULL}
  BY <1>1 DEF BufOwned, BufType
<1>2. Buf!Chain(b) \subseteq S
  BY <1>1, ChainFacts
<1> QED BY <1>2

(* No fragment comes back in the chain after it.                           *)
LEMMA NoWayBack ==
  ASSUME BufType, Buf!ChainEnds, NEW b \in Buf!Bufs, bufFrags[b] # NULL
  PROVE  bufFrags[b] \in Buf!Bufs /\ b \notin Buf!Chain(bufFrags[b])
<1> DEFINE n == bufFrags[b]
<1>1. n \in Buf!Bufs
  BY DEF BufType
<1> SUFFICES ASSUME b \in Buf!Chain(n) PROVE FALSE
  BY <1>1
<1> DEFINE A == {c \in Buf!Chain(n) : b \in Buf!Chain(c)}
<1>2. n \in A /\ A \in SUBSET Buf!Bufs
  BY <1>1, ChainFacts
<1>3. ASSUME NEW c \in A PROVE bufFrags[c] \in A
  <2>1. c \in Buf!Bufs /\ c \in Buf!Chain(n) /\ b \in Buf!Chain(c)
    BY <1>2, <1>3
  <2>2. bufFrags[c] \in Buf!Chain(n) \cup {NULL}
    BY <1>1, <2>1, ChainFacts
  <2>3. CASE c = b
    BY <1>2, <2>3
  <2>4. CASE c # b
    <3>1. bufFrags[c] # NULL
      <4>0. {c} \in SUBSET Buf!Bufs /\ c \in {c}
        BY <2>1
      <4>1. ASSUME bufFrags[c] = NULL PROVE Buf!Chain(c) \subseteq {c}
        <5>1. \A d \in {c} : bufFrags[d] \in {c} \cup {NULL}
          BY <4>1
        <5> QED BY <2>1, <4>0, <5>1, ChainFacts
      <4> QED BY <2>1, <2>4, <4>1
    <3>2. bufFrags[c] \in Buf!Bufs
      BY <2>1, <3>1 DEF BufType
    <3>3. Buf!Chain(c) \subseteq {c} \cup Buf!Chain(bufFrags[c])
      <4> DEFINE T == {c} \cup Buf!Chain(bufFrags[c])
      <4>1. T \in SUBSET Buf!Bufs /\ c \in T
        BY <2>1, <3>2, ChainFacts
      <4>2. ASSUME NEW d \in T PROVE bufFrags[d] \in T \cup {NULL}
        <5>1. CASE d = c
          BY <3>2, <5>1, ChainFacts
        <5>2. CASE d \in Buf!Chain(bufFrags[c])
          BY <3>2, <5>2, ChainFacts
        <5> QED BY <5>1, <5>2
      <4> HIDE DEF T
      <4>3. Buf!Chain(c) \subseteq T
        BY <2>1, <4>1, <4>2, ChainFacts
      <4> QED BY <4>3 DEF T
    <3>4. b \in Buf!Chain(bufFrags[c])
      BY <2>1, <2>4, <3>3
    <3> QED BY <2>2, <3>1, <3>4
  <2> QED BY <2>3, <2>4
<1> QED BY <1>2, <1>3 DEF Buf!ChainEnds

(* A set that the new fragments close does not have b if nothing changed   *)
(* in the chain of b.                                                      *)
LEMMA Avoids ==
  ASSUME BufType, Buf!ChainEnds, NEW g, NEW S \in SUBSET Buf!Bufs, \A c \in S : g[c] \in S,
         NEW b \in Buf!Bufs, \A c \in Buf!Chain(b) : c \in S => g[c] = bufFrags[c]
  PROVE  b \notin S
<1> SUFFICES ASSUME b \in S PROVE FALSE
  OBVIOUS
<1> DEFINE T == S \cap Buf!Chain(b)
<1>1. T \in SUBSET Buf!Bufs /\ b \in T
  BY ChainFacts
<1>2. ASSUME NEW c \in T PROVE bufFrags[c] \in T
  <2>1. bufFrags[c] \in S /\ bufFrags[c] \in Buf!Chain(b) \cup {NULL}
    BY ChainFacts
  <2> QED BY <2>1, BufsFacts
<1> HIDE DEF T
<1> QED BY <1>1, <1>2 DEF Buf!ChainEnds

(* Chains end if no set of buffers has all its next fragments.             *)
LEMMA EndsMeans ==
  ASSUME ASSUME NEW S \in SUBSET Buf!Bufs, S # {}, \A c \in S : bufFrags'[c] \in S PROVE FALSE
  PROVE  Buf!ChainEnds'
<1>1. (Buf!Bufs)' = Buf!Bufs
  BY DEF Buf!Bufs
<1> SUFFICES ASSUME NEW S \in SUBSET Buf!Bufs, S # {} PROVE \E c \in S : bufFrags'[c] \notin S
  BY <1>1 DEF Buf!ChainEnds
<1> QED OBVIOUS

(* Chains that are cut still end,                                          *)
LEMMA EndsCut ==
  ASSUME Buf!ChainEnds, \A b \in Buf!Bufs : bufFrags'[b] = bufFrags[b] \/ bufFrags'[b] = NULL
  PROVE  Buf!ChainEnds'
<1>1. ASSUME NEW S \in SUBSET Buf!Bufs, S # {}, \A c \in S : bufFrags'[c] \in S PROVE FALSE
  BY <1>1, BufsFacts DEF Buf!ChainEnds
<1> QED BY <1>1, EndsMeans

(* and so do two that are joined at x,                                     *)
LEMMA EndsJoin ==
  ASSUME BufType, Buf!ChainEnds, NEW x \in Buf!Bufs, NEW f \in Buf!Bufs, x \notin Buf!Chain(f),
         \A b \in Buf!Bufs : bufFrags'[b] = IF b = x THEN f ELSE bufFrags[b]
  PROVE  Buf!ChainEnds'
<1>1. ASSUME NEW S \in SUBSET Buf!Bufs, S # {}, \A c \in S : bufFrags'[c] \in S PROVE FALSE
  <2>1. f \notin S
    <3>1. \A c \in Buf!Chain(f) : c \in S => bufFrags'[c] = bufFrags[c]
      BY ChainFacts
    <3> QED BY <1>1, <3>1, Avoids
  <2>2. x \notin S
    BY <1>1, <2>1
  <2>3. \A c \in S : bufFrags[c] \in S
    BY <1>1, <2>2
  <2> QED BY <1>1, <2>3 DEF Buf!ChainEnds
<1> QED BY <1>1, EndsMeans

(* The chain of the next fragment is the rest of the chain.                *)
LEMMA ChainOfNext ==
  ASSUME BufType, NEW b \in Buf!Bufs, NEW c \in Buf!Chain(b)
  PROVE  c \in Buf!Bufs /\ Buf!Chain(c) \subseteq Buf!Chain(b)
BY ChainFacts

(* one that is put in after p,                                             *)
LEMMA EndsInsert ==
  ASSUME BufType, Buf!ChainEnds, NEW p \in Buf!Bufs, NEW f \in Buf!Bufs, NEW l \in Buf!Chain(f),
         bufFrags[p] # NULL, Buf!Chain(p) \cap Buf!Chain(f) = {},
         \A b \in Buf!Bufs : bufFrags'[b] = IF b = p THEN f ELSE IF b = l THEN bufFrags[p] ELSE bufFrags[b]
  PROVE  Buf!ChainEnds'
<1> DEFINE n == bufFrags[p]
<1>0. /\ n \in Buf!Bufs /\ p \notin Buf!Chain(n) /\ p \in Buf!Chain(p) /\ l \in Buf!Bufs
      /\ n \in Buf!Chain(p) /\ Buf!Chain(n) \subseteq Buf!Chain(p)
      /\ Buf!Chain(n) \subseteq Buf!Bufs /\ Buf!Chain(f) \subseteq Buf!Bufs
  BY NoWayBack, ChainFacts
<1>1. ASSUME NEW S \in SUBSET Buf!Bufs, S # {}, \A c \in S : bufFrags'[c] \in S PROVE FALSE
  <2>1. n \notin S
    <3>1. \A c \in Buf!Chain(n) : c \in S => bufFrags'[c] = bufFrags[c]
      BY <1>0
    <3> QED BY <1>0, <1>1, <3>1, Avoids
  <2>2. l \notin S
    BY <1>0, <1>1, <2>1
  <2>3. f \notin S
    <3>1. \A c \in Buf!Chain(f) : c \in S => bufFrags'[c] = bufFrags[c]
      BY <1>0, <2>2
    <3> QED BY <1>1, <3>1, Avoids
  <2>4. p \notin S
    BY <1>1, <2>3
  <2>5. \A c \in S : bufFrags[c] \in S
    BY <1>1, <2>2, <2>4
  <2> QED BY <1>1, <2>5 DEF Buf!ChainEnds
<1> QED BY <1>1, EndsMeans

(* and one that f is taken out of.                                         *)
LEMMA EndsDel ==
  ASSUME BufType, Buf!ChainEnds, NEW p \in Buf!Bufs, NEW f \in Buf!Bufs, bufFrags[p] = f,
         \A b \in Buf!Bufs : bufFrags'[b] = IF b = f THEN NULL ELSE IF b = p THEN bufFrags[f] ELSE bufFrags[b]
  PROVE  Buf!ChainEnds'
<1>1. ASSUME NEW S \in SUBSET Buf!Bufs, S # {}, \A c \in S : bufFrags'[c] \in S PROVE FALSE
  <2>1. f \notin S
    BY <1>1, BufsFacts
  <2> DEFINE T == IF p \in S THEN S \cup {f} ELSE S
  <2>2. T \in SUBSET Buf!Bufs /\ T # {}
    BY <1>1
  <2>3. \A c \in T : bufFrags[c] \in T
    BY <1>1, <2>1
  <2> HIDE DEF T
  <2> QED BY <2>2, <2>3 DEF Buf!ChainEnds
<1> QED BY <1>1, EndsMeans

-----------------------------------------------------------------------------
(* What a step of thread t leaves alone.                                   *)
BufOthers(t) ==
  \A u \in BufThreads : u # t =>
    /\ bufPc'[u] = bufPc[u] /\ bufCall'[u] = bufCall[u] /\ bufCur'[u] = bufCur[u]
    /\ bufVal'[u] = bufVal[u] /\ bufRest'[u] = bufRest[u] /\ bufOwn'[u] = bufOwn[u]

(* The buffers of the pool are fixed.                                      *)
LEMMA BufRigid == (Buf!Bufs)' = Buf!Bufs
BY DEF Buf!Bufs

(* The calls of the other threads: t touches only what it owns, and what   *)
(* is free.                                                                *)
LEMMA BufLocalsStep ==
  ASSUME BufInv, NEW t \in BufThreads, BufOthers(t), BufLocal(t)',
         NEW o \in [Buf!Bufs -> BufOwners], BufOwned(o),
         \A b \in Buf!Bufs : bufRef'[b] # bufRef[b] \/ bufFrags'[b] # bufFrags[b] =>
                               BufFresh(b) \/ o[b] = <<"thread", t>>
  PROVE  BufLocals'
<1> SUFFICES ASSUME NEW u \in BufThreads, u # t PROVE BufLocal(u)'
  BY DEF BufLocals
<1>1. BufLocal(u)
  BY DEF BufInv, BufLocals
<1>2. /\ bufPc'[u] = bufPc[u] /\ bufCall'[u] = bufCall[u] /\ bufCur'[u] = bufCur[u]
      /\ bufVal'[u] = bufVal[u] /\ bufRest'[u] = bufRest[u] /\ bufOwn'[u] = bufOwn[u]
  BY DEF BufOthers
<1>3. ASSUME bufPc[u] \in BufBusy
      PROVE  bufRef'[bufCur[u]] = bufRef[bufCur[u]] /\ bufFrags'[bufCur[u]] = bufFrags[bufCur[u]]
  <2>1. bufCur[u] \in Buf!Bufs /\ ~BufFresh(bufCur[u])
    BY <1>3, BusyIsUsed
  <2>2. o[bufCur[u]] = <<"thread", u>>
    BY <1>3 DEF BufOwned
  <2> QED BY <2>1, <2>2
<1> QED BY <1>1, <1>2, <1>3, BufRigid DEF BufLocal, BufBusy

(* The owners stay.                                                        *)
LEMMA BufOwnerStep ==
  ASSUME NEW t \in BufThreads, BufOthers(t), bufList' = bufList,
         NEW o \in [Buf!Bufs -> BufOwners], BufOwned(o),
         \A b \in Buf!Bufs : bufOwn'[t][b] > 0 => o[b] = <<"thread", t>>,
         \A b \in Buf!Bufs : bufFrags'[b] # NULL => o[bufFrags'[b]] = o[b],
         bufPc'[t] \in BufBusy => o[bufCur'[t]] = <<"thread", t>>
  PROVE  BufOwner'
<1>1. BufOwned(o)'
  <2>1. \A u \in BufThreads, b \in Buf!Bufs : bufOwn'[u][b] > 0 => o[b] = <<"thread", u>>
    BY DEF BufOwned, BufOthers
  <2>2. \A u \in BufThreads : bufPc'[u] \in BufBusy => o[bufCur'[u]] = <<"thread", u>>
    BY DEF BufOwned, BufOthers
  <2>3. \A b \in Buf!Bufs : Has(bufList', b) => o[b] = <<"list", b>>
    BY DEF BufOwned
  <2> QED BY <2>1, <2>2, <2>3, BufRigid DEF BufOwned, Has
<1>2. BufOwners' = BufOwners
  BY BufRigid DEF BufOwners
<1> QED BY <1>1, <1>2, BufRigid DEF BufOwner

(* Nobody has a reference of a free buffer: t may be its owner.            *)
LEMMA FreshUnused ==
  ASSUME BufInv, NEW b \in Buf!Bufs, BufFresh(b)
  PROVE  /\ \A t \in BufThreads : ~(bufOwn[t][b] > 0) /\ (bufPc[t] \in BufBusy => bufCur[t] # b)
         /\ ~Has(bufList, b) /\ bufFrags[b] = NULL /\ \A c \in Buf!Bufs : bufFrags[c] # b
         /\ ~BufDying(b) /\ ~BufUsed(b)
<1>1. ~BufUsed(b) /\ ~BufDying(b) /\ bufFrags[b] = NULL
  BY DEF BufUsed, BufInv, BufPlaces
<1> QED BY <1>1, Referred, BusyIsUsed

LEMMA FreshOwner ==
  ASSUME BufInv, NEW b \in Buf!Bufs, BufFresh(b), NEW t \in BufThreads
  PROVE  \E o \in [Buf!Bufs -> BufOwners] : BufOwned(o) /\ o[b] = <<"thread", t>>
<1>1. PICK o \in [Buf!Bufs -> BufOwners] : BufOwned(o)
  BY DEF BufInv, BufOwner
<1> DEFINE new == [o EXCEPT ![b] = <<"thread", t>>]
<1>2. new \in [Buf!Bufs -> BufOwners] /\ new[b] = <<"thread", t>> /\ \A c \in Buf!Bufs : c # b => new[c] = o[c]
  BY DEF BufOwners
<1> HIDE DEF new
<1>3. \A u \in BufThreads : bufPc[u] \in BufBusy => bufCur[u] \in Buf!Bufs
  BY BusyIsUsed
<1>4. BufType
  BY DEF BufInv
<1>5. BufOwned(new)
  <2>1. \A u \in BufThreads, c \in Buf!Bufs : bufOwn[u][c] > 0 => new[c] = <<"thread", u>>
    BY <1>1, <1>2, FreshUnused DEF BufOwned
  <2>2. \A c \in Buf!Bufs : bufFrags[c] # NULL => new[bufFrags[c]] = new[c]
    BY <1>1, <1>2, <1>4, FreshUnused DEF BufOwned, BufType
  <2>3. \A c \in Buf!Bufs : Has(bufList, c) => new[c] = <<"list", c>>
    BY <1>1, <1>2, FreshUnused DEF BufOwned
  <2>4. \A u \in BufThreads : bufPc[u] \in BufBusy => new[bufCur[u]] = <<"thread", u>>
    BY <1>1, <1>2, <1>3, FreshUnused DEF BufOwned
  <2> QED BY <2>1, <2>2, <2>3, <2>4 DEF BufOwned
<1> QED BY <1>2, <1>5

(* No buffer is given out and none is given back.                          *)
LEMMA BufPlacesStep ==
  ASSUME BufInv, NEW t \in BufThreads, BufOthers(t), bufUninit' = bufUninit, bufFree' = bufFree,
         Once(bufList', Buf!Bufs), bufPc[t] # "destroy", bufPc'[t] # "destroy",
         \A b \in Buf!Bufs : BufFresh(b) => bufFrags'[b] = NULL
  PROVE  BufPlaces' /\ \A b \in Buf!Bufs : BufUsed(b)' = BufUsed(b)
<1>1. ASSUME NEW b \in Buf!Bufs PROVE BufDying(b)' <=> BufDying(b)
  BY DEF BufDying, BufOthers
<1>2. ASSUME NEW b \in Buf!Bufs PROVE (BufFresh(b)' <=> BufFresh(b)) /\ (BufNever(b)' <=> BufNever(b))
  BY DEF BufFresh, BufNever, Has
<1>3. BufPlaces
  BY DEF BufInv
<1>4. \A u, v \in BufThreads :
        bufPc'[u] = "destroy" /\ bufPc'[v] = "destroy" /\ bufCur'[u] = bufCur'[v] => u = v
  BY <1>3 DEF BufPlaces, BufOthers
<1>5. \A b \in Buf!Bufs : BufFresh(b)' => bufFrags'[b] = NULL /\ ~BufDying(b)'
  BY <1>1, <1>2, <1>3 DEF BufPlaces
<1>6. Once(bufFree, Buf!Bufs)' /\ Once(bufList, Buf!Bufs)'
  BY <1>3, BufRigid DEF BufPlaces, Once
<1>7. \A b \in Buf!Bufs : Has(bufFree, b)' => ~BufNever(b)'
  BY <1>2, <1>3 DEF BufPlaces, Has
<1>8. BufPlaces'
  BY <1>4, <1>5, <1>6, <1>7, BufRigid DEF BufPlaces
<1>9. ASSUME NEW b \in Buf!Bufs PROVE BufUsed(b)' = BufUsed(b)
  BY <1>1, <1>2 DEF BufUsed
<1> QED BY <1>8, <1>9

(* The numbers of references before and after.                             *)
LEMMA BufSums ==
  ASSUME BufInv, NEW b \in Buf!Bufs
  PROVE  /\ BufSum(b) = BufHolds(bufOwn, b) + In(bufList, b) + BufFollows(bufFrags, b) + BufGiven(BufTarget, b)
         /\ BufHolds(bufOwn, b) \in Nat /\ In(bufList, b) \in Nat
         /\ BufFollows(bufFrags, b) \in Nat /\ BufGiven(BufTarget, b) \in Nat
         /\ BufSum(b) = IF BufUsed(b) THEN bufRef[b] ELSE 0
         /\ bufRef[b] \in Nat
<1>1. /\ bufOwn \in [BufThreads -> [Buf!Bufs -> Nat]] /\ bufList \in Seq(Buf!Bufs)
      /\ Once(bufList, Buf!Bufs) /\ bufRef[b] \in Nat
  BY DEF BufInv, BufType, BufPlaces
<1>2. Buf!References(b) = IF BufUsed(b) THEN bufRef[b] ELSE 0
  BY DEF BufInv, BufRefs
<1> QED BY <1>1, <1>2, BufReferences, PartsAreNat DEF BufSum

(* The same after a step.                                                  *)
LEMMA BufSumNext ==
  ASSUME NEW b \in Buf!Bufs
  PROVE  BufSum(b)' = BufHolds(bufOwn', b) + In(bufList', b) + BufFollows(bufFrags', b) + BufGiven(BufTarget', b)
BY BufRigid DEF BufSum, BufHolds, BufHeld, In, Has, BufFollows, BufGiven, Pre

(* The counts are right if they are the sums.                              *)
LEMMA BufRefsStep ==
  ASSUME BufType', BufPlaces', \A b \in Buf!Bufs : BufSum(b)' = IF BufUsed(b)' THEN bufRef'[b] ELSE 0
  PROVE  BufRefs'
<1>1. bufList' \in Seq(Buf!Bufs)
  BY BufRigid DEF BufType
<1>2. Once(bufList', Buf!Bufs)
  BY BufRigid DEF BufPlaces, Once
<1>3. \A b \in Buf!Bufs : Buf!References(b)' = IF BufUsed(b)' THEN bufRef'[b] ELSE 0
  BY <1>1, <1>2, BufReferencesNext
<1> QED BY <1>3, BufRigid DEF BufRefs

(* What a step of t does to the calls that give b up.                      *)
LEMMA TargetStep ==
  ASSUME NEW t \in BufThreads, BufOthers(t), NEW b
  PROVE  /\ BufGiven(BufTarget, b) \in Nat
         /\ BufGiven(BufTarget', b) = BufGiven(BufTarget, b)
              - Same(IF bufPc[t] \in {"unref", "store"} THEN bufCur[t] ELSE NULL, b)
              + Same(IF bufPc'[t] \in {"unref", "store"} THEN bufCur'[t] ELSE NULL, b)
<1> DEFINE v == IF bufPc'[t] \in {"unref", "store"} THEN bufCur'[t] ELSE NULL
           w == IF bufPc[t] \in {"unref", "store"} THEN bufCur[t] ELSE NULL
<1>1. \A u \in BufThreads : BufTarget'[u] = IF u = t THEN v ELSE BufTarget[u]
  BY DEF BufTarget, BufOthers
<1>2. BufTarget[t] = w
  BY DEF BufTarget
<1> HIDE DEF v, w
<1>3. /\ BufGiven(BufTarget, b) \in Nat
      /\ BufGiven(BufTarget', b) = BufGiven(BufTarget, b) - Same(w, b) + Same(v, b)
  BY <1>1, <1>2, TargetSet
<1> QED BY <1>3 DEF v, w

-----------------------------------------------------------------------------
(* Steps that move no reference.                                           *)
LEMMA BufQuiet ==
  ASSUME BufInv, NEW t \in BufThreads, BufOthers(t), BufType', BufLocal(t)',
         UNCHANGED <<bufUninit, bufFree, bufRef, bufFrags, bufList, bufOwn>>,
         bufPc[t] # "destroy", bufPc'[t] # "destroy",
         IF bufPc[t] \in {"unref", "store"} THEN bufPc'[t] \in {"unref", "store"} /\ bufCur'[t] = bufCur[t]
                                            ELSE bufPc'[t] \notin {"unref", "store"},
         bufPc'[t] \in BufBusy => bufCur'[t] \in Buf!Bufs
                                    /\ (bufOwn[t][bufCur'[t]] > 0 \/ (bufPc[t] \in BufBusy /\ bufCur'[t] = bufCur[t]))
  PROVE  BufInv'
<1>0. PICK o \in [Buf!Bufs -> BufOwners] : BufOwned(o)
  BY DEF BufInv, BufOwner
<1>1. BufLocals'
  BY <1>0, BufLocalsStep
<1>2. BufOwner'
  <2>1. /\ \A b \in Buf!Bufs : bufOwn'[t][b] > 0 => o[b] = <<"thread", t>>
        /\ \A b \in Buf!Bufs : bufFrags'[b] # NULL => o[bufFrags'[b]] = o[b]
        /\ bufPc'[t] \in BufBusy => o[bufCur'[t]] = <<"thread", t>>
    BY <1>0 DEF BufOwned
  <2> QED BY <1>0, <2>1, BufOwnerStep
<1>3. BufPlaces' /\ \A b \in Buf!Bufs : BufUsed(b)' = BufUsed(b)
  <2>1. Once(bufList', Buf!Bufs) /\ \A b \in Buf!Bufs : BufFresh(b) => bufFrags'[b] = NULL
    BY DEF BufInv, BufPlaces
  <2> QED BY <2>1, BufPlacesStep
<1>4. ASSUME NEW b \in Buf!Bufs PROVE BufSum(b)' = BufSum(b)
  BY TargetStep, BufSums, BufSumNext DEF Same
<1>5. BufRefs'
  BY <1>3, <1>4, BufSums, BufRefsStep
<1>6. Buf!ChainEnds'
  BY EndsCut DEF BufInv
<1> QED BY <1>1, <1>2, <1>3, <1>5, <1>6 DEF BufInv

(* bt_buf_alloc_fixed, bt_buf_alloc_with_data, bt_buf_clone and the rest.  *)
LEMMA BufCallAlloc ==
  ASSUME BufInv, NEW t \in BufThreads, NEW kind \in BufKinds, NEW src \in Buf!Bufs \cup {NULL},
         NEW how, Buf!CallAlloc(t, kind, src, how)
  PROVE  BufInv'
<1>1. BufType /\ BufLocal(t)
  BY DEF BufInv, BufLocals
<1>2. BufType'
  BY <1>1, BufRigid DEF BufType, Buf!CallAlloc, Buf!bufVars
<1>3. BufOthers(t)
  BY <1>1 DEF BufOthers, BufType, Buf!CallAlloc
<1>4. /\ bufPc[t] = "idle" /\ bufPc'[t] = "alloc" /\ bufCall'[t] = [kind |-> kind, src |-> src, how |-> how]
      /\ UNCHANGED <<bufUninit, bufFree, bufRef, bufFrags, bufList, bufOwn, bufRest>>
      /\ kind \in {"clone", "append"} => src \in Buf!Bufs /\ bufOwn[t][src] > 0
  BY <1>1 DEF BufType, Buf!CallAlloc, Buf!bufVars, Buf!Owns
<1>5. BufLocal(t)'
  BY <1>1, <1>4, BufRigid DEF BufLocal, BufBusy
<1> QED BY <1>2, <1>3, <1>4, <1>5, BufQuiet DEF BufBusy

(* The return of a call.                                                   *)
LEMMA BufDone ==
  ASSUME BufType, NEW t \in BufThreads, Buf!Done(t)
  PROVE  /\ bufPc' \in [BufThreads -> {"idle", "alloc", "get"} \cup BufBusy] /\ bufPc'[t] = "idle"
         /\ bufCall' \in [BufThreads -> [kind : BufKinds, src : Buf!Bufs \cup {NULL}, how : BufTimeouts \cup {"nowait"}]]
         /\ bufCur' \in [BufThreads -> Buf!Bufs \cup {NULL}] /\ bufVal' \in [BufThreads -> Nat]
         /\ bufRest' \in [BufThreads -> Buf!Bufs \cup {NULL}] /\ bufRest'[t] = NULL
         /\ \A u \in BufThreads : u # t =>
              /\ bufPc'[u] = bufPc[u] /\ bufCall'[u] = bufCall[u] /\ bufCur'[u] = bufCur[u]
              /\ bufVal'[u] = bufVal[u] /\ bufRest'[u] = bufRest[u]
         /\ BufLocal(t)'
<1>1. Buf!NoCall \in [kind : BufKinds, src : Buf!Bufs \cup {NULL}, how : BufTimeouts \cup {"nowait"}]
  BY DEF Buf!NoCall, BufKinds
<1>2. bufPc' \in [BufThreads -> {"idle", "alloc", "get"} \cup BufBusy] /\ bufPc'[t] = "idle" /\ bufRest'[t] = NULL
  BY DEF Buf!Done, BufType
<1>3. /\ bufCall' \in [BufThreads -> [kind : BufKinds, src : Buf!Bufs \cup {NULL}, how : BufTimeouts \cup {"nowait"}]]
      /\ bufCur' \in [BufThreads -> Buf!Bufs \cup {NULL}] /\ bufVal' \in [BufThreads -> Nat]
      /\ bufRest' \in [BufThreads -> Buf!Bufs \cup {NULL}]
  BY <1>1 DEF Buf!Done, BufType
<1>4. \A u \in BufThreads : u # t =>
              /\ bufPc'[u] = bufPc[u] /\ bufCall'[u] = bufCall[u] /\ bufCur'[u] = bufCur[u]
              /\ bufVal'[u] = bufVal[u] /\ bufRest'[u] = bufRest[u]
  BY DEF Buf!Done, BufType
<1>5. BufLocal(t)'
  BY <1>2 DEF BufLocal, BufBusy
<1> QED BY <1>2, <1>3, <1>4, <1>5

(* An allocation that waits no longer.                                     *)
LEMMA BufGiveUp ==
  ASSUME BufInv, NEW t \in BufThreads, bufPc[t] = "get", Buf!Done(t),
         UNCHANGED <<bufUninit, bufFree, Buf!bufVars, bufList, bufOwn>>
  PROVE  BufInv'
<1>0. UNCHANGED <<bufUninit, bufFree, bufRef, bufFrags, bufList, bufOwn>>
  BY DEF Buf!bufVars
<1>1. BufType
  BY DEF BufInv
<1>2. BufType'
  BY <1>0, <1>1, BufDone, BufRigid DEF BufType
<1>3. BufOthers(t)
  BY <1>0, <1>1, BufDone DEF BufOthers
<1> QED BY <1>0, <1>1, <1>2, <1>3, BufDone, BufQuiet DEF BufBusy

(* Every buffer was used before: the allocation waits.                     *)
LEMMA BufMustWait ==
  ASSUME BufInv, NEW t \in BufThreads, bufPc[t] = "alloc", bufPc' = [bufPc EXCEPT ![t] = "get"],
         UNCHANGED <<bufUninit, bufFree, Buf!bufVars, bufList, Buf!locals, bufOwn>>
  PROVE  BufInv'
<1>0. UNCHANGED <<bufUninit, bufFree, bufRef, bufFrags, bufList, bufCall, bufCur, bufVal, bufRest, bufOwn>>
  BY DEF Buf!bufVars, Buf!locals
<1>1. BufType /\ BufLocal(t)
  BY DEF BufInv, BufLocals
<1>2. BufType' /\ bufPc'[t] = "get"
  BY <1>0, <1>1, BufRigid DEF BufType
<1>3. BufOthers(t)
  BY <1>0, <1>1 DEF BufOthers, BufType
<1>4. BufLocal(t)'
  BY <1>0, <1>1, <1>2, BufRigid DEF BufLocal, BufBusy
<1> QED BY <1>0, <1>2, <1>3, <1>4, BufQuiet DEF BufBusy

(* bt_buf_ref loads the count;                                             *)
LEMMA BufRef ==
  ASSUME BufInv, NEW t \in BufThreads, NEW b \in Buf!Bufs, Buf!bt_buf_ref(t, b)
  PROVE  BufInv'
<1>1. BufType /\ BufLocal(t)
  BY DEF BufInv, BufLocals
<1>2. /\ bufPc[t] = "idle" /\ bufPc'[t] = "ref" /\ bufCur'[t] = b /\ bufVal'[t] = bufRef[b] /\ bufOwn[t][b] > 0
      /\ UNCHANGED <<bufUninit, bufFree, bufRef, bufFrags, bufList, bufCall, bufRest, bufOwn>>
  BY <1>1 DEF BufType, Buf!bt_buf_ref, Buf!RefLoad, Buf!bufVars, Buf!Owns
<1>3. BufType'
  <2>1. bufPc' \in [BufThreads -> {"idle", "alloc", "get"} \cup BufBusy]
    BY <1>1 DEF BufType, Buf!bt_buf_ref, Buf!RefLoad, BufBusy
  <2>2. bufCur' \in [BufThreads -> Buf!Bufs \cup {NULL}] /\ bufVal' \in [BufThreads -> Nat]
    BY <1>1 DEF BufType, Buf!bt_buf_ref, Buf!RefLoad
  <2> QED BY <1>1, <1>2, <2>1, <2>2, BufRigid DEF BufType
<1>4. BufOthers(t)
  BY <1>1 DEF BufOthers, BufType, Buf!bt_buf_ref, Buf!RefLoad
<1>5. BufLocal(t)'
  BY <1>2, BufRigid DEF BufLocal, BufBusy
<1>6. /\ bufPc[t] # "destroy" /\ bufPc'[t] # "destroy"
      /\ IF bufPc[t] \in {"unref", "store"} THEN bufPc'[t] \in {"unref", "store"} /\ bufCur'[t] = bufCur[t]
                                            ELSE bufPc'[t] \notin {"unref", "store"}
      /\ bufPc'[t] \in BufBusy => bufCur'[t] \in Buf!Bufs
                                    /\ (bufOwn[t][bufCur'[t]] > 0 \/ (bufPc[t] \in BufBusy /\ bufCur'[t] = bufCur[t]))
  BY <1>2
<1>7. UNCHANGED <<bufUninit, bufFree, bufRef, bufFrags, bufList, bufOwn>>
  BY <1>2
<1> QED BY <1>3, <1>4, <1>5, <1>6, <1>7, BufQuiet

(* so does bt_buf_unref.                                                   *)
LEMMA BufUnrefLoad ==
  ASSUME BufInv, NEW t \in BufThreads, Buf!UnrefLoad(t)
  PROVE  BufInv'
<1>1. BufType /\ BufLocal(t)
  BY DEF BufInv, BufLocals
<1>2. /\ bufPc[t] = "unref" /\ bufCur' = bufCur
      /\ bufPc' = [bufPc EXCEPT ![t] = IF bufRef[bufCur[t]] = 0 THEN "double free" ELSE "store"]
      /\ bufVal' = [bufVal EXCEPT ![t] = bufRef[bufCur[t]]] /\ bufRest' = [bufRest EXCEPT ![t] = bufFrags[bufCur[t]]]
      /\ UNCHANGED <<bufUninit, bufFree, bufRef, bufFrags, bufList, bufCall, bufOwn>>
  BY DEF Buf!UnrefLoad, Buf!bufVars
<1>3. bufCur[t] \in Buf!Bufs
  BY <1>1, <1>2 DEF BufLocal, BufBusy
<1>4. bufRef[bufCur[t]] \in Nat \ {0}
  BY <1>2, <1>3, Referred
<1>5. /\ bufPc'[t] = "store" /\ bufVal'[t] = bufRef[bufCur[t]] /\ bufRest'[t] = bufFrags[bufCur[t]]
      /\ bufPc' \in [BufThreads -> {"idle", "alloc", "get"} \cup BufBusy]
      /\ bufVal' \in [BufThreads -> Nat] /\ bufRest' \in [BufThreads -> Buf!Bufs \cup {NULL}]
  BY <1>1, <1>2, <1>3, <1>4 DEF BufType, BufBusy
<1>6. BufType'
  BY <1>1, <1>2, <1>5, BufRigid DEF BufType
<1>7. BufOthers(t)
  BY <1>1, <1>2 DEF BufOthers, BufType
<1>8. BufLocal(t)'
  BY <1>2, <1>3, <1>5, BufRigid DEF BufLocal, BufBusy
<1> QED BY <1>2, <1>3, <1>5, <1>6, <1>7, <1>8, BufQuiet DEF BufBusy

-----------------------------------------------------------------------------
(* Steps that move references of buffers that t owns.                      *)
LEMMA BufMoves ==
  ASSUME BufInv, NEW t \in BufThreads, BufOthers(t), BufType', BufLocal(t)', Buf!ChainEnds',
         NEW o \in [Buf!Bufs -> BufOwners], BufOwned(o),
         UNCHANGED <<bufUninit, bufFree, bufList>>, bufPc[t] # "destroy", bufPc'[t] # "destroy",
         \A b \in Buf!Bufs : bufOwn'[t][b] > 0 => o[b] = <<"thread", t>>,
         \A b \in Buf!Bufs : bufFrags'[b] # NULL => o[bufFrags'[b]] = o[b],
         bufPc'[t] \in BufBusy => o[bufCur'[t]] = <<"thread", t>>,
         \A b \in Buf!Bufs : bufRef'[b] # bufRef[b] => o[b] = <<"thread", t>> /\ BufUsed(b),
         \A b \in Buf!Bufs : bufFrags'[b] # bufFrags[b] => o[b] = <<"thread", t>> /\ ~BufFresh(b),
         \A b \in Buf!Bufs : BufSum(b)' = BufSum(b) + (bufRef'[b] - bufRef[b])
  PROVE  BufInv'
<1>1. BufLocals'
  BY BufLocalsStep
<1>2. BufOwner'
  BY BufOwnerStep
<1>3. BufPlaces' /\ \A b \in Buf!Bufs : BufUsed(b)' = BufUsed(b)
  <2>1. Once(bufList', Buf!Bufs) /\ \A b \in Buf!Bufs : BufFresh(b) => bufFrags'[b] = NULL
    BY DEF BufInv, BufPlaces
  <2> QED BY <2>1, BufPlacesStep
<1>4. ASSUME NEW b \in Buf!Bufs PROVE BufSum(b)' = IF BufUsed(b)' THEN bufRef'[b] ELSE 0
  <2>1. bufRef'[b] \in Nat
    BY BufRigid DEF BufType
  <2> QED BY <1>3, <2>1, BufSums
<1>5. BufRefs'
  BY <1>3, <1>4, BufRefsStep
<1> QED BY <1>1, <1>2, <1>3, <1>5 DEF BufInv

(* The account of t before and after.                                      *)
LEMMA OwnPlus ==
  ASSUME BufType, NEW t \in BufThreads, NEW c \in Buf!Bufs, bufOwn' = [bufOwn EXCEPT ![t][c] = @ + 1]
  PROVE  /\ bufOwn' \in [BufThreads -> [Buf!Bufs -> Nat]]
         /\ \A b \in Buf!Bufs : BufHolds(bufOwn', b) = BufHolds(bufOwn, b) + Same(b, c) /\ BufHolds(bufOwn, b) \in Nat
         /\ \A u \in BufThreads : u # t => bufOwn'[u] = bufOwn[u]
         /\ \A b \in Buf!Bufs : b # c => bufOwn'[t][b] = bufOwn[t][b]
<1>1. bufOwn \in [BufThreads -> [Buf!Bufs -> Nat]]
  BY DEF BufType
<1>2. /\ bufOwn' \in [BufThreads -> [Buf!Bufs -> Nat]] /\ OwnAdds(bufOwn, bufOwn', t, c)
      /\ \A u \in BufThreads : u # t => bufOwn'[u] = bufOwn[u]
  BY <1>1 DEF OwnAdds
<1>3. \A b \in Buf!Bufs : BufHolds(bufOwn', b) = BufHolds(bufOwn, b) + Same(b, c) /\ BufHolds(bufOwn, b) \in Nat
  BY ONLY <1>1, <1>2, OwnMore, t \in BufThreads, c \in Buf!Bufs
<1> QED BY <1>2, <1>3 DEF OwnAdds

LEMMA OwnMinus ==
  ASSUME BufType, NEW t \in BufThreads, NEW c \in Buf!Bufs, bufOwn[t][c] > 0,
         bufOwn' = [bufOwn EXCEPT ![t][c] = @ - 1]
  PROVE  /\ bufOwn' \in [BufThreads -> [Buf!Bufs -> Nat]]
         /\ \A b \in Buf!Bufs : BufHolds(bufOwn, b) = BufHolds(bufOwn', b) + Same(b, c) /\ BufHolds(bufOwn', b) \in Nat
         /\ \A u \in BufThreads : u # t => bufOwn'[u] = bufOwn[u]
         /\ \A b \in Buf!Bufs : b # c => bufOwn'[t][b] = bufOwn[t][b]
<1>1. bufOwn \in [BufThreads -> [Buf!Bufs -> Nat]]
  BY DEF BufType
<1>2. /\ bufOwn' \in [BufThreads -> [Buf!Bufs -> Nat]] /\ OwnAdds(bufOwn', bufOwn, t, c)
      /\ \A u \in BufThreads : u # t => bufOwn'[u] = bufOwn[u]
  BY <1>1 DEF OwnAdds
<1>3. \A b \in Buf!Bufs : BufHolds(bufOwn, b) = BufHolds(bufOwn', b) + Same(b, c) /\ BufHolds(bufOwn', b) \in Nat
  BY ONLY <1>2, OwnMore, t \in BufThreads, c \in Buf!Bufs
<1> QED BY <1>2, <1>3 DEF OwnAdds

(* bt_buf_ref stores the count.                                            *)
LEMMA BufRefStore ==
  ASSUME BufInv, NEW t \in BufThreads, Buf!RefStore(t)
  PROVE  BufInv'
<1> DEFINE c == bufCur[t]
<1>0. PICK o \in [Buf!Bufs -> BufOwners] : BufOwned(o)
  BY DEF BufInv, BufOwner
<1>1. BufType /\ BufLocal(t) /\ bufPc[t] = "ref" /\ Buf!Done(t)
      /\ UNCHANGED <<bufUninit, bufFree, bufFrags, bufList>>
  <2>1. BufType /\ BufLocal(t)
    BY DEF BufInv, BufLocals
  <2>2. bufPc[t] \in {"idle", "alloc", "get"} \cup BufBusy
    BY <2>1 DEF BufType
  <2> QED BY <2>1, <2>2 DEF Buf!RefStore, BufBusy
<1>2. /\ c \in Buf!Bufs /\ bufVal[t] = bufRef[c] /\ bufOwn[t][c] > 0
  BY <1>1 DEF BufLocal, BufBusy
<1>3. /\ BufUsed(c) /\ bufRef[c] \in Nat \ {0}
  BY <1>2, Referred
<1>4. bufRef' \in [Buf!Bufs -> Nat] /\ \A b \in Buf!Bufs : bufRef'[b] = bufRef[b] + Same(b, c)
  BY <1>1, <1>2, <1>3 DEF BufType, Buf!RefStore, Same
<1>5. /\ bufOwn' \in [BufThreads -> [Buf!Bufs -> Nat]]
      /\ \A b \in Buf!Bufs : BufHolds(bufOwn', b) = BufHolds(bufOwn, b) + Same(b, c)
      /\ \A u \in BufThreads : u # t => bufOwn'[u] = bufOwn[u]
      /\ \A b \in Buf!Bufs : b # c => bufOwn'[t][b] = bufOwn[t][b]
  BY <1>1, <1>2, OwnPlus DEF Buf!RefStore
<1>6. BufType'
  BY <1>1, <1>4, <1>5, BufDone, BufRigid DEF BufType
<1>7. BufOthers(t) /\ BufLocal(t)' /\ bufPc'[t] = "idle"
  BY <1>1, <1>5, BufDone DEF BufOthers
<1>8. ASSUME NEW b \in Buf!Bufs PROVE BufSum(b)' = BufSum(b) + (bufRef'[b] - bufRef[b])
  <2>1. BufGiven(BufTarget', b) = BufGiven(BufTarget, b)
    BY <1>1, <1>7, TargetStep DEF Same
  <2> QED BY <1>1, <1>4, <1>5, <2>1, BufSums, BufSumNext DEF Same
<1>9. o[c] = <<"thread", t>> /\ \A b \in Buf!Bufs : bufOwn'[t][b] > 0 => o[b] = <<"thread", t>>
  BY <1>0, <1>2, <1>5 DEF BufOwned
<1>10. \A b \in Buf!Bufs : bufRef'[b] # bufRef[b] => o[b] = <<"thread", t>> /\ BufUsed(b)
  BY <1>3, <1>4, <1>9, BufSums DEF Same
<1>11. Buf!ChainEnds' /\ \A b \in Buf!Bufs : bufFrags'[b] # NULL => o[bufFrags'[b]] = o[b]
  BY <1>0, <1>1, EndsCut DEF BufInv, BufOwned
<1> QED BY <1>0, <1>1, <1>6, <1>7, <1>8, <1>9, <1>10, <1>11, BufMoves DEF BufBusy

(* bt_buf_unref takes the reference of its caller.                         *)
LEMMA BufUnref ==
  ASSUME BufInv, NEW t \in BufThreads, NEW c \in Buf!Bufs, Buf!bt_buf_unref(t, c)
  PROVE  BufInv'
<1>0. PICK o \in [Buf!Bufs -> BufOwners] : BufOwned(o)
  BY DEF BufInv, BufOwner
<1>1. BufType /\ BufLocal(t) /\ bufPc[t] = "idle" /\ bufOwn[t][c] > 0
      /\ UNCHANGED <<bufUninit, bufFree, bufRef, bufFrags, bufList, bufCall, bufVal, bufRest>>
  BY DEF BufInv, BufLocals, Buf!bt_buf_unref, Buf!Owns, Buf!bufVars
<1>2. /\ bufPc' \in [BufThreads -> {"idle", "alloc", "get"} \cup BufBusy] /\ bufPc'[t] = "unref"
      /\ bufCur' \in [BufThreads -> Buf!Bufs \cup {NULL}] /\ bufCur'[t] = c
  BY <1>1 DEF BufType, Buf!bt_buf_unref, BufBusy
<1>5. /\ bufOwn' \in [BufThreads -> [Buf!Bufs -> Nat]]
      /\ \A b \in Buf!Bufs : BufHolds(bufOwn, b) = BufHolds(bufOwn', b) + Same(b, c) /\ BufHolds(bufOwn', b) \in Nat
      /\ \A u \in BufThreads : u # t => bufOwn'[u] = bufOwn[u]
      /\ \A b \in Buf!Bufs : b # c => bufOwn'[t][b] = bufOwn[t][b]
  BY <1>1, OwnMinus DEF Buf!bt_buf_unref
<1>6. BufType'
  BY <1>1, <1>2, <1>5, BufRigid DEF BufType
<1>7. BufOthers(t)
  BY <1>1, <1>5 DEF BufOthers, Buf!bt_buf_unref, BufType
<1>8. ASSUME NEW b \in Buf!Bufs PROVE BufSum(b)' = BufSum(b) + (bufRef'[b] - bufRef[b])
  <2>1. BufGiven(BufTarget, b) \in Nat /\ BufGiven(BufTarget', b) = BufGiven(BufTarget, b) + Same(c, b)
    BY <1>1, <1>2, <1>7, TargetStep, BufsFacts DEF Same
  <2> QED BY <1>1, <1>5, <2>1, BufSums, BufSumNext DEF Same
<1>9. o[c] = <<"thread", t>> /\ \A b \in Buf!Bufs : bufOwn'[t][b] > 0 => o[b] = <<"thread", t>>
  BY <1>0, <1>1, <1>5 DEF BufOwned
<1>10. Buf!ChainEnds' /\ \A b \in Buf!Bufs : bufFrags'[b] # NULL => o[bufFrags'[b]] = o[b]
  BY <1>0, <1>1, EndsCut DEF BufInv, BufOwned
<1>11. BufLocal(t)'
  BY <1>1, <1>2, BufRigid DEF BufLocal, BufBusy
<1> QED BY <1>0, <1>1, <1>2, <1>6, <1>7, <1>8, <1>9, <1>10, <1>11, BufMoves

(* It stores the count, and others have references,                        *)
LEMMA BufUnrefKeeps ==
  ASSUME BufInv, NEW t \in BufThreads, bufPc[t] = "store", bufVal[t] # 1,
         bufRef' = [bufRef EXCEPT ![bufCur[t]] = bufVal[t] - 1], Buf!Done(t),
         UNCHANGED <<bufUninit, bufFree, bufFrags, bufList, bufOwn>>
  PROVE  BufInv'
<1> DEFINE c == bufCur[t]
<1>0. PICK o \in [Buf!Bufs -> BufOwners] : BufOwned(o)
  BY DEF BufInv, BufOwner
<1>1. BufType /\ BufLocal(t)
  BY DEF BufInv, BufLocals
<1>2. /\ c \in Buf!Bufs /\ bufVal[t] = bufRef[c]
  BY <1>1 DEF BufLocal, BufBusy
<1>3. /\ BufUsed(c) /\ bufRef[c] \in Nat \ {0}
  BY <1>2, Referred
<1>4. bufRef' \in [Buf!Bufs -> Nat] /\ \A b \in Buf!Bufs : bufRef'[b] = bufRef[b] - Same(b, c)
  BY <1>1, <1>2, <1>3 DEF BufType, Same
<1>6. BufType'
  BY <1>1, <1>4, BufDone, BufRigid DEF BufType
<1>7. BufOthers(t) /\ BufLocal(t)' /\ bufPc'[t] = "idle"
  BY <1>1, BufDone DEF BufOthers
<1>8. ASSUME NEW b \in Buf!Bufs PROVE BufSum(b)' = BufSum(b) + (bufRef'[b] - bufRef[b])
  <2>1. BufGiven(BufTarget, b) \in Nat /\ BufGiven(BufTarget', b) = BufGiven(BufTarget, b) - Same(c, b)
    BY <1>7, TargetStep, BufsFacts DEF Same
  <2> QED BY <1>4, <2>1, BufSums, BufSumNext DEF Same
<1>9. o[c] = <<"thread", t>> /\ \A b \in Buf!Bufs : bufOwn'[t][b] > 0 => o[b] = <<"thread", t>>
  BY <1>0 DEF BufOwned, BufBusy
<1>10. \A b \in Buf!Bufs : bufRef'[b] # bufRef[b] => o[b] = <<"thread", t>> /\ BufUsed(b)
  BY <1>3, <1>4, <1>9, BufSums DEF Same
<1>11. Buf!ChainEnds' /\ \A b \in Buf!Bufs : bufFrags'[b] # NULL => o[bufFrags'[b]] = o[b]
  BY <1>0, EndsCut DEF BufInv, BufOwned
<1> QED BY <1>0, <1>6, <1>7, <1>8, <1>9, <1>10, <1>11, BufMoves DEF BufBusy

-----------------------------------------------------------------------------
(* The last reference goes, and the buffer is given back.                  *)
LEMMA BufUnrefLast ==
  ASSUME BufInv, NEW t \in BufThreads, bufPc[t] = "store", bufVal[t] = 1,
         bufRef' = [bufRef EXCEPT ![bufCur[t]] = bufVal[t] - 1], bufPc' = [bufPc EXCEPT ![t] = "destroy"],
         UNCHANGED <<bufUninit, bufFree, bufFrags, bufList, bufOwn, bufCall, bufCur, bufVal, bufRest>>
  PROVE  BufInv'
<1> DEFINE c == bufCur[t]
<1>0. PICK o \in [Buf!Bufs -> BufOwners] : BufOwned(o)
  BY DEF BufInv, BufOwner
<1>1. BufType /\ BufLocal(t) /\ BufPlaces
  BY DEF BufInv, BufLocals
<1>2. /\ c \in Buf!Bufs /\ bufRef[c] = 1 /\ bufRest[t] = bufFrags[c]
  BY <1>1 DEF BufLocal, BufBusy
<1>3. BufUsed(c)
  BY <1>2, Referred
<1>4. bufRef' \in [Buf!Bufs -> Nat] /\ \A b \in Buf!Bufs : bufRef'[b] = IF b = c THEN 0 ELSE bufRef[b]
  BY <1>1, <1>2 DEF BufType
<1>5. bufPc'[t] = "destroy" /\ bufPc' \in [BufThreads -> {"idle", "alloc", "get"} \cup BufBusy]
  BY <1>1 DEF BufType, BufBusy
<1>6. BufType'
  BY <1>1, <1>4, <1>5, BufRigid DEF BufType
<1>7. BufOthers(t)
  BY <1>1 DEF BufOthers, BufType
<1>8. BufLocal(t)'
  BY <1>2, <1>5, BufRigid DEF BufLocal, BufBusy
<1>9. o[c] = <<"thread", t>>
  BY <1>0 DEF BufOwned, BufBusy
<1>10. BufLocals'
  <2>1. \A b \in Buf!Bufs : bufRef'[b] # bufRef[b] \/ bufFrags'[b] # bufFrags[b] =>
                              BufFresh(b) \/ o[b] = <<"thread", t>>
    BY <1>4, <1>9
  <2> QED BY <1>0, <1>7, <1>8, <2>1, BufLocalsStep
<1>11. BufOwner'
  <2>1. /\ \A b \in Buf!Bufs : bufOwn'[t][b] > 0 => o[b] = <<"thread", t>>
        /\ \A b \in Buf!Bufs : bufFrags'[b] # NULL => o[bufFrags'[b]] = o[b]
        /\ bufPc'[t] \in BufBusy => o[bufCur'[t]] = <<"thread", t>>
    BY <1>0, <1>9 DEF BufOwned
  <2> QED BY <1>0, <1>7, <2>1, BufOwnerStep
<1>12. ASSUME NEW b \in Buf!Bufs PROVE /\ BufDying(b)' <=> BufDying(b) \/ b = c
                                       /\ BufFresh(b)' <=> BufFresh(b)
                                       /\ BufNever(b)' <=> BufNever(b)
  <2>1. BufDying(b)' <=> BufDying(b) \/ b = c
    BY <1>5, <1>7 DEF BufDying, BufOthers
  <2>2. (BufFresh(b)' <=> BufFresh(b)) /\ (BufNever(b)' <=> BufNever(b))
    BY DEF BufFresh, BufNever, Has
  <2> QED BY <2>1, <2>2
<1>13. BufPlaces'
  <2>1. \A b \in Buf!Bufs : BufFresh(b)' => bufFrags'[b] = NULL /\ ~BufDying(b)'
    BY <1>1, <1>3, <1>12 DEF BufPlaces, BufUsed
  <2>2. \A u, v \in BufThreads :
          bufPc'[u] = "destroy" /\ bufPc'[v] = "destroy" /\ bufCur'[u] = bufCur'[v] => u = v
    BY <1>1, <1>3, <1>7 DEF BufPlaces, BufOthers, BufUsed, BufDying
  <2>3. Once(bufFree, Buf!Bufs)' /\ Once(bufList, Buf!Bufs)'
    BY <1>1, BufRigid DEF BufPlaces, Once
  <2>4. \A b \in Buf!Bufs : Has(bufFree, b)' => ~BufNever(b)'
    BY <1>1, <1>12 DEF BufPlaces, Has
  <2> QED BY <2>1, <2>2, <2>3, <2>4, BufRigid DEF BufPlaces
<1>14. ASSUME NEW b \in Buf!Bufs PROVE BufSum(b)' = IF BufUsed(b)' THEN bufRef'[b] ELSE 0
  <2>1. BufGiven(BufTarget, b) \in Nat /\ BufGiven(BufTarget', b) = BufGiven(BufTarget, b) - Same(c, b)
    BY <1>5, <1>7, TargetStep, BufsFacts DEF Same
  <2>2. BufSum(b)' = BufSum(b) - Same(c, b)
    BY <2>1, BufSums, BufSumNext DEF Same
  <2>3. BufUsed(b)' <=> BufUsed(b) /\ b # c
    BY <1>12 DEF BufUsed
  <2> QED BY <1>2, <1>3, <1>4, <2>2, <2>3, BufSums DEF Same
<1>15. BufRefs'
  BY <1>6, <1>13, <1>14, BufRefsStep
<1>16. Buf!ChainEnds'
  BY EndsCut DEF BufInv
<1> QED BY <1>6, <1>10, <1>11, <1>13, <1>15, <1>16 DEF BufInv

LEMMA BufUnrefStore ==
  ASSUME BufInv, NEW t \in BufThreads, Buf!UnrefStore(t)
  PROVE  BufInv'
BY BufUnrefLast, BufUnrefKeeps DEF Buf!UnrefStore, Buf!locals

(* bt_buf_destroy, and the next round of bt_buf_unref.                     *)
LEMMA BufDestroy ==
  ASSUME BufInv, NEW t \in BufThreads, Buf!bt_buf_destroy(t)
  PROVE  BufInv'
<1> DEFINE c == bufCur[t]
<1>0. PICK o \in [Buf!Bufs -> BufOwners] : BufOwned(o)
  BY DEF BufInv, BufOwner
<1>1. /\ BufType /\ BufLocal(t) /\ BufPlaces /\ bufPc[t] = "destroy"
      /\ bufFrags' = [bufFrags EXCEPT ![c] = NULL] /\ bufFree' = <<c>> \o bufFree
      /\ UNCHANGED <<bufUninit, bufRef, bufList, bufOwn>>
  BY DEF BufInv, BufLocals, Buf!bt_buf_destroy
<1>2. /\ c \in Buf!Bufs /\ bufRest[t] = bufFrags[c]
  BY <1>1 DEF BufLocal, BufBusy
<1>3. ~BufFresh(c) /\ BufDying(c) /\ ~BufUsed(c)
  BY <1>1, <1>2, BusyIsUsed DEF BufBusy, BufDying, BufUsed
<1>4. o[c] = <<"thread", t>> /\ (bufFrags[c] # NULL => o[bufFrags[c]] = <<"thread", t>>)
  BY <1>0, <1>1, <1>2 DEF BufOwned, BufBusy
<1>5. /\ bufFrags' \in [Buf!Bufs -> Buf!Bufs \cup {NULL}]
      /\ \A b \in Buf!Bufs : bufFrags'[b] = IF b = c THEN NULL ELSE bufFrags[b]
  BY <1>1, <1>2 DEF BufType
<1>6. /\ bufFree' \in Seq(Buf!Bufs) /\ Once(bufFree', Buf!Bufs)
      /\ \A b \in Buf!Bufs : Has(bufFree', b) <=> Has(bufFree, b) \/ b = c
  <2>1. bufFree \in Seq(Buf!Bufs) /\ Once(bufFree, Buf!Bufs) /\ ~Has(bufFree, c)
    BY <1>1, <1>3 DEF BufType, BufPlaces, BufFresh
  <2>2. bufFree' = Cons(c, bufFree)
    BY <1>1 DEF Cons
  <2> QED BY <1>2, <2>1, <2>2, ConsNew
<1>7. /\ BufType' /\ BufOthers(t) /\ BufLocal(t)' /\ bufPc'[t] # "destroy"
      /\ (IF bufPc'[t] \in {"unref", "store"} THEN bufCur'[t] ELSE NULL) = bufFrags[c]
      /\ bufPc'[t] \in BufBusy => bufCur'[t] = bufFrags[c] /\ bufFrags[c] # NULL
  <2>1. CASE bufRest[t] = NULL /\ Buf!Done(t)
    BY <1>1, <1>2, <1>5, <1>6, <2>1, BufDone, BufRigid DEF BufType, BufOthers, BufBusy
  <2>2. CASE /\ bufRest[t] # NULL /\ bufPc' = [bufPc EXCEPT ![t] = "unref"]
             /\ bufCur' = [bufCur EXCEPT ![t] = bufRest[t]] /\ UNCHANGED <<bufCall, bufVal, bufRest>>
    <3>1. /\ bufPc' \in [BufThreads -> {"idle", "alloc", "get"} \cup BufBusy] /\ bufPc'[t] = "unref"
          /\ bufCur' \in [BufThreads -> Buf!Bufs \cup {NULL}] /\ bufCur'[t] = bufFrags[c] /\ bufFrags[c] # NULL
          /\ bufFrags[c] \in Buf!Bufs
      BY <1>1, <1>2, <2>2 DEF BufType, BufBusy
    <3>2. BufType'
      BY <1>1, <1>5, <1>6, <2>2, <3>1, BufRigid DEF BufType
    <3>3. BufOthers(t)
      BY <1>1, <2>2 DEF BufOthers, BufType
    <3>4. BufLocal(t)'
      BY <3>1, BufRigid DEF BufLocal, BufBusy
    <3> QED BY <3>1, <3>2, <3>3, <3>4
  <2> QED BY <2>1, <2>2 DEF Buf!bt_buf_destroy
<1>10. BufLocals'
  <2>1. \A b \in Buf!Bufs : bufRef'[b] # bufRef[b] \/ bufFrags'[b] # bufFrags[b] =>
                              BufFresh(b) \/ o[b] = <<"thread", t>>
    BY <1>1, <1>4, <1>5
  <2> QED BY <1>0, <1>7, <2>1, BufLocalsStep
<1>11. BufOwner'
  <2>1. /\ \A b \in Buf!Bufs : bufOwn'[t][b] > 0 => o[b] = <<"thread", t>>
        /\ \A b \in Buf!Bufs : bufFrags'[b] # NULL => o[bufFrags'[b]] = o[b]
        /\ bufPc'[t] \in BufBusy => o[bufCur'[t]] = <<"thread", t>>
    BY <1>0, <1>1, <1>4, <1>5, <1>7 DEF BufOwned
  <2> QED BY <1>0, <1>1, <1>7, <2>1, BufOwnerStep
<1>12. ASSUME NEW b \in Buf!Bufs PROVE /\ BufDying(b)' <=> BufDying(b) /\ b # c
                                       /\ BufFresh(b)' <=> BufFresh(b) \/ b = c
                                       /\ BufNever(b)' <=> BufNever(b)
  <2>1. BufDying(b)' <=> BufDying(b) /\ b # c
    <3>1. \A u \in BufThreads : bufPc'[u] = "destroy" /\ bufCur'[u] = b =>
                                  u # t /\ bufPc[u] = "destroy" /\ bufCur[u] = b
      BY ONLY <1>7 DEF BufOthers
    <3>2. \A u \in BufThreads : bufPc[u] = "destroy" /\ bufCur[u] = b /\ u # t =>
                                  bufPc'[u] = "destroy" /\ bufCur'[u] = b
      BY ONLY <1>7 DEF BufOthers
    <3>3. \A u \in BufThreads : bufPc[u] = "destroy" /\ bufCur[u] = c => u = t
      BY <1>1 DEF BufPlaces
    <3> QED BY ONLY <3>1, <3>2, <3>3 DEF BufDying
  <2>2. BufNever(b)' <=> BufNever(b)
    BY <1>1 DEF BufNever
  <2>3. Has(bufFree, b)' <=> Has(bufFree, b) \/ b = c
    BY <1>6 DEF Has
  <2> QED BY <2>1, <2>2, <2>3 DEF BufFresh
<1>13. BufPlaces'
  <2>1. \A b \in Buf!Bufs : BufFresh(b)' => bufFrags'[b] = NULL /\ ~BufDying(b)'
    BY <1>1, <1>3, <1>5, <1>12 DEF BufPlaces
  <2>2. \A u, v \in BufThreads :
          bufPc'[u] = "destroy" /\ bufPc'[v] = "destroy" /\ bufCur'[u] = bufCur'[v] => u = v
    BY <1>1, <1>7 DEF BufPlaces, BufOthers
  <2>3. Once(bufFree, Buf!Bufs)' /\ Once(bufList, Buf!Bufs)'
    BY <1>1, <1>6, BufRigid DEF BufPlaces, Once
  <2>4. \A b \in Buf!Bufs : Has(bufFree, b)' => ~BufNever(b)'
    BY <1>1, <1>2, <1>3, <1>6, <1>12 DEF BufPlaces, BufFresh, Has
  <2> QED BY <2>1, <2>2, <2>3, <2>4, BufRigid DEF BufPlaces
<1>14. ASSUME NEW b \in Buf!Bufs PROVE BufSum(b)' = IF BufUsed(b)' THEN bufRef'[b] ELSE 0
  <2>1. BufGiven(BufTarget, b) \in Nat /\ BufGiven(BufTarget', b) = BufGiven(BufTarget, b) + Same(bufFrags[c], b)
    BY <1>1, <1>7, TargetStep, BufsFacts DEF Same
  <2>2. BufFollows(bufFrags', b) = BufFollows(bufFrags, b) - Same(bufFrags[c], b) + Same(NULL, b)
    BY <1>2, <1>5, FragsSet
  <2>3. BufSum(b)' = BufSum(b)
    <3>1. BufHolds(bufOwn', b) = BufHolds(bufOwn, b) /\ In(bufList', b) = In(bufList, b)
      BY <1>1
    <3>2. Same(NULL, b) = 0 /\ Same(bufFrags[c], b) \in Int
      BY BufsFacts DEF Same
    <3> QED BY <2>1, <2>2, <3>1, <3>2, BufSums, BufSumNext
  <2>4. BufUsed(b)' <=> BufUsed(b)
    BY <1>3, <1>12 DEF BufUsed
  <2> QED BY <1>1, <2>3, <2>4, BufSums
<1>15. BufRefs'
  BY <1>7, <1>13, <1>14, BufRefsStep
<1>16. Buf!ChainEnds'
  BY <1>5, EndsCut DEF BufInv
<1> QED BY <1>7, <1>10, <1>11, <1>13, <1>15, <1>16 DEF BufInv

(* What follows a buffer in use is in use.                                 *)
LEMMA ChainUsed ==
  ASSUME BufInv, NEW b \in Buf!Bufs, BufUsed(b)
  PROVE  \A c \in Buf!Chain(b) : c \in Buf!Bufs /\ BufUsed(c) /\ ~BufFresh(c)
<1> DEFINE S == {c \in Buf!Bufs : BufUsed(c)}
<1>1. BufType
  BY DEF BufInv
<1>2. ASSUME NEW c \in S PROVE bufFrags[c] \in S \cup {NULL}
  <2>1. bufFrags[c] \in Buf!Bufs \cup {NULL}
    BY <1>1 DEF BufType
  <2> QED BY <2>1, Referred
<1>3. Buf!Chain(b) \subseteq S
  BY <1>1, <1>2, ChainFacts
<1> QED BY <1>3 DEF BufUsed

-----------------------------------------------------------------------------
(* A free buffer is taken, from the queue or from those never used.        *)
BufTaken(b) ==
  /\ bufUninit' \in 0..BufCount /\ bufFree' \in Seq(Buf!Bufs) /\ Once(bufFree', Buf!Bufs)
  /\ \A c \in Buf!Bufs : Has(bufFree', c) => ~(c > BufCount - bufUninit')
  /\ \A c \in Buf!Bufs : c > BufCount - bufUninit' \/ Has(bufFree', c) <=> BufFresh(c) /\ c # b

LEMMA BufTakeFree ==
  ASSUME BufInv, bufFree # <<>>, bufFree' = Tail(bufFree), bufUninit' = bufUninit
  PROVE  Head(bufFree) \in Buf!Bufs /\ BufFresh(Head(bufFree)) /\ BufTaken(Head(bufFree))
<1> DEFINE h == Head(bufFree)
<1>1. bufFree \in Seq(Buf!Bufs) /\ Once(bufFree, Buf!Bufs) /\ bufUninit \in 0..BufCount
      /\ \A b \in Buf!Bufs : Has(bufFree, b) => ~BufNever(b)
  BY DEF BufInv, BufType, BufPlaces
<1>2. /\ bufFree' \in Seq(Buf!Bufs) /\ h \in Buf!Bufs /\ Once(bufFree', Buf!Bufs)
      /\ \A c \in Buf!Bufs : Has(bufFree', c) <=> Has(bufFree, c) /\ c # h
  BY <1>1, TailHas
<1>3. Has(bufFree, h)
  <2>1. 1 \in 1..Len(bufFree) /\ h = bufFree[1]
    BY <1>1, EmptySeq, LenProperties, HeadTailProperties
  <2> QED BY <2>1 DEF Has
<1> HIDE DEF h
<1>4. \A c \in Buf!Bufs : Has(bufFree', c) => ~(c > BufCount - bufUninit')
  BY <1>1, <1>2 DEF BufNever
<1>5. \A c \in Buf!Bufs : c > BufCount - bufUninit' \/ Has(bufFree', c) <=> BufFresh(c) /\ c # h
  BY <1>1, <1>2, <1>3 DEF BufNever, BufFresh
<1> QED BY <1>1, <1>2, <1>3, <1>4, <1>5 DEF BufTaken, BufFresh, h

LEMMA BufTakeNew ==
  ASSUME BufInv, bufUninit > 0, bufUninit' = bufUninit - 1, bufFree' = bufFree,
         NEW b, b = BufCount - bufUninit + 1
  PROVE  b \in Buf!Bufs /\ BufFresh(b) /\ BufTaken(b)
<1>1. bufFree \in Seq(Buf!Bufs) /\ Once(bufFree, Buf!Bufs) /\ bufUninit \in 0..BufCount
      /\ \A c \in Buf!Bufs : Has(bufFree, c) => ~BufNever(c)
  BY DEF BufInv, BufType, BufPlaces
<1>2. b \in Buf!Bufs /\ BufNever(b) /\ BufFresh(b)
  BY <1>1, BufsFacts DEF BufFresh, BufNever
<1>3. bufUninit' \in 0..BufCount
  BY <1>1, BufsFacts
<1>4. \A c \in Buf!Bufs : c > BufCount - bufUninit' <=> BufNever(c) /\ c # b
  BY <1>1, BufsFacts DEF BufNever
<1>5. \A c \in Buf!Bufs : Has(bufFree', c) => ~(c > BufCount - bufUninit')
  BY <1>1, <1>4
<1>6. \A c \in Buf!Bufs : c > BufCount - bufUninit' \/ Has(bufFree', c) <=> BufFresh(c) /\ c # b
  BY <1>1, <1>2, <1>4 DEF BufFresh
<1> QED BY <1>1, <1>2, <1>3, <1>5, <1>6 DEF BufTaken

(* It has an owner, t, and one reference.                                  *)
LEMMA BufGivesOut ==
  ASSUME BufInv, NEW t \in BufThreads, BufOthers(t), BufType', BufLocal(t)', Buf!ChainEnds',
         NEW d \in Buf!Bufs, BufFresh(d), BufTaken(d),
         NEW o \in [Buf!Bufs -> BufOwners], BufOwned(o), bufList' = bufList,
         bufPc[t] # "destroy", bufPc'[t] \notin BufBusy,
         \A b \in Buf!Bufs : bufOwn'[t][b] > 0 => o[b] = <<"thread", t>>,
         \A b \in Buf!Bufs : bufFrags'[b] # NULL => o[bufFrags'[b]] = o[b],
         \A b \in Buf!Bufs : bufFrags'[b] # bufFrags[b] => o[b] = <<"thread", t>> /\ ~BufFresh(b),
         \A b \in Buf!Bufs : bufRef'[b] = IF b = d THEN 1 ELSE bufRef[b],
         \A b \in Buf!Bufs : BufSum(b)' = BufSum(b) + Same(b, d)
  PROVE  BufInv'
<1>1. BufLocals'
  BY BufLocalsStep
<1>2. BufOwner'
  BY BufOwnerStep
<1>3. BufPlaces
  BY DEF BufInv
<1>4. bufPc'[t] # "destroy"
  BY DEF BufBusy
<1>5. ASSUME NEW b \in Buf!Bufs PROVE /\ BufDying(b)' <=> BufDying(b)
                                      /\ BufFresh(b)' <=> BufFresh(b) /\ b # d
                                      /\ Has(bufFree, b)' => ~BufNever(b)'
  <2>1. BufDying(b)' <=> BufDying(b)
    BY <1>4 DEF BufDying, BufOthers
  <2>2. (BufFresh(b)' <=> BufFresh(b) /\ b # d) /\ (Has(bufFree, b)' => ~BufNever(b)')
    BY DEF BufTaken, BufFresh, BufNever, Has
  <2> QED BY <2>1, <2>2
<1>6. BufPlaces'
  <2>1. \A b \in Buf!Bufs : BufFresh(b)' => bufFrags'[b] = NULL /\ ~BufDying(b)'
    BY <1>3, <1>5 DEF BufPlaces
  <2>2. \A u, v \in BufThreads :
          bufPc'[u] = "destroy" /\ bufPc'[v] = "destroy" /\ bufCur'[u] = bufCur'[v] => u = v
    BY <1>3, <1>4 DEF BufPlaces, BufOthers
  <2>3. Once(bufFree, Buf!Bufs)' /\ Once(bufList, Buf!Bufs)'
    BY <1>3, BufRigid DEF BufPlaces, Once, BufTaken
  <2> QED BY <1>5, <2>1, <2>2, <2>3, BufRigid DEF BufPlaces
<1>7. ASSUME NEW b \in Buf!Bufs PROVE BufSum(b)' = IF BufUsed(b)' THEN bufRef'[b] ELSE 0
  <2>1. ~BufDying(d) /\ ~BufUsed(d)
    BY <1>3 DEF BufPlaces, BufUsed
  <2>2. BufUsed(b)' <=> BufUsed(b) \/ b = d
    BY <1>5, <2>1 DEF BufUsed
  <2> QED BY <2>1, <2>2, BufSums DEF Same
<1>8. BufRefs'
  BY <1>6, <1>7, BufRefsStep
<1> QED BY <1>1, <1>2, <1>6, <1>8 DEF BufInv

(* The caller keeps the new buffer,                                        *)
LEMMA BufKeep ==
  ASSUME BufInv, NEW t \in BufThreads, bufPc[t] \in {"alloc", "get"},
         NEW d \in Buf!Bufs, BufFresh(d), BufTaken(d),
         bufRef' = [bufRef EXCEPT ![d] = 1], bufOwn' = [bufOwn EXCEPT ![t][d] = @ + 1],
         bufFrags' = [bufFrags EXCEPT ![d] = NULL], Buf!Done(t), bufList' = bufList
  PROVE  BufInv'
<1>0. PICK o \in [Buf!Bufs -> BufOwners] : BufOwned(o) /\ o[d] = <<"thread", t>>
  BY FreshOwner
<1>1. BufType /\ bufFrags[d] = NULL
  BY FreshUnused DEF BufInv
<1>2. bufRef' \in [Buf!Bufs -> Nat] /\ \A b \in Buf!Bufs : bufRef'[b] = IF b = d THEN 1 ELSE bufRef[b]
  BY <1>1 DEF BufType
<1>3. bufFrags' = bufFrags
  BY <1>1 DEF BufType
<1>4. /\ bufOwn' \in [BufThreads -> [Buf!Bufs -> Nat]]
      /\ \A b \in Buf!Bufs : BufHolds(bufOwn', b) = BufHolds(bufOwn, b) + Same(b, d) /\ BufHolds(bufOwn, b) \in Nat
      /\ \A u \in BufThreads : u # t => bufOwn'[u] = bufOwn[u]
      /\ \A b \in Buf!Bufs : b # d => bufOwn'[t][b] = bufOwn[t][b]
  BY ONLY <1>1, OwnPlus, t \in BufThreads, d \in Buf!Bufs, bufOwn' = [bufOwn EXCEPT ![t][d] = @ + 1]
<1>5. BufType'
  BY <1>1, <1>2, <1>3, <1>4, BufDone, BufRigid DEF BufType, BufTaken
<1>6. BufOthers(t) /\ BufLocal(t)' /\ bufPc'[t] = "idle"
  BY <1>1, <1>4, BufDone DEF BufOthers
<1>7. ASSUME NEW b \in Buf!Bufs PROVE BufSum(b)' = BufSum(b) + Same(b, d)
  <2>1. BufGiven(BufTarget', b) = BufGiven(BufTarget, b)
    BY <1>6, TargetStep DEF Same
  <2>2. Same(b, d) \in Int /\ In(bufList', b) = In(bufList, b)
    BY DEF Same
  <2> QED BY ONLY BufInv, b \in Buf!Bufs, <1>3, <1>4, <2>1, <2>2, BufSums, BufSumNext
<1>8. /\ \A b \in Buf!Bufs : bufOwn'[t][b] > 0 => o[b] = <<"thread", t>>
      /\ \A b \in Buf!Bufs : bufFrags'[b] # NULL => o[bufFrags'[b]] = o[b]
  BY <1>0, <1>3, <1>4 DEF BufOwned
<1>9. Buf!ChainEnds'
  BY <1>3, EndsCut DEF BufInv
<1>10. bufPc[t] # "destroy" /\ bufPc'[t] \notin BufBusy
  BY <1>6 DEF BufBusy
<1> QED BY <1>0, <1>2, <1>3, <1>5, <1>6, <1>7, <1>8, <1>9, <1>10, BufGivesOut

(* or bt_buf_append_bytes adds it to the end of its chain.                 *)
LEMMA BufAppend ==
  ASSUME BufInv, NEW t \in BufThreads, bufPc[t] \in {"alloc", "get"}, bufCall[t].kind = "append",
         NEW d \in Buf!Bufs, BufFresh(d), BufTaken(d),
         bufRef' = [bufRef EXCEPT ![d] = 1],
         bufFrags' = [bufFrags EXCEPT ![d] = NULL, ![Buf!bt_buf_frag_last(bufCall[t].src)] = d],
         Buf!Done(t), UNCHANGED <<bufList, bufOwn>>
  PROVE  BufInv'
<1> DEFINE src == bufCall[t].src
           l == Buf!bt_buf_frag_last(src)
<1>0. PICK o \in [Buf!Bufs -> BufOwners] : BufOwned(o) /\ o[d] = <<"thread", t>>
  BY FreshOwner
<1>1. BufType /\ bufFrags[d] = NULL /\ BufLocal(t) /\ Buf!ChainEnds
  BY FreshUnused DEF BufInv, BufLocals
<1>2. src \in Buf!Bufs /\ bufOwn[t][src] > 0
  BY <1>1 DEF BufLocal
<1>3. l \in Buf!Chain(src) /\ l \in Buf!Bufs /\ bufFrags[l] = NULL
  BY <1>1, <1>2, LastFacts
<1>4. BufUsed(l) /\ ~BufFresh(l) /\ l # d
  BY <1>2, <1>3, Referred, ChainUsed
<1>5. o[l] = <<"thread", t>>
  <2>1. o[src] = <<"thread", t>>
    BY <1>0, <1>2 DEF BufOwned
  <2> QED BY <1>0, <1>1, <1>2, <1>3, <2>1, ChainOwned
<1> HIDE DEF src, l
<1>6. /\ bufFrags' \in [Buf!Bufs -> Buf!Bufs \cup {NULL}]
      /\ \A b \in Buf!Bufs : bufFrags'[b] = IF b = l THEN d ELSE bufFrags[b]
  BY <1>1, <1>3, <1>4 DEF BufType, src, l
<1>7. bufRef' \in [Buf!Bufs -> Nat] /\ \A b \in Buf!Bufs : bufRef'[b] = IF b = d THEN 1 ELSE bufRef[b]
  BY <1>1 DEF BufType
<1>8. BufType'
  BY <1>1, <1>6, <1>7, BufDone, BufRigid DEF BufType, BufTaken
<1>9. BufOthers(t) /\ BufLocal(t)' /\ bufPc'[t] = "idle"
  BY <1>1, BufDone DEF BufOthers
<1>10. ASSUME NEW b \in Buf!Bufs PROVE BufSum(b)' = BufSum(b) + Same(b, d)
  <2>1. BufGiven(BufTarget', b) = BufGiven(BufTarget, b)
    BY <1>9, TargetStep DEF Same
  <2>2. BufFollows(bufFrags', b) = BufFollows(bufFrags, b) - Same(bufFrags[l], b) + Same(d, b)
    BY ONLY <1>3, <1>6, FragsSet
  <2>3. /\ Same(bufFrags[l], b) = 0 /\ Same(d, b) = Same(b, d) /\ Same(b, d) \in Int
        /\ In(bufList', b) = In(bufList, b) /\ BufHolds(bufOwn', b) = BufHolds(bufOwn, b)
    BY <1>3, BufsFacts DEF Same
  <2> QED BY ONLY BufInv, b \in Buf!Bufs, <2>1, <2>2, <2>3, BufSums, BufSumNext
<1>11. /\ \A b \in Buf!Bufs : bufOwn'[t][b] > 0 => o[b] = <<"thread", t>>
       /\ \A b \in Buf!Bufs : bufFrags'[b] # NULL => o[bufFrags'[b]] = o[b]
       /\ \A b \in Buf!Bufs : bufFrags'[b] # bufFrags[b] => o[b] = <<"thread", t>> /\ ~BufFresh(b)
  BY <1>0, <1>4, <1>5, <1>6 DEF BufOwned
<1>12. Buf!ChainEnds'
  <2>0. {d} \in SUBSET Buf!Bufs /\ d \in {d} /\ \A c \in {d} : bufFrags[c] \in {d} \cup {NULL}
    BY <1>1
  <2>1. Buf!Chain(d) \subseteq {d}
    BY <1>1, <2>0, ChainFacts
  <2>2. l \notin Buf!Chain(d)
    BY <1>4, <2>1
  <2> QED BY <1>1, <1>3, <1>6, <2>2, EndsJoin
<1>13. bufPc[t] # "destroy" /\ bufPc'[t] \notin BufBusy
  BY <1>9 DEF BufBusy
<1> QED BY <1>0, <1>7, <1>8, <1>9, <1>10, <1>11, <1>12, <1>13, BufGivesOut

(* bt_buf_clone destroys the new buffer.                                   *)
LEMMA BufCloneFails ==
  ASSUME BufInv, NEW t \in BufThreads, bufPc[t] \in {"alloc", "get"},
         NEW d \in Buf!Bufs, BufFresh(d), BufTaken(d),
         bufRef' = [bufRef EXCEPT ![d] = 1], bufFrags' = [bufFrags EXCEPT ![d] = NULL],
         bufPc' = [bufPc EXCEPT ![t] = "destroy"], bufCur' = [bufCur EXCEPT ![t] = d],
         UNCHANGED <<bufList, bufOwn, bufCall, bufVal, bufRest>>
  PROVE  BufInv'
<1>0. PICK o \in [Buf!Bufs -> BufOwners] : BufOwned(o) /\ o[d] = <<"thread", t>>
  BY FreshOwner
<1>1. BufType /\ bufFrags[d] = NULL /\ BufLocal(t) /\ BufPlaces /\ ~BufDying(d) /\ ~BufUsed(d)
  BY FreshUnused DEF BufInv, BufLocals
<1>2. bufRef' \in [Buf!Bufs -> Nat] /\ \A b \in Buf!Bufs : bufRef'[b] = IF b = d THEN 1 ELSE bufRef[b]
  BY <1>1 DEF BufType
<1>3. bufFrags' = bufFrags
  BY <1>1 DEF BufType
<1>4. /\ bufPc' \in [BufThreads -> {"idle", "alloc", "get"} \cup BufBusy] /\ bufPc'[t] = "destroy"
      /\ bufCur' \in [BufThreads -> Buf!Bufs \cup {NULL}] /\ bufCur'[t] = d
  BY <1>1 DEF BufType, BufBusy
<1>5. BufType'
  BY <1>1, <1>2, <1>3, <1>4, BufRigid DEF BufType, BufTaken
<1>6. BufOthers(t)
  BY <1>1 DEF BufOthers, BufType
<1>7. BufLocal(t)'
  BY <1>1, <1>3, <1>4, BufRigid DEF BufLocal, BufBusy
<1>8. BufLocals'
  <2>1. \A b \in Buf!Bufs : bufRef'[b] # bufRef[b] \/ bufFrags'[b] # bufFrags[b] =>
                              BufFresh(b) \/ o[b] = <<"thread", t>>
    BY <1>0, <1>2, <1>3
  <2> QED BY <1>0, <1>6, <1>7, <2>1, BufLocalsStep
<1>9. BufOwner'
  <2>1. /\ \A b \in Buf!Bufs : bufOwn'[t][b] > 0 => o[b] = <<"thread", t>>
        /\ \A b \in Buf!Bufs : bufFrags'[b] # NULL => o[bufFrags'[b]] = o[b]
        /\ bufPc'[t] \in BufBusy => o[bufCur'[t]] = <<"thread", t>>
    BY <1>0, <1>3, <1>4 DEF BufOwned
  <2> QED BY <1>0, <1>6, <2>1, BufOwnerStep
<1>10. ASSUME NEW b \in Buf!Bufs PROVE /\ BufDying(b)' <=> BufDying(b) \/ b = d
                                       /\ BufFresh(b)' <=> BufFresh(b) /\ b # d
                                       /\ Has(bufFree, b)' => ~BufNever(b)'
  <2>1. BufDying(b)' <=> BufDying(b) \/ b = d
    BY <1>4, <1>6 DEF BufDying, BufOthers
  <2>2. (BufFresh(b)' <=> BufFresh(b) /\ b # d) /\ (Has(bufFree, b)' => ~BufNever(b)')
    BY DEF BufTaken, BufFresh, BufNever, Has
  <2> QED BY <2>1, <2>2
<1>11. BufPlaces'
  <2>1. \A b \in Buf!Bufs : BufFresh(b)' => bufFrags'[b] = NULL /\ ~BufDying(b)'
    BY <1>1, <1>3, <1>10 DEF BufPlaces
  <2>2. \A u, v \in BufThreads :
          bufPc'[u] = "destroy" /\ bufPc'[v] = "destroy" /\ bufCur'[u] = bufCur'[v] => u = v
    BY <1>1, <1>4, <1>6 DEF BufPlaces, BufOthers, BufDying
  <2>3. Once(bufFree, Buf!Bufs)' /\ Once(bufList, Buf!Bufs)'
    BY <1>1, BufRigid DEF BufPlaces, Once, BufTaken
  <2> QED BY <1>10, <2>1, <2>2, <2>3, BufRigid DEF BufPlaces
<1>12. ASSUME NEW b \in Buf!Bufs PROVE BufSum(b)' = IF BufUsed(b)' THEN bufRef'[b] ELSE 0
  <2>1. BufGiven(BufTarget', b) = BufGiven(BufTarget, b)
    BY <1>4, <1>6, TargetStep DEF Same
  <2>2. In(bufList', b) = In(bufList, b) /\ BufHolds(bufOwn', b) = BufHolds(bufOwn, b)
    OBVIOUS
  <2>3. BufSum(b)' = BufSum(b)
    BY <1>3, <2>1, <2>2, BufSums, BufSumNext
  <2>4. BufUsed(b)' <=> BufUsed(b)
    BY <1>1, <1>10 DEF BufUsed
  <2> QED BY <1>1, <1>2, <2>3, <2>4, BufSums
<1>13. BufRefs'
  BY <1>5, <1>11, <1>12, BufRefsStep
<1>14. Buf!ChainEnds'
  BY <1>3, EndsCut DEF BufInv
<1> QED BY <1>5, <1>8, <1>9, <1>11, <1>13, <1>14 DEF BufInv

(* An allocation that gets buffer d.                                       *)
LEMMA BufSuccess ==
  ASSUME BufInv, NEW t \in BufThreads, bufPc[t] \in {"alloc", "get"},
         NEW d \in Buf!Bufs, BufFresh(d), BufTaken(d), Buf!Success(t, d)
  PROVE  BufInv'
<1>1. bufRef' = [bufRef EXCEPT ![d] = 1] /\ bufList' = bufList
  BY DEF Buf!Success
<1>2. CASE /\ bufOwn' = [bufOwn EXCEPT ![t][d] = @ + 1]
           /\ bufFrags' = [bufFrags EXCEPT ![d] = NULL] /\ Buf!Done(t)
  BY <1>1, <1>2, BufKeep
<1>3. CASE /\ bufPc' = [bufPc EXCEPT ![t] = "destroy"] /\ bufCur' = [bufCur EXCEPT ![t] = d]
           /\ bufFrags' = [bufFrags EXCEPT ![d] = NULL]
           /\ UNCHANGED <<bufOwn, bufCall, bufVal, bufRest>>
  BY <1>1, <1>3, BufCloneFails
<1>4. CASE /\ bufCall[t].kind = "append"
           /\ bufFrags' = [bufFrags EXCEPT ![d] = NULL, ![Buf!bt_buf_frag_last(bufCall[t].src)] = d]
           /\ Buf!Done(t) /\ UNCHANGED bufOwn
  BY <1>1, <1>4, BufAppend
<1> QED BY <1>2, <1>3, <1>4 DEF Buf!Success

(* bt_buf_alloc_len with the mutex,                                        *)
LEMMA BufAlloc ==
  ASSUME BufInv, NEW t \in BufThreads, Buf!bt_buf_alloc_len(t)
  PROVE  BufInv'
<1>1. CASE /\ bufFree # <<>> /\ bufFree' = Tail(bufFree) /\ Buf!Success(t, Head(bufFree))
           /\ UNCHANGED bufUninit
  BY <1>1, BufTakeFree, BufSuccess DEF Buf!bt_buf_alloc_len
<1>2. CASE /\ bufUninit > 0 /\ bufUninit' = bufUninit - 1 /\ Buf!Success(t, BufCount - bufUninit + 1)
           /\ UNCHANGED bufFree
  BY <1>2, BufTakeNew, BufSuccess DEF Buf!bt_buf_alloc_len
<1>3. CASE /\ bufPc' = [bufPc EXCEPT ![t] = "get"]
           /\ UNCHANGED <<bufUninit, bufFree, Buf!bufVars, bufList, Buf!locals, bufOwn>>
  BY <1>3, BufMustWait DEF Buf!bt_buf_alloc_len
<1> QED BY <1>1, <1>2, <1>3 DEF Buf!bt_buf_alloc_len

(* and without it.                                                         *)
LEMMA BufGetFree ==
  ASSUME BufInv, NEW t \in BufThreads, Buf!GetFree(t)
  PROVE  BufInv'
<1>1. CASE /\ bufFree # <<>> /\ bufFree' = Tail(bufFree) /\ Buf!Success(t, Head(bufFree))
           /\ UNCHANGED bufUninit
  BY <1>1, BufTakeFree, BufSuccess DEF Buf!GetFree
<1>2. CASE Buf!Done(t) /\ UNCHANGED <<bufUninit, bufFree, Buf!bufVars, bufList, bufOwn>>
  BY <1>2, BufGiveUp DEF Buf!GetFree
<1> QED BY <1>1, <1>2 DEF Buf!GetFree

-----------------------------------------------------------------------------
(* Fragments.  t puts a chain of its own after x, the end of another.      *)
LEMMA BufJoins ==
  ASSUME BufInv, NEW t \in BufThreads, NEW h \in Buf!Bufs, NEW f \in Buf!Bufs, Buf!Joinable(t, h, f),
         NEW x \in Buf!Chain(h), bufFrags[x] = NULL, bufFrags' = [bufFrags EXCEPT ![x] = f],
         bufOwn' = [bufOwn EXCEPT ![t][f] = @ - 1],
         UNCHANGED <<bufUninit, bufFree, bufRef, bufList, bufPc, bufCall, bufCur, bufVal, bufRest>>
  PROVE  BufInv'
<1>0. PICK o \in [Buf!Bufs -> BufOwners] : BufOwned(o)
  BY DEF BufInv, BufOwner
<1>1. /\ BufType /\ BufLocal(t) /\ Buf!ChainEnds /\ bufPc[t] = "idle" /\ bufOwn[t][h] > 0 /\ bufOwn[t][f] > 0
      /\ Buf!Chain(h) \cap Buf!Chain(f) = {}
  BY DEF BufInv, BufLocals, Buf!Joinable, Buf!Owns
<1>2. x \in Buf!Bufs /\ BufUsed(x) /\ ~BufFresh(x) /\ x \notin Buf!Chain(f)
  BY <1>1, Referred, ChainUsed
<1>3. o[x] = <<"thread", t>> /\ o[f] = <<"thread", t>>
  <2>1. o[h] = <<"thread", t>> /\ o[f] = <<"thread", t>>
    BY <1>0, <1>1 DEF BufOwned
  <2> QED BY <1>0, <1>1, <2>1, ChainOwned
<1>4. /\ bufFrags' \in [Buf!Bufs -> Buf!Bufs \cup {NULL}]
      /\ \A b \in Buf!Bufs : bufFrags'[b] = IF b = x THEN f ELSE bufFrags[b]
  BY <1>1, <1>2 DEF BufType
<1>5. /\ bufOwn' \in [BufThreads -> [Buf!Bufs -> Nat]]
      /\ \A b \in Buf!Bufs : BufHolds(bufOwn, b) = BufHolds(bufOwn', b) + Same(b, f) /\ BufHolds(bufOwn', b) \in Nat
      /\ \A u \in BufThreads : u # t => bufOwn'[u] = bufOwn[u]
      /\ \A b \in Buf!Bufs : b # f => bufOwn'[t][b] = bufOwn[t][b]
  BY <1>1, OwnMinus
<1>6. BufType' /\ BufOthers(t)
  BY <1>1, <1>4, <1>5, BufRigid DEF BufType, BufOthers
<1>7. BufLocal(t)'
  BY <1>1 DEF BufLocal, BufBusy
<1>8. ASSUME NEW b \in Buf!Bufs PROVE BufSum(b)' = BufSum(b) + (bufRef'[b] - bufRef[b])
  <2>1. BufGiven(BufTarget', b) = BufGiven(BufTarget, b)
    BY DEF BufTarget
  <2>2. BufFollows(bufFrags', b) = BufFollows(bufFrags, b) - Same(bufFrags[x], b) + Same(f, b)
    BY ONLY <1>2, <1>4, FragsSet
  <2>3. /\ Same(bufFrags[x], b) = 0 /\ Same(f, b) = Same(b, f) /\ Same(b, f) \in Int
        /\ In(bufList', b) = In(bufList, b) /\ bufRef' = bufRef
    BY BufsFacts DEF Same
  <2> QED BY ONLY BufInv, b \in Buf!Bufs, <1>5, <2>1, <2>2, <2>3, BufSums, BufSumNext
<1>9. /\ \A b \in Buf!Bufs : bufOwn'[t][b] > 0 => o[b] = <<"thread", t>>
      /\ \A b \in Buf!Bufs : bufFrags'[b] # NULL => o[bufFrags'[b]] = o[b]
      /\ \A b \in Buf!Bufs : bufFrags'[b] # bufFrags[b] => o[b] = <<"thread", t>> /\ ~BufFresh(b)
  BY <1>0, <1>2, <1>3, <1>4, <1>5 DEF BufOwned
<1>10. Buf!ChainEnds'
  BY <1>1, <1>2, <1>4, EndsJoin
<1>11. bufPc[t] # "destroy" /\ bufPc'[t] # "destroy" /\ bufPc'[t] \notin BufBusy
       /\ bufRef' = bufRef /\ UNCHANGED <<bufUninit, bufFree, bufList>>
  BY <1>1 DEF BufBusy
<1> QED BY ONLY BufInv, t \in BufThreads, <1>0, <1>6, <1>7, <1>8, <1>9, <1>10, <1>11, BufMoves

(* bt_buf_frag_add.                                                        *)
LEMMA BufFragAdd ==
  ASSUME BufInv, ~Headless, NEW t \in BufThreads, NEW h \in Buf!Bufs \cup {NULL}, NEW f \in Buf!Bufs,
         Buf!bt_buf_frag_add(t, h, f)
  PROVE  BufInv'
<1> DEFINE x == Buf!bt_buf_frag_last(h)
<1>1. h \in Buf!Bufs
  BY DEF Buf!bt_buf_frag_add
<1>2. x \in Buf!Chain(h) /\ bufFrags[x] = NULL
  BY <1>1, LastFacts DEF BufInv
<1>3. /\ Buf!Joinable(t, h, f) /\ bufFrags' = [bufFrags EXCEPT ![x] = f]
      /\ bufOwn' = [bufOwn EXCEPT ![t][f] = @ - 1]
      /\ UNCHANGED <<bufUninit, bufFree, bufRef, bufList, bufPc, bufCall, bufCur, bufVal, bufRest>>
  BY DEF Buf!bt_buf_frag_add, Buf!locals
<1> HIDE DEF x
<1> QED BY <1>1, <1>2, <1>3, BufJoins

(* bt_buf_frag_insert, with or without fragments after the parent.         *)
LEMMA BufFragInsert ==
  ASSUME BufInv, NEW t \in BufThreads, NEW p \in Buf!Bufs, NEW f \in Buf!Bufs,
         Buf!bt_buf_frag_insert(t, p, f)
  PROVE  BufInv'
<1> DEFINE l == Buf!bt_buf_frag_last(f)
           n == bufFrags[p]
<1>0. PICK o \in [Buf!Bufs -> BufOwners] : BufOwned(o)
  BY DEF BufInv, BufOwner
<1>1. /\ BufType /\ BufLocal(t) /\ Buf!ChainEnds /\ bufPc[t] = "idle" /\ bufOwn[t][p] > 0 /\ bufOwn[t][f] > 0
      /\ Buf!Chain(p) \cap Buf!Chain(f) = {} /\ bufOwn' = [bufOwn EXCEPT ![t][f] = @ - 1]
      /\ UNCHANGED <<bufUninit, bufFree, bufRef, bufList, bufPc, bufCall, bufCur, bufVal, bufRest>>
  BY DEF BufInv, BufLocals, Buf!bt_buf_frag_insert, Buf!Joinable, Buf!Owns, Buf!locals
<1>2. CASE n = NULL
  <2>1. p \in Buf!Chain(p)
    BY <1>1, ChainFacts
  <2>2. Buf!Joinable(t, p, f) /\ bufFrags' = [bufFrags EXCEPT ![p] = f]
    BY <1>2 DEF Buf!bt_buf_frag_insert
  <2> QED BY <1>1, <1>2, <2>1, <2>2, BufJoins
<1>3. CASE n # NULL
  <2>1. l \in Buf!Chain(f) /\ l \in Buf!Bufs /\ bufFrags[l] = NULL /\ p \in Buf!Chain(p) /\ l # p
    BY <1>1, LastFacts, ChainFacts
  <2>2. BufUsed(l) /\ ~BufFresh(l) /\ BufUsed(p) /\ ~BufFresh(p)
    BY <1>1, <2>1, Referred, ChainUsed
  <2>3. o[p] = <<"thread", t>> /\ o[f] = <<"thread", t>> /\ o[l] = <<"thread", t>> /\ o[n] = <<"thread", t>>
    <3>1. o[p] = <<"thread", t>> /\ o[f] = <<"thread", t>>
      BY <1>0, <1>1 DEF BufOwned
    <3> QED BY <1>0, <1>1, <1>3, <2>1, <3>1, ChainOwned DEF BufOwned
  <2>4. bufFrags' = [bufFrags EXCEPT ![l] = n, ![p] = f]
    BY <1>3 DEF Buf!bt_buf_frag_insert
  <2>5. n \in Buf!Bufs
    BY <1>1, <1>3 DEF BufType
  <2> HIDE DEF l
  <2>6. /\ bufFrags' \in [Buf!Bufs -> Buf!Bufs \cup {NULL}]
        /\ \A b \in Buf!Bufs : bufFrags'[b] = IF b = p THEN f ELSE IF b = l THEN bufFrags[p] ELSE bufFrags[b]
    BY <1>1, <2>1, <2>4, <2>5 DEF BufType
  <2>7. /\ bufOwn' \in [BufThreads -> [Buf!Bufs -> Nat]]
        /\ \A b \in Buf!Bufs : BufHolds(bufOwn, b) = BufHolds(bufOwn', b) + Same(b, f) /\ BufHolds(bufOwn', b) \in Nat
        /\ \A u \in BufThreads : u # t => bufOwn'[u] = bufOwn[u]
        /\ \A b \in Buf!Bufs : b # f => bufOwn'[t][b] = bufOwn[t][b]
    BY <1>1, OwnMinus
  <2>8. BufType' /\ BufOthers(t)
    BY <1>1, <2>6, <2>7, BufRigid DEF BufType, BufOthers
  <2>9. BufLocal(t)'
    BY <1>1 DEF BufLocal, BufBusy
  <2>10. ASSUME NEW b \in Buf!Bufs PROVE BufSum(b)' = BufSum(b) + (bufRef'[b] - bufRef[b])
    <3> DEFINE g == [bufFrags EXCEPT ![l] = n]
    <3>1. BufGiven(BufTarget', b) = BufGiven(BufTarget, b)
      BY <1>1 DEF BufTarget
    <3>2. /\ \A y \in Buf!Bufs : g[y] = IF y = l THEN n ELSE bufFrags[y]
          /\ \A y \in Buf!Bufs : bufFrags'[y] = IF y = p THEN f ELSE g[y]
          /\ g[p] = n
      BY <1>1, <2>1, <2>6 DEF BufType
    <3> HIDE DEF g, n
    <3>3. BufFollows(g, b) = BufFollows(bufFrags, b) - Same(bufFrags[l], b) + Same(n, b)
      BY ONLY <2>1, <3>2, FragsSet
    <3>4. BufFollows(bufFrags', b) = BufFollows(g, b) - Same(g[p], b) + Same(f, b)
      BY ONLY p \in Buf!Bufs, <3>2, FragsSet
    <3>5. /\ Same(bufFrags[l], b) = 0 /\ Same(f, b) = Same(b, f) /\ Same(b, f) \in Int /\ Same(n, b) \in Int
          /\ Same(g[p], b) = Same(n, b) /\ In(bufList', b) = In(bufList, b) /\ bufRef' = bufRef
      BY <1>1, <2>1, <3>2, BufsFacts DEF Same
    <3> QED BY ONLY BufInv, b \in Buf!Bufs, <2>7, <3>1, <3>3, <3>4, <3>5, BufSums, BufSumNext
  <2>11. /\ \A b \in Buf!Bufs : bufOwn'[t][b] > 0 => o[b] = <<"thread", t>>
         /\ \A b \in Buf!Bufs : bufFrags'[b] # NULL => o[bufFrags'[b]] = o[b]
         /\ \A b \in Buf!Bufs : bufFrags'[b] # bufFrags[b] => o[b] = <<"thread", t>> /\ ~BufFresh(b)
    BY <1>0, <2>2, <2>3, <2>6, <2>7 DEF BufOwned
  <2>12. Buf!ChainEnds'
    BY <1>1, <1>3, <2>1, <2>6, EndsInsert
  <2>13. bufPc[t] # "destroy" /\ bufPc'[t] # "destroy" /\ bufPc'[t] \notin BufBusy
         /\ bufRef' = bufRef /\ UNCHANGED <<bufUninit, bufFree, bufList>>
    BY <1>1 DEF BufBusy
  <2> QED BY ONLY BufInv, t \in BufThreads, <1>0, <2>8, <2>9, <2>10, <2>11, <2>12, <2>13, BufMoves
<1> QED BY <1>2, <1>3

(* The call of bt_buf_unref that bt_buf_frag_del starts.                   *)
LEMMA BufStartsUnref ==
  ASSUME BufType, NEW t \in BufThreads, NEW f \in Buf!Bufs,
         bufPc' = [bufPc EXCEPT ![t] = "unref"], bufCur' = [bufCur EXCEPT ![t] = f]
  PROVE  /\ bufPc' \in [BufThreads -> {"idle", "alloc", "get"} \cup BufBusy] /\ bufPc'[t] = "unref"
         /\ bufCur' \in [BufThreads -> Buf!Bufs \cup {NULL}] /\ bufCur'[t] = f
         /\ \A u \in BufThreads : u # t => bufPc'[u] = bufPc[u] /\ bufCur'[u] = bufCur[u]
         /\ BufLocal(t)'
<1>1. /\ bufPc' \in [BufThreads -> {"idle", "alloc", "get"} \cup BufBusy] /\ bufPc'[t] = "unref"
      /\ bufCur' \in [BufThreads -> Buf!Bufs \cup {NULL}] /\ bufCur'[t] = f
      /\ \A u \in BufThreads : u # t => bufPc'[u] = bufPc[u] /\ bufCur'[u] = bufCur[u]
  BY DEF BufType, BufBusy
<1>2. BufLocal(t)'
  BY <1>1, BufRigid DEF BufLocal, BufBusy
<1> QED BY <1>1, <1>2

(* No buffer follows itself.                                               *)
LEMMA NotItself ==
  ASSUME Buf!ChainEnds, NEW b \in Buf!Bufs
  PROVE  bufFrags[b] # b
<1>1. {b} \in SUBSET Buf!Bufs /\ {b} # {}
  OBVIOUS
<1>2. PICK c \in {b} : bufFrags[c] \notin {b}
  BY <1>1 DEF Buf!ChainEnds
<1> QED BY <1>2

(* bt_buf_frag_del with a parent,                                          *)
LEMMA BufDelAfter ==
  ASSUME BufInv, NEW t \in BufThreads, NEW p \in Buf!Bufs, NEW f \in Buf!Bufs,
         bufPc[t] = "idle", bufOwn[t][p] > 0, bufFrags[p] = f,
         bufFrags' = [b \in Buf!Bufs |-> IF b = f THEN NULL ELSE IF b = p THEN bufFrags[f] ELSE bufFrags[b]],
         bufPc' = [bufPc EXCEPT ![t] = "unref"], bufCur' = [bufCur EXCEPT ![t] = f],
         UNCHANGED <<bufUninit, bufFree, bufRef, bufList, bufCall, bufVal, bufRest, bufOwn>>
  PROVE  BufInv'
<1> DEFINE n == bufFrags[f]
<1>0. PICK o \in [Buf!Bufs -> BufOwners] : BufOwned(o)
  BY DEF BufInv, BufOwner
<1>1. BufType /\ Buf!ChainEnds /\ p # f /\ n \in Buf!Bufs \cup {NULL}
  BY NotItself DEF BufInv, BufType
<1>2. BufUsed(p) /\ ~BufFresh(p) /\ BufUsed(f) /\ ~BufFresh(f)
  BY Referred DEF BufUsed
<1>3. o[p] = <<"thread", t>> /\ o[f] = <<"thread", t>> /\ (n # NULL => o[n] = <<"thread", t>>)
  BY <1>0, BufsFacts DEF BufOwned
<1>4. /\ bufFrags' \in [Buf!Bufs -> Buf!Bufs \cup {NULL}]
      /\ \A b \in Buf!Bufs : bufFrags'[b] = IF b = f THEN NULL ELSE IF b = p THEN bufFrags[f] ELSE bufFrags[b]
  BY <1>1 DEF BufType
<1>5. /\ bufPc' \in [BufThreads -> {"idle", "alloc", "get"} \cup BufBusy] /\ bufPc'[t] = "unref"
      /\ bufCur' \in [BufThreads -> Buf!Bufs \cup {NULL}] /\ bufCur'[t] = f
      /\ \A u \in BufThreads : u # t => bufPc'[u] = bufPc[u] /\ bufCur'[u] = bufCur[u]
      /\ BufLocal(t)'
  BY <1>1, BufStartsUnref
<1>6. BufType' /\ BufOthers(t)
  BY <1>1, <1>4, <1>5, BufRigid DEF BufType, BufOthers
<1>8. ASSUME NEW b \in Buf!Bufs PROVE BufSum(b)' = BufSum(b) + (bufRef'[b] - bufRef[b])
  <2> DEFINE g == [bufFrags EXCEPT ![f] = NULL]
  <2>1. BufGiven(BufTarget, b) \in Nat /\ BufGiven(BufTarget', b) = BufGiven(BufTarget, b) + Same(f, b)
    BY ONLY bufPc[t] = "idle", t \in BufThreads, b \in Buf!Bufs, <1>5, <1>6, TargetStep, BufsFacts DEF Same
  <2>2. /\ \A y \in Buf!Bufs : g[y] = IF y = f THEN NULL ELSE bufFrags[y]
        /\ \A y \in Buf!Bufs : bufFrags'[y] = IF y = p THEN n ELSE g[y]
        /\ g[p] = f
    BY <1>1, <1>4 DEF BufType
  <2> HIDE DEF g
  <2>3. BufFollows(g, b) = BufFollows(bufFrags, b) - Same(n, b) + Same(NULL, b)
    BY ONLY f \in Buf!Bufs, <2>2, FragsSet
  <2> HIDE DEF n
  <2>4. BufFollows(bufFrags', b) = BufFollows(g, b) - Same(g[p], b) + Same(n, b)
    BY ONLY p \in Buf!Bufs, <2>2, FragsSet
  <2>5. /\ Same(NULL, b) = 0 /\ Same(f, b) \in Int /\ Same(n, b) \in Int /\ Same(g[p], b) = Same(f, b)
        /\ In(bufList', b) = In(bufList, b) /\ BufHolds(bufOwn', b) = BufHolds(bufOwn, b) /\ bufRef' = bufRef
    BY <2>2, BufsFacts DEF Same
  <2> QED BY ONLY BufInv, b \in Buf!Bufs, <2>1, <2>3, <2>4, <2>5, BufSums, BufSumNext
<1>9. /\ \A b \in Buf!Bufs : bufOwn'[t][b] > 0 => o[b] = <<"thread", t>>
      /\ \A b \in Buf!Bufs : bufFrags'[b] # NULL => o[bufFrags'[b]] = o[b]
      /\ \A b \in Buf!Bufs : bufFrags'[b] # bufFrags[b] => o[b] = <<"thread", t>> /\ ~BufFresh(b)
      /\ o[bufCur'[t]] = <<"thread", t>>
  BY <1>0, <1>2, <1>3, <1>4, <1>5 DEF BufOwned
<1>10. Buf!ChainEnds'
  BY <1>1, <1>4, EndsDel
<1>11. bufPc[t] # "destroy" /\ bufPc'[t] # "destroy"
       /\ bufRef' = bufRef /\ UNCHANGED <<bufUninit, bufFree, bufList>>
  BY <1>5
<1> QED BY ONLY BufInv, t \in BufThreads, <1>0, <1>5, <1>6, <1>8, <1>9, <1>10, <1>11, BufMoves

(* without one,                                                            *)
LEMMA BufDelHead ==
  ASSUME BufInv, NEW t \in BufThreads, NEW f \in Buf!Bufs, bufPc[t] = "idle", bufOwn[t][f] > 0,
         \A b \in Buf!Bufs : bufFrags'[b] = IF b = f THEN NULL ELSE bufFrags[b],
         bufFrags' \in [Buf!Bufs -> Buf!Bufs \cup {NULL}],
         bufOwn' = [bufOwn EXCEPT ![t] = [b \in Buf!Bufs |-> @[b] - (IF b = f THEN 1 ELSE 0)
                                                                  + (IF b = bufFrags[f] THEN 1 ELSE 0)]],
         bufPc' = [bufPc EXCEPT ![t] = "unref"], bufCur' = [bufCur EXCEPT ![t] = f],
         UNCHANGED <<bufUninit, bufFree, bufRef, bufList, bufCall, bufVal, bufRest>>
  PROVE  BufInv'
<1> DEFINE n == bufFrags[f]
<1>0. PICK o \in [Buf!Bufs -> BufOwners] : BufOwned(o)
  BY DEF BufInv, BufOwner
<1>1. BufType /\ Buf!ChainEnds /\ n # f /\ n \in Buf!Bufs \cup {NULL}
      /\ bufOwn \in [BufThreads -> [Buf!Bufs -> Nat]]
  BY NotItself DEF BufInv, BufType
<1>2. BufUsed(f) /\ ~BufFresh(f)
  BY Referred DEF BufUsed
<1>3. o[f] = <<"thread", t>> /\ (n # NULL => o[n] = <<"thread", t>>)
  BY <1>0, BufsFacts DEF BufOwned
<1>4. /\ bufOwn' \in [BufThreads -> [Buf!Bufs -> Nat]]
      /\ \A u \in BufThreads : u # t => bufOwn'[u] = bufOwn[u]
      /\ \A b \in Buf!Bufs : bufOwn'[t][b] = bufOwn[t][b] - Same(b, f) + Same(b, n)
  BY <1>1 DEF Same
<1>5. /\ bufPc' \in [BufThreads -> {"idle", "alloc", "get"} \cup BufBusy] /\ bufPc'[t] = "unref"
      /\ bufCur' \in [BufThreads -> Buf!Bufs \cup {NULL}] /\ bufCur'[t] = f
      /\ \A u \in BufThreads : u # t => bufPc'[u] = bufPc[u] /\ bufCur'[u] = bufCur[u]
      /\ BufLocal(t)'
  BY <1>1, BufStartsUnref
<1>6. BufType' /\ BufOthers(t)
  BY <1>1, <1>4, <1>5, BufRigid DEF BufType, BufOthers
<1>7. ASSUME NEW b \in Buf!Bufs
      PROVE  BufHolds(bufOwn', b) = BufHolds(bufOwn, b) - Same(b, f) + Same(b, n)
  <2> DEFINE own == [bufOwn EXCEPT ![t][f] = @ - 1]
  <2>1. own \in [BufThreads -> [Buf!Bufs -> Nat]] /\ OwnAdds(own, bufOwn, t, f)
    BY <1>1 DEF OwnAdds
  <2>2. CASE n = NULL
    <3>1. \A u \in BufThreads, c \in Buf!Bufs : bufOwn'[u][c] = own[u][c]
      BY <1>1, <1>4, <2>2, BufsFacts DEF Same
    <3> HIDE DEF own
    <3>2. BufHolds(bufOwn', b) = BufHolds(own, b)
      <4>1. \A u \in BufThreads : bufOwn'[u] = own[u]
        BY ONLY <1>4, <2>1, <3>1
      <4>2. bufOwn' = own
        BY ONLY <1>4, <2>1, <4>1
      <4> QED BY ONLY <4>2
    <3>3. BufHolds(own, b) \in Nat /\ BufHolds(bufOwn, b) = BufHolds(own, b) + Same(b, f)
      BY ONLY b \in Buf!Bufs, t \in BufThreads, f \in Buf!Bufs, <2>1, OwnMore
    <3>4. Same(b, n) = 0 /\ Same(b, f) \in Int
      BY <2>2, BufsFacts DEF Same
    <3> QED BY ONLY <3>2, <3>3, <3>4
  <2>3. CASE n # NULL
    <3>1. OwnAdds(own, bufOwn', t, n) /\ n \in Buf!Bufs
      BY <1>1, <1>4, <2>3 DEF Same, OwnAdds
    <3> HIDE DEF own, n
    <3>2. BufHolds(own, b) \in Nat /\ BufHolds(bufOwn, b) = BufHolds(own, b) + Same(b, f)
      BY ONLY b \in Buf!Bufs, t \in BufThreads, f \in Buf!Bufs, <2>1, OwnMore
    <3>3. BufHolds(bufOwn', b) = BufHolds(own, b) + Same(b, n)
      BY ONLY b \in Buf!Bufs, t \in BufThreads, <2>1, <3>1, OwnMore
    <3>4. Same(b, n) \in Int /\ Same(b, f) \in Int
      BY DEF Same
    <3> QED BY ONLY <3>2, <3>3, <3>4
  <2> QED BY <2>2, <2>3
<1>8. ASSUME NEW b \in Buf!Bufs PROVE BufSum(b)' = BufSum(b) + (bufRef'[b] - bufRef[b])
  <2>1. BufGiven(BufTarget, b) \in Nat /\ BufGiven(BufTarget', b) = BufGiven(BufTarget, b) + Same(f, b)
    BY ONLY bufPc[t] = "idle", t \in BufThreads, b \in Buf!Bufs, <1>5, <1>6, TargetStep, BufsFacts DEF Same
  <2>2. BufFollows(bufFrags', b) = BufFollows(bufFrags, b) - Same(n, b) + Same(NULL, b)
    BY FragsSet
  <2>3. /\ Same(NULL, b) = 0 /\ Same(f, b) \in Int /\ Same(n, b) \in Int /\ Same(b, f) = Same(f, b)
        /\ Same(b, n) = Same(n, b) /\ In(bufList', b) = In(bufList, b) /\ bufRef' = bufRef
    BY BufsFacts DEF Same
  <2> HIDE DEF n
  <2> QED BY ONLY BufInv, b \in Buf!Bufs, <1>7, <2>1, <2>2, <2>3, BufSums, BufSumNext
<1>9. /\ \A b \in Buf!Bufs : bufOwn'[t][b] > 0 => o[b] = <<"thread", t>>
      /\ \A b \in Buf!Bufs : bufFrags'[b] # NULL => o[bufFrags'[b]] = o[b]
      /\ \A b \in Buf!Bufs : bufFrags'[b] # bufFrags[b] => o[b] = <<"thread", t>> /\ ~BufFresh(b)
      /\ o[bufCur'[t]] = <<"thread", t>>
  <2>1. \A b \in Buf!Bufs : bufOwn'[t][b] > 0 => bufOwn[t][b] > 0 \/ b = n
    BY <1>1, <1>4 DEF Same
  <2> QED BY <1>0, <1>2, <1>3, <1>5, <2>1, BufsFacts DEF BufOwned
<1>10. Buf!ChainEnds'
  BY <1>1, EndsCut
<1>11. bufPc[t] # "destroy" /\ bufPc'[t] # "destroy"
       /\ bufRef' = bufRef /\ UNCHANGED <<bufUninit, bufFree, bufList>>
  BY <1>5
<1> QED BY ONLY BufInv, t \in BufThreads, <1>0, <1>5, <1>6, <1>8, <1>9, <1>10, <1>11, BufMoves

(* and both.                                                               *)
LEMMA BufFragDel ==
  ASSUME BufInv, NEW t \in BufThreads, NEW p \in Buf!Bufs \cup {NULL}, NEW f \in Buf!Bufs,
         Buf!bt_buf_frag_del(t, p, f)
  PROVE  BufInv'
<1>1. /\ bufPc[t] = "idle" /\ bufPc' = [bufPc EXCEPT ![t] = "unref"] /\ bufCur' = [bufCur EXCEPT ![t] = f]
      /\ UNCHANGED <<bufUninit, bufFree, bufRef, bufList, bufCall, bufVal, bufRest>>
      /\ bufFrags' = [b \in Buf!Bufs |-> IF b = f THEN NULL ELSE IF b = p THEN bufFrags[f] ELSE bufFrags[b]]
  BY DEF Buf!bt_buf_frag_del, Buf!Owns
<1>2. CASE p # NULL
  <2>1. p \in Buf!Bufs /\ bufOwn[t][p] > 0 /\ bufFrags[p] = f /\ bufOwn' = bufOwn
    BY <1>2 DEF Buf!bt_buf_frag_del, Buf!Owns
  <2> QED BY <1>1, <2>1, BufDelAfter
<1>3. CASE p = NULL
  <2>1. /\ bufOwn[t][f] > 0
        /\ bufOwn' = [bufOwn EXCEPT ![t] = [b \in Buf!Bufs |-> @[b] - (IF b = f THEN 1 ELSE 0)
                                                                  + (IF b = bufFrags[f] THEN 1 ELSE 0)]]
    BY <1>3 DEF Buf!bt_buf_frag_del, Buf!Owns
  <2>2. /\ \A b \in Buf!Bufs : bufFrags'[b] = IF b = f THEN NULL ELSE bufFrags[b]
        /\ bufFrags' \in [Buf!Bufs -> Buf!Bufs \cup {NULL}]
    BY <1>1, <1>3, BufsFacts DEF BufInv, BufType
  <2> QED BY <1>1, <2>1, <2>2, BufDelHead
<1> QED BY <1>2, <1>3

-----------------------------------------------------------------------------
(* The list hands a chain from thread to thread: its owner becomes the     *)
(* entry of the list,                                                      *)
LEMMA BufPut ==
  ASSUME BufInv, ~Shares, NEW t \in BufThreads, NEW b \in Buf!Bufs, Buf!bt_buf_slist_put(t, b)
  PROVE  BufInv'
<1>0. PICK o \in [Buf!Bufs -> BufOwners] : BufOwned(o)
  BY DEF BufInv, BufOwner
<1>1. /\ bufPc[t] = "idle" /\ bufOwn[t][b] > 0 /\ ~Has(bufList, b)
      /\ \A c \in Buf!Chain(b) : bufOwn[t][c] = IF c = b THEN 1 ELSE 0
      /\ \A c \in Buf!Bufs \ Buf!Chain(b) : bufFrags[c] \notin Buf!Chain(b)
      /\ bufList' = Append(bufList, b) /\ bufOwn' = [bufOwn EXCEPT ![t][b] = @ - 1]
      /\ UNCHANGED <<bufUninit, bufFree, bufRef, bufFrags, bufPc, bufCall, bufCur, bufVal, bufRest>>
  BY DEF Buf!bt_buf_slist_put, Buf!Owns, Buf!bufVars, Buf!locals, Has
<1>2. BufType /\ BufLocal(t) /\ Once(bufList, Buf!Bufs) /\ bufList \in Seq(Buf!Bufs)
      /\ \A c \in Buf!Bufs : BufFresh(c) => bufFrags[c] = NULL
  BY DEF BufInv, BufLocals, BufPlaces, BufType
<1>3. /\ bufList' \in Seq(Buf!Bufs) /\ Once(bufList', Buf!Bufs)
      /\ \A c : Has(bufList', c) <=> Has(bufList, c) \/ c = b
  BY <1>1, <1>2, AppendHas, AppendFacts
<1>4. /\ bufOwn' \in [BufThreads -> [Buf!Bufs -> Nat]]
      /\ \A c \in Buf!Bufs : BufHolds(bufOwn, c) = BufHolds(bufOwn', c) + Same(c, b) /\ BufHolds(bufOwn', c) \in Nat
      /\ \A u \in BufThreads : u # t => bufOwn'[u] = bufOwn[u]
      /\ \A c \in Buf!Bufs : c # b => bufOwn'[t][c] = bufOwn[t][c]
  BY <1>1, <1>2, OwnMinus
<1>5. bufOwn'[t][b] = 0
  BY <1>1, <1>2, ChainFacts DEF BufType
<1>6. BufType' /\ BufOthers(t)
  BY <1>1, <1>2, <1>3, <1>4, BufRigid DEF BufType, BufOthers
<1>7. BufLocal(t)'
  BY <1>1, <1>2 DEF BufLocal, BufBusy
<1>8. BufLocals'
  BY <1>0, <1>1, <1>6, <1>7, BufLocalsStep
<1>9. BufPlaces' /\ \A c \in Buf!Bufs : BufUsed(c)' = BufUsed(c)
  BY <1>1, <1>2, <1>3, <1>6, BufPlacesStep
<1>10. BufOwner'
  <2>1. PICK new \in [Buf!Bufs -> BufOwners] : \A c \in Buf!Bufs : new[c] = IF c \in Buf!Chain(b) THEN <<"list", b>> ELSE o[c]
    <3> DEFINE w == [c \in Buf!Bufs |-> IF c \in Buf!Chain(b) THEN <<"list", b>> ELSE o[c]]
    <3>1. w \in [Buf!Bufs -> BufOwners] /\ \A c \in Buf!Bufs : w[c] = IF c \in Buf!Chain(b) THEN <<"list", b>> ELSE o[c]
      BY <1>1, <1>3 DEF BufOwners
    <3> HIDE DEF w
    <3> QED BY <3>1
  <2>2. b \in Buf!Chain(b) /\ \A c \in Buf!Chain(b) : bufFrags[c] \in Buf!Chain(b) \cup {NULL}
    BY <1>2, ChainFacts
  <2>3. \A c \in Buf!Chain(b) : o[c] = <<"thread", t>>
    <3>1. o[b] = <<"thread", t>>
      BY <1>0, <1>1 DEF BufOwned
    <3> QED BY <1>0, <1>2, <3>1, ChainOwned
  <2>4. \A u \in BufThreads, c \in Buf!Bufs : bufOwn'[u][c] > 0 => new[c] = <<"thread", u>>
    <3> SUFFICES ASSUME NEW u \in BufThreads, NEW c \in Buf!Bufs, bufOwn'[u][c] > 0 PROVE new[c] = <<"thread", u>>
      OBVIOUS
    <3>1. c # b \/ u # t
      BY <1>5
    <3>2. bufOwn[u][c] > 0
      BY <1>4, <3>1
    <3>3. o[c] = <<"thread", u>>
      BY <1>0, <3>2 DEF BufOwned
    <3>4. c \notin Buf!Chain(b)
      BY <1>1, <2>3, <3>1, <3>2, <3>3
    <3> QED BY <2>1, <3>3, <3>4
  <2>5. \A c \in Buf!Bufs : bufFrags[c] # NULL => new[bufFrags[c]] = new[c]
    <3> SUFFICES ASSUME NEW c \in Buf!Bufs, bufFrags[c] # NULL PROVE new[bufFrags[c]] = new[c]
      OBVIOUS
    <3>1. bufFrags[c] \in Buf!Bufs /\ o[bufFrags[c]] = o[c]
      BY <1>0, <1>2 DEF BufOwned, BufType
    <3>2. bufFrags[c] \in Buf!Chain(b) <=> c \in Buf!Chain(b)
      BY <1>1, <2>2
    <3> QED BY <2>1, <3>1, <3>2
  <2>6. \A c \in Buf!Bufs : Has(bufList', c) => new[c] = <<"list", c>>
    BY <1>0, <1>3, <2>1, <2>2, <2>3 DEF BufOwned
  <2>7. \A u \in BufThreads : bufPc[u] \in BufBusy => new[bufCur[u]] = <<"thread", u>>
    <3> SUFFICES ASSUME NEW u \in BufThreads, bufPc[u] \in BufBusy PROVE new[bufCur[u]] = <<"thread", u>>
      OBVIOUS
    <3>1. u # t /\ bufCur[u] \in Buf!Bufs /\ o[bufCur[u]] = <<"thread", u>>
      BY <1>0, <1>1, BusyIsUsed DEF BufBusy, BufOwned
    <3> QED BY <2>1, <2>3, <3>1
  <2>8. BufOwned(new)'
    BY <1>1, <2>4, <2>5, <2>6, <2>7, BufRigid DEF BufOwned, Has
  <2>9. BufOwners' = BufOwners
    BY BufRigid DEF BufOwners
  <2> QED BY <2>1, <2>8, <2>9, BufRigid DEF BufOwner
<1>11. ASSUME NEW c \in Buf!Bufs PROVE BufSum(c)' = BufSum(c)
  <2>1. BufGiven(BufTarget', c) = BufGiven(BufTarget, c) /\ bufFrags' = bufFrags
    BY <1>1 DEF BufTarget
  <2>2. In(bufList', c) = In(bufList, c) + Same(c, b) /\ Same(c, b) \in Int
    BY <1>1, <1>3 DEF In, Same
  <2> QED BY ONLY BufInv, c \in Buf!Bufs, <1>4, <2>1, <2>2, BufSums, BufSumNext
<1>12. ASSUME NEW c \in Buf!Bufs PROVE BufSum(c)' = IF BufUsed(c)' THEN bufRef'[c] ELSE 0
  BY <1>1, <1>9, <1>11, BufSums
<1>13. BufRefs'
  BY <1>6, <1>9, <1>12, BufRefsStep
<1>14. Buf!ChainEnds'
  BY <1>1, EndsCut DEF BufInv
<1> QED BY <1>6, <1>8, <1>9, <1>10, <1>13, <1>14 DEF BufInv

(* and then the thread that gets it.                                       *)
LEMMA BufGet ==
  ASSUME BufInv, NEW t \in BufThreads, Buf!bt_buf_slist_get(t)
  PROVE  BufInv'
<1> DEFINE h == Head(bufList)
<1>0. PICK o \in [Buf!Bufs -> BufOwners] : BufOwned(o)
  BY DEF BufInv, BufOwner
<1>1. /\ bufPc[t] = "idle" /\ bufList # <<>>
      /\ bufList' = Tail(bufList) /\ bufOwn' = [bufOwn EXCEPT ![t][h] = @ + 1]
      /\ UNCHANGED <<bufUninit, bufFree, bufRef, bufFrags, bufPc, bufCall, bufCur, bufVal, bufRest>>
  BY DEF Buf!bt_buf_slist_get, Buf!bufVars, Buf!locals
<1>2. BufType /\ BufLocal(t) /\ Once(bufList, Buf!Bufs) /\ bufList \in Seq(Buf!Bufs)
      /\ \A c \in Buf!Bufs : BufFresh(c) => bufFrags[c] = NULL
  BY DEF BufInv, BufLocals, BufPlaces, BufType
<1>3. /\ bufList' \in Seq(Buf!Bufs) /\ Once(bufList', Buf!Bufs) /\ h \in Buf!Bufs
      /\ \A c \in Buf!Bufs : Has(bufList', c) <=> Has(bufList, c) /\ c # h
  BY <1>1, <1>2, TailHas
<1>4. Has(bufList, h)
  <2>1. 1 \in 1..Len(bufList) /\ h = bufList[1]
    BY <1>1, <1>2, EmptySeq, LenProperties, HeadTailProperties
  <2> QED BY <2>1 DEF Has
<1> HIDE DEF h
<1>5. /\ bufOwn' \in [BufThreads -> [Buf!Bufs -> Nat]]
      /\ \A c \in Buf!Bufs : BufHolds(bufOwn', c) = BufHolds(bufOwn, c) + Same(c, h) /\ BufHolds(bufOwn, c) \in Nat
      /\ \A u \in BufThreads : u # t => bufOwn'[u] = bufOwn[u]
      /\ \A c \in Buf!Bufs : c # h => bufOwn'[t][c] = bufOwn[t][c]
  BY <1>1, <1>2, <1>3, OwnPlus
<1>6. BufType' /\ BufOthers(t)
  BY <1>1, <1>2, <1>3, <1>5, BufRigid DEF BufType, BufOthers
<1>7. BufLocal(t)'
  BY <1>1, <1>2 DEF BufLocal, BufBusy
<1>8. BufLocals'
  BY <1>0, <1>1, <1>6, <1>7, BufLocalsStep
<1>9. BufPlaces' /\ \A c \in Buf!Bufs : BufUsed(c)' = BufUsed(c)
  BY <1>1, <1>2, <1>3, <1>6, BufPlacesStep
<1>10. BufOwner'
  <2>1. PICK new \in [Buf!Bufs -> BufOwners] : \A c \in Buf!Bufs : new[c] = IF o[c] = <<"list", h>> THEN <<"thread", t>> ELSE o[c]
    <3> DEFINE w == [c \in Buf!Bufs |-> IF o[c] = <<"list", h>> THEN <<"thread", t>> ELSE o[c]]
    <3>1. w \in [Buf!Bufs -> BufOwners] /\ \A c \in Buf!Bufs : w[c] = IF o[c] = <<"list", h>> THEN <<"thread", t>> ELSE o[c]
      BY <1>1, <1>3 DEF BufOwners
    <3> HIDE DEF w
    <3> QED BY <3>1
  <2>2. o[h] = <<"list", h>>
    BY <1>0, <1>3, <1>4 DEF BufOwned
  <2>3. \A u \in BufThreads, c \in Buf!Bufs : bufOwn'[u][c] > 0 => new[c] = <<"thread", u>>
    <3> SUFFICES ASSUME NEW u \in BufThreads, NEW c \in Buf!Bufs, bufOwn'[u][c] > 0 PROVE new[c] = <<"thread", u>>
      OBVIOUS
    <3>1. CASE u = t /\ c = h
      BY <2>1, <2>2, <3>1
    <3>2. CASE ~(u = t /\ c = h)
      <4>1. bufOwn[u][c] > 0
        BY <1>5, <3>2
      <4>2. o[c] = <<"thread", u>>
        BY <1>0, <4>1 DEF BufOwned
      <4> QED BY <2>1, <4>2
    <3> QED BY <3>1, <3>2
  <2>4. \A c \in Buf!Bufs : bufFrags[c] # NULL => new[bufFrags[c]] = new[c]
    <3>1. \A c \in Buf!Bufs : bufFrags[c] # NULL => bufFrags[c] \in Buf!Bufs /\ o[bufFrags[c]] = o[c]
      BY <1>0, <1>2 DEF BufOwned, BufType
    <3> QED BY ONLY <2>1, <3>1
  <2>5. \A c \in Buf!Bufs : Has(bufList', c) => new[c] = <<"list", c>>
    BY <1>0, <1>3, <2>1 DEF BufOwned
  <2>6. \A u \in BufThreads : bufPc[u] \in BufBusy => new[bufCur[u]] = <<"thread", u>>
    BY <1>0, <2>1, BusyIsUsed DEF BufOwned
  <2>8. BufOwned(new)'
    BY <1>1, <2>3, <2>4, <2>5, <2>6, BufRigid DEF BufOwned, Has
  <2>9. BufOwners' = BufOwners
    BY BufRigid DEF BufOwners
  <2> QED BY <2>1, <2>8, <2>9, BufRigid DEF BufOwner
<1>11. ASSUME NEW c \in Buf!Bufs PROVE BufSum(c)' = BufSum(c)
  <2>1. BufGiven(BufTarget', c) = BufGiven(BufTarget, c) /\ bufFrags' = bufFrags
    BY <1>1 DEF BufTarget
  <2>2. In(bufList', c) = In(bufList, c) - Same(c, h) /\ Same(c, h) \in Int
    BY <1>3, <1>4 DEF In, Same
  <2> QED BY ONLY BufInv, c \in Buf!Bufs, <1>5, <2>1, <2>2, BufSums, BufSumNext
<1>12. ASSUME NEW c \in Buf!Bufs PROVE BufSum(c)' = IF BufUsed(c)' THEN bufRef'[c] ELSE 0
  BY <1>1, <1>9, <1>11, BufSums
<1>13. BufRefs'
  BY <1>6, <1>9, <1>12, BufRefsStep
<1>14. Buf!ChainEnds'
  BY <1>1, EndsCut DEF BufInv
<1> QED BY <1>6, <1>8, <1>9, <1>10, <1>13, <1>14 DEF BufInv

-----------------------------------------------------------------------------
(* The invariant holds at first, through every step, and through those of  *)
(* other parts.                                                            *)
LEMMA BufInit == Buf!Init => BufInv
<1> SUFFICES ASSUME Buf!Init PROVE BufInv
  OBVIOUS
<1>1. BufType
  <2>1. Buf!NoCall \in [kind : BufKinds, src : Buf!Bufs \cup {NULL}, how : BufTimeouts \cup {"nowait"}]
    BY DEF Buf!NoCall, BufKinds
  <2> QED BY <2>1, BufsFacts DEF Buf!Init, BufType
<1>2. /\ \A b \in Buf!Bufs : bufFrags[b] = NULL /\ ~Has(bufList, b) /\ ~Has(bufFree, b) /\ BufNever(b)
      /\ \A t \in BufThreads : bufPc[t] = "idle" /\ bufRest[t] = NULL /\ \A b \in Buf!Bufs : bufOwn[t][b] = 0
      /\ Once(bufFree, Buf!Bufs) /\ Once(bufList, Buf!Bufs)
  BY BufsFacts DEF Buf!Init, Has, Once, BufNever
<1>3. BufLocals
  BY <1>2 DEF BufLocals, BufLocal, BufBusy
<1>4. \A b \in Buf!Bufs : BufFresh(b) /\ ~BufDying(b) /\ ~BufUsed(b)
  BY <1>2 DEF BufFresh, BufDying, BufUsed
<1>5. BufPlaces
  BY <1>2, <1>4 DEF BufPlaces
<1>6. BufOwner
  <2>1. PICK o \in [Buf!Bufs -> BufOwners] : \A b \in Buf!Bufs : o[b] = <<"list", b>>
    <3> DEFINE w == [b \in Buf!Bufs |-> <<"list", b>>]
    <3>1. w \in [Buf!Bufs -> BufOwners] /\ \A b \in Buf!Bufs : w[b] = <<"list", b>>
      BY DEF BufOwners
    <3> HIDE DEF w
    <3> QED BY <3>1
  <2>2. BufOwned(o)
    BY <1>2, <2>1 DEF BufOwned, BufBusy
  <2> QED BY <2>1, <2>2 DEF BufOwner
<1>7. ASSUME NEW b \in Buf!Bufs PROVE Buf!References(b) = 0
  <2>1. BufHeld(bufOwn, b) = {}
    <3>1. \A t \in BufThreads : {t} \X (1..bufOwn[t][b]) = {}
      BY <1>2
    <3> QED BY <3>1 DEF BufHeld
  <2>2. Pre(Buf!Bufs, bufFrags, b) = {}
    BY <1>2, BufsFacts DEF Pre
  <2>3. Pre(BufThreads, BufTarget, b) = {}
    BY <1>2, BufsFacts DEF Pre, BufTarget
  <2>4. BufSum(b) = 0
    BY <1>2, <2>1, <2>2, <2>3, FS_EmptySet DEF BufSum, BufHolds, BufFollows, BufGiven, In
  <2> QED BY <1>1, <1>2, <2>4, BufReferences DEF BufType
<1>8. BufRefs
  BY <1>4, <1>7 DEF BufRefs
<1>9. Buf!ChainEnds
  BY <1>2, BufsFacts DEF Buf!ChainEnds
<1> QED BY <1>1, <1>3, <1>5, <1>6, <1>8, <1>9 DEF BufInv

LEMMA BufNext == ~Shares /\ ~Headless /\ BufInv /\ Buf!Next => BufInv'
<1> SUFFICES ASSUME ~Shares, ~Headless, BufInv, Buf!Next PROVE BufInv'
  OBVIOUS
<1> PICK t \in BufThreads :
    \/ \E how \in BufTimeouts :
         \/ \E kind \in {"alloc", "data"} : Buf!CallAlloc(t, kind, NULL, how)
         \/ \E kind \in {"clone", "append"}, b \in Buf!Bufs : Buf!CallAlloc(t, kind, b, how)
    \/ Buf!bt_buf_alloc_len(t) \/ Buf!GetFree(t)
    \/ Buf!RefStore(t) \/ Buf!UnrefLoad(t) \/ Buf!UnrefStore(t) \/ Buf!bt_buf_destroy(t)
    \/ \E b \in Buf!Bufs : Buf!bt_buf_ref(t, b) \/ Buf!bt_buf_unref(t, b) \/ Buf!bt_buf_slist_put(t, b)
    \/ \E b, c \in Buf!Bufs : Buf!bt_buf_frag_insert(t, b, c)
    \/ \E b \in Buf!Bufs \cup {NULL}, c \in Buf!Bufs : Buf!bt_buf_frag_add(t, b, c) \/ Buf!bt_buf_frag_del(t, b, c)
    \/ Buf!bt_buf_slist_get(t)
  BY DEF Buf!Next
<1>1. ASSUME NEW how \in BufTimeouts, NEW kind \in BufKinds, NEW src \in Buf!Bufs \cup {NULL},
             Buf!CallAlloc(t, kind, src, how)
      PROVE  BufInv'
  BY <1>1, BufCallAlloc
<1>2. {"alloc", "data"} \subseteq BufKinds /\ {"clone", "append"} \subseteq BufKinds
  BY DEF BufKinds
<1>3. CASE Buf!bt_buf_alloc_len(t) \/ Buf!GetFree(t)
  BY <1>3, BufAlloc, BufGetFree
<1>4. CASE Buf!RefStore(t) \/ Buf!UnrefLoad(t) \/ Buf!UnrefStore(t) \/ Buf!bt_buf_destroy(t)
  BY <1>4, BufRefStore, BufUnrefLoad, BufUnrefStore, BufDestroy
<1>5. ASSUME NEW b \in Buf!Bufs, Buf!bt_buf_ref(t, b) \/ Buf!bt_buf_unref(t, b) \/ Buf!bt_buf_slist_put(t, b)
      PROVE  BufInv'
  BY <1>5, BufRef, BufUnref, BufPut
<1>6. ASSUME NEW b \in Buf!Bufs, NEW c \in Buf!Bufs, Buf!bt_buf_frag_insert(t, b, c) PROVE BufInv'
  BY <1>6, BufFragInsert
<1>7. ASSUME NEW b \in Buf!Bufs \cup {NULL}, NEW c \in Buf!Bufs,
             Buf!bt_buf_frag_add(t, b, c) \/ Buf!bt_buf_frag_del(t, b, c)
      PROVE  BufInv'
  BY <1>7, BufFragAdd, BufFragDel
<1>8. CASE Buf!bt_buf_slist_get(t)
  BY <1>8, BufGet
<1> QED BY <1>1, <1>2, <1>3, <1>4, <1>5, <1>6, <1>7, <1>8

LEMMA BufStutter ==
  ASSUME BufInv, UNCHANGED bufVars
  PROVE  BufInv'
<1>1. UNCHANGED <<bufUninit, bufFree, bufRef, bufFrags, bufList, bufPc, bufCall, bufCur, bufVal, bufRest, bufOwn>>
  BY DEF bufVars
<1>2. BufType'
  BY <1>1, BufRigid DEF BufInv, BufType
<1>3. BufLocals'
  BY <1>1, BufRigid DEF BufInv, BufLocals, BufLocal
<1>4. \A b : (BufNever(b)' <=> BufNever(b)) /\ (BufFresh(b)' <=> BufFresh(b)) /\ (BufDying(b)' <=> BufDying(b))
             /\ (BufUsed(b)' <=> BufUsed(b))
  BY <1>1 DEF BufNever, BufFresh, BufDying, BufUsed, Has
<1>5. BufPlaces'
  BY <1>1, <1>4, BufRigid DEF BufInv, BufPlaces, Once, Has
<1>6. BufOwner'
  <2>1. PICK o \in [Buf!Bufs -> BufOwners] : BufOwned(o)
    BY DEF BufInv, BufOwner
  <2>2. BufOwned(o)'
    BY <1>1, <2>1, BufRigid DEF BufOwned, Has
  <2>3. BufOwners' = BufOwners
    BY BufRigid DEF BufOwners
  <2> QED BY <2>1, <2>2, <2>3, BufRigid DEF BufOwner
<1>7. \A b \in Buf!Bufs : BufSum(b)' = BufSum(b)
  BY <1>1, BufSumNext DEF BufSum, BufTarget
<1>8. BufRefs'
  <2>1. \A b \in Buf!Bufs : BufSum(b)' = IF BufUsed(b)' THEN bufRef'[b] ELSE 0
    BY <1>1, <1>4, <1>7, BufSums
  <2> QED BY <1>2, <1>5, <2>1, BufRefsStep
<1>9. Buf!ChainEnds'
  BY <1>1, EndsCut DEF BufInv
<1> QED BY <1>2, <1>3, <1>5, <1>6, <1>8, <1>9 DEF BufInv

(* What the invariant says of the buffers.                                 *)
LEMMA BufMeans == BufInv => Buf!BufsExact /\ Buf!NoDoubleFree
<1> SUFFICES ASSUME BufInv PROVE Buf!BufsExact /\ Buf!NoDoubleFree
  OBVIOUS
<1>1. BufType /\ BufPlaces /\ BufRefs /\ Buf!ChainEnds
  BY DEF BufInv
<1>2. ASSUME NEW b \in Buf!Bufs
      PROVE  /\ b \in Buf!NeverUsed <=> BufNever(b)
             /\ b \in Buf!Destroyed <=> BufDying(b)
             /\ b \in Buf!Freed <=> Has(bufFree, b)
             /\ b \in Buf!InUse <=> BufUsed(b)
  <2>1. b \in Buf!NeverUsed <=> BufNever(b)
    BY DEF Buf!NeverUsed, BufNever
  <2>2. b \in Buf!Destroyed <=> BufDying(b)
    BY DEF Buf!Destroyed, BufDying
  <2>3. b \in Buf!Freed <=> Has(bufFree, b)
    BY DEF Buf!Freed, Buf!Positions, Has
  <2> QED BY <2>1, <2>2, <2>3 DEF Buf!InUse, BufUsed, BufFresh
<1>3. Buf!RefExact
  BY <1>1, <1>2 DEF Buf!RefExact, BufRefs, Buf!InUse
<1>4. Buf!OnePlace
  <2>1. Buf!NeverUsed \cap (Buf!Destroyed \cup Buf!Freed) = {} /\ Buf!Destroyed \cap Buf!Freed = {}
    BY <1>1, <1>2 DEF BufPlaces, BufFresh, Buf!NeverUsed, Buf!Destroyed, Buf!Freed
  <2>2. ASSUME NEW b \in Buf!Bufs
        PROVE  /\ Buf!Cardinality(Buf!Positions(bufFree, b)) <= 1
               /\ Buf!Cardinality({t \in BufThreads : bufPc[t] = "destroy" /\ bufCur[t] = b}) <= 1
               /\ b \notin Buf!InUse => Buf!References(b) = 0
    <3>1. Cardinality({i \in 1..Len(bufFree) : bufFree[i] = b}) <= 1
      <4>1. bufFree \in Seq(Buf!Bufs) /\ Once(bufFree, Buf!Bufs)
        BY <1>1 DEF BufType, BufPlaces
      <4>2. In(bufFree, b) <= 1
        BY DEF In
      <4> QED BY <4>1, <4>2, PositionsFacts
    <3> DEFINE D == {t \in BufThreads : bufPc[t] = "destroy" /\ bufCur[t] = b}
    <3>2. \A t, u \in D : t = u
      BY <1>1 DEF BufPlaces
    <3> HIDE DEF D
    <3>3. Cardinality(D) <= 1
      BY <3>2, AtMostOne
    <3> USE DEF D
    <3> QED BY <1>1, <1>2, <3>1, <3>3, BufLibrary DEF BufRefs, Buf!Positions
  <2> QED BY <2>1, <2>2 DEF Buf!OnePlace
<1>5. Buf!NoDoubleFree
  BY <1>1 DEF Buf!NoDoubleFree, BufType, BufBusy
<1> QED BY <1>1, <1>3, <1>4, <1>5 DEF Buf!BufsExact

(* However many buffers the pool has and however many threads use it: as   *)
(* long as no two threads have references of one buffer and nobody calls   *)
(* bt_buf_frag_add without a head, which keeps a reference too many, the   *)
(* count of a buffer is the number of its references, every buffer is in one place,   *)
(* every chain of fragments ends, and bt_buf_unref meets no count of zero. *)
THEOREM BuffersCounted ==
  ASSUME ~Shares, ~Headless
  PROVE  BaseSpec => [](BufsExact /\ (part = "buf" => Buf!NoDoubleFree))
<1> DEFINE Inv == part = "buf" => BufInv
<1>1. BaseInit => Inv
  BY BufInit DEF BaseInit
<1>2. Inv /\ [BaseNext]_<<part, vars, poolVars, pollVars, bufVars>> => Inv'
  <2> SUFFICES ASSUME Inv, [BaseNext]_<<part, vars, poolVars, pollVars, bufVars>>, part' = "buf"
               PROVE  BufInv'
    OBVIOUS
  <2>1. part = "buf" /\ BufInv
    BY DEF BaseNext
  <2>2. Buf!Next \/ UNCHANGED bufVars
    BY <2>1 DEF BaseNext
  <2> QED BY <2>1, <2>2, BufNext, BufStutter
<1>3. Inv => BufsExact /\ (part = "buf" => Buf!NoDoubleFree)
  BY BufMeans DEF BufsExact
<1> QED BY <1>1, <1>2, <1>3, PTL DEF BaseSpec
-----------------------------------------------------------------------------
(* base/queue/bt_queue.c.                                                  *)
(* The library's operators are the same in the instance as here.           *)
LEMMA QueueOps ==
  /\ \A S : Queue!Cardinality(S) = Cardinality(S) /\ (Queue!IsFiniteSet(S) <=> IsFiniteSet(S))
  /\ \A e, s : Queue!Cons(e, s) = Cons(e, s) /\ Queue!RemoveAt(s, e) = RemoveAt(s, e)
BY DEF Queue!Cardinality, Cardinality, Queue!IsFiniteSet, IsFiniteSet, Queue!Cons, Cons,
       Queue!RemoveAt, RemoveAt

LEMMA ConstantsFacts ==
  ASSUME Queue!ConstantsOK
  PROVE  IsFiniteSet(Threads) /\ Timeout \in Nat /\ Timeout > 0
BY QueueOps DEF Queue!ConstantsOK

QInv == Queue!TypeOK /\ Queue!NodeOnce /\ Queue!NoStrandedWaiter

(* What moving one thread does to the places of all.                       *)
LEMMA Move ==
  ASSUME Queue!ConstantsOK,
         Queue!TypeOK, NEW t \in Threads, NEW place \in {"idle", "blocked", "woken", "timedout"},
         where' = [where EXCEPT ![t] = place]
  PROVE  \A q \in {"idle", "blocked", "woken", "timedout"} :
           Queue!At(q)' = IF q = place THEN Queue!At(q) \cup {t} ELSE Queue!At(q) \ {t}
BY DEF Queue!TypeOK, Queue!At

(* The threads on their way back are finitely many.                        *)
LEMMA ReturningFinite ==
  ASSUME Queue!ConstantsOK
  PROVE  IsFiniteSet(Queue!Returning) /\ Cardinality(Queue!Returning) \in Nat
<1>1. Queue!Returning \in SUBSET Threads
  BY DEF Queue!Returning, Queue!At
<1> QED BY <1>1, ConstantsFacts, FS_Subset, FS_CardinalityType

(* os_cond_signal adds a thread to those on their way, if any is blocked.  *)
LEMMA SignalFacts ==
  ASSUME Queue!ConstantsOK, Queue!TypeOK, Queue!os_cond_signal
  PROVE  /\ where' \in [Threads -> {"idle", "blocked", "woken", "timedout"}]
         /\ \A t \in Threads : where'[t] = "idle" <=> where[t] = "idle"
         /\ Queue!At("blocked")' # {} =>
              Queue!At("blocked") # {} /\ Cardinality(Queue!Returning') = Cardinality(Queue!Returning) + 1
<1>1. CASE Queue!At("blocked") = {}
  BY <1>1 DEF Queue!os_cond_signal, Queue!At, Queue!TypeOK
<1>2. CASE Queue!At("blocked") # {}
  <2>1. PICK t \in Queue!At("blocked") : where' = [where EXCEPT ![t] = "woken"]
    BY <1>2 DEF Queue!os_cond_signal
  <2>2. t \in Threads /\ where[t] = "blocked" /\ t \notin Queue!Returning
    BY <2>1 DEF Queue!At, Queue!Returning
  <2>3. Queue!Returning' = Queue!Returning \cup {t}
    BY <2>1, <2>2, Move DEF Queue!Returning
  <2>4. Cardinality(Queue!Returning') = Cardinality(Queue!Returning) + 1
    BY <2>2, <2>3, ReturningFinite, FS_AddElement
  <2> QED BY <1>2, <2>1, <2>2, <2>4 DEF Queue!TypeOK
<1> QED BY <1>1, <1>2

(* Adding a node at either end and signalling.                             *)
LEMMA AddStep ==
  ASSUME Queue!ConstantsOK, QInv, NEW n \in QueueNodes, ~Queue!Listed(n), Queue!os_cond_signal,
         queue' = Append(queue, n) \/ queue' = Cons(n, queue),
         UNCHANGED <<Queue!timingVars, got>>, cancelled' \subseteq Threads
  PROVE  QInv'
<1>0. Len(queue) \in Nat /\ queue \in Seq(QueueNodes)
  BY LenProperties DEF QInv, Queue!TypeOK
<1>c. /\ Cons(n, queue) \in Seq(QueueNodes) /\ Len(Cons(n, queue)) = Len(queue) + 1
      /\ \A j \in 1..(Len(queue) + 1) : Cons(n, queue)[j] = IF j = 1 THEN n ELSE queue[j - 1]
  BY <1>0, ConsFacts, ZenonT(30)
<1>1. queue' \in Seq(QueueNodes) /\ Len(queue') = Len(queue) + 1
  <2>1. CASE queue' = Append(queue, n)
    BY <2>1, <1>0, AppendFacts
  <2>2. CASE queue' = Cons(n, queue)
    BY <2>2, <1>c
  <2> QED BY <2>1, <2>2
<1>2. Queue!NodeOnce'
  <2>1. CASE queue' = Append(queue, n)
    BY <2>1, <1>0, AppendFacts DEF QInv, Queue!NodeOnce, Queue!Listed
  <2>2. CASE queue' = Cons(n, queue)
    <3>1. /\ Len(queue') = Len(queue) + 1
          /\ \A j \in 1..(Len(queue) + 1) : queue'[j] = IF j = 1 THEN n ELSE queue[j - 1]
      BY <2>2, <1>c
    <3>2. \A j \in 1..Len(queue') : j # 1 =>
            j - 1 \in 1..Len(queue) /\ queue'[j] = queue[j - 1] /\ queue'[j] # n
      BY <3>1, <1>0 DEF Queue!Listed
    <3>3. queue'[1] = n
      BY <3>1, <1>0
    <3>4. ASSUME NEW i \in 1..Len(queue'), NEW j \in 1..Len(queue'), queue'[i] = queue'[j]
          PROVE  i = j
      <4>1. CASE i = 1 \/ j = 1
        BY <4>1, <3>2, <3>3, <3>4
      <4>2. CASE i # 1 /\ j # 1
        <5>1. i - 1 = j - 1
          BY <4>2, <3>2, <3>4 DEF QInv, Queue!NodeOnce
        <5> QED BY <5>1, <1>0, <3>1
      <4> QED BY <4>1, <4>2
    <3> QED BY <3>4 DEF Queue!NodeOnce
  <2> QED BY <2>1, <2>2
<1>3. Queue!TypeOK'
  BY <1>1, SignalFacts DEF QInv, Queue!TypeOK, Queue!timingVars
<1>4. Queue!NoStrandedWaiter'
  BY QueueOps, <1>0, <1>1, SignalFacts, ReturningFinite DEF QInv, Queue!NoStrandedWaiter
<1> QED BY <1>2, <1>3, <1>4 DEF QInv

(* Removing an element keeps a list without repetitions so.                *)
LEMMA RemoveOnce ==
  ASSUME Queue!ConstantsOK, QInv, NEW i \in 1..Len(queue), queue' = RemoveAt(queue, i)
 
      PROVE  queue' \in Seq(QueueNodes) /\ Len(queue') = Len(queue) - 1 /\ Len(queue) \in Nat /\ Queue!NodeOnce'
<1> DEFINE old(j) == IF j < i THEN j ELSE j + 1
<1>0. Len(queue) \in Nat /\ queue \in Seq(QueueNodes)
  BY LenProperties DEF QInv, Queue!TypeOK
<1>1. /\ queue' \in Seq(QueueNodes) /\ Len(queue') = Len(queue) - 1
      /\ \A j \in 1..(Len(queue) - 1) : queue'[j] = queue[old(j)]
  BY <1>0, RemoveAtFacts
<1>2. \A j \in 1..(Len(queue) - 1) : old(j) \in 1..Len(queue)
  BY <1>0
<1>3. ASSUME NEW j \in 1..Len(queue'), NEW k \in 1..Len(queue'), queue'[j] = queue'[k]
      PROVE  j = k
  <2> HIDE DEF old
  <2>1. old(j) = old(k)
    BY <1>1, <1>2, <1>3 DEF QInv, Queue!NodeOnce
  <2> QED BY <2>1, <1>0, <1>1 DEF old
<1> QED BY <1>0, <1>1, <1>3 DEF Queue!NodeOnce

(* Taking the head, likewise.                                              *)
LEMMA TailOnce ==
  ASSUME Queue!ConstantsOK, QInv, queue # <<>>, queue' = Tail(queue)
 
      PROVE  /\ queue' \in Seq(QueueNodes) /\ Len(queue') = Len(queue) - 1 /\ Len(queue) \in Nat /\ Queue!NodeOnce'
         /\ Head(queue) \in QueueNodes
<1>0. Len(queue) \in Nat /\ Len(queue) # 0 /\ queue \in Seq(QueueNodes)
  BY LenProperties, EmptySeq DEF QInv, Queue!TypeOK
<1>1. /\ queue' \in Seq(QueueNodes) /\ Len(queue') = Len(queue) - 1 /\ Head(queue) \in QueueNodes
      /\ \A j \in 1..(Len(queue) - 1) : queue'[j] = queue[j + 1]
  BY <1>0, HeadTailProperties
<1>2. ASSUME NEW j \in 1..Len(queue'), NEW k \in 1..Len(queue'), queue'[j] = queue'[k]
      PROVE  j = k
  <2>1. j + 1 \in 1..Len(queue) /\ k + 1 \in 1..Len(queue)
    BY <1>0, <1>1
  <2>2. j + 1 = k + 1
    BY <1>1, <1>2, <2>1 DEF QInv, Queue!NodeOnce
  <2> QED BY <2>2, <1>0, <1>1
<1> QED BY <1>0, <1>1, <1>2 DEF Queue!NodeOnce

(* Returning from bt_queue_get: of a thread that was on its way back, or   *)
(* of one that never waited.                                               *)
LEMMA ReturnStep ==
  ASSUME Queue!ConstantsOK, QInv, NEW t \in Threads, Queue!Return(t), where[t] # "blocked"
  PROVE  QInv'
<1>1. /\ queue' \in Seq(QueueNodes) /\ Len(queue) \in Nat /\ Queue!NodeOnce'
      /\ Len(queue') = IF queue = <<>> THEN 0 ELSE Len(queue) - 1
      /\ got' \in [Threads -> QueueNodes \cup {NoNode}]
  <2>1. CASE queue = <<>>
    BY <2>1, EmptySeq DEF QInv, Queue!TypeOK, Queue!NodeOnce, Queue!Return
  <2>2. CASE queue # <<>>
    BY <2>2, TailOnce DEF QInv, Queue!TypeOK, Queue!Return
  <2> QED BY <2>1, <2>2
<1>2. Queue!TypeOK'
  BY <1>1, ConstantsFacts DEF QInv, Queue!TypeOK, Queue!Return
<1>3. Queue!At("blocked")' = Queue!At("blocked") /\ Queue!Returning' = Queue!Returning \ {t}
  BY Move DEF QInv, Queue!Return, Queue!Returning, Queue!At
<1>4. Cardinality(Queue!Returning') >= Cardinality(Queue!Returning) - 1 /\ Cardinality(Queue!Returning') \in Nat
  <2>1. /\ IsFiniteSet(Queue!Returning \ {t})
        /\ Cardinality(Queue!Returning \ {t}) =
             IF t \in Queue!Returning THEN Cardinality(Queue!Returning) - 1 ELSE Cardinality(Queue!Returning)
    BY ReturningFinite, FS_RemoveElement
  <2>2. Cardinality(Queue!Returning \ {t}) \in Nat
    BY <2>1, FS_CardinalityType
  <2> QED BY <1>3, <2>1, <2>2, ReturningFinite
<1>5. Queue!NoStrandedWaiter'
  BY QueueOps, <1>1, <1>3, <1>4, ReturningFinite DEF QInv, Queue!NoStrandedWaiter
<1> QED BY <1>1, <1>2, <1>5 DEF QInv

(* Waiting, with an empty list.                                            *)
LEMMA WaitStep ==
  ASSUME Queue!ConstantsOK,
         QInv, NEW t \in Threads, Queue!os_cond_wait(t), queue = <<>>, UNCHANGED elapsed,
         mode' \in [Threads -> {"forever", "timed"}]
  PROVE  QInv'
<1>1. queue' = <<>> /\ Queue!NodeOnce'
  BY DEF QInv, Queue!NodeOnce, Queue!os_cond_wait
<1>t. Queue!TypeOK'
  <2>1. waited' \in [Threads -> 0..Timeout]
    BY ConstantsFacts DEF QInv, Queue!TypeOK, Queue!os_cond_wait
  <2> QED BY <2>1 DEF QInv, Queue!TypeOK, Queue!os_cond_wait
<1>2. Queue!Returning' = Queue!Returning \ {t}
  BY Move DEF QInv, Queue!os_cond_wait, Queue!Returning
<1>3. Cardinality(Queue!Returning') \in Nat
  BY <1>2, ReturningFinite, FS_RemoveElement, FS_CardinalityType
<1> QED BY QueueOps, <1>1, <1>t, <1>3, EmptySeq DEF QInv, Queue!NoStrandedWaiter

(* A blocked thread starts on its way back.                                *)
LEMMA WakeStep ==
  ASSUME Queue!ConstantsOK,
         QInv, NEW t \in Threads, where[t] = "blocked", NEW place \in {"woken", "timedout"},
         where' = [where EXCEPT ![t] = place],
         UNCHANGED <<queue, Queue!timingVars, cancelled, got>>
  PROVE  QInv'
<1>1. Queue!TypeOK' /\ Queue!NodeOnce'
  BY DEF QInv, Queue!TypeOK, Queue!NodeOnce, Queue!timingVars
<1>2. Queue!Returning' = Queue!Returning \cup {t} /\ t \notin Queue!Returning /\ Queue!At("blocked")' \subseteq Queue!At("blocked")
  <2>1. /\ Queue!At("blocked")' = Queue!At("blocked") \ {t}
        /\ Queue!At("woken")' = IF place = "woken" THEN Queue!At("woken") \cup {t} ELSE Queue!At("woken") \ {t}
        /\ Queue!At("timedout")' = IF place = "timedout" THEN Queue!At("timedout") \cup {t}
                                                  ELSE Queue!At("timedout") \ {t}
    BY Move DEF QInv
  <2>2. t \notin Queue!At("woken") /\ t \notin Queue!At("timedout")
    BY DEF Queue!At
  <2> QED BY <2>1, <2>2 DEF Queue!Returning
<1>3. Cardinality(Queue!Returning') = Cardinality(Queue!Returning) + 1
  BY <1>2, ReturningFinite, FS_AddElement
<1>4. Len(queue) \in Nat
  BY LenProperties DEF QInv, Queue!TypeOK
<1> QED BY QueueOps, <1>1, <1>2, <1>3, <1>4, ReturningFinite DEF QInv, Queue!NoStrandedWaiter

-----------------------------------------------------------------------------
(* The invariant holds initially.                                          *)
LEMMA QInvInit ==
  ASSUME Queue!ConstantsOK PROVE Queue!Init => QInv
BY QueueOps, EmptySeq, ConstantsFacts
DEF Queue!Init, QInv, Queue!TypeOK, Queue!NodeOnce, Queue!NoStrandedWaiter, Queue!At

(* Every step preserves it.                                                *)
LEMMA QInvNext ==
  ASSUME Queue!ConstantsOK PROVE QInv /\ [Queue!Next]_(Queue!vars) => QInv'
<1> SUFFICES ASSUME QInv, [Queue!Next]_(Queue!vars) PROVE QInv'
  OBVIOUS
<1>1. ASSUME NEW t \in Threads, NEW n \in QueueNodes,
             Queue!bt_queue_append(t, n) \/ Queue!bt_queue_prepend(t, n)
               \/ Queue!bt_queue_unique_append(t, n)
      PROVE  QInv'
  BY QueueOps, <1>1, AddStep
  DEF Queue!bt_queue_append, Queue!bt_queue_prepend, Queue!bt_queue_unique_append, QInv, Queue!TypeOK
<1>2. ASSUME NEW t \in Threads, NEW n \in QueueNodes, Queue!bt_queue_remove(t, n) PROVE QInv'
  <2>1. PICK i \in 1..Len(queue) : queue' = RemoveAt(queue, i)
    BY QueueOps, <1>2 DEF Queue!bt_queue_remove
  <2>2. queue' \in Seq(QueueNodes) /\ Len(queue') = Len(queue) - 1 /\ Len(queue) \in Nat /\ Queue!NodeOnce'
    BY <2>1, RemoveOnce
  <2>3. Queue!TypeOK' /\ UNCHANGED where
    BY QueueOps, <1>2, <2>2 DEF Queue!bt_queue_remove, QInv, Queue!TypeOK, Queue!timingVars
  <2>4. Queue!NoStrandedWaiter'
    BY QueueOps, <2>2, <2>3, ReturningFinite
    DEF QInv, Queue!NoStrandedWaiter, Queue!Returning, Queue!At
  <2> QED BY <2>2, <2>3, <2>4 DEF QInv
<1>3. ASSUME NEW t \in Threads, Queue!bt_queue_cancel_wait(t) PROVE QInv'
  <2>1. Queue!TypeOK' /\ Queue!NodeOnce' /\ UNCHANGED queue
    BY <1>3, SignalFacts
    DEF Queue!bt_queue_cancel_wait, QInv, Queue!TypeOK, Queue!NodeOnce, Queue!timingVars
  <2>2. Len(queue) \in Nat
    BY LenProperties DEF QInv, Queue!TypeOK
  <2>3. Queue!NoStrandedWaiter'
    BY QueueOps, <1>3, <2>1, <2>2, SignalFacts, ReturningFinite
    DEF Queue!bt_queue_cancel_wait, QInv, Queue!NoStrandedWaiter
  <2> QED BY <2>1, <2>3 DEF QInv
<1>4. ASSUME NEW t \in Threads, NEW how \in {"nowait", "forever", "timed"}, Queue!bt_queue_get(t, how)
      PROVE  QInv'
  <2>1. CASE Queue!Return(t)
    BY <1>4, <2>1, ReturnStep DEF Queue!bt_queue_get, Queue!Call
  <2>2. CASE queue = <<>> /\ how # "nowait" /\ Queue!os_cond_wait(t)
             /\ mode' = [mode EXCEPT ![t] = how] /\ UNCHANGED elapsed
    <3>1. mode' \in [Threads -> {"forever", "timed"}]
      BY <2>2 DEF QInv, Queue!TypeOK
    <3> QED BY <2>2, <3>1, WaitStep
  <2> QED BY <1>4, <2>1, <2>2 DEF Queue!bt_queue_get
<1>5. ASSUME NEW t \in Threads, Queue!Resume(t) PROVE QInv'
  <2>1. CASE Queue!Return(t)
    BY <1>5, <2>1, ReturnStep DEF Queue!Resume
  <2>2. CASE queue = <<>> /\ Queue!os_cond_wait(t) /\ UNCHANGED <<mode, elapsed>>
    BY <2>2, WaitStep DEF QInv, Queue!TypeOK
  <2> QED BY <1>5, <2>1, <2>2 DEF Queue!Resume
<1>6. ASSUME NEW t \in Threads, Queue!ResumeTimedOut(t) PROVE QInv'
  BY <1>6, ReturnStep DEF Queue!ResumeTimedOut
<1>7. ASSUME NEW t \in Threads, Queue!Expire(t) \/ Queue!SpuriousWakeup(t) PROVE QInv'
  BY <1>7, WakeStep DEF Queue!Expire, Queue!SpuriousWakeup
<1>8. ASSUME Queue!Tick PROVE QInv'
  <2>1. Queue!TypeOK'
    BY <1>8, ConstantsFacts DEF Queue!Tick, QInv, Queue!TypeOK
  <2> QED BY QueueOps, <1>8, <2>1
    DEF Queue!Tick, QInv, Queue!NodeOnce, Queue!NoStrandedWaiter, Queue!Returning, Queue!At
<1>9. ASSUME UNCHANGED Queue!vars PROVE QInv'
  BY QueueOps, <1>9
  DEF Queue!vars, QInv, Queue!TypeOK, Queue!NodeOnce, Queue!NoStrandedWaiter, Queue!Returning, Queue!At
<1> QED BY <1>1, <1>2, <1>3, <1>4, <1>5, <1>6, <1>7, <1>8, <1>9 DEF Queue!Next

(* Every reachable state satisfies the invariant.                          *)
THEOREM QueueInvariance == QueueSpec => []QInv
<1>1. (Queue!Init => QInv) /\ (QInv /\ [Queue!Next]_(Queue!vars) => QInv')
  BY QueueAssumption, QInvInit, QInvNext
<1> QED BY <1>1, PTL DEF QueueSpec, Queue!Spec

(* While a thread is blocked in bt_queue_get, another one is on its way    *)
(* back for every node in the queue.                                       *)
THEOREM NobodyStranded == QueueSpec => []NoStrandedWaiter
<1>1. QInv => NoStrandedWaiter
  BY DEF QInv, NoStrandedWaiter
<1> QED BY <1>1, QueueInvariance, PTL

(* No node is ever in the queue twice.                                     *)
THEOREM NoNodeTwice == QueueSpec => []Queue!NodeOnce
<1>1. QInv => Queue!NodeOnce
  BY DEF QInv
<1> QED BY <1>1, QueueInvariance, PTL

-----------------------------------------------------------------------------
(* Refinement.  Only a timed get times out.                                *)
TimedOutIsTimed == \A t \in Threads : where[t] = "timedout" => mode[t] = "timed"

(* Expire is the only step that makes a wait time out.                     *)
LEMMA TimedOutInvariance == QueueSpec => []TimedOutIsTimed
<1>1. Queue!Init => TimedOutIsTimed
  BY DEF Queue!Init, TimedOutIsTimed
<1>2. QInv /\ TimedOutIsTimed /\ [Queue!Next]_(Queue!vars) => TimedOutIsTimed'
  <2> SUFFICES ASSUME QInv, TimedOutIsTimed, [Queue!Next]_(Queue!vars) PROVE TimedOutIsTimed'
    OBVIOUS
  <2> USE DEF QInv, Queue!TypeOK, TimedOutIsTimed
  <2>1. ASSUME Queue!os_cond_signal, UNCHANGED mode PROVE TimedOutIsTimed'
    BY <2>1 DEF Queue!os_cond_signal, Queue!At
  <2>2. ASSUME NEW t \in Threads, NEW n \in QueueNodes,
               Queue!bt_queue_append(t, n) \/ Queue!bt_queue_prepend(t, n)
                 \/ Queue!bt_queue_unique_append(t, n)
        PROVE  TimedOutIsTimed'
    BY QueueOps, <2>1, <2>2
    DEF Queue!bt_queue_append, Queue!bt_queue_prepend, Queue!bt_queue_unique_append, Queue!timingVars
  <2>3. ASSUME NEW t \in Threads, Queue!bt_queue_cancel_wait(t) PROVE TimedOutIsTimed'
    BY <2>1, <2>3 DEF Queue!bt_queue_cancel_wait, Queue!timingVars
  <2>4. ASSUME NEW t \in Threads, NEW n \in QueueNodes, Queue!bt_queue_remove(t, n)
      PROVE  TimedOutIsTimed'
    BY QueueOps, <2>4 DEF Queue!bt_queue_remove, Queue!timingVars
  <2>5. ASSUME NEW t \in Threads, NEW how \in {"nowait", "forever", "timed"}, Queue!bt_queue_get(t, how)
        PROVE  TimedOutIsTimed'
    BY <2>5 DEF Queue!bt_queue_get, Queue!Return, Queue!os_cond_wait
  <2>6. ASSUME NEW t \in Threads, Queue!Resume(t) \/ Queue!ResumeTimedOut(t) PROVE TimedOutIsTimed'
    BY <2>6 DEF Queue!Resume, Queue!ResumeTimedOut, Queue!Return, Queue!os_cond_wait
  <2>7. ASSUME NEW t \in Threads, Queue!Expire(t) \/ Queue!SpuriousWakeup(t) PROVE TimedOutIsTimed'
    BY <2>7 DEF Queue!Expire, Queue!SpuriousWakeup, Queue!timingVars
  <2>8. ASSUME Queue!Tick \/ UNCHANGED Queue!vars PROVE TimedOutIsTimed'
    BY <2>8 DEF Queue!Tick, Queue!vars
  <2> QED BY <2>2, <2>3, <2>4, <2>5, <2>6, <2>7, <2>8 DEF Queue!Next
<1> QED BY <1>1, <1>2, QueueInvariance, PTL DEF QueueSpec, Queue!Spec

(* A step that leaves the list, the results and the set of waiting threads *)
(* alone is a step of nothing for the abstract queue.                      *)
LEMMA HiddenStep ==
  ASSUME UNCHANGED <<queue, got, mode>>,
         \A t \in Threads : where'[t] = "idle" <=> where[t] = "idle"
  PROVE  UNCHANGED Queue!Fifo!vars
BY DEF Queue!Fifo!vars, Queue!Inside

(* Returning from bt_queue_get is Take, or GiveUp for an empty list.       *)
LEMMA ReturnRefines ==
  ASSUME Queue!ConstantsOK, QInv, NEW t \in Threads, Queue!Return(t),
         queue = <<>> => Queue!Inside[t] # "forever"
  PROVE  Queue!Fifo!Take(t) \/ Queue!Fifo!GiveUp(t)
<1>1. Queue!Inside' = [Queue!Inside EXCEPT ![t] = "out"]
  BY DEF QInv, Queue!TypeOK, Queue!Return, Queue!Inside
<1>2. CASE queue = <<>>
  BY <1>1, <1>2 DEF Queue!Return, Queue!Fifo!GiveUp
<1>3. CASE queue # <<>>
  BY <1>1, <1>3 DEF Queue!Return, Queue!Fifo!Take
<1> QED BY <1>2, <1>3

(* Every step of the code is a step of the abstract queue or none.         *)
LEMMA StepRefines ==
  ASSUME Queue!ConstantsOK, QInv, TimedOutIsTimed, [Queue!Next]_(Queue!vars)
  PROVE  [Queue!Fifo!Next]_(Queue!Fifo!vars)
<1>1. ASSUME Queue!os_cond_signal, UNCHANGED mode
      PROVE  UNCHANGED Queue!Inside
  BY <1>1, SignalFacts DEF QInv, Queue!Inside
<1>2. ASSUME NEW t \in Threads, NEW n \in QueueNodes,
             Queue!bt_queue_append(t, n) \/ Queue!bt_queue_prepend(t, n)
               \/ Queue!bt_queue_unique_append(t, n)
      PROVE  Queue!Fifo!Next
  <2>1. /\ Queue!os_cond_signal /\ UNCHANGED <<mode, got>> /\ ~Queue!Listed(n)
        /\ queue' = Append(queue, n) \/ queue' = Cons(n, queue)
    BY QueueOps, <1>2
    DEF Queue!bt_queue_append, Queue!bt_queue_prepend, Queue!bt_queue_unique_append, Queue!timingVars
  <2>2. Queue!Fifo!Add(n)
    BY <1>1, <2>1 DEF Queue!Fifo!Add, Queue!Listed, Queue!Fifo!Cons, Cons
  <2> QED BY <2>2 DEF Queue!Fifo!Next
<1>3. ASSUME NEW t \in Threads, Queue!bt_queue_cancel_wait(t) PROVE UNCHANGED Queue!Fifo!vars
  BY <1>1, <1>3 DEF Queue!bt_queue_cancel_wait, Queue!timingVars, Queue!Fifo!vars
<1>4. ASSUME NEW t \in Threads, NEW n \in QueueNodes, Queue!bt_queue_remove(t, n) PROVE Queue!Fifo!Next
  <2>1. PICK i \in 1..Len(queue) : queue' = RemoveAt(queue, i)
    BY QueueOps, <1>4 DEF Queue!bt_queue_remove
  <2>2. UNCHANGED <<Queue!Inside, got>>
    BY QueueOps, <1>4 DEF Queue!bt_queue_remove, Queue!timingVars, Queue!Inside
  <2>3. Queue!Fifo!Withdraw(i)
    BY <2>1, <2>2 DEF Queue!Fifo!Withdraw, Queue!Fifo!RemoveAt, RemoveAt
  <2> QED BY <2>3 DEF Queue!Fifo!Next
<1>5. ASSUME NEW t \in Threads, NEW how \in {"nowait", "forever", "timed"}, Queue!bt_queue_get(t, how)
      PROVE  Queue!Fifo!Next
  <2>0. Queue!Inside[t] = "out"
    BY <1>5 DEF Queue!bt_queue_get, Queue!Call, Queue!Inside
  <2>1. CASE Queue!Return(t)
    BY <2>0, <2>1, ReturnRefines DEF Queue!Fifo!Next
  <2>2. CASE queue = <<>> /\ how # "nowait" /\ Queue!os_cond_wait(t)
             /\ mode' = [mode EXCEPT ![t] = how] /\ UNCHANGED elapsed
    <3>1. Queue!Inside' = [Queue!Inside EXCEPT ![t] = how]
      BY <2>2 DEF QInv, Queue!TypeOK, Queue!os_cond_wait, Queue!Inside
    <3>2. Queue!Fifo!Wait(t, how)
      BY <2>0, <2>2, <3>1 DEF Queue!os_cond_wait, Queue!Fifo!Wait
    <3> QED BY <2>2, <3>2 DEF Queue!Fifo!Next
  <2> QED BY <1>5, <2>1, <2>2 DEF Queue!bt_queue_get
<1>6. ASSUME NEW t \in Threads, Queue!Resume(t) PROVE [Queue!Fifo!Next]_(Queue!Fifo!vars)
  <2>1. CASE queue # <<>> /\ Queue!Return(t)
    BY <2>1, ReturnRefines DEF Queue!Fifo!Next
  <2>2. CASE queue = <<>> /\ Queue!os_cond_wait(t) /\ UNCHANGED <<mode, elapsed>>
    BY <1>6, <2>2, HiddenStep DEF Queue!Resume, Queue!os_cond_wait, QInv, Queue!TypeOK
  <2> QED BY <1>6, <2>1, <2>2 DEF Queue!Resume
<1>7. ASSUME NEW t \in Threads, Queue!ResumeTimedOut(t) PROVE Queue!Fifo!Next
  <2>1. Queue!Inside[t] = "timed"
    BY <1>7 DEF Queue!ResumeTimedOut, TimedOutIsTimed, Queue!Inside
  <2> QED BY <1>7, <2>1, ReturnRefines DEF Queue!ResumeTimedOut, Queue!Fifo!Next
<1>8. ASSUME NEW t \in Threads, Queue!Expire(t) \/ Queue!SpuriousWakeup(t)
      PROVE  UNCHANGED Queue!Fifo!vars
  BY <1>8, HiddenStep DEF Queue!Expire, Queue!SpuriousWakeup, Queue!timingVars, QInv, Queue!TypeOK
<1>9. ASSUME Queue!Tick \/ UNCHANGED Queue!vars PROVE UNCHANGED Queue!Fifo!vars
  BY <1>9, HiddenStep DEF Queue!Tick, Queue!vars
<1> QED BY <1>2, <1>3, <1>4, <1>5, <1>6, <1>7, <1>8, <1>9 DEF Queue!Next

(* bt_queue.c implements the queue that its header promises: FIFO between  *)
(* append and get, a get waits only while the queue is empty and returns   *)
(* NULL only then, and never if it waits forever.                          *)
THEOREM QueueIsFifo == QueueSpec => FifoSafe
<1>1. Queue!Init => Queue!Fifo!Init
  BY DEF Queue!Init, Queue!Fifo!Init, Queue!Inside
<1>2. QInv /\ TimedOutIsTimed /\ [Queue!Next]_(Queue!vars) => [Queue!Fifo!Next]_(Queue!Fifo!vars)
  BY QueueAssumption, StepRefines
<1> QED BY <1>1, <1>2, QueueInvariance, TimedOutInvariance, PTL
  DEF QueueSpec, Queue!Spec, FifoSafe, Queue!FifoSafe, Queue!Fifo!Safe
=============================================================================
