----------------------------- MODULE ConnTxProofs -----------------------------
(***************************************************************************)
(* Proofs about ConnTx: the controller's buffers and the TX contexts are   *)
(* conserved, callbacks come once and in order, and no assertion fails     *)
(* while every connection is up.  For any number of connections, channels, *)
(* PDUs, buffers and contexts, with threads that preempt a pass or not,    *)
(* until two threads meet in a list that one of them does not lock.        *)
(***************************************************************************)
EXTENDS ConnTx, ListLemmas, FiniteSetTheorems

(* A connection whose packets the controller holds.                        *)
Up(c) == state[c] \in {"connected", "disconnecting"}
Driving == main.at = "driver"

(* Where the TX contexts are: on one list at most, once, or free.          *)
Sorted(wait, comp, free) ==
  /\ \A c \in Conns : Once(wait[c], Txs) /\ Once(comp[c], Txs)
  /\ \A c, d \in Conns : \A t \in Txs :
       /\ ~(Has(wait[c], t) /\ Has(comp[d], t))
       /\ Has(wait[c], t) /\ Has(wait[d], t) => c = d
       /\ Has(comp[c], t) /\ Has(comp[d], t) => c = d
  /\ \A t \in Txs : t \in free <=> \A c \in Conns : ~Has(wait[c], t) /\ ~Has(comp[c], t)
ListsInv == Sorted(pending, complete, freeTx)

(* A credit is in the semaphore or stands for a context in tx_pending.     *)
Waiting(wait) == {t \in Txs : \E c \in Conns : Has(wait[c], t)}
CreditInv == pkts + Cardinality(Waiting(pending)) = CtlrBufs

(* The controller has the packets of tx_pending but for the one the driver *)
(* is about to take, and none of a connection that is gone; in_ll counts   *)
(* them and the one the receive thread has not yet taken off.              *)
Unaligned(c) == IF rx = c THEN 1 ELSE 0
CountInv ==
  \A c \in Conns :
    /\ Up(c) => /\ inLL[c] = Len(pending[c]) + Unaligned(c)
                /\ ctlr[c] = IF Driving /\ main.conn = c THEN Len(pending[c]) - 1
                                                         ELSE Len(pending[c])
    /\ ~Up(c) => ctlr[c] = 0

(* A pass: what get_conn_ready saw is there until it is used, and the      *)
(* context the driver works on is the last one of tx_pending.              *)
MainInv ==
  /\ main.at = "idle" => main = Idle
  /\ main.at # "idle" => main.conn \in Conns
  /\ main.cb # NULL => main.at \in {"send", "driver"}
  /\ main.at \notin {"idle", "notify"} /\ ~preempt => state[main.conn] = "connected"
  /\ main.at \in {"pull", "nodata", "send"} => pkts > 0 /\ freeTx # {}
  /\ main.at \in {"nodata", "nocredit"} =>
       chanReady[main.conn] # <<>> /\ Head(chanReady[main.conn]) = main.chan
  /\ Driving => /\ main.tx \in Txs
                /\ \A c \in Conns : /\ ~Has(complete[c], main.tx)
                                    /\ Has(pending[c], main.tx) => c = main.conn
                /\ Up(main.conn) \/ Has(pending[main.conn], main.tx)
                     => /\ pending[main.conn] # <<>>
                        /\ Last(pending[main.conn]) = main.tx
                        /\ txcb[main.tx] = main.cb

(* Where a PDU is: not sent yet, in the queue of its channel, in the hands *)
(* of the pass, with one context, or told.                                 *)
Untouched(p) == /\ told[p] = 0 /\ main.cb # p
                /\ \A t \in Txs : txcb[t] # p
                /\ \A c \in Conns : ~Has(order[c], p)
PduInv ==
  /\ \A h \in Chans : /\ Once(txq[h], Pdus)
                      /\ \A p \in Pdus : Has(txq[h], p) => Route[p] = h /\ p \in sent
  /\ \A p \in Pdus : p \notin sent \/ Has(txq[Route[p]], p) => Untouched(p)
  /\ main.cb # NULL => \A c \in Conns : ~Has(order[c], main.cb)
  /\ main.cb # NULL /\ main.at = "send" => /\ told[main.cb] = 0
                                          /\ \A t \in Txs : txcb[t] # main.cb
  /\ main.cb # NULL /\ Driving => \A t \in Txs : txcb[t] = main.cb => t = main.tx
  /\ \A t \in Txs : txcb[t] # NULL => told[txcb[t]] = 0
  /\ \A t, u \in Txs : txcb[t] = txcb[u] /\ txcb[t] # NULL => t = u
  /\ \A t \in freeTx : txcb[t] = NULL
  /\ \A p \in Pdus : told[p] <= 1
  /\ \A c \in Conns : Once(order[c], Pdus)

(* A PDU whose next segment is needed has one.                             *)
SegmentsInv ==
  \A p \in Pdus :
    \/ p \notin sent
    \/ Has(txq[Route[p]], p) /\ (Head(txq[Route[p]]) = p => left[Route[p]] = 0)
    => rest[p] # <<>>
CostInv == \A h \in Chans : credits[h] <= given[h]

(* The contexts whose callback will report success if nothing else         *)
(* happens, in the order of the callbacks, of which `from' were made.      *)
(* They follow the order the packets were handed over, without a gap.      *)
Line(c) == complete[c] \o (IF Up(c) THEN pending[c] ELSE <<>>)
Answer == [t \in Txs |-> IF Driving /\ main.tx = t THEN NULL ELSE txcb[t]]
Lined(line, from, o, cb) ==
  /\ \A j \in 1..Len(line) : cb[line[j]] # NULL =>
       \E k \in (from + 1)..Len(o) : o[k] = cb[line[j]]
  /\ \A j \in 1..Len(line) : \A k, m \in (from + 1)..Len(o) :
       cb[line[j]] # NULL /\ o[m] = cb[line[j]] /\ k < m =>
         \E i \in 1..(j - 1) : o[k] = cb[line[i]]
Gapless(line, from, o, cb) ==
  \A k \in (from + 1)..Len(o) : \E i \in 1..Len(line) : o[k] = cb[line[i]]
LineInv ==
  \A c \in Conns :
    /\ Len(done[c]) <= Len(order[c])
    /\ \A i \in 1..Len(done[c]) : done[c][i] = order[c][i]
    /\ Lined(Line(c), Len(done[c]), order[c], Answer)
    /\ Up(c) => Gapless(Line(c), Len(done[c]), order[c], Answer)

(* No assertion fails while every connection is up.                        *)
AssertInv == aborted => \E c \in Conns : state[c] # "connected"

IInv == /\ TypeOK /\ ListsInv /\ CreditInv /\ CountInv /\ MainInv /\ PduInv
        /\ SegmentsInv /\ CostInv /\ LineInv /\ AssertInv
-----------------------------------------------------------------------------
(* Lists of contexts.                                                      *)

(* Taking the last element off, which is what bt_slist_find_and_remove     *)
(* does to a context that was just appended.                               *)
LEMMA LastRemoved ==
  ASSUME NEW S, NEW list \in Seq(S), list # <<>>, Once(list, S)
  PROVE  LET new == RemoveFirst(list, Last(list))
         IN  /\ new \in Seq(S) /\ Len(new) = Len(list) - 1
             /\ \A j \in 1..Len(new) : new[j] = list[j]
             /\ \A x \in S : Has(new, x) <=> Has(list, x) /\ x # Last(list)
             /\ Once(new, S)
<1> DEFINE n == Len(list)
           new == RemoveFirst(list, Last(list))
<1>1. n \in Nat \ {0} /\ \A i \in 1..n : list[i] \in S
  BY LenProperties, EmptySeq, ElementOfSeq
<1>2. {i \in 1..n : list[i] = Last(list)} = {n}
  BY <1>1 DEF Once, Last
<1>3. SelectInSeq(list, LAMBDA v : v = Last(list)) = n
  <2>1. Min({n}) = n
    BY <1>1 DEF Min
  <2> QED
    BY <1>2, <2>1 DEF SelectInSeq
<1>4. \E i \in 1..Len(list) : list[i] = Last(list)
  BY <1>1 DEF Last
<1>5. new = RemoveAt(list, n)
  BY <1>3, <1>4 DEF RemoveFirst
<1>6. /\ new \in Seq(S) /\ Len(new) = n - 1
      /\ \A j \in 1..(n - 1) : new[j] = list[j]
  BY <1>1, <1>5, RemoveAtFacts
<1>7. \A x \in S : Has(new, x) <=> Has(list, x) /\ x # list[n]
  BY <1>1, <1>5, RemoveHas
<1>8. Once(new, S)
  BY <1>1, <1>5, RemoveHas
<1> QED
  BY <1>1, <1>6, <1>7, <1>8 DEF Last

(* Taking the first element off.                                           *)
LEMMA FirstTaken ==
  ASSUME NEW S, NEW list \in Seq(S), list # <<>>, Once(list, S)
  PROVE  /\ Head(list) \in S /\ Head(list) = list[1] /\ Has(list, Head(list))
         /\ Tail(list) \in Seq(S) /\ Len(list) \in Nat \ {0} /\ Len(Tail(list)) = Len(list) - 1
         /\ \A j \in 1..Len(Tail(list)) : Tail(list)[j] = list[j + 1]
         /\ \A x \in S : Has(Tail(list), x) <=> Has(list, x) /\ x # Head(list)
         /\ Once(Tail(list), S)
<1>1. /\ Len(list) \in Nat \ {0} /\ Len(Tail(list)) = Len(list) - 1
      /\ Head(list) = list[1] /\ Tail(list) \in Seq(S) /\ Head(list) \in S
      /\ \A i \in 1..Len(Tail(list)) : Tail(list)[i] = list[i + 1]
  BY LenProperties, EmptySeq, HeadTailProperties
<1>2. Has(list, Head(list))
  BY <1>1 DEF Has
<1>3. Once(Tail(list), S) /\ \A x \in S : Has(Tail(list), x) <=> Has(list, x) /\ x # Head(list)
  BY TailHas
<1> QED
  BY <1>1, <1>2, <1>3

(* A list without repetitions has as many elements as its length.          *)
LEMMA OnceCounts ==
  ASSUME NEW S, NEW list \in Seq(S), Once(list, S)
  PROVE  /\ IsFiniteSet({x \in S : Has(list, x)})
         /\ Cardinality({x \in S : Has(list, x)}) = Len(list)
<1> DEFINE T == {x \in S : Has(list, x)}
<1>1. Len(list) \in Nat /\ \A i \in 1..Len(list) : list[i] \in S
  BY LenProperties, ElementOfSeq
<1>2. list \in [1..Len(list) -> T]
  BY <1>1 DEF Has
<1>3. list \in Bijection(1..Len(list), T)
  <2>1. \A i, j \in 1..Len(list) : list[i] = list[j] => i = j
    BY <1>1 DEF Once
  <2>2. \A x \in T : \E i \in 1..Len(list) : list[i] = x
    BY DEF Has
  <2> QED
    BY <1>2, <2>1, <2>2, Zenon DEF Bijection, Injection, Surjection, IsInjective
<1>4. ExistsBijection(1..Len(list), T)
  BY <1>3, SMTT(30) DEF ExistsBijection
<1>5. IsFiniteSet(1..Len(list)) /\ Cardinality(1..Len(list)) = Len(list)
  BY <1>1, FS_Interval, SMTT(30)
<1> QED
  BY <1>1, <1>4, FS_CountingElements, FS_NatBijection

(* Two lists that share nothing, one behind the other.                     *)
LEMMA ConcatHas ==
  ASSUME NEW S, NEW a \in Seq(S), NEW b \in Seq(S), Once(a, S), Once(b, S),
         \A x \in S : ~(Has(a, x) /\ Has(b, x))
  PROVE  /\ a \o b \in Seq(S) /\ Once(a \o b, S)
         /\ \A x \in S : Has(a \o b, x) <=> Has(a, x) \/ Has(b, x)
<1> DEFINE n == Len(a)
           m == Len(b)
           ab == a \o b
<1>1. /\ n \in Nat /\ m \in Nat /\ ab \in Seq(S) /\ Len(ab) = n + m
      /\ \A i \in 1..(n + m) : ab[i] = IF i <= n THEN a[i] ELSE b[i - n]
      /\ \A i \in 1..n : a[i] \in S
      /\ \A i \in 1..m : b[i] \in S
  BY LenProperties, ConcatProperties, ElementOfSeq
<1> HIDE DEF n, m, ab
<1>2. ASSUME NEW i \in 1..(n + m), NEW j \in 1..(n + m), ab[i] = ab[j]
      PROVE  i = j
  <2>1. CASE i <= n /\ j <= n
    BY <1>1, <1>2, <2>1 DEF Once, n
  <2>2. CASE i > n /\ j > n
    <3>1. i - n \in 1..m /\ j - n \in 1..m /\ b[i - n] = b[j - n] /\ b[i - n] \in S
      BY <1>1, <1>2, <2>2
    <3>2. i - n = j - n
      BY <3>1 DEF Once, m
    <3> QED
      BY <1>1, <3>2
  <2>3. CASE i <= n /\ j > n
    <3>1. i \in 1..n /\ j - n \in 1..m /\ a[i] = b[j - n] /\ a[i] \in S
      BY <1>1, <1>2, <2>3
    <3> QED
      BY <3>1 DEF Has, n, m
  <2>4. CASE i > n /\ j <= n
    <3>1. j \in 1..n /\ i - n \in 1..m /\ a[j] = b[i - n] /\ a[j] \in S
      BY <1>1, <1>2, <2>4
    <3> QED
      BY <3>1 DEF Has, n, m
  <2> QED
    BY <1>1, <2>1, <2>2, <2>3, <2>4
<1>3. ASSUME NEW x \in S PROVE Has(ab, x) <=> Has(a, x) \/ Has(b, x)
  <2>1. ASSUME Has(ab, x) PROVE Has(a, x) \/ Has(b, x)
    <3>1. PICK i \in 1..(n + m) : ab[i] = x
      BY <1>1, <2>1 DEF Has
    <3>2. CASE i <= n
      BY <1>1, <3>1, <3>2 DEF Has, n
    <3>3. CASE i > n
      <4>1. i - n \in 1..m /\ b[i - n] = x
        BY <1>1, <3>1, <3>3
      <4> QED
        BY <4>1 DEF Has, m
    <3> QED
      BY <1>1, <3>2, <3>3
  <2>2. ASSUME Has(a, x) PROVE Has(ab, x)
    <3>1. PICK i \in 1..n : a[i] = x
      BY <2>2 DEF Has, n
    <3>2. i \in 1..(n + m) /\ ab[i] = x
      BY <1>1, <3>1
    <3> QED
      BY <1>1, <3>2 DEF Has
  <2>3. ASSUME Has(b, x) PROVE Has(ab, x)
    <3>1. PICK i \in 1..m : b[i] = x
      BY <2>3 DEF Has, m
    <3>2. n + i \in 1..(n + m) /\ ab[n + i] = b[(n + i) - n] /\ (n + i) - n = i
      BY <1>1, <3>1
    <3> QED
      BY <1>1, <3>1, <3>2 DEF Has
  <2> QED
    BY <2>1, <2>2, <2>3
<1>4. Once(ab, S)
  BY <1>1, <1>2 DEF Once
<1> QED
  BY <1>1, <1>3, <1>4 DEF ab

(* Passing the first of the second over to the first, taking the first of  *)
(* the first, appending to the second.                                     *)
LEMMA ConcatMoves ==
  ASSUME NEW S, NEW a \in Seq(S), NEW b \in Seq(S)
  PROVE  /\ b # <<>> => Append(a, Head(b)) \o Tail(b) = a \o b
         /\ a # <<>> => a \o b # <<>> /\ Head(a \o b) = Head(a) /\ Tail(a \o b) = Tail(a) \o b
<1> DEFINE n == Len(a)
           m == Len(b)
           ab == a \o b
<1>1. /\ n \in Nat /\ m \in Nat /\ ab \in Seq(S) /\ Len(ab) = n + m
      /\ \A i \in 1..(n + m) : ab[i] = IF i <= n THEN a[i] ELSE b[i - n]
  BY LenProperties, ConcatProperties
<1>3. ASSUME b # <<>> PROVE Append(a, Head(b)) \o Tail(b) = ab
  <2>1. Head(b) \in S /\ Tail(b) \in Seq(S) /\ <<Head(b)>> \in Seq(S)
    BY <1>3, HeadTailProperties
  <2>2. <<Head(b)>> \o Tail(b) = b
    <3> DEFINE c == <<Head(b)>> \o Tail(b)
    <3>0. /\ m \in Nat \ {0} /\ Len(Tail(b)) = m - 1 /\ Head(b) = b[1]
          /\ \A i \in 1..Len(Tail(b)) : Tail(b)[i] = b[i + 1]
      BY <1>3, EmptySeq, HeadTailProperties
    <3>1. Len(<<Head(b)>>) = 1 /\ <<Head(b)>>[1] = Head(b)
      OBVIOUS
    <3>2. /\ c \in Seq(S) /\ Len(c) = 1 + (m - 1)
          /\ \A i \in 1..(1 + (m - 1)) : c[i] = IF i <= 1 THEN <<Head(b)>>[i] ELSE Tail(b)[i - 1]
      BY ONLY <2>1, <3>0, <3>1, ConcatProperties
    <3> HIDE DEF c
    <3>3. Len(c) = m /\ \A i \in 1..m : c[i] = b[i]
      BY <3>0, <3>1, <3>2
    <3>4. c = b
      BY <3>2, <3>3, SeqEqual
    <3> QED
      BY <3>4 DEF c
  <2>3. Append(a, Head(b)) = a \o <<Head(b)>>
    BY <2>1, AppendIsConcat
  <2> QED
    BY <2>1, <2>2, <2>3, ConcatAssociative
<1>4. ASSUME a # <<>>
      PROVE  ab # <<>> /\ Head(ab) = Head(a) /\ Tail(ab) = Tail(a) \o b
  <2> DEFINE d == Tail(a) \o b
  <2>1. /\ n \in Nat \ {0} /\ Tail(a) \in Seq(S) /\ Len(Tail(a)) = n - 1 /\ Head(a) = a[1]
        /\ \A i \in 1..Len(Tail(a)) : Tail(a)[i] = a[i + 1]
    BY <1>4, EmptySeq, HeadTailProperties
  <2>2. ab # <<>>
    BY <1>1, <2>1, EmptySeq
  <2>3. /\ Tail(ab) \in Seq(S) /\ Len(Tail(ab)) = n + m - 1 /\ Head(ab) = ab[1]
        /\ \A i \in 1..Len(Tail(ab)) : Tail(ab)[i] = ab[i + 1]
    BY <1>1, <2>2, HeadTailProperties
  <2>4. /\ d \in Seq(S) /\ Len(d) = (n - 1) + m
        /\ \A i \in 1..((n - 1) + m) : d[i] = IF i <= n - 1 THEN Tail(a)[i] ELSE b[i - (n - 1)]
    BY <2>1, ConcatProperties
  <2> HIDE DEF n, m, ab, d
  <2>5. \A i \in 1..Len(Tail(ab)) : Tail(ab)[i] = d[i]
    <3> TAKE i \in 1..Len(Tail(ab))
    <3>1. i \in 1..((n - 1) + m) /\ i + 1 \in 1..(n + m) /\ Tail(ab)[i] = ab[i + 1]
      BY <1>1, <2>1, <2>3
    <3>2. CASE i <= n - 1
      BY <1>1, <2>1, <2>4, <3>1, <3>2
    <3>3. CASE i > n - 1
      <4>1. (i + 1) - n = i - (n - 1) /\ ~(i + 1 <= n) /\ ~(i <= n - 1)
        BY <1>1, <2>1, <3>1, <3>3
      <4> QED
        BY <1>1, <2>4, <3>1, <4>1
    <3> QED
      BY <1>1, <2>1, <3>1, <3>2, <3>3
  <2>6. Tail(ab) = d
    BY <1>1, <2>1, <2>3, <2>4, <2>5, SeqEqual
  <2>7. Head(ab) = Head(a)
    BY <1>1, <2>1, <2>3
  <2> QED
    BY <2>2, <2>6, <2>7 DEF d
<1> QED
  BY <1>3, <1>4

(* Appending to the second list appends to the whole.                      *)
LEMMA ConcatAppend ==
  ASSUME NEW S, NEW a \in Seq(S), NEW b \in Seq(S), NEW x \in S
  PROVE  a \o Append(b, x) = Append(a \o b, x)
<1>1. <<x>> \in Seq(S) /\ a \o b \in Seq(S)
  BY ConcatProperties
<1>2. Append(b, x) = b \o <<x>> /\ Append(a \o b, x) = (a \o b) \o <<x>>
  BY <1>1, AppendIsConcat
<1> QED
  BY <1>1, <1>2, ConcatAssociative

(* The head of tx_pending moves to the end of tx_complete: the line stays. *)
LEMMA ConcatPass ==
  ASSUME NEW S, NEW a \in Seq(S), NEW b \in Seq(S), b # <<>>
  PROVE  Append(a, Head(b)) \o Tail(b) = a \o b
BY ConcatMoves, Zenon

(* The head of tx_complete is the head of the line.                        *)
LEMMA ConcatTail ==
  ASSUME NEW S, NEW a \in Seq(S), NEW b \in Seq(S), a # <<>>
  PROVE  a \o b # <<>> /\ Head(a \o b) = Head(a) /\ Tail(a \o b) = Tail(a) \o b
BY ConcatMoves, Zenon

(* The last of tx_pending is the last of the line.                         *)
LEMMA ConcatLast ==
  ASSUME NEW S, NEW a \in Seq(S), NEW b \in Seq(S), b # <<>>
  PROVE  a \o b # <<>> /\ Last(a \o b) = Last(b)
<1>1. /\ Len(a) \in Nat /\ Len(b) \in Nat \ {0} /\ Len(a \o b) = Len(a) + Len(b)
      /\ \A i \in 1..(Len(a) + Len(b)) : (a \o b)[i] = IF i <= Len(a) THEN a[i] ELSE b[i - Len(a)]
  BY LenProperties, EmptySeq, ConcatProperties
<1>2. (a \o b)[Len(a) + Len(b)] = b[(Len(a) + Len(b)) - Len(a)] /\ (Len(a) + Len(b)) - Len(a) = Len(b)
  BY <1>1
<1>3. a \o b # <<>>
  BY <1>1, EmptySeq
<1> QED
  BY <1>1, <1>2, <1>3 DEF Last

-----------------------------------------------------------------------------
(* The order of the callbacks.                                             *)

(* A part of the line from its front on, with the same callbacks.          *)
LEMMA LinedFront ==
  ASSUME NEW line \in Seq(Txs), NEW new \in Seq(Txs), NEW from \in Nat,
         NEW o \in Seq(Pdus), NEW cb, NEW now, Lined(line, from, o, cb),
         Len(new) <= Len(line),
         \A j \in 1..Len(new) : new[j] = line[j] /\ now[new[j]] = cb[line[j]]
  PROVE  Lined(new, from, o, now)
<1>1. Len(new) \in Nat /\ Len(line) \in Nat /\ Len(o) \in Nat
  BY LenProperties
<1>2. ASSUME NEW j \in 1..Len(new), now[new[j]] # NULL
      PROVE  \E k \in (from + 1)..Len(o) : o[k] = now[new[j]]
  BY <1>1, <1>2 DEF Lined
<1>3. ASSUME NEW j \in 1..Len(new), NEW k \in (from + 1)..Len(o), NEW m \in (from + 1)..Len(o),
             now[new[j]] # NULL, o[m] = now[new[j]], k < m
      PROVE  \E i \in 1..(j - 1) : o[k] = now[new[i]]
  <2>1. j \in 1..Len(line) /\ cb[line[j]] # NULL /\ o[m] = cb[line[j]]
    BY <1>1, <1>3
  <2>2. PICK i \in 1..(j - 1) : o[k] = cb[line[i]]
    BY <2>1, <1>3 DEF Lined
  <2> QED
    BY <1>1, <2>2
<1> QED
  BY <1>2, <1>3 DEF Lined

(* The same line with the same callbacks.                                  *)
LEMMA LinedSame ==
  ASSUME NEW line \in Seq(Txs), NEW from \in Nat, NEW o \in Seq(Pdus), NEW cb, NEW now,
         \A t \in Txs : Has(line, t) => now[t] = cb[t],
         Lined(line, from, o, cb)
  PROVE  /\ Lined(line, from, o, now)
         /\ Gapless(line, from, o, cb) => Gapless(line, from, o, now)
<1>1. \A j \in 1..Len(line) : now[line[j]] = cb[line[j]]
  <2>1. \A j \in 1..Len(line) : line[j] \in Txs /\ Has(line, line[j])
    BY ElementOfSeq DEF Has
  <2> QED
    BY <2>1
<1>2. Lined(line, from, o, now)
  <2>1. Len(line) \in Nat /\ Len(line) <= Len(line)
    BY LenProperties
  <2>2. \A j \in 1..Len(line) : line[j] = line[j] /\ now[line[j]] = cb[line[j]]
    BY <1>1
  <2> QED
    BY <2>1, <2>2, LinedFront, Zenon
<1>3. Gapless(line, from, o, cb) => Gapless(line, from, o, now)
  BY <1>1 DEF Gapless
<1> QED
  BY <1>2, <1>3

(* A packet without a callback, or whose callback does not count yet,      *)
(* joins the line.                                                         *)
LEMMA LinedAppend ==
  ASSUME NEW line \in Seq(Txs), NEW t \in Txs, NEW from \in Nat, NEW o \in Seq(Pdus), NEW cb,
         Lined(line, from, o, cb), cb[t] = NULL
  PROVE  /\ Lined(Append(line, t), from, o, cb)
         /\ Gapless(line, from, o, cb) => Gapless(Append(line, t), from, o, cb)
<1> DEFINE new == Append(line, t)
<1>1. /\ Len(line) \in Nat /\ Len(o) \in Nat /\ Len(new) = Len(line) + 1
      /\ \A j \in 1..(Len(line) + 1) : new[j] = IF j <= Len(line) THEN line[j] ELSE t
  BY AppendFacts, LenProperties
<1> HIDE DEF new
<1>2. ASSUME NEW j \in 1..Len(new), cb[new[j]] # NULL
      PROVE  \E k \in (from + 1)..Len(o) : o[k] = cb[new[j]]
  BY <1>1, <1>2 DEF Lined
<1>3. ASSUME NEW j \in 1..Len(new), NEW k \in (from + 1)..Len(o), NEW m \in (from + 1)..Len(o),
             cb[new[j]] # NULL, o[m] = cb[new[j]], k < m
      PROVE  \E i \in 1..(j - 1) : o[k] = cb[new[i]]
  <2>1. j \in 1..Len(line) /\ new[j] = line[j]
    BY <1>1, <1>3
  <2>2. PICK i \in 1..(j - 1) : o[k] = cb[line[i]]
    BY <2>1, <1>3 DEF Lined
  <2>3. new[i] = line[i]
    BY <1>1, <2>1
  <2> QED
    BY <2>2, <2>3
<1>4. ASSUME Gapless(line, from, o, cb), NEW k \in (from + 1)..Len(o)
      PROVE  \E i \in 1..Len(new) : o[k] = cb[new[i]]
  <2>1. PICK i \in 1..Len(line) : o[k] = cb[line[i]]
    BY <1>4 DEF Gapless
  <2> QED
    BY <1>1, <2>1
<1>5. Lined(new, from, o, cb) /\ (Gapless(line, from, o, cb) => Gapless(new, from, o, cb))
  BY <1>2, <1>3, <1>4 DEF Lined, Gapless
<1> QED
  BY <1>5 DEF new

(* The first of the line leaves.  If it has a callback, that is the next   *)
(* of the order.                                                           *)
LEMMA LinedTail ==
  ASSUME NEW line \in Seq(Txs), line # <<>>, Once(line, Txs), NEW from \in Nat,
         NEW o \in Seq(Pdus), Once(o, Pdus), NEW cb, NEW now, Lined(line, from, o, cb),
         from <= Len(o), \A t \in Txs : t # Head(line) => now[t] = cb[t],
         \A t, u \in Txs : cb[t] = cb[u] /\ cb[t] # NULL => t = u,
         NEW to, to = IF cb[Head(line)] = NULL THEN from ELSE from + 1
  PROVE  /\ cb[Head(line)] # NULL => from + 1 \in 1..Len(o) /\ o[from + 1] = cb[Head(line)]
         /\ to \in Nat /\ to <= Len(o)
         /\ Lined(Tail(line), to, o, now)
         /\ Gapless(line, from, o, cb) => Gapless(Tail(line), to, o, now)
<1> DEFINE new == Tail(line)
           t == Head(line)
<1>1. /\ Len(line) \in Nat \ {0} /\ Len(o) \in Nat /\ Len(new) = Len(line) - 1 /\ t = line[1]
      /\ \A j \in 1..Len(new) : new[j] = line[j + 1]
      /\ \A j \in 1..Len(line) : line[j] \in Txs
      /\ \A j \in 1..Len(o) : o[j] \in Pdus
  BY LenProperties, EmptySeq, HeadTailProperties, ElementOfSeq
<1>2. \A j \in 1..Len(new) : j + 1 \in 1..Len(line) /\ now[new[j]] = cb[line[j + 1]]
  BY <1>1 DEF Once
<1> HIDE DEF new, t
<1>3. ASSUME cb[t] # NULL PROVE from + 1 \in 1..Len(o) /\ o[from + 1] = cb[t]
  <2>1. PICK m \in (from + 1)..Len(o) : o[m] = cb[line[1]]
    BY <1>1, <1>3 DEF Lined
  <2>2. ASSUME from + 1 < m PROVE FALSE
    <3>1. 1 \in 1..Len(line) /\ from + 1 \in (from + 1)..Len(o)
      BY <1>1, <2>1
    <3>2. \E i \in 1..(1 - 1) : o[from + 1] = cb[line[i]]
      BY <1>1, <1>3, <2>1, <2>2, <3>1 DEF Lined
    <3> QED
      BY <3>2
  <2>3. m = from + 1
    BY <2>1, <2>2
  <2> QED
    BY <1>1, <2>1, <2>3
<1>4. to \in Nat /\ to <= Len(o) /\ to >= from
  BY <1>1, <1>3 DEF t
<1>5. ASSUME NEW k \in (to + 1)..Len(o)
      PROVE  k \in (from + 1)..Len(o) /\ (cb[t] # NULL => o[k] # cb[t])
  <2>1. k \in (from + 1)..Len(o)
    BY <1>1, <1>4
  <2>2. ASSUME cb[t] # NULL PROVE o[k] # cb[t]
    <3>1. k # from + 1 /\ k \in 1..Len(o)
      BY <1>1, <1>4, <2>2 DEF t
    <3> QED
      BY <1>1, <1>3, <2>2, <3>1 DEF Once
  <2> QED
    BY <2>1, <2>2
<1>6. ASSUME NEW j \in 1..Len(new), now[new[j]] # NULL
      PROVE  \E k \in (to + 1)..Len(o) : o[k] = now[new[j]]
  <2>1. PICK k \in (from + 1)..Len(o) : o[k] = cb[line[j + 1]]
    BY <1>2, <1>6 DEF Lined
  <2>2. ASSUME k = from + 1, to = from + 1 PROVE FALSE
    <3>1. cb[t] # NULL /\ cb[line[j + 1]] = cb[line[1]]
      BY <1>1, <1>3, <2>1, <2>2 DEF t
    <3>2. line[j + 1] = line[1] /\ line[1] \in Txs /\ j + 1 \in 1..Len(line) /\ 1 \in 1..Len(line)
      BY <1>1, <1>2, <3>1
    <3>3. j + 1 = 1
      BY <3>2 DEF Once
    <3> QED
      BY <3>3
  <2>3. k \in (to + 1)..Len(o)
    BY <1>1, <1>4, <2>1, <2>2 DEF t
  <2> QED
    BY <1>2, <2>1, <2>3
<1>7. ASSUME NEW j \in 1..Len(new), NEW k \in (to + 1)..Len(o), NEW m \in (to + 1)..Len(o),
             now[new[j]] # NULL, o[m] = now[new[j]], k < m
      PROVE  \E i \in 1..(j - 1) : o[k] = now[new[i]]
  <2>1. /\ j + 1 \in 1..Len(line) /\ cb[line[j + 1]] # NULL /\ o[m] = cb[line[j + 1]]
        /\ k \in (from + 1)..Len(o) /\ m \in (from + 1)..Len(o)
    BY <1>2, <1>5, <1>7
  <2>2. PICK i \in 1..((j + 1) - 1) : o[k] = cb[line[i]]
    BY <1>7, <2>1 DEF Lined
  <2>3. o[k] \in Pdus
    BY <1>1, <1>4
  <2>4. i # 1
    <3>1. o[k] # NULL /\ (cb[t] # NULL => o[k] # cb[t])
      BY <1>5, <2>3, TxAssumption
    <3> QED
      BY <1>1, <2>2, <3>1
  <2>5. i - 1 \in 1..(j - 1) /\ i - 1 \in 1..Len(new) /\ (i - 1) + 1 = i
    BY <1>1, <2>2, <2>4
  <2>6. o[k] = now[new[i - 1]]
    BY <1>2, <2>2, <2>5
  <2> QED
    BY <2>5, <2>6
<1>8. ASSUME Gapless(line, from, o, cb), NEW k \in (to + 1)..Len(o)
      PROVE  \E i \in 1..Len(new) : o[k] = now[new[i]]
  <2>1. PICK i \in 1..Len(line) : o[k] = cb[line[i]]
    BY <1>5, <1>8 DEF Gapless
  <2>2. o[k] \in Pdus
    BY <1>1, <1>4
  <2>3. i # 1
    BY <1>1, <1>5, <2>1, <2>2, TxAssumption
  <2>4. i - 1 \in 1..Len(new) /\ (i - 1) + 1 = i
    BY <1>1, <2>1, <2>3
  <2>5. o[k] = now[new[i - 1]]
    BY <1>2, <2>1, <2>4
  <2> QED
    BY <2>4, <2>5
<1>9. Lined(new, to, o, now) /\ (Gapless(line, from, o, cb) => Gapless(new, to, o, now))
  BY <1>6, <1>7, <1>8 DEF Lined, Gapless
<1> QED
  BY <1>3, <1>4, <1>9 DEF new, t

(* The packet at the end of the line was handed over: it is the last of    *)
(* the order, and everything before it is in the line.                     *)
LEMMA LinedTakes ==
  ASSUME NEW line \in Seq(Txs), line # <<>>, Once(line, Txs), NEW from \in Nat,
         NEW o \in Seq(Pdus), NEW cb, NEW now, NEW p \in Pdus,
         Lined(line, from, o, cb), Gapless(line, from, o, cb), from <= Len(o),
         cb[Last(line)] = NULL, now[Last(line)] = p,
         \A t \in Txs : t # Last(line) => now[t] = cb[t] /\ cb[t] # p
  PROVE  Lined(line, from, Append(o, p), now) /\ Gapless(line, from, Append(o, p), now)
<1> DEFINE n == Len(line)
           l == Len(o)
           O == Append(o, p)
<1>1. /\ n \in Nat \ {0} /\ l \in Nat /\ Len(O) = l + 1
      /\ \A j \in 1..l : O[j] = o[j] /\ o[j] \in Pdus
      /\ O[l + 1] = p /\ Last(line) = line[n]
      /\ \A j \in 1..n : line[j] \in Txs
  BY LenProperties, EmptySeq, AppendFacts, ElementOfSeq DEF Last
<1>2. /\ \A j \in 1..(n - 1) : now[line[j]] = cb[line[j]] /\ now[line[j]] # p
      /\ now[line[n]] = p /\ cb[line[n]] = NULL /\ p # NULL
  <2>1. \A j \in 1..(n - 1) : line[j] \in Txs /\ line[j] # line[n]
    BY <1>1 DEF Once
  <2> QED
    BY <1>1, <2>1, TxAssumption
<1> HIDE DEF n, l, O
<1>3. ASSUME NEW k \in (from + 1)..l
      PROVE  \E i \in 1..(n - 1) : O[k] = now[line[i]]
  <2>1. PICK i \in 1..n : o[k] = cb[line[i]]
    BY <1>3 DEF Gapless, n, l
  <2>2. o[k] \in Pdus /\ O[k] = o[k]
    BY <1>1, <1>3
  <2>3. i # n
    BY <1>2, <2>1, <2>2, TxAssumption
  <2>4. i \in 1..(n - 1)
    BY <1>1, <2>1, <2>3
  <2> QED
    BY <1>2, <2>1, <2>2, <2>4
<1>4. ASSUME NEW j \in 1..n, now[line[j]] # NULL
      PROVE  \E k \in (from + 1)..Len(O) : O[k] = now[line[j]]
  <2>1. CASE j = n
    BY <1>1, <1>2, <2>1 DEF l
  <2>2. CASE j # n
    <3>1. j \in 1..(n - 1) /\ cb[line[j]] # NULL
      BY <1>1, <1>2, <1>4, <2>2
    <3>2. PICK k \in (from + 1)..l : o[k] = cb[line[j]]
      BY <1>4, <3>1 DEF Lined, n, l
    <3> QED
      BY <1>1, <1>2, <3>1, <3>2
  <2> QED
    BY <2>1, <2>2
<1>5. ASSUME NEW j \in 1..n, NEW k \in (from + 1)..Len(O), NEW m \in (from + 1)..Len(O),
             now[line[j]] # NULL, O[m] = now[line[j]], k < m
      PROVE  \E i \in 1..(j - 1) : O[k] = now[line[i]]
  <2>0. k \in (from + 1)..l
    BY <1>1, <1>5
  <2>1. CASE j = n
    BY <1>3, <2>0, <2>1
  <2>2. CASE j # n
    <3>1. j \in 1..(n - 1) /\ cb[line[j]] # NULL /\ O[m] # p
      BY <1>1, <1>2, <1>5, <2>2
    <3>2. m \in (from + 1)..l /\ o[m] = cb[line[j]] /\ O[k] = o[k]
      BY <1>1, <1>2, <1>5, <2>0, <3>1, SMTT(30)
    <3>3. PICK i \in 1..(j - 1) : o[k] = cb[line[i]]
      BY <1>5, <2>0, <3>1, <3>2 DEF Lined, n, l
    <3>4. i \in 1..(n - 1)
      BY <1>1, <3>1, <3>3
    <3> QED
      BY <1>2, <3>2, <3>3, <3>4
  <2> QED
    BY <2>1, <2>2
<1>6. ASSUME NEW k \in (from + 1)..Len(O)
      PROVE  \E i \in 1..n : O[k] = now[line[i]]
  <2>1. CASE k \in (from + 1)..l
    BY <1>1, <1>3, <2>1, SMTT(30)
  <2>2. CASE k = l + 1
    BY <1>1, <1>2, <2>2
  <2> QED
    BY <1>1, <1>6, <2>1, <2>2
<1>7. Lined(line, from, O, now) /\ Gapless(line, from, O, now)
  BY <1>4, <1>5, <1>6 DEF Lined, Gapless, n
<1> QED
  BY <1>7 DEF O

(* A packet that has left the line is handed over.                         *)
LEMMA LinedBeside ==
  ASSUME NEW line \in Seq(Txs), NEW from \in Nat, NEW o \in Seq(Pdus), NEW cb, NEW now,
         NEW p \in Pdus, Lined(line, from, o, cb), from <= Len(o),
         \A j \in 1..Len(line) : now[line[j]] = cb[line[j]] /\ cb[line[j]] # p
  PROVE  Lined(line, from, Append(o, p), now)
<1> DEFINE l == Len(o)
           O == Append(o, p)
<1>1. /\ l \in Nat /\ Len(O) = l + 1 /\ O[l + 1] = p /\ \A j \in 1..l : O[j] = o[j]
      /\ Len(line) \in Nat
  BY LenProperties, AppendFacts
<1> HIDE DEF l, O
<1>2. ASSUME NEW j \in 1..Len(line), now[line[j]] # NULL
      PROVE  \E k \in (from + 1)..Len(O) : O[k] = now[line[j]]
  <2>1. PICK k \in (from + 1)..l : o[k] = cb[line[j]]
    BY <1>2 DEF Lined, l
  <2> QED
    BY <1>1, <2>1
<1>3. ASSUME NEW j \in 1..Len(line), NEW k \in (from + 1)..Len(O), NEW m \in (from + 1)..Len(O),
             now[line[j]] # NULL, O[m] = now[line[j]], k < m
      PROVE  \E i \in 1..(j - 1) : O[k] = now[line[i]]
  <2>1. /\ m \in (from + 1)..l /\ k \in (from + 1)..l /\ O[k] = o[k] /\ o[m] = cb[line[j]]
        /\ cb[line[j]] # NULL
    BY <1>1, <1>3
  <2>2. PICK i \in 1..(j - 1) : o[k] = cb[line[i]]
    BY <1>3, <2>1 DEF Lined, l
  <2>3. i \in 1..Len(line)
    BY <1>1, <2>2
  <2> QED
    BY <2>1, <2>2, <2>3
<1>4. Lined(line, from, O, now)
  BY <1>2, <1>3 DEF Lined
<1> QED
  BY <1>4 DEF O

(* The callbacks of a list of contexts: once for each PDU that one of them *)
(* holds.                                                                  *)
LEMMA CalledOnce ==
  ASSUME TypeOK, NEW list \in Seq(Txs), Once(list, Txs),
         \A t, u \in Txs : txcb[t] = txcb[u] /\ txcb[t] # NULL => t = u
  PROVE  /\ Called(list) \in [Pdus -> Nat]
         /\ \A p \in Pdus : Called(list)[p] = IF \E t \in Txs : Has(list, t) /\ txcb[t] = p
                                              THEN told[p] + 1 ELSE told[p]
<1>1. \A i \in 1..Len(list) : list[i] \in Txs
  BY ElementOfSeq
<1>2. ASSUME NEW p \in Pdus
      PROVE  /\ Called(list)[p] \in Nat
             /\ Called(list)[p] = IF \E t \in Txs : Has(list, t) /\ txcb[t] = p
                                   THEN told[p] + 1 ELSE told[p]
  <2> DEFINE I == {i \in 1..Len(list) : txcb[list[i]] = p}
  <2>0. Called(list)[p] = told[p] + Cardinality(I) /\ told[p] \in Nat /\ p # NULL
    BY TxAssumption DEF Called, TypeOK
  <2>1. CASE \E t \in Txs : Has(list, t) /\ txcb[t] = p
    <3>1. PICK i \in 1..Len(list) : txcb[list[i]] = p
      BY <2>1 DEF Has
    <3>2. I = {i}
      BY <1>1, <2>0, <3>1 DEF Once
    <3>3. Cardinality(I) = 1
      BY <3>2, FS_Singleton
    <3> QED
      BY <2>0, <2>1, <3>3
  <2>2. CASE ~ \E t \in Txs : Has(list, t) /\ txcb[t] = p
    <3>1. I = {}
      BY <1>1, <2>2 DEF Has
    <3>2. Cardinality(I) = 0
      BY <3>1, FS_EmptySet
    <3> QED
      BY <2>0, <2>2, <3>2
  <2> QED
    BY <2>1, <2>2
<1>3. Called(list) \in [Pdus -> Nat]
  <2>1. DOMAIN Called(list) = Pdus
    BY DEF Called
  <2> QED
    BY <1>2 DEF Called
<1> QED
  BY <1>2, <1>3

-----------------------------------------------------------------------------
(* The inductive invariant.                                                *)

(* Nothing was sent yet.                                                   *)
LEMMA InitInv == Init => IInv
<1> SUFFICES ASSUME Init PROVE IInv
  OBVIOUS
<1>0. NULL \notin Pdus \cup Conns \cup Chans \cup Txs /\ main = Idle /\ ~Driving
      /\ IsFiniteSet(Txs) /\ CtlrBufs \in Nat
      /\ \A c \in Conns : pending[c] = <<>> /\ complete[c] = <<>> /\ order[c] = <<>> /\ done[c] = <<>>
  BY TxAssumption DEF Init, Idle, Driving
<1>1. TypeOK
  <2>1. rest \in [Pdus -> Seq(Nat \ {0})] /\ preempt \in BOOLEAN
    BY TxAssumption DEF Init
  <2>2. main \in [at : {"idle", "pull", "nodata", "nocredit", "send", "driver", "notify"},
                  conn : Conns \cup {NULL}, chan : Chans \cup {NULL}, cb : Pdus \cup {NULL},
                  tx : Txs \cup {NULL}]
    BY DEF Init, Idle
  <2>3. CtlrBufs \in 0..CtlrBufs /\ 0 \in 0..MaxCredits
    BY TxAssumption
  <2>4. \A S : <<>> \in Seq(S)
    OBVIOUS
  <2>5. inLL \in [Conns -> Int]
    <3>1. inLL = [c \in Conns |-> 0] /\ 0 \in Int
      BY DEF Init
    <3> QED
      BY <3>1
  <2>6. rx \in Conns \cup {NULL} /\ torn \in BOOLEAN
    BY DEF Init
  <2> QED
    BY <2>1, <2>2, <2>3, <2>4, <2>5, <2>6 DEF Init, TypeOK
<1>2. \A x : ~Has(<<>>, x)
  BY DEF Has
<1>3. \A S : Once(<<>>, S)
  BY DEF Once
<1>4. ListsInv
  BY <1>0, <1>2, <1>3 DEF Init, ListsInv, Sorted
<1>5. CreditInv
  <2>1. Waiting(pending) = {}
    BY <1>0, <1>2 DEF Waiting
  <2>2. Cardinality(Waiting(pending)) = 0
    BY <2>1, FS_EmptySet
  <2> QED
    BY <1>0, <2>2 DEF Init, CreditInv
<1>6. CountInv
  BY <1>0 DEF CountInv, Unaligned, Init
<1>7. MainInv
  BY <1>0 DEF MainInv, Init, Idle, Driving
<1>8. PduInv
  <2>1. \A p \in Pdus : Untouched(p)
    BY <1>0, <1>2 DEF Untouched, Init, Idle
  <2> QED
    BY <1>0, <1>2, <1>3, <2>1 DEF PduInv, Init, Idle
<1>9. SegmentsInv
  BY TxAssumption DEF SegmentsInv, Init
<1>10. CostInv
  BY DEF CostInv, Init
<1>11. LineInv
  <2>1. ASSUME NEW c \in Conns
        PROVE  Line(c) = <<>>
    <3>1. Line(c) = <<>> \o <<>>
      BY <1>0 DEF Line
    <3> QED
      BY <3>1, ConcatEmptySeq
  <2>2. Len(<<>>) = 0
    OBVIOUS
  <2> HIDE DEF Line
  <2>3. ASSUME NEW c \in Conns
        PROVE  /\ Lined(Line(c), Len(done[c]), order[c], Answer)
               /\ Gapless(Line(c), Len(done[c]), order[c], Answer)
    BY <1>0, <2>1, <2>2 DEF Lined, Gapless
  <2> QED
    BY <1>0, <2>2, <2>3 DEF LineInv
<1>12. AssertInv
  BY DEF AssertInv, Init
<1> QED
  BY <1>1, <1>4, <1>5, <1>6, <1>7, <1>8, <1>9, <1>10, <1>11, <1>12 DEF IInv

(* A step that leaves the contexts, the counts and the driver alone.       *)
LEMMA ContextsFrame ==
  ASSUME IInv, UNCHANGED <<rx, pending, complete, freeTx, pkts, inLL, ctlr, txcb, order, done>>,
         \A c \in Conns : Up(c)' <=> Up(c), Driving' <=> Driving, Driving => main' = main
  PROVE  ListsInv' /\ CreditInv' /\ CountInv' /\ LineInv'
<1>1. ListsInv'
  BY DEF IInv, ListsInv, Sorted
<1>2. CreditInv'
  BY DEF IInv, CreditInv, Waiting
<1>3. CountInv'
  BY DEF IInv, CountInv, Unaligned
<1>4. Answer' = Answer
  BY DEF Answer
<1>5. \A c \in Conns : Line(c)' = Line(c)
  BY DEF Line
<1>6. LineInv'
  BY <1>4, <1>5 DEF IInv, LineInv
<1> QED
  BY <1>1, <1>2, <1>3, <1>6

(* A step that leaves the PDUs where they are.                             *)
LEMMA PdusFrame ==
  ASSUME IInv, UNCHANGED <<txcb, freeTx, told, order, sent, txq>>, main'.cb = main.cb,
         main'.cb # NULL => main' = main
  PROVE  PduInv'
<1>1. \A p \in Pdus : Untouched(p)' = Untouched(p)
  BY DEF Untouched
<1> QED
  BY <1>1 DEF IInv, PduInv, Driving

(* Raising a channel and adding what is there keep the front of a list.    *)
LEMMA AddOnceFacts ==
  ASSUME NEW S, NEW list \in Seq(S), NEW x \in S
  PROVE  /\ AddOnce(list, x) \in Seq(S)
         /\ list # <<>> => AddOnce(list, x) # <<>> /\ Head(AddOnce(list, x)) = Head(list)
<1>1. CASE Contains(list, x)
  BY <1>1 DEF AddOnce
<1>2. CASE ~Contains(list, x)
  BY <1>2, AppendFacts, LenProperties, EmptySeq, HeadTailProperties DEF AddOnce
<1> QED
  BY <1>1, <1>2

MainType == [at : {"idle", "pull", "nodata", "nocredit", "send", "driver", "notify"},
             conn : Conns \cup {NULL}, chan : Chans \cup {NULL}, cb : Pdus \cup {NULL},
             tx : Txs \cup {NULL}]

(* Where the main work queue goes.                                         *)
LEMMA MainMoves ==
  ASSUME NEW c \in Conns
  PROVE  /\ Idle \in MainType /\ Idle.at = "idle" /\ Idle.cb = NULL
         /\ \A a \in {"pull", "notify"} :
              LET m == [Idle EXCEPT !.at = a, !.conn = c]
              IN  m \in MainType /\ m.at = a /\ m.conn = c /\ m.cb = NULL
BY DEF Idle, MainType

(* bt_l2cap_send_pdu: a PDU that was nowhere goes to one queue.            *)
LEMMA SendPduInv == ASSUME IInv, NEW p \in Pdus, SendPdu(p) PROVE IInv'
<1> DEFINE h == Route[p]
<1>0. /\ h \in Chans /\ p \notin sent /\ sent' = sent \cup {p} /\ txq[h] \in Seq(Pdus)
      /\ txq' = [txq EXCEPT ![h] = Append(txq[h], p)] /\ raising' = raising \cup {h}
      /\ txq \in [Chans -> Seq(Pdus)] /\ Once(txq[h], Pdus) /\ ~Has(txq[h], p)
      /\ UNCHANGED <<preempt, rx, torn, connVars, chanReady, rest, left, credits, out,
                     given, pkts, freeTx, txcb, kick, main, order, told, done,
                     aborted>>
  BY TxAssumption DEF SendPdu, IInv, TypeOK, PduInv
<1>1. TypeOK'
  <2>1. Append(txq[h], p) \in Seq(Pdus)
    BY <1>0, AppendProperties
  <2> QED
    BY <1>0, <2>1, ZenonT(60) DEF IInv, TypeOK, connVars
<1>2. ListsInv' /\ CreditInv' /\ CountInv' /\ LineInv'
  BY <1>0, ContextsFrame DEF connVars, Up, Driving
<1>3. MainInv' /\ CostInv' /\ AssertInv'
  BY <1>0 DEF IInv, MainInv, CostInv, AssertInv, connVars, Driving, Up
<1>4. /\ \A g \in Chans : g # h => txq'[g] = txq[g]
      /\ \A q \in Pdus : Has(txq'[h], q) <=> Has(txq[h], q) \/ q = p
      /\ Once(txq'[h], Pdus)
  BY <1>0, AppendHas
<1>5. PduInv'
  <2>1. \A q \in Pdus : Untouched(q)' = Untouched(q)
    BY <1>0 DEF Untouched
  <2>2. \A q \in Pdus : q \notin sent' \/ Has(txq'[Route[q]], q) => Untouched(q)
    <3>1. \A q \in Pdus : Route[q] \in Chans
      BY TxAssumption
    <3> QED
      BY <1>0, <1>4, <3>1 DEF IInv, PduInv
  <2>3. \A g \in Chans : /\ Once(txq'[g], Pdus)
                         /\ \A q \in Pdus : Has(txq'[g], q) => Route[q] = g /\ q \in sent'
    BY <1>0, <1>4 DEF IInv, PduInv
  <2> QED
    BY <1>0, <2>1, <2>2, <2>3 DEF IInv, PduInv, Driving
<1>6. SegmentsInv'
  <2> SUFFICES ASSUME NEW q \in Pdus,
                      \/ q \notin sent'
                      \/ Has(txq'[Route[q]], q) /\ (Head(txq'[Route[q]]) = q => left[Route[q]] = 0)
               PROVE  rest[q] # <<>>
    BY <1>0 DEF SegmentsInv
  <2>1. CASE q = p
    BY <1>0, <2>1 DEF IInv, SegmentsInv
  <2>2. CASE q # p /\ q \notin sent
    BY <2>2 DEF IInv, SegmentsInv
  <2>3. CASE q # p /\ q \in sent /\ Route[q] # h
    BY <1>0, <1>4, <2>3, TxAssumption DEF IInv, SegmentsInv
  <2>4. CASE q # p /\ q \in sent /\ Route[q] = h
    <3>1. Has(txq[h], q) /\ txq[h] # <<>>
      BY <1>0, <1>4, <2>4, EmptyHas
    <3>2. Head(txq'[h]) = Head(txq[h])
      BY <1>0, <3>1, LenProperties, EmptySeq, AppendFacts, HeadTailProperties
    <3> QED
      BY <1>0, <2>4, <3>1, <3>2 DEF IInv, SegmentsInv
  <2> QED
    BY <2>1, <2>2, <2>3, <2>4
<1> QED
  BY <1>1, <1>2, <1>3, <1>5, <1>6 DEF IInv

(* raise_data_ready only adds to the ready lists.                          *)
LEMMA RaiseDataReadyInv == ASSUME IInv, NEW h \in Chans, RaiseDataReady(h) PROVE IInv'
<1> DEFINE c == Owner[h]
<1>0. /\ c \in Conns /\ chanReady \in [Conns -> Seq(Chans)] /\ connReady \in Seq(Conns)
      /\ chanReady[c] \in Seq(Chans) /\ raising' = raising \ {h}
      /\ UNCHANGED <<preempt, rx, torn, sent, state, pending, complete, inLL, ctlr, notify, txq,
                 rest, left, credits, out, given, pkts, freeTx, txcb, main,
                 order, told, done>>
  BY TxAssumption DEF RaiseDataReady, IInv, TypeOK
<1>1. \/ state[c] = "released" /\ aborted' = TRUE /\ UNCHANGED <<chanReady, connReady, kick>>
      \/ /\ chanReady' = [chanReady EXCEPT ![c] = AddOnce(chanReady[c], h)]
         /\ connReady' = AddOnce(connReady, c) /\ kick' = TRUE /\ aborted' = aborted
  BY DEF RaiseDataReady
<1>2. /\ AddOnce(chanReady[c], h) \in Seq(Chans) /\ AddOnce(connReady, c) \in Seq(Conns)
      /\ chanReady[c] # <<>> => /\ AddOnce(chanReady[c], h) # <<>>
                                /\ Head(AddOnce(chanReady[c], h)) = Head(chanReady[c])
  BY <1>0, AddOnceFacts
<1>3. TypeOK'
  <2>1. TypeOK
    BY DEF IInv
  <2>2. chanReady' \in [Conns -> Seq(Chans)] /\ connReady' \in Seq(Conns)
    BY <1>0, <1>1, <1>2
  <2>3. kick' \in BOOLEAN /\ aborted' \in BOOLEAN /\ raising' \subseteq Chans
    BY <1>0, <1>1, <2>1 DEF TypeOK
  <2> QED
    BY <1>0, <2>1, <2>2, <2>3 DEF TypeOK
<1>4. ListsInv' /\ CreditInv' /\ CountInv' /\ LineInv'
  BY <1>0, ContextsFrame DEF Up, Driving
<1>5. PduInv'
  BY <1>0, PdusFrame
<1>6. SegmentsInv' /\ CostInv'
  BY <1>0 DEF IInv, SegmentsInv, CostInv
<1>7. MainInv'
  <2>1. main.at \in {"nodata", "nocredit"} =>
          chanReady'[main.conn] # <<>> /\ Head(chanReady'[main.conn]) = main.chan
    BY <1>0, <1>1, <1>2 DEF IInv, MainInv
  <2> QED
    BY <1>0, <2>1 DEF IInv, MainInv, Driving, Up
<1>8. AssertInv'
  BY <1>0, <1>1 DEF IInv, AssertInv
<1> QED
  BY <1>3, <1>4, <1>5, <1>6, <1>7, <1>8 DEF IInv

(* le_credits adds a credit the peer gave.                                 *)
LEMMA GiveCreditsInv == ASSUME IInv, NEW h \in Chans, GiveCredits(h) PROVE IInv'
<1>0. UNCHANGED <<preempt, rx, torn, sent, connVars, chanReady, txq, rest, left, pkts, freeTx,
                  txcb, kick, main, order, told, done, aborted>>
  BY DEF GiveCredits
<1>1. TypeOK' /\ CostInv'
  <2>1. /\ given' = [given EXCEPT ![h] = given[h] + 1] /\ credits' = [credits EXCEPT ![h] = credits[h] + 1]
        /\ given[h] < MaxCredits /\ credits[h] <= given[h] /\ credits[h] \in 0..MaxCredits
        /\ given[h] \in 0..MaxCredits /\ MaxCredits \in Nat
        /\ credits \in [Chans -> 0..MaxCredits] /\ given \in [Chans -> 0..MaxCredits]
    BY TxAssumption DEF GiveCredits, IInv, TypeOK, CostInv
  <2>2. credits[h] + 1 \in 0..MaxCredits /\ given[h] + 1 \in 0..MaxCredits
    BY <2>1
  <2>3. credits' \in [Chans -> 0..MaxCredits] /\ given' \in [Chans -> 0..MaxCredits]
    BY <2>1, <2>2
  <2>4. CostInv'
    BY <2>1 DEF CostInv, IInv
  <2>5. out' \in [Chans -> BOOLEAN] /\ raising' \subseteq Chans
    BY DEF GiveCredits, IInv, TypeOK
  <2> QED
    BY <1>0, <2>3, <2>4, <2>5, ZenonT(60) DEF IInv, TypeOK, connVars
<1>2. ListsInv' /\ CreditInv' /\ CountInv' /\ LineInv'
  BY <1>0, ContextsFrame DEF connVars, Up, Driving
<1>3. PduInv'
  BY <1>0, PdusFrame
<1>4. SegmentsInv' /\ MainInv' /\ AssertInv'
  BY <1>0 DEF IInv, SegmentsInv, MainInv, AssertInv, connVars, Driving, Up
<1> QED
  BY <1>1, <1>2, <1>3, <1>4 DEF IInv

(* A step of a pass that touches neither a PDU nor a context, and what is  *)
(* left to show of it.                                                     *)
LEMMA PassFrame ==
  ASSUME IInv,
         UNCHANGED <<preempt, rx, torn, sent, state, pending, complete, inLL, ctlr, notify, txq, raising,
                     rest, left, credits, out, given, pkts, freeTx, txcb, order, told, done>>,
         main' = main \/ (main.cb = NULL /\ main'.cb = NULL /\ ~Driving /\ ~Driving'),
         kick' \in BOOLEAN, connReady' \in Seq(Conns), chanReady' \in [Conns -> Seq(Chans)],
         aborted' \in BOOLEAN, main' \in MainType,
         aborted' => aborted \/ \E c \in Conns : state[c] # "connected",
         MainInv'
  PROVE  IInv'
<1>1. TypeOK'
  <2>1. TypeOK
    BY DEF IInv
  <2> QED
    BY <2>1 DEF TypeOK, MainType
<1>2. ListsInv' /\ CreditInv' /\ CountInv' /\ LineInv'
  BY ContextsFrame DEF Up, Driving
<1>3. PduInv'
  BY PdusFrame
<1>4. SegmentsInv' /\ CostInv'
  BY DEF IInv, SegmentsInv, CostInv
<1>5. AssertInv'
  BY DEF IInv, AssertInv
<1> QED
  BY <1>1, <1>2, <1>3, <1>4, <1>5 DEF IInv

(* get_conn_ready starts a pass with a buffer and a context in sight.      *)
LEMMA GetConnReadyInv == ASSUME IInv, GetConnReady PROVE IInv'
<1> DEFINE c == Head(connReady)
<1>0. /\ main.at = "idle" /\ HaveResources /\ connReady # <<>> /\ connReady \in Seq(Conns)
      /\ kick \in BOOLEAN /\ aborted' = aborted /\ aborted \in BOOLEAN /\ main = Idle
      /\ chanReady \in [Conns -> Seq(Chans)] /\ chanReady' = chanReady /\ main \in MainType
      /\ UNCHANGED <<preempt, rx, torn, sent, state, pending, complete, inLL, ctlr, notify, txq, raising,
                     rest, left, credits, out, given, pkts, freeTx, txcb, order, told, done>>
  BY DEF GetConnReady, IInv, TypeOK, MainInv, MainType, chanVars
<1>1. c \in Conns /\ Tail(connReady) \in Seq(Conns)
  BY <1>0, HeadTailProperties
<1>2. connReady' \in Seq(Conns)
  <2>1. connReady' \in {Append(Tail(connReady), c), Tail(connReady), connReady}
    BY DEF GetConnReady
  <2>2. Append(Tail(connReady), c) \in Seq(Conns)
    BY <1>1, AppendProperties
  <2> QED
    BY <1>0, <1>1, <2>1, <2>2
<1>3. \/ state[c] = "connected" /\ main' = [Idle EXCEPT !.at = "pull", !.conn = c]
      \/ main' = main
  BY DEF GetConnReady
<1>4. kick' \in BOOLEAN
  BY DEF GetConnReady
<1>5. /\ Idle \in MainType /\ Idle.at = "idle" /\ Idle.cb = NULL
      /\ main' # main => main' \in MainType /\ main'.at = "pull" /\ main'.conn = c /\ main'.cb = NULL
  BY <1>1, <1>3, MainMoves, ZenonT(60)
<1>6. MainInv'
  <2>1. CASE main' = main
    BY <1>0, <2>1 DEF IInv, MainInv, Driving, Up
  <2>2. CASE main' # main
    BY <1>0, <1>1, <1>3, <1>5, <2>2 DEF MainInv, Driving, HaveResources
  <2> QED
    BY <2>1, <2>2
<1> QED
  BY <1>0, <1>2, <1>4, <1>5, <1>6, PassFrame DEF Driving

(* A pass that finds nothing changes nothing but the kick.                 *)
LEMMA NothingReadyInv == ASSUME IInv, NothingReady PROVE IInv'
<1>0. /\ UNCHANGED <<preempt, rx, torn, sent, state, pending, complete, inLL, ctlr, notify, txq, raising,
                     rest, left, credits, out, given, pkts, freeTx, txcb, order, told, done>>
      /\ UNCHANGED <<main, connReady, chanReady, aborted>> /\ kick' = FALSE
  BY DEF NothingReady, connVars, chanVars
<1>1. MainInv'
  BY <1>0 DEF IInv, MainInv, Driving, Up
<1>2. /\ connReady \in Seq(Conns) /\ chanReady \in [Conns -> Seq(Chans)] /\ aborted \in BOOLEAN
      /\ main \in MainType
  BY DEF IInv, TypeOK, MainType
<1> QED
  BY <1>0, <1>1, <1>2, PassFrame

(* l2cap_data_pull finds no channel.                                       *)
LEMMA PullNoneInv == ASSUME IInv, PullNone PROVE IInv'
<1>0. /\ UNCHANGED <<preempt, rx, torn, sent, state, pending, complete, inLL, ctlr, notify, txq, raising,
                     rest, left, credits, out, given, pkts, freeTx, txcb, order, told, done>>
      /\ UNCHANGED <<connReady, chanReady, aborted>> /\ kick' = TRUE /\ main' = Idle
      /\ main.at = "pull"
  BY DEF PullNone, connVars, chanVars
<1>1. /\ connReady \in Seq(Conns) /\ chanReady \in [Conns -> Seq(Chans)] /\ aborted \in BOOLEAN
      /\ main.cb = NULL /\ Idle \in MainType /\ Idle.at = "idle" /\ Idle.cb = NULL
  <2>1. main.cb = NULL
    BY <1>0 DEF IInv, MainInv
  <2> QED
    BY <2>1 DEF IInv, TypeOK, MainType, Idle
<1>2. MainInv'
  BY <1>0, <1>1 DEF MainInv, Driving
<1> QED
  BY <1>0, <1>1, <1>2, PassFrame DEF Driving

(* The channel to be lowered is at the head of the ready list.             *)
LEMMA PullRefusedInv == ASSUME IInv, PullRefused PROVE IInv'
<1> DEFINE h == Head(chanReady[main.conn])
<1>0. /\ UNCHANGED <<preempt, rx, torn, sent, state, pending, complete, inLL, ctlr, notify, txq, raising,
                     rest, left, credits, out, given, pkts, freeTx, txcb, order, told, done>>
      /\ UNCHANGED <<connReady, chanReady, aborted, kick>>
      /\ main.at = "pull" /\ chanReady[main.conn] # <<>>
      /\ \E a \in {"nodata", "nocredit"} : main' = [main EXCEPT !.at = a, !.chan = h]
  BY DEF PullRefused, connVars, chanVars
<1>1. /\ connReady \in Seq(Conns) /\ chanReady \in [Conns -> Seq(Chans)] /\ aborted \in BOOLEAN
      /\ kick \in BOOLEAN /\ main \in MainType
  BY DEF IInv, TypeOK, MainType
<1>2. main.cb = NULL /\ main.conn \in Conns
  BY <1>0 DEF IInv, MainInv
<1>3. h \in Chans
  BY <1>0, <1>1, <1>2, HeadTailProperties
<1>4. /\ main' \in MainType /\ main'.at \in {"nodata", "nocredit"} /\ main'.chan = h
      /\ main'.cb = NULL /\ main'.conn = main.conn
  BY <1>0, <1>1, <1>2, <1>3 DEF MainType
<1>5. MainInv'
  BY <1>0, <1>2, <1>4 DEF IInv, MainInv, Driving
<1> QED
  BY <1>0, <1>1, <1>2, <1>4, <1>5, PassFrame DEF Driving

(* The assertion on the state fails only for a connection that went down.  *)
LEMMA PullAssertsInv == ASSUME IInv, PullAsserts PROVE IInv'
<1>0. /\ UNCHANGED <<preempt, rx, torn, sent, state, pending, complete, inLL, ctlr, notify, txq, raising,
                     rest, left, credits, out, given, pkts, freeTx, txcb, order, told, done>>
      /\ UNCHANGED <<connReady, chanReady, main, kick>>
      /\ main.at = "pull" /\ state[main.conn] # "connected" /\ aborted' = TRUE
  BY DEF PullAsserts, connVars, chanVars
<1>1. /\ connReady \in Seq(Conns) /\ chanReady \in [Conns -> Seq(Chans)]
      /\ kick \in BOOLEAN /\ main \in MainType
  BY DEF IInv, TypeOK, MainType
<1>2. main.conn \in Conns
  BY <1>0 DEF IInv, MainInv
<1>3. MainInv'
  BY <1>0 DEF IInv, MainInv, Driving, Up
<1> QED
  BY <1>0, <1>1, <1>2, <1>3, PassFrame

(* lower_data_ready finds the channel it expects.                          *)
LEMMA LowerDataReadyInv == ASSUME IInv, LowerDataReady PROVE IInv'
<1> DEFINE c == main.conn
<1>0. /\ UNCHANGED <<preempt, rx, torn, sent, state, pending, complete, inLL, ctlr, notify, txq, raising,
                     rest, left, credits, out, given, pkts, freeTx, txcb, order, told, done>>
      /\ UNCHANGED <<connReady, kick>> /\ main.at \in {"nodata", "nocredit"}
  BY DEF LowerDataReady, connVars
<1>1. /\ connReady \in Seq(Conns) /\ chanReady \in [Conns -> Seq(Chans)]
      /\ kick \in BOOLEAN /\ main \in MainType /\ aborted \in BOOLEAN
  BY DEF IInv, TypeOK, MainType
<1>2. main.cb = NULL /\ c \in Conns /\ chanReady[c] # <<>> /\ Head(chanReady[c]) = main.chan
  BY <1>0 DEF IInv, MainInv
<1>3. /\ chanReady' = [chanReady EXCEPT ![c] = Tail(chanReady[c])] /\ aborted' = aborted
      /\ main' = IF main.at = "nodata" THEN [Idle EXCEPT !.at = "pull", !.conn = c] ELSE Idle
  BY <1>2 DEF LowerDataReady
<1>4. chanReady' \in [Conns -> Seq(Chans)]
  BY <1>1, <1>2, <1>3, HeadTailProperties
<1>5. /\ main' \in MainType /\ main'.cb = NULL
      /\ main.at = "nodata" => main'.at = "pull" /\ main'.conn = c
      /\ main.at # "nodata" => main' = Idle /\ main'.at = "idle"
  BY <1>2, <1>3, MainMoves
<1>6. MainInv'
  BY <1>0, <1>2, <1>5 DEF IInv, MainInv, Driving
<1> QED
  BY <1>0, <1>1, <1>2, <1>3, <1>4, <1>5, <1>6, PassFrame DEF Driving

(* l2cap_data_pull takes a fragment; the last one takes the PDU out of the *)
(* queue and its callback into the pass.                                   *)
LEMMA PullInv == ASSUME IInv, Pull PROVE IInv'
<1> DEFINE c == main.conn
           h == Head(chanReady[c])
           p == Head(txq[h])
           start == left[h] = 0
           have == IF start THEN Head(rest[p]) ELSE left[h]
           rest1 == IF start THEN Tail(rest[p]) ELSE rest[p]
           ends == have = 1 /\ rest1 = <<>>
           txq1 == IF ends THEN Tail(txq[h]) ELSE txq[h]
           again == have = 1 /\ txq1 # <<>>
           cost == IF start /\ h \in Dynamic THEN 1 ELSE 0
<1>0. /\ main.at = "pull" /\ chanReady[c] # <<>> /\ txq[h] # <<>> /\ state[c] = "connected"
      /\ start => ChanHasCredits(h)
      /\ left' = [left EXCEPT ![h] = have - 1]
      /\ rest' = [rest EXCEPT ![p] = rest1]
      /\ credits' = [credits EXCEPT ![h] = credits[h] - cost]
      /\ out' = [out EXCEPT ![h] = out[h] /\ ~(cost = 1 /\ credits[h] = 1)]
      /\ txq' = [txq EXCEPT ![h] = txq1]
      /\ \E q \in {chanReady[c], Append(Tail(chanReady[c]), h), Tail(chanReady[c])} :
           chanReady' = [chanReady EXCEPT ![c] = q]
      /\ connReady' \in {AddOnce(connReady, c), connReady}
      /\ kick' = (kick \/ again)
      /\ main' = [main EXCEPT !.at = "send", !.chan = h, !.cb = IF ends THEN p ELSE NULL]
      /\ UNCHANGED <<preempt, rx, torn, sent, state, pending, complete, inLL, ctlr, notify,
                     raising, given, pkts, freeTx, txcb, order, told, done, aborted>>
  BY DEF Pull
<1>1. TypeOK /\ NULL \notin Pdus
  BY TxAssumption DEF IInv
<1>2. main.cb = NULL /\ c \in Conns /\ pkts > 0 /\ freeTx # {}
  BY <1>0 DEF IInv, MainInv
<1>3. /\ h \in Chans /\ Tail(chanReady[c]) \in Seq(Chans) /\ chanReady[c] \in Seq(Chans)
      /\ Append(Tail(chanReady[c]), h) \in Seq(Chans)
  <2>1. h \in Chans /\ Tail(chanReady[c]) \in Seq(Chans) /\ chanReady[c] \in Seq(Chans)
    BY <1>0, <1>1, <1>2, HeadTailProperties DEF TypeOK
  <2> QED
    BY <2>1, AppendProperties
<1>4. txq[h] \in Seq(Pdus) /\ Once(txq[h], Pdus)
  BY <1>1, <1>3 DEF IInv, TypeOK, PduInv
<1>5. /\ Tail(txq[h]) \in Seq(Pdus) /\ p \in Pdus /\ Has(txq[h], p)
      /\ \A x \in Pdus : Has(Tail(txq[h]), x) <=> Has(txq[h], x) /\ x # p
      /\ Once(Tail(txq[h]), Pdus)
  <2>1. txq[h] # <<>>
    BY <1>0
  <2> QED
    BY ONLY <1>4, <2>1, FirstTaken
<1>6. Route[p] = h /\ p \in sent /\ Untouched(p)
  BY <1>3, <1>5 DEF IInv, PduInv
<1>7. start => rest[p] # <<>>
  BY <1>3, <1>5, <1>6 DEF IInv, SegmentsInv
<1>8. have \in Nat \ {0} /\ rest1 \in Seq(Nat \ {0})
  <2>1. rest[p] \in Seq(Nat \ {0}) /\ left[h] \in Nat
    BY <1>1, <1>3, <1>5 DEF TypeOK
  <2>2. CASE start
    BY <1>7, <2>1, <2>2, HeadTailProperties
  <2>3. CASE ~start
    BY <2>1, <2>3
  <2> QED
    BY <2>2, <2>3
<1>9. txq1 \in Seq(Pdus) /\ Once(txq1, Pdus)
      /\ \A x \in Pdus : Has(txq1, x) <=> Has(txq[h], x) /\ ~(ends /\ x = p)
  BY <1>4, <1>5
<1>10. /\ credits[h] - cost \in 0..MaxCredits /\ credits[h] - cost <= given[h]
  <2>1. credits[h] \in 0..MaxCredits /\ given[h] \in 0..MaxCredits /\ MaxCredits \in Nat
        /\ credits[h] <= given[h]
    <3>1. CostInv
      BY DEF IInv
    <3> HIDE DEF h
    <3> QED
      BY <1>1, <1>3, <3>1, TxAssumption DEF TypeOK, CostInv
  <2>2. cost = 1 => credits[h] > 0
    <3>1. start => ChanHasCredits(h)
      BY <1>0
    <3> QED
      BY <3>1 DEF ChanHasCredits
  <2>3. cost \in {0, 1}
    OBVIOUS
  <2> HIDE DEF cost
  <2> QED
    BY <2>1, <2>2, <2>3
<1> HIDE DEF have, rest1, txq1, again, cost, start, c, h, p, ends
<1>11. /\ main' \in MainType /\ main'.at = "send" /\ main'.conn = c /\ main.conn = c
       /\ main'.cb = IF ends THEN p ELSE NULL
  <2>1. main \in MainType
    BY <1>1 DEF TypeOK, MainType
  <2>2. main.conn = c
    BY DEF c
  <2> QED
    BY <1>0, <1>3, <1>5, <2>1, <2>2 DEF MainType
<1>12. TypeOK'
  <2>1. left' \in [Chans -> Nat]
    <3>1. have - 1 \in Nat /\ left' = [left EXCEPT ![h] = have - 1] /\ left \in [Chans -> Nat]
      <4>1. have - 1 \in Nat
        BY <1>8
      <4> QED
        BY <1>0, <1>1, <4>1 DEF TypeOK
    <3> QED
      BY <1>3, <3>1
  <2>2. rest' \in [Pdus -> Seq(Nat \ {0})]
    BY <1>0, <1>1, <1>5, <1>8 DEF TypeOK
  <2>3. credits' \in [Chans -> 0..MaxCredits]
    BY <1>0, <1>1, <1>3, <1>10 DEF TypeOK
  <2>4. out' \in [Chans -> BOOLEAN] /\ kick' \in BOOLEAN
    BY <1>0, <1>1, <1>3 DEF TypeOK, again
  <2>5. txq' \in [Chans -> Seq(Pdus)]
    BY <1>0, <1>1, <1>3, <1>9 DEF TypeOK
  <2>6. chanReady' \in [Conns -> Seq(Chans)]
    <3>1. PICK q \in {chanReady[c], Append(Tail(chanReady[c]), h), Tail(chanReady[c])} :
            chanReady' = [chanReady EXCEPT ![c] = q]
      BY <1>0
    <3>2. q \in Seq(Chans) /\ chanReady \in [Conns -> Seq(Chans)]
      BY <1>1, <1>3, <3>1 DEF TypeOK
    <3> QED
      BY <1>2, <3>1, <3>2
  <2>7. connReady' \in Seq(Conns)
    <3>1. connReady \in Seq(Conns) /\ AddOnce(connReady, c) \in Seq(Conns)
      BY <1>1, <1>2, AddOnceFacts DEF TypeOK
    <3> QED
      BY <1>0, <3>1
  <2> QED
    BY <1>0, <1>1, <1>11, <2>1, <2>2, <2>3, <2>4, <2>5, <2>6, <2>7 DEF TypeOK, MainType
<1>13. ~Driving /\ ~Driving'
  BY <1>0, <1>11 DEF Driving
<1>14. ListsInv' /\ CreditInv' /\ CountInv' /\ LineInv'
  <2>1. /\ UNCHANGED <<rx, pending, complete, freeTx, pkts, inLL, ctlr, txcb, order, done>>
        /\ \A d \in Conns : Up(d)' <=> Up(d)
    BY <1>0 DEF Up
  <2> QED
    BY <1>13, <2>1, ContextsFrame
<1>15. MainInv'
  BY <1>0, <1>2, <1>11, <1>13 DEF IInv, MainInv
<1>16. PduInv'
  <2>1. /\ \A g \in Chans : g # h => txq'[g] = txq[g]
        /\ txq'[h] = txq1
    BY <1>0, <1>1, <1>3 DEF TypeOK
  <2>2. \A g \in Chans : /\ Once(txq'[g], Pdus)
                         /\ \A q \in Pdus : Has(txq'[g], q) => Has(txq[g], q) /\ ~(ends /\ q = p)
    <3>1. \A g \in Chans : Once(txq[g], Pdus) /\ \A q \in Pdus : Has(txq[g], q) => Route[q] = g
      BY DEF IInv, PduInv
    <3>2. Once(txq'[h], Pdus) /\ \A q \in Pdus : Has(txq'[h], q) => Has(txq[h], q) /\ ~(ends /\ q = p)
      BY <1>9, <2>1
    <3>3. \A g \in Chans : g # h => \A q \in Pdus : Has(txq'[g], q) => Has(txq[g], q) /\ q # p
      BY <1>6, <2>1, <3>1
    <3> QED
      BY <2>1, <3>1, <3>2, <3>3
  <2>3. ASSUME NEW q \in Pdus, q \notin sent' \/ Has(txq'[Route[q]], q)
        PROVE  Untouched(q)'
    <3>0. Route[q] \in Chans
      BY TxAssumption
    <3>1. Untouched(q) /\ ~(ends /\ q = p)
      BY <1>0, <1>6, <2>2, <2>3, <3>0 DEF IInv, PduInv
    <3>2. main'.cb # q
      BY <1>1, <1>11, <3>1
    <3> QED
      BY <1>0, <3>1, <3>2 DEF Untouched
  <2>4. main'.cb # NULL => /\ \A d \in Conns : ~Has(order'[d], main'.cb)
                           /\ told'[main'.cb] = 0 /\ \A t \in Txs : txcb'[t] # main'.cb
    BY <1>0, <1>6, <1>11 DEF Untouched
  <2> QED
    BY <1>0, <1>13, <2>2, <2>3, <2>4 DEF IInv, PduInv
<1>17. SegmentsInv'
  <2> SUFFICES ASSUME NEW q \in Pdus,
                      \/ q \notin sent'
                      \/ /\ Has(txq'[Route[q]], q)
                         /\ Head(txq'[Route[q]]) = q => left'[Route[q]] = 0
               PROVE  rest'[q] # <<>>
    BY DEF SegmentsInv
  <2>0. Route[q] \in Chans
    BY TxAssumption
  <2>1. CASE q = p
    <3>1. rest'[p] = rest1 /\ txq'[h] = txq1 /\ left'[h] = have - 1
      BY <1>0, <1>1, <1>3, <1>5 DEF TypeOK
    <3>2. Has(txq1, p) /\ (Head(txq1) = p => have - 1 = 0)
      BY <1>0, <1>6, <2>1, <3>1
    <3>3. ~ends /\ txq1 = txq[h]
      BY <1>5, <1>9, <3>2 DEF txq1, ends
    <3>4. have = 1
      BY <1>8, <3>2, <3>3 DEF p
    <3> QED
      BY <2>1, <3>1, <3>3, <3>4 DEF ends
  <2>2. CASE q # p /\ q \notin sent
    BY <1>0, <1>1, <1>5, <2>2 DEF IInv, SegmentsInv, TypeOK
  <2>3. CASE q # p /\ q \in sent /\ Route[q] # h
    BY <1>0, <1>1, <1>3, <1>5, <2>0, <2>3 DEF IInv, SegmentsInv, TypeOK
  <2>4. CASE q # p /\ q \in sent /\ Route[q] = h
    <3>1. Has(txq[h], q)
      BY <1>0, <1>1, <1>3, <1>9, <2>4 DEF TypeOK
    <3>2. rest[q] # <<>>
      BY <2>4, <3>1 DEF IInv, SegmentsInv, p
    <3> QED
      BY <1>0, <1>1, <1>5, <2>4, <3>2 DEF TypeOK
  <2> QED
    BY <2>1, <2>2, <2>3, <2>4
<1>18. CostInv'
  BY <1>0, <1>1, <1>3, <1>10 DEF IInv, CostInv, TypeOK
<1>19. AssertInv'
  BY <1>0 DEF IInv, AssertInv
<1> QED
  BY <1>12, <1>14, <1>15, <1>16, <1>17, <1>18, <1>19 DEF IInv

(* What the line of a connection consists of.                              *)
LEMMA LineFacts ==
  ASSUME TypeOK, ListsInv, NEW c \in Conns
  PROVE  /\ pending[c] \in Seq(Txs) /\ complete[c] \in Seq(Txs)
         /\ Once(pending[c], Txs) /\ Once(complete[c], Txs)
         /\ Line(c) \in Seq(Txs) /\ Once(Line(c), Txs)
         /\ \A t \in Txs : Has(Line(c), t) <=> Has(complete[c], t) \/ (Up(c) /\ Has(pending[c], t))
         /\ Up(c) => Line(c) = complete[c] \o pending[c]
         /\ ~Up(c) => Line(c) = complete[c]
<1>1. /\ pending[c] \in Seq(Txs) /\ complete[c] \in Seq(Txs)
      /\ Once(pending[c], Txs) /\ Once(complete[c], Txs)
      /\ \A t \in Txs : ~(Has(complete[c], t) /\ Has(pending[c], t))
  BY DEF TypeOK, ListsInv, Sorted
<1>2. CASE Up(c)
  <2>1. Line(c) = complete[c] \o pending[c]
    BY <1>2 DEF Line
  <2>2. /\ Line(c) \in Seq(Txs) /\ Once(Line(c), Txs)
        /\ \A t \in Txs : Has(Line(c), t) <=> Has(complete[c], t) \/ Has(pending[c], t)
    BY ONLY <1>1, <2>1, ConcatHas
  <2> QED
    BY <1>1, <1>2, <2>1, <2>2
<1>3. CASE ~Up(c)
  <2>1. Line(c) = complete[c] \o <<>>
    BY <1>3 DEF Line
  <2>2. Line(c) = complete[c]
    BY <1>1, <2>1, ConcatEmptySeq
  <2> QED
    BY <1>1, <1>3, <2>2
<1> QED
  BY <1>2, <1>3

(* hci_disconn_complete: the contexts of tx_complete stay in line.         *)
LEMMA DisconnectedInv == ASSUME IInv, NEW c \in Conns, Disconnected(c) PROVE IInv'
<1>0. /\ state[c] = "complete" /\ state' = [state EXCEPT ![c] = "disconnected"] /\ Others
      /\ notify' = [notify EXCEPT ![c] = TRUE]
      /\ UNCHANGED <<preempt, rx, torn, sent, connReady, pending, complete, inLL, ctlr, chanVars,
                     pkts, freeTx, txcb, kick, main, order, told, done, aborted>>
  BY DEF Disconnected
<1>1. TypeOK /\ AssertInv /\ MainInv
  BY DEF IInv
<1>2. /\ \A d \in Conns : Up(d)' <=> Up(d)
      /\ \A d \in Conns : state[d] # "connected" => state'[d] # "connected"
      /\ \A d \in Conns : d # c => state'[d] = state[d]
  BY <1>0, <1>1 DEF Up, TypeOK
<1>3. TypeOK'
  <2>1. state' \in [Conns -> {"connected", "disconnecting", "complete", "disconnected", "released"}]
        /\ notify' \in [Conns -> BOOLEAN]
    BY <1>0, <1>1 DEF TypeOK
  <2> QED
    BY <1>0, <1>1, <2>1, ZenonT(60) DEF TypeOK, chanVars
<1>4. ListsInv' /\ CreditInv' /\ CountInv' /\ LineInv'
  BY <1>0, <1>2, ContextsFrame DEF Driving
<1>5. PduInv'
  BY <1>0, PdusFrame DEF chanVars
<1>6. SegmentsInv' /\ CostInv'
  BY <1>0 DEF IInv, SegmentsInv, CostInv, chanVars
<1>7. MainInv'
  <2>1. main.at \notin {"idle", "notify"} /\ ~preempt => state'[main.conn] = "connected"
    BY <1>0, <1>1 DEF Others
  <2>2. Driving => main.conn \in Conns
    BY <1>1 DEF MainInv, Driving
  <2> QED
    BY <1>0, <1>1, <1>2, <2>1, <2>2 DEF MainInv, chanVars, Driving
<1>8. AssertInv'
  BY <1>0, <1>1, <1>2 DEF AssertInv
<1> QED
  BY <1>3, <1>4, <1>5, <1>6, <1>7, <1>8 DEF IInv

(* deferred_work drops what the channels had queued.                       *)
LEMMA DeferredWorkInv == ASSUME IInv, NEW c \in Conns, DeferredWork(c) PROVE IInv'
<1> DEFINE gone == {h \in Chans : Owner[h] = c}
<1>0. /\ main.at = "idle" /\ state[c] = "disconnected"
      /\ state' = [state EXCEPT ![c] = "released"]
      /\ chanReady' = [chanReady EXCEPT ![c] = <<>>]
      /\ txq' = [h \in Chans |-> IF h \in gone THEN <<>> ELSE txq[h]]
      /\ left' = [h \in Chans |-> IF h \in gone THEN 0 ELSE left[h]]
      /\ UNCHANGED <<preempt, rx, torn, sent, connReady, pending, complete, inLL, ctlr, notify,
                     raising, rest, credits, out, given, pkts, freeTx, txcb, kick, main,
                     order, told, done, aborted>>
  BY DEF DeferredWork
<1>1. TypeOK /\ AssertInv /\ MainInv /\ PduInv /\ main = Idle /\ Idle.at = "idle" /\ Idle.cb = NULL
  BY <1>0 DEF IInv, MainInv, Idle
<1>2. /\ \A d \in Conns : Up(d)' <=> Up(d)
      /\ \A d \in Conns : state[d] # "connected" => state'[d] # "connected"
  BY <1>0, <1>1 DEF Up, TypeOK
<1>3. TypeOK'
  <2>1. state' \in [Conns -> {"connected", "disconnecting", "complete", "disconnected", "released"}]
    BY <1>0, <1>1 DEF TypeOK
  <2>4. chanReady' \in [Conns -> Seq(Chans)]
    <3>1. chanReady \in [Conns -> Seq(Chans)] /\ <<>> \in Seq(Chans)
      BY <1>1 DEF TypeOK
    <3> QED
      BY <1>0, <3>1
  <2>2. txq' \in [Chans -> Seq(Pdus)]
    BY <1>0, <1>1 DEF TypeOK
  <2>3. left' \in [Chans -> Nat]
    BY <1>0, <1>1 DEF TypeOK
  <2> QED
    BY <1>0, <1>1, <2>1, <2>2, <2>3, <2>4 DEF TypeOK
<1>4. ListsInv' /\ CreditInv' /\ CountInv' /\ LineInv'
  BY <1>0, <1>2, ContextsFrame DEF Driving
<1>5. \A h \in Chans : \/ h \in gone /\ txq'[h] = <<>>
                       \/ h \notin gone /\ txq'[h] = txq[h] /\ left'[h] = left[h]
  BY <1>0
<1>6. \A x : ~Has(<<>>, x)
  BY DEF Has
<1>7. Once(<<>>, Pdus)
  BY DEF Once
<1>8. PduInv'
  <2>1. \A p \in Pdus : Untouched(p)' <=> Untouched(p)
    BY <1>0 DEF Untouched
  <2>2. \A h \in Chans : \A p \in Pdus : Has(txq'[h], p) => Has(txq[h], p)
    BY <1>5, <1>6
  <2>3. \A h \in Chans : Once(txq'[h], Pdus)
    BY <1>1, <1>5, <1>7 DEF PduInv
  <2>4. \A p \in Pdus : p \notin sent' \/ Has(txq'[Route[p]], p) => Untouched(p)'
    <3>1. \A p \in Pdus : Route[p] \in Chans
      BY TxAssumption
    <3> QED
      BY <1>0, <1>1, <2>1, <2>2, <3>1 DEF PduInv
  <2> QED
    BY <1>0, <1>1, <2>2, <2>3, <2>4 DEF PduInv, Driving
<1>9. SegmentsInv' /\ CostInv'
  <2>1. \A p \in Pdus : Route[p] \in Chans
    BY TxAssumption
  <2>2. SegmentsInv'
    BY <1>0, <1>5, <1>6, <2>1 DEF IInv, SegmentsInv
  <2> QED
    BY <1>0, <2>2 DEF IInv, CostInv
<1>10. MainInv'
  BY <1>0, <1>1 DEF MainInv, Driving
<1>11. AssertInv'
  BY <1>0, <1>1, <1>2 DEF AssertInv
<1> QED
  BY <1>3, <1>4, <1>8, <1>9, <1>10, <1>11 DEF IInv

(* One more context waits, or one less, or those of one connection.        *)
LEMMA WaitingCounts ==
  ASSUME NEW wait, NEW W, W \subseteq Txs
  PROVE  /\ IsFiniteSet(Waiting(wait)) /\ Cardinality(Waiting(wait)) \in Nat
         /\ W \subseteq Waiting(wait) =>
              Cardinality(Waiting(wait) \ W) = Cardinality(Waiting(wait)) - Cardinality(W)
         /\ \A t \in Txs : t \notin Waiting(wait) =>
              Cardinality(Waiting(wait) \cup {t}) = Cardinality(Waiting(wait)) + 1
         /\ \A t \in Waiting(wait) :
              Cardinality(Waiting(wait) \ {t}) = Cardinality(Waiting(wait)) - 1
<1> DEFINE X == Waiting(wait)
<1>1. X \subseteq Txs /\ IsFiniteSet(Txs)
  BY TxAssumption DEF Waiting
<1> HIDE DEF X
<1>2. IsFiniteSet(X) /\ IsFiniteSet(W)
  BY <1>1, FS_Subset
<1>3. Cardinality(X) \in Nat
  BY <1>2, FS_CardinalityType
<1>4. ASSUME W \subseteq X
      PROVE  Cardinality(X \ W) = Cardinality(X) - Cardinality(W)
  <2>1. X \cap W = W
    BY <1>4
  <2>2. Cardinality(X \ W) = Cardinality(X) - Cardinality(X \cap W)
    BY <1>2, FS_Difference
  <2> QED
    BY <2>1, <2>2
<1>5. \A t \in Txs : t \notin X => Cardinality(X \cup {t}) = Cardinality(X) + 1
  BY <1>2, FS_AddElement
<1>6. \A t \in X : Cardinality(X \ {t}) = Cardinality(X) - 1
  BY <1>2, FS_RemoveElement
<1> QED
  BY <1>2, <1>3, <1>4, <1>5, <1>6 DEF X

(* send_buf: a free context joins tx_pending, and the line, at the end.    *)
LEMMA SendBufInv == ASSUME IInv, SendBuf PROVE IInv'
<1> DEFINE c == main.conn
           t == CHOOSE x \in freeTx : TRUE
<1>1. /\ TypeOK /\ ListsInv /\ CreditInv /\ CountInv /\ MainInv /\ PduInv /\ LineInv /\ AssertInv
      /\ NULL \notin Pdus /\ NULL \notin Txs
  BY TxAssumption DEF IInv
<1>2. main.at = "send" /\ c \in Conns /\ pkts > 0 /\ freeTx # {}
  BY <1>1 DEF SendBuf, MainInv
<1>3. t \in freeTx /\ t \in Txs
  BY <1>1, <1>2 DEF TypeOK
<1> HIDE DEF t
<1>4. /\ pkts' = pkts - 1 /\ freeTx' = freeTx \ {t} /\ txcb' = [txcb EXCEPT ![t] = main.cb]
      /\ inLL' = [inLL EXCEPT ![c] = inLL[c] + 1]
      /\ pending' = [pending EXCEPT ![c] = Append(pending[c], t)]
      /\ main' = [main EXCEPT !.at = "driver", !.tx = t]
      /\ UNCHANGED <<preempt, rx, torn, sent, state, connReady, complete, ctlr, notify, chanVars,
                     kick, order, told, done, aborted>>
  <2>1. pkts # 0
    BY <1>1, <1>2 DEF TypeOK
  <2> QED
    BY <1>2, <2>1 DEF SendBuf, t
<1> HIDE DEF c
<1>5. /\ main' \in MainType /\ main'.at = "driver" /\ main'.tx = t /\ main'.conn = c
      /\ main'.cb = main.cb /\ main.conn = c
  <2>1. main \in MainType
    BY <1>1 DEF TypeOK, MainType
  <2> QED
    BY <1>3, <1>4, <2>1 DEF MainType, c
<1>6. \A d \in Conns : /\ pending[d] \in Seq(Txs) /\ complete[d] \in Seq(Txs)
                       /\ Once(pending[d], Txs) /\ Once(complete[d], Txs)
                       /\ ~Has(pending[d], t) /\ ~Has(complete[d], t)
  BY <1>1, <1>3 DEF TypeOK, ListsInv, Sorted
<1>7. /\ pending'[c] = Append(pending[c], t) /\ \A d \in Conns : d # c => pending'[d] = pending[d]
      /\ pending' \in [Conns -> Seq(Txs)]
  <2>1. Append(pending[c], t) \in Seq(Txs)
    BY <1>2, <1>3, <1>6, AppendProperties
  <2> QED
    BY <1>1, <1>2, <1>4, <2>1 DEF TypeOK
<1>8. /\ \A x : Has(pending'[c], x) <=> Has(pending[c], x) \/ x = t
      /\ Once(pending'[c], Txs)
      /\ Len(pending[c]) \in Nat /\ Len(pending'[c]) = Len(pending[c]) + 1
      /\ pending'[c] # <<>> /\ Last(pending'[c]) = t
  <2>1. /\ \A x : Has(Append(pending[c], t), x) <=> Has(pending[c], x) \/ x = t
        /\ Once(Append(pending[c], t), Txs)
    BY <1>2, <1>3, <1>6, AppendHas
  <2>2. /\ Len(pending[c]) \in Nat /\ Append(pending[c], t) # <<>>
        /\ Len(Append(pending[c], t)) = Len(pending[c]) + 1
        /\ Append(pending[c], t)[Len(pending[c]) + 1] = t
    BY <1>2, <1>3, <1>6, AppendProperties, LenProperties
  <2> QED
    BY <1>7, <2>1, <2>2 DEF Last
<1>9. TypeOK'
  <2>1. pkts' \in 0..CtlrBufs /\ freeTx' \subseteq Txs
    <3>1. pkts \in 0..CtlrBufs /\ CtlrBufs \in Nat /\ freeTx \subseteq Txs
      BY <1>1, TxAssumption DEF TypeOK
    <3> QED
      BY <1>2, <1>4, <3>1
  <2>2. txcb' \in [Txs -> Pdus \cup {NULL}]
    BY <1>1, <1>3, <1>4 DEF TypeOK
  <2>3. inLL' \in [Conns -> Int]
    <3>1. inLL \in [Conns -> Int]
      BY <1>1 DEF TypeOK
    <3>2. inLL[c] + 1 \in Int
      BY <1>2, <3>1
    <3> QED
      BY <1>2, <1>4, <3>1, <3>2
  <2> QED
    BY <1>1, <1>4, <1>5, <1>7, <2>1, <2>2, <2>3 DEF TypeOK, MainType, chanVars
<1>10. ListsInv'
  <2>1. \A d \in Conns : \A x \in Txs : Has(pending'[d], x) <=> Has(pending[d], x) \/ (d = c /\ x = t)
    BY <1>7, <1>8
  <2>2. \A d \in Conns : Once(pending'[d], Txs)
    BY <1>6, <1>7, <1>8
  <2> QED
    BY <1>1, <1>2, <1>3, <1>4, <1>6, <2>1, <2>2 DEF ListsInv, Sorted
<1>11. CreditInv'
  <2>1. Waiting(pending') = Waiting(pending) \cup {t}
    BY <1>2, <1>3, <1>7, <1>8 DEF Waiting
  <2>2. t \notin Waiting(pending)
    BY <1>6 DEF Waiting
  <2>3. Cardinality(Waiting(pending')) = Cardinality(Waiting(pending)) + 1
        /\ Cardinality(Waiting(pending)) \in Nat
    BY <1>3, <2>1, <2>2, WaitingCounts
  <2> QED
    BY <1>1, <1>4, <2>3 DEF CreditInv, TypeOK
<1>12. ~Driving /\ Driving' /\ \A d \in Conns : Up(d)' <=> Up(d)
  BY <1>2, <1>4, <1>5 DEF Driving, Up
<1>13. CountInv'
  <2>1. ASSUME NEW d \in Conns
        PROVE  /\ Up(d) => /\ inLL'[d] = Len(pending'[d]) + Unaligned(d)
                           /\ ctlr[d] = IF d = c THEN Len(pending'[d]) - 1 ELSE Len(pending'[d])
               /\ ~Up(d) => ctlr[d] = 0
    <3>1. /\ Up(d) => inLL[d] = Len(pending[d]) + Unaligned(d) /\ ctlr[d] = Len(pending[d])
          /\ ~Up(d) => ctlr[d] = 0
      BY <1>1, <1>12 DEF CountInv
    <3>2. inLL'[d] = IF d = c THEN inLL[d] + 1 ELSE inLL[d]
      BY <1>1, <1>2, <1>4 DEF TypeOK
    <3>3. Unaligned(d) \in Nat /\ Len(pending[d]) \in Nat
      BY <1>1, LineFacts, LenProperties DEF Unaligned
    <3> QED
      BY <1>7, <1>8, <3>1, <3>2, <3>3
  <2> QED
    BY <1>4, <1>5, <1>12, <2>1 DEF CountInv, Unaligned
<1>14. MainInv'
  <2>1. /\ txcb'[t] = main.cb /\ \A d \in Conns : Has(pending'[d], t) => d = c
    BY <1>1, <1>3, <1>4, <1>6, <1>7, <1>8 DEF TypeOK
  <2>2. ~preempt => state[c] = "connected"
    BY <1>1, <1>2, <1>5 DEF MainInv
  <2> QED
    BY <1>2, <1>3, <1>4, <1>5, <1>6, <1>8, <2>1, <2>2 DEF MainInv
<1>15. /\ \A u \in Txs : txcb'[u] = IF u = t THEN main.cb ELSE txcb[u]
       /\ txcb[t] = NULL
  BY <1>1, <1>3, <1>4 DEF TypeOK, PduInv
<1>16. PduInv'
  <2>1. \A p \in Pdus : Untouched(p) => Untouched(p)'
    BY <1>4, <1>5, <1>15 DEF Untouched
  <2>2. UNCHANGED <<txq, sent, told, order>>
    BY <1>4 DEF chanVars
  <2>3. main.cb # NULL => /\ told[main.cb] = 0 /\ \A u \in Txs : txcb[u] # main.cb
                          /\ \A d \in Conns : ~Has(order[d], main.cb)
    BY <1>1, <1>2 DEF PduInv
  <2>4. /\ \A h \in Chans : /\ Once(txq'[h], Pdus)
                            /\ \A p \in Pdus : Has(txq'[h], p) => Route[p] = h /\ p \in sent'
        /\ \A p \in Pdus : p \notin sent' \/ Has(txq'[Route[p]], p) => Untouched(p)'
        /\ \A p \in Pdus : told'[p] <= 1
        /\ \A d \in Conns : Once(order'[d], Pdus)
    BY <1>1, <2>1, <2>2 DEF PduInv
  <2>5. /\ \A u \in Txs : txcb'[u] # NULL => told'[txcb'[u]] = 0
        /\ \A u, v \in Txs : txcb'[u] = txcb'[v] /\ txcb'[u] # NULL => u = v
    BY <1>1, <1>15, <2>2, <2>3 DEF PduInv
  <2>6. \A u \in freeTx' : txcb'[u] = NULL
    BY <1>1, <1>3, <1>4, <1>15 DEF PduInv, TypeOK
  <2>7. main'.cb # NULL => /\ \A d \in Conns : ~Has(order'[d], main'.cb)
                           /\ \A u \in Txs : txcb'[u] = main'.cb => u = main'.tx
    BY <1>5, <1>15, <2>2, <2>3
  <2> QED
    BY <1>5, <2>4, <2>5, <2>6, <2>7 DEF PduInv
<1>17. LineInv'
  <2>1. Answer' = Answer /\ Answer[t] = NULL
    <3>1. \A u \in Txs : Answer[u] = txcb[u]
      BY <1>12 DEF Answer
    <3>2. \A u \in Txs : Answer'[u] = IF u = t THEN NULL ELSE txcb'[u]
      BY <1>5, <1>12 DEF Answer
    <3>3. \A u \in Txs : Answer'[u] = Answer[u]
      BY <1>15, <3>1, <3>2
    <3> QED
      BY <1>3, <1>15, <3>1, <3>3 DEF Answer
  <2> SUFFICES ASSUME NEW d \in Conns
               PROVE  /\ Lined(Line(d)', Len(done[d]), order[d], Answer)
                      /\ Up(d) => Gapless(Line(d)', Len(done[d]), order[d], Answer)
    BY <1>1, <1>4, <1>12, <2>1 DEF LineInv
  <2>2. /\ Line(d) \in Seq(Txs) /\ done[d] \in Seq(Pdus) /\ order[d] \in Seq(Pdus)
        /\ Len(done[d]) \in Nat
        /\ Lined(Line(d), Len(done[d]), order[d], Answer)
        /\ Up(d) => Gapless(Line(d), Len(done[d]), order[d], Answer)
    BY <1>1, LineFacts, LenProperties DEF LineInv, TypeOK
  <2>3. CASE d = c /\ Up(d)
    <3>1. Line(d)' = complete[d] \o Append(pending[d], t) /\ Line(d) = complete[d] \o pending[d]
      BY <1>4, <1>7, <1>12, <2>3 DEF Line
    <3>2. Line(d)' = Append(Line(d), t)
      <4>1. ASSUME NEW a \in Seq(Txs), NEW b \in Seq(Txs)
            PROVE  a \o Append(b, t) = Append(a \o b, t)
        BY <1>3, ConcatAppend
      <4> QED
        BY <1>6, <3>1, <4>1, Zenon
    <3> QED
      BY <1>3, <2>1, <2>2, <3>2, LinedAppend
  <2>4. CASE d # c \/ ~Up(d)
    <3>1. Line(d)' = Line(d)
      BY <1>4, <1>7, <1>12, <2>4 DEF Line
    <3> QED
      BY <2>2, <3>1
  <2> QED
    BY <2>3, <2>4
<1>18. SegmentsInv' /\ CostInv' /\ AssertInv'
  BY <1>4 DEF IInv, SegmentsInv, CostInv, AssertInv, chanVars
<1> QED
  BY <1>9, <1>10, <1>11, <1>13, <1>14, <1>16, <1>17, <1>18 DEF IInv

(* What the lines, the histories and the callbacks are in a state of the   *)
(* invariant, for the steps that change them.                              *)
LEMMA AnswerFacts ==
  ASSUME IInv, NEW c \in Conns
  PROVE  /\ Line(c) \in Seq(Txs) /\ Once(Line(c), Txs)
         /\ done[c] \in Seq(Pdus) /\ order[c] \in Seq(Pdus) /\ Once(order[c], Pdus)
         /\ Len(done[c]) \in Nat /\ Len(order[c]) \in Nat /\ Len(done[c]) <= Len(order[c])
         /\ Lined(Line(c), Len(done[c]), order[c], Answer)
         /\ Up(c) => Gapless(Line(c), Len(done[c]), order[c], Answer)
         /\ \A t \in Txs : Answer[t] = IF Driving /\ main.tx = t THEN NULL ELSE txcb[t]
         /\ \A t, u \in Txs : Answer[t] = Answer[u] /\ Answer[t] # NULL => t = u
         /\ Driving /\ Has(Line(c), main.tx) => Up(c) /\ c = main.conn
<1>1. TypeOK /\ ListsInv /\ LineInv /\ PduInv /\ MainInv
  BY DEF IInv
<1>2. Line(c) \in Seq(Txs) /\ Once(Line(c), Txs)
  BY <1>1, LineFacts
<1>3. done[c] \in Seq(Pdus) /\ order[c] \in Seq(Pdus)
  BY <1>1 DEF TypeOK
<1>4. Len(done[c]) \in Nat /\ Len(order[c]) \in Nat
  BY <1>3, LenProperties
<1>5. \A t \in Txs : Answer[t] = IF Driving /\ main.tx = t THEN NULL ELSE txcb[t]
  BY DEF Answer
<1>6. \A t, u \in Txs : Answer[t] = Answer[u] /\ Answer[t] # NULL => t = u
  BY <1>1, <1>5 DEF PduInv
<1>7. ASSUME Driving, Has(Line(c), main.tx) PROVE Up(c) /\ c = main.conn
  <2>1. main.tx \in Txs /\ ~Has(complete[c], main.tx) /\ (Has(pending[c], main.tx) => c = main.conn)
    BY <1>1, <1>7 DEF MainInv
  <2> QED
    BY <1>1, <1>7, <2>1, LineFacts
<1> QED
  BY <1>1, <1>2, <1>3, <1>4, <1>5, <1>6, <1>7 DEF LineInv, PduInv

(* The controller has the packet: its callback counts from now on.         *)
LEMMA DriverTakesInv == ASSUME IInv, DriverTakes PROVE IInv'
<1> DEFINE c == main.conn
           p == main.cb
           t == main.tx
<1>1. /\ TypeOK /\ ListsInv /\ CreditInv /\ CountInv /\ MainInv /\ PduInv /\ LineInv
      /\ NULL \notin Pdus /\ NULL \notin Txs
  BY TxAssumption DEF IInv
<1>2. main.at = "driver" /\ Driving /\ c \in Conns /\ t \in Txs /\ p \in Pdus \cup {NULL}
  BY <1>1 DEF DriverTakes, MainInv, Driving, TypeOK
<1>3. /\ ctlr' = [ctlr EXCEPT ![c] = IF Up(c) THEN ctlr[c] + 1 ELSE ctlr[c]]
      /\ order' = [order EXCEPT ![c] = IF p = NULL THEN order[c] ELSE Append(order[c], p)]
      /\ kick' = TRUE /\ main' = Idle
      /\ UNCHANGED <<preempt, rx, torn, sent, state, connReady, pending, complete, inLL, notify,
                     chanVars, pkts, freeTx, txcb, told, done, aborted>>
  BY DEF DriverTakes, Up
<1> HIDE DEF c, p, t
<1>4. Idle \in MainType /\ Idle.at = "idle" /\ Idle.cb = NULL
  BY <1>2, MainMoves
<1>5. ~Driving' /\ \A d \in Conns : Up(d)' <=> Up(d)
  BY <1>3, <1>4 DEF Driving, Up
<1>6. \A d \in Conns : order'[d] = IF d = c /\ p # NULL THEN Append(order[d], p) ELSE order[d]
  BY <1>1, <1>2, <1>3 DEF TypeOK
<1>7. TypeOK'
  <2>1. ctlr \in [Conns -> Nat] /\ order \in [Conns -> Seq(Pdus)]
    BY <1>1 DEF TypeOK
  <2>2. ctlr[c] \in Nat /\ ctlr[c] + 1 \in Nat
    BY <1>2, <2>1
  <2>3. ctlr' \in [Conns -> Nat]
    BY <1>2, <1>3, <2>1, <2>2
  <2>4. order' \in [Conns -> Seq(Pdus)]
    <3>1. p # NULL => Append(order[c], p) \in Seq(Pdus)
      BY <1>2, <2>1, AppendProperties
    <3> QED
      BY <1>2, <1>3, <2>1, <3>1
  <2> QED
    BY <1>1, <1>3, <1>4, <2>3, <2>4 DEF TypeOK, MainType, chanVars
<1>8. ListsInv' /\ CreditInv'
  BY <1>1, <1>3 DEF ListsInv, Sorted, CreditInv, Waiting
<1>9. CountInv'
  <2>1. ASSUME NEW d \in Conns
        PROVE  /\ Up(d) => inLL[d] = Len(pending[d]) + Unaligned(d) /\ ctlr'[d] = Len(pending[d])
               /\ ~Up(d) => ctlr'[d] = 0
    <3>1. /\ Up(d) => /\ inLL[d] = Len(pending[d]) + Unaligned(d)
                      /\ ctlr[d] = IF d = c THEN Len(pending[d]) - 1 ELSE Len(pending[d])
          /\ ~Up(d) => ctlr[d] = 0
      BY <1>1, <1>2 DEF CountInv, Unaligned, c
    <3>2. ctlr'[d] = IF d = c /\ Up(d) THEN ctlr[d] + 1 ELSE ctlr[d]
      BY <1>1, <1>2, <1>3 DEF TypeOK
    <3>3. Len(pending[d]) \in Nat
      BY <1>1, LineFacts, LenProperties
    <3> QED
      BY <3>1, <3>2, <3>3
  <2> QED
    BY <1>3, <1>5, <2>1 DEF CountInv, Unaligned
<1>10. MainInv'
  BY <1>3, <1>4, <1>5 DEF MainInv
<1>11. /\ \A d \in Conns : ~(p # NULL /\ Has(order[d], p))
       /\ p # NULL => \A u \in Txs : txcb[u] = p => u = t
  BY <1>1, <1>2 DEF PduInv, p, t
<1>12. \A d \in Conns : /\ Once(order'[d], Pdus)
                        /\ \A q \in Pdus : Has(order'[d], q) => Has(order[d], q) \/ q = p
  <2> TAKE d \in Conns
  <2>1. order[d] \in Seq(Pdus) /\ Once(order[d], Pdus)
    BY <1>1 DEF TypeOK, PduInv
  <2>2. CASE d = c /\ p # NULL
    <3>1. p \in Pdus /\ ~Has(order[d], p) /\ order'[d] = Append(order[d], p)
      BY <1>2, <1>6, <1>11, <2>2
    <3> QED
      BY <2>1, <3>1, AppendHas
  <2>3. CASE ~(d = c /\ p # NULL)
    BY <1>6, <2>1, <2>3
  <2> QED
    BY <2>2, <2>3
<1>13. PduInv'
  <2>1. \A q \in Pdus : Untouched(q) => Untouched(q)'
    <3> SUFFICES ASSUME NEW q \in Pdus, Untouched(q) PROVE Untouched(q)'
      OBVIOUS
    <3>1. q # p
      BY DEF Untouched, p
    <3> QED
      BY <1>1, <1>3, <1>4, <1>12, <3>1 DEF Untouched
  <2>2. UNCHANGED <<txq, sent, told, txcb, freeTx>> /\ main'.cb = NULL
    BY <1>3, <1>4 DEF chanVars
  <2> QED
    BY <1>1, <1>12, <2>1, <2>2 DEF PduInv
<1>14. LineInv'
  <2>1. \A u \in Txs : /\ Answer'[u] = txcb[u] /\ Answer[u] = IF u = t THEN NULL ELSE txcb[u]
                       /\ p # NULL /\ u # t => txcb[u] # p
    BY <1>2, <1>3, <1>5, <1>11 DEF Answer, t
  <2> SUFFICES ASSUME NEW d \in Conns
               PROVE  /\ Len(done[d]) <= Len(order'[d])
                      /\ \A i \in 1..Len(done[d]) : done[d][i] = order'[d][i]
                      /\ Lined(Line(d), Len(done[d]), order'[d], Answer')
                      /\ Up(d) => Gapless(Line(d), Len(done[d]), order'[d], Answer')
    <3>1. \A d \in Conns : Line(d)' = Line(d)
      BY <1>3, <1>5 DEF Line
    <3> QED
      BY <1>3, <1>5, <3>1 DEF LineInv
  <2>2. /\ Line(d) \in Seq(Txs) /\ Once(Line(d), Txs)
        /\ done[d] \in Seq(Pdus) /\ order[d] \in Seq(Pdus)
        /\ Len(done[d]) \in Nat /\ Len(order[d]) \in Nat /\ Len(done[d]) <= Len(order[d])
        /\ Lined(Line(d), Len(done[d]), order[d], Answer)
        /\ Up(d) => Gapless(Line(d), Len(done[d]), order[d], Answer)
    BY AnswerFacts
  <2>3. Has(Line(d), t) => Up(d) /\ d = c
    BY <1>2, AnswerFacts DEF t, c
  <2>4. \A i \in 1..Len(done[d]) : done[d][i] = order[d][i]
    BY <1>1 DEF LineInv
  <2>5. /\ Len(done[d]) <= Len(order'[d])
        /\ \A i \in 1..Len(done[d]) : done[d][i] = order'[d][i]
    <3>1. CASE d = c /\ p # NULL
      <4>1. p \in Pdus /\ order'[d] = Append(order[d], p)
        BY <1>2, <1>6, <3>1
      <4>2. ASSUME NEW o \in Seq(Pdus), NEW q \in Pdus
            PROVE  /\ Len(Append(o, q)) = Len(o) + 1
                   /\ \A i \in 1..Len(o) : Append(o, q)[i] = o[i]
        BY AppendProperties
      <4>3. /\ Len(order'[d]) = Len(order[d]) + 1
            /\ \A i \in 1..Len(order[d]) : order'[d][i] = order[d][i]
        BY <2>2, <4>1, <4>2, Zenon
      <4> QED
        BY <2>2, <2>4, <4>3
    <3>2. CASE ~(d = c /\ p # NULL)
      BY <1>6, <2>2, <2>4, <3>2
    <3> QED
      BY <3>1, <3>2
  <2>6. Up(c) => txcb[t] = p
    BY <1>1, <1>2 DEF MainInv, c, p, t
  <2>7. CASE d # c \/ p = NULL \/ ~Up(d)
    <3>1. \A u \in Txs : Has(Line(d), u) => Answer'[u] = Answer[u]
      BY <2>1, <2>3, <2>6, <2>7
    <3>2. CASE order'[d] = order[d]
      BY <2>2, <2>5, <3>1, <3>2, LinedSame
    <3>3. CASE order'[d] # order[d]
      <4>1. d = c /\ p \in Pdus /\ ~Up(d) /\ order'[d] = Append(order[d], p)
        BY <1>2, <1>6, <2>7, <3>3
      <4>2. \A j \in 1..Len(Line(d)) : Answer'[Line(d)[j]] = Answer[Line(d)[j]] /\ Answer[Line(d)[j]] # p
        <5>1. \A j \in 1..Len(Line(d)) : Line(d)[j] \in Txs /\ Has(Line(d), Line(d)[j])
          BY <2>2, ElementOfSeq DEF Has
        <5>2. \A u \in Txs : Answer[u] # p
          BY <1>1, <2>1, <4>1
        <5> QED
          BY <3>1, <5>1, <5>2
      <4>3. Lined(Line(d), Len(done[d]), Append(order[d], p), Answer')
        <5> DEFINE line == Line(d)
                   from == Len(done[d])
                   o == order[d]
                   cb == Answer
                   now == Answer'
        <5>1. /\ line \in Seq(Txs) /\ from \in Nat /\ o \in Seq(Pdus) /\ p \in Pdus
              /\ Lined(line, from, o, cb) /\ from <= Len(o)
              /\ \A j \in 1..Len(line) : now[line[j]] = cb[line[j]] /\ cb[line[j]] # p
          BY <2>2, <4>1, <4>2
        <5> HIDE DEF line, from, o, cb, now
        <5>2. Lined(line, from, Append(o, p), now)
          BY <5>1, LinedBeside
        <5> QED
          BY <5>2 DEF line, from, o, cb, now
      <4> QED
        BY <2>5, <4>1, <4>3
    <3> QED
      BY <3>2, <3>3
  <2>8. CASE d = c /\ p # NULL /\ Up(d)
    <3>1. Line(d) # <<>> /\ Last(Line(d)) = t
      <4>1. /\ pending[d] # <<>> /\ Last(pending[d]) = t /\ Line(d) = complete[d] \o pending[d]
            /\ pending[d] \in Seq(Txs) /\ complete[d] \in Seq(Txs)
        BY <1>1, <1>2, <2>8, LineFacts DEF MainInv, c, t
      <4> QED
        BY <4>1, ConcatLast
    <3>2. /\ Answer[Last(Line(d))] = NULL /\ Answer'[Last(Line(d))] = p /\ p \in Pdus
          /\ \A u \in Txs : u # Last(Line(d)) => Answer'[u] = Answer[u] /\ Answer[u] # p
      BY <1>2, <2>1, <2>6, <2>8, <3>1
    <3>3. /\ Lined(Line(d), Len(done[d]), Append(order[d], p), Answer')
          /\ Gapless(Line(d), Len(done[d]), Append(order[d], p), Answer')
      BY <2>2, <2>8, <3>1, <3>2, LinedTakes
    <3> QED
      BY <1>6, <2>5, <2>8, <3>3
  <2> QED
    BY <2>7, <2>8
<1>15. SegmentsInv' /\ CostInv' /\ AssertInv'
  BY <1>3 DEF IInv, SegmentsInv, CostInv, AssertInv, chanVars
<1> QED
  BY <1>7, <1>8, <1>9, <1>10, <1>13, <1>14, <1>15 DEF IInv

(* Contexts leave tx_pending and their credits come back: the semaphore    *)
(* does not saturate.                                                      *)
LEMMA GiveExact ==
  ASSUME TypeOK, CreditInv, NEW wait, NEW W, W \subseteq Waiting(pending),
         Waiting(wait) = Waiting(pending) \ W
  PROVE  /\ Give(Cardinality(W)) \in 0..CtlrBufs /\ Give(Cardinality(W)) >= pkts
         /\ Give(Cardinality(W)) + Cardinality(Waiting(wait)) = CtlrBufs
<1>1. W \subseteq Txs
  BY DEF Waiting
<1>2. Cardinality(Waiting(wait)) = Cardinality(Waiting(pending)) - Cardinality(W)
  BY <1>1, WaitingCounts
<1>3. Cardinality(Waiting(wait)) \in Nat /\ Cardinality(Waiting(pending)) \in Nat
  BY <1>1, WaitingCounts
<1>4. Cardinality(W) \in Nat
  BY <1>1, TxAssumption, FS_Subset, FS_CardinalityType
<1>5. pkts \in Nat /\ CtlrBufs \in Nat /\ pkts + Cardinality(Waiting(pending)) = CtlrBufs
  BY TxAssumption DEF TypeOK, CreditInv
<1>6. Give(Cardinality(W)) = pkts + Cardinality(W)
  BY <1>2, <1>3, <1>4, <1>5 DEF Give
<1> QED
  BY <1>2, <1>3, <1>4, <1>5, <1>6

(* hci_num_completed_packets finds a context, moves it to tx_complete and  *)
(* returns its credit; it never is the one the driver works on.            *)
LEMMA NumCompletedInv == ASSUME IInv, NEW c \in Conns, NumCompleted(c) PROVE IInv'
<1> DEFINE t == Head(pending[c])
<1>1. /\ TypeOK /\ ListsInv /\ CreditInv /\ CountInv /\ MainInv /\ PduInv /\ LineInv
      /\ NULL \notin Pdus /\ NULL \notin Txs
  BY TxAssumption DEF IInv
<1>2. /\ pending[c] \in Seq(Txs) /\ complete[c] \in Seq(Txs)
      /\ Once(pending[c], Txs) /\ Once(complete[c], Txs)
  BY <1>1, LineFacts
<1>3. /\ Up(c) /\ Len(pending[c]) \in Nat /\ Len(pending[c]) > 0 /\ pending[c] # <<>>
      /\ Driving /\ main.conn = c => Len(pending[c]) > 1
      /\ inLL[c] = Len(pending[c]) /\ ctlr[c] \in Nat /\ ctlr[c] > 0 /\ rx = NULL
      /\ ctlr[c] = IF Driving /\ main.conn = c THEN Len(pending[c]) - 1 ELSE Len(pending[c])
  <2>1. ctlr[c] \in Nat /\ ctlr[c] > 0 /\ Len(pending[c]) \in Nat
    BY <1>1, <1>2, LenProperties DEF NumCompleted, TypeOK
  <2>2. Up(c)
    <3>1. ~Up(c) => ctlr[c] = 0
      BY <1>1 DEF CountInv
    <3> QED
      BY <2>1, <3>1
  <2>3. /\ inLL[c] = Len(pending[c]) /\ rx = NULL
        /\ ctlr[c] = IF Driving /\ main.conn = c THEN Len(pending[c]) - 1 ELSE Len(pending[c])
    <3>1. rx = NULL /\ Unaligned(c) = 0
      BY TxAssumption DEF NumCompleted, Unaligned
    <3>2. /\ inLL[c] = Len(pending[c]) + Unaligned(c)
          /\ ctlr[c] = IF Driving /\ main.conn = c THEN Len(pending[c]) - 1 ELSE Len(pending[c])
      BY <1>1, <2>2 DEF CountInv
    <3> QED
      BY <2>1, <3>1, <3>2
  <2>4. Len(pending[c]) > 0 /\ (Driving /\ main.conn = c => Len(pending[c]) > 1)
    BY <2>1, <2>3
  <2>5. pending[c] # <<>>
    BY <1>2, <2>4, EmptySeq
  <2> QED
    BY <2>1, <2>2, <2>3, <2>4, <2>5
<1>4. /\ ctlr' = [ctlr EXCEPT ![c] = ctlr[c] - 1] /\ pkts' = Give(1)
      /\ pending' = [pending EXCEPT ![c] = Tail(pending[c])]
      /\ complete' = [complete EXCEPT ![c] = Append(complete[c], t)]
      /\ rx' = c
      /\ UNCHANGED <<preempt, torn, sent, state, connReady, inLL, notify, chanVars, freeTx, txcb,
                     kick, main, order, told, done, aborted>>
  BY <1>3 DEF NumCompleted, Completed
<1>5. /\ t \in Txs /\ t = pending[c][1] /\ Has(pending[c], t) /\ Tail(pending[c]) \in Seq(Txs)
      /\ Len(Tail(pending[c])) = Len(pending[c]) - 1
      /\ \A j \in 1..Len(Tail(pending[c])) : Tail(pending[c])[j] = pending[c][j + 1]
      /\ \A x \in Txs : Has(Tail(pending[c]), x) <=> Has(pending[c], x) /\ x # t
      /\ Once(Tail(pending[c]), Txs)
  BY <1>2, <1>3, FirstTaken
<1> HIDE DEF t
<1>6. /\ Append(complete[c], t) \in Seq(Txs) /\ Once(Append(complete[c], t), Txs)
      /\ \A x \in Txs : Has(Append(complete[c], t), x) <=> Has(complete[c], x) \/ x = t
  <2>1. ~Has(complete[c], t)
    BY <1>1, <1>5 DEF ListsInv, Sorted
  <2> QED
    BY <1>2, <1>5, <2>1, AppendHas, AppendProperties
<1>7. /\ pending' \in [Conns -> Seq(Txs)] /\ complete' \in [Conns -> Seq(Txs)]
      /\ pending'[c] = Tail(pending[c]) /\ complete'[c] = Append(complete[c], t)
      /\ \A d \in Conns : d # c => pending'[d] = pending[d] /\ complete'[d] = complete[d]
  BY <1>1, <1>4, <1>5, <1>6 DEF TypeOK
<1>8. \A d \in Conns : \A x \in Txs :
        /\ Has(pending'[d], x) <=> Has(pending[d], x) /\ ~(d = c /\ x = t)
        /\ Has(complete'[d], x) <=> Has(complete[d], x) \/ (d = c /\ x = t)
  <2> TAKE d \in Conns
  <2> TAKE x \in Txs
  <2>1. CASE d = c
    <3>1. Has(pending'[c], x) <=> Has(pending[c], x) /\ x # t
      BY <1>5, <1>7
    <3>2. Has(complete'[c], x) <=> Has(complete[c], x) \/ x = t
      BY <1>6, <1>7
    <3> QED
      BY <2>1, <3>1, <3>2
  <2>2. CASE d # c
    BY <1>7, <2>2
  <2> QED
    BY <2>1, <2>2
<1>9. ListsInv'
  <2>1. \A d \in Conns : Once(pending'[d], Txs) /\ Once(complete'[d], Txs)
    BY <1>1, <1>5, <1>6, <1>7 DEF ListsInv, Sorted
  <2>2. \A d, e \in Conns : \A x \in Txs :
          /\ ~(Has(pending'[d], x) /\ Has(complete'[e], x))
          /\ Has(pending'[d], x) /\ Has(pending'[e], x) => d = e
          /\ Has(complete'[d], x) /\ Has(complete'[e], x) => d = e
    BY <1>1, <1>5, <1>8 DEF ListsInv, Sorted
  <2>3. \A x \in Txs : x \in freeTx <=> \A d \in Conns : ~Has(pending'[d], x) /\ ~Has(complete'[d], x)
    <3> TAKE x \in Txs
    <3>1. x \in freeTx <=> \A d \in Conns : ~Has(pending[d], x) /\ ~Has(complete[d], x)
      BY <1>1 DEF ListsInv, Sorted
    <3> QED
      BY <1>5, <1>8, <3>1
  <2> QED
    BY <1>4, <2>1, <2>2, <2>3 DEF ListsInv, Sorted
<1>10. pkts' \in 0..CtlrBufs /\ pkts' >= pkts /\ CreditInv'
  <2>1. Waiting(pending') = Waiting(pending) \ {t}
    <3>1. \A d \in Conns : Has(pending[d], t) => d = c
      BY <1>1, <1>5 DEF ListsInv, Sorted
    <3> QED
      BY <1>5, <1>8, <3>1 DEF Waiting
  <2>2. {t} \subseteq Waiting(pending) /\ Cardinality({t}) = 1
    BY <1>5, FS_Singleton DEF Waiting
  <2>3. Give(1) \in 0..CtlrBufs /\ Give(1) >= pkts
        /\ Give(1) + Cardinality(Waiting(pending')) = CtlrBufs
    BY <1>1, <2>1, <2>2, GiveExact
  <2> QED
    BY <1>4, <2>3 DEF CreditInv
<1>11. \A d \in Conns : /\ Unaligned(d) = 0 /\ Unaligned(d)' = IF d = c THEN 1 ELSE 0
                        /\ ctlr'[d] = IF d = c THEN ctlr[d] - 1 ELSE ctlr[d]
                        /\ Up(d)' <=> Up(d)
  BY <1>1, <1>3, <1>4, TxAssumption DEF TypeOK, Up, Unaligned
<1>12. TypeOK'
  <2>1. ctlr \in [Conns -> Nat]
    BY <1>1 DEF TypeOK
  <2>2. ctlr[c] - 1 \in Nat
    BY <1>3
  <2>3. ctlr' \in [Conns -> Nat] /\ rx' \in Conns \cup {NULL}
    BY <1>4, <2>1, <2>2
  <2> QED
    BY <1>1, <1>4, <1>7, <1>10, <2>3, ZenonT(60) DEF TypeOK, chanVars
<1>13. CountInv'
  <2>1. ASSUME NEW d \in Conns
        PROVE  /\ Up(d) => /\ inLL'[d] = Len(pending'[d]) + Unaligned(d)'
                           /\ ctlr'[d] = IF Driving /\ main.conn = d THEN Len(pending'[d]) - 1
                                                                   ELSE Len(pending'[d])
               /\ ~Up(d) => ctlr'[d] = 0
    <3>1. CASE d = c
      <4>1. /\ inLL'[c] = inLL[c] /\ ctlr'[c] = ctlr[c] - 1 /\ Unaligned(c)' = 1
            /\ Len(pending'[c]) = Len(pending[c]) - 1
        BY <1>4, <1>5, <1>7, <1>11
      <4>2. /\ inLL'[c] = Len(pending'[c]) + Unaligned(c)'
            /\ ctlr'[c] = IF Driving /\ main.conn = c THEN Len(pending'[c]) - 1 ELSE Len(pending'[c])
        BY <1>3, <4>1
      <4> QED
        BY <1>3, <3>1, <4>2
    <3>2. CASE d # c
      BY <1>1, <1>4, <1>7, <1>11, <3>2 DEF CountInv
    <3> QED
      BY <3>1, <3>2
  <2> QED
    BY <1>4, <1>11, <2>1 DEF CountInv, Driving
<1>14. MainInv'
  <2>1. ASSUME Driving
        PROVE  /\ main.tx \in Txs /\ main.tx # t
               /\ \A d \in Conns : /\ ~Has(complete'[d], main.tx)
                                   /\ Has(pending'[d], main.tx) => d = main.conn
               /\ Up(main.conn) \/ Has(pending'[main.conn], main.tx)
                    => /\ pending'[main.conn] # <<>>
                       /\ Last(pending'[main.conn]) = main.tx
                       /\ txcb[main.tx] = main.cb
    <3>1. /\ main.tx \in Txs /\ main.conn \in Conns
          /\ \A d \in Conns : ~Has(complete[d], main.tx) /\ (Has(pending[d], main.tx) => d = main.conn)
          /\ Up(main.conn) \/ Has(pending[main.conn], main.tx)
               => /\ pending[main.conn] # <<>>
                  /\ Last(pending[main.conn]) = main.tx
                  /\ txcb[main.tx] = main.cb
      BY <1>1, <2>1 DEF MainInv, Driving
    <3>2. main.conn = c => /\ pending'[c] # <<>> /\ Last(pending'[c]) = main.tx /\ main.tx # t
      <4> SUFFICES ASSUME main.conn = c
                   PROVE  pending'[c] # <<>> /\ Last(pending'[c]) = main.tx /\ main.tx # t
        OBVIOUS
      <4>1. /\ Len(pending[c]) > 1 /\ Last(pending[c]) = main.tx
            /\ Len(pending[c]) - 1 \in 1..Len(Tail(pending[c]))
            /\ (Len(pending[c]) - 1) + 1 = Len(pending[c])
        BY <1>3, <1>5, <2>1, <3>1
      <4>2. Last(pending'[c]) = main.tx
        BY <1>5, <1>7, <4>1 DEF Last
      <4>3. pending[c][Len(pending[c])] = main.tx /\ Len(pending[c]) # 1
        BY <1>3, <4>1 DEF Last
      <4>4. main.tx # t
        <5>1. 1 \in 1..Len(pending[c]) /\ Len(pending[c]) \in 1..Len(pending[c])
          BY <1>3
        <5> QED
          BY <1>2, <1>5, <3>1, <4>3, <5>1 DEF Once
      <4>5. pending'[c] # <<>>
        BY <1>5, <1>7, <4>1, EmptySeq, SMTT(30)
      <4> QED
        BY <4>2, <4>4, <4>5
    <3>3. main.tx # t
      BY <1>5, <3>1, <3>2
    <3> QED
      BY <1>7, <1>8, <3>1, <3>2, <3>3
  <2>2. UNCHANGED <<main, preempt, state, freeTx, chanReady, txcb>> /\ (pkts > 0 => pkts' > 0)
    <3>1. pkts \in Nat /\ pkts' \in Nat
      BY <1>1, <1>10, TxAssumption DEF TypeOK
    <3> QED
      BY <1>4, <1>10, <3>1 DEF chanVars
  <2>3. Driving' <=> Driving
    BY <1>4 DEF Driving
  <2>4. Driving => main.conn \in Conns
    BY <1>1 DEF MainInv, Driving
  <2> QED
    BY <1>1, <1>11, <2>1, <2>2, <2>3, <2>4 DEF MainInv
<1>15. PduInv'
  BY <1>4, PdusFrame DEF chanVars
<1>16. LineInv'
  <2>1. Answer' = Answer
    BY <1>4 DEF Answer, Driving
  <2>2. ASSUME NEW d \in Conns PROVE Line(d)' = Line(d)
    <3>1. CASE d # c
      BY <1>7, <1>11, <3>1 DEF Line
    <3>2. CASE d = c
      <4>1. Line(d)' = Append(complete[c], t) \o Tail(pending[c]) /\ Line(d) = complete[c] \o pending[c]
        BY <1>3, <1>7, <1>11, <3>2 DEF Line
      <4> DEFINE a == complete[c]
                 b == pending[c]
      <4>2. a \in Seq(Txs) /\ b \in Seq(Txs) /\ b # <<>> /\ t = Head(b)
        BY <1>2, <1>3 DEF t
      <4> HIDE DEF a, b
      <4>3. Append(a, t) \o Tail(b) = a \o b
        BY <4>2, ConcatPass
      <4> QED
        BY <4>1, <4>3 DEF a, b
    <3> QED
      BY <3>1, <3>2
  <2> QED
    BY <1>1, <1>4, <1>11, <2>1, <2>2 DEF LineInv
<1>17. SegmentsInv' /\ CostInv' /\ AssertInv'
  BY <1>4 DEF IInv, SegmentsInv, CostInv, AssertInv, chanVars
<1> QED
  BY <1>9, <1>10, <1>12, <1>13, <1>14, <1>15, <1>16, <1>17 DEF IInv

(* The rest of hci_num_completed_packets: in_ll was not zero.              *)
LEMMA InLLAlignedInv == ASSUME IInv, NEW c \in Conns, InLLAligned(c) PROVE IInv'
<1>1. /\ TypeOK /\ ListsInv /\ CreditInv /\ CountInv /\ MainInv /\ PduInv /\ LineInv
      /\ NULL \notin Conns
  BY TxAssumption DEF IInv
<1>2. /\ rx = c /\ rx' = NULL
      /\ UNCHANGED <<preempt, torn, sent, state, connReady, pending, complete, ctlr, chanVars,
                     pkts, freeTx, txcb, kick, main, order, told, done>>
  BY DEF InLLAligned
<1>3. \/ inLL[c] = 0 /\ aborted' = TRUE /\ UNCHANGED <<inLL, notify>>
      \/ /\ inLL' = [inLL EXCEPT ![c] = inLL[c] - 1] /\ aborted' = aborted
         /\ notify' = [notify EXCEPT ![c] = TRUE]
  BY DEF InLLAligned
<1>4. /\ inLL[c] \in Int /\ Len(pending[c]) \in Nat /\ inLL \in [Conns -> Int]
      /\ Up(c) => inLL[c] = Len(pending[c]) + 1
  <2>1. Len(pending[c]) \in Nat
    BY <1>1, LenProperties DEF TypeOK
  <2> QED
    BY <1>1, <1>2, <2>1 DEF TypeOK, CountInv, Unaligned
<1>5. \A d \in Conns : /\ Up(d)' <=> Up(d)
                       /\ Unaligned(d) = (IF d = c THEN 1 ELSE 0) /\ Unaligned(d)' = 0
  BY <1>1, <1>2 DEF Up, Unaligned
<1>6. TypeOK'
  <2>1. inLL' \in [Conns -> Int] /\ notify' \in [Conns -> BOOLEAN] /\ aborted' \in BOOLEAN
    <3>1. notify \in [Conns -> BOOLEAN] /\ aborted \in BOOLEAN
      BY <1>1 DEF TypeOK
    <3>2. inLL[c] - 1 \in Int
      BY <1>4
    <3> QED
      BY <1>3, <1>4, <3>1, <3>2
  <2>2. rx' \in Conns \cup {NULL}
    BY <1>2
  <2> QED
    BY <1>1, <1>2, <2>1, <2>2, ZenonT(60) DEF TypeOK, chanVars
<1>7. ListsInv' /\ CreditInv'
  BY <1>1, <1>2 DEF ListsInv, Sorted, CreditInv, Waiting
<1>8. CountInv'
  <2>1. ASSUME NEW d \in Conns, Up(d)
        PROVE  inLL'[d] = Len(pending[d])
    <3>1. CASE d = c
      BY <1>3, <1>4, <2>1, <3>1
    <3>2. CASE d # c
      <4>1. inLL'[d] = inLL[d]
        BY <1>3, <1>4, <3>2
      <4>2. inLL[d] = Len(pending[d]) + 0 /\ Len(pending[d]) \in Nat
        BY <1>1, <1>5, <2>1, <3>2, LenProperties DEF CountInv, TypeOK
      <4> QED
        BY <4>1, <4>2
    <3> QED
      BY <3>1, <3>2
  <2>2. ASSUME NEW d \in Conns
        PROVE  Len(pending[d]) + 0 = Len(pending[d])
    BY <1>1, LenProperties DEF TypeOK
  <2> QED
    BY <1>1, <1>2, <1>5, <2>1, <2>2 DEF CountInv, Driving
<1>9. MainInv'
  BY <1>1, <1>2 DEF MainInv, Driving, Up, chanVars
<1>10. PduInv'
  BY <1>2, PdusFrame DEF chanVars
<1>11. LineInv'
  <2>1. Answer' = Answer
    BY <1>2 DEF Answer, Driving
  <2>2. \A d \in Conns : Line(d)' = Line(d)
    BY <1>2, <1>5 DEF Line
  <2> QED
    BY <1>1, <1>2, <1>5, <2>1, <2>2 DEF LineInv
<1>12. SegmentsInv' /\ CostInv'
  BY <1>2 DEF IInv, SegmentsInv, CostInv, chanVars
<1>13. AssertInv'
  <2>1. CASE aborted' = aborted
    BY <1>2, <2>1 DEF IInv, AssertInv
  <2>2. CASE inLL[c] = 0
    <3>1. ~Up(c)
      BY <1>4, <2>2
    <3> QED
      BY <1>2, <3>1 DEF AssertInv, Up
  <2> QED
    BY <1>3, <2>1, <2>2
<1> QED
  BY <1>6, <1>7, <1>8, <1>9, <1>10, <1>11, <1>12, <1>13 DEF IInv

(* The last of the line leaves without having been handed over.            *)
LEMMA LinedDrops ==
  ASSUME NEW line \in Seq(Txs), NEW new \in Seq(Txs), NEW from \in Nat, NEW o \in Seq(Pdus),
         NEW cb, Len(line) > 0, Len(new) = Len(line) - 1, \A j \in 1..Len(new) : new[j] = line[j],
         cb[line[Len(line)]] = NULL, Lined(line, from, o, cb)
  PROVE  /\ Lined(new, from, o, cb)
         /\ Gapless(line, from, o, cb) => Gapless(new, from, o, cb)
<1>1. Len(line) \in Nat /\ Len(new) \in Nat /\ Len(new) <= Len(line) /\ Len(o) \in Nat
  BY LenProperties
<1>2. \A j \in 1..Len(new) : new[j] = line[j] /\ cb[new[j]] = cb[line[j]]
  OBVIOUS
<1>3. Lined(new, from, o, cb)
  BY <1>1, <1>2, LinedFront, Zenon
<1>4. ASSUME Gapless(line, from, o, cb), NEW k \in (from + 1)..Len(o)
      PROVE  \E i \in 1..Len(new) : o[k] = cb[new[i]]
  <2>1. PICK i \in 1..Len(line) : o[k] = cb[line[i]]
    BY <1>4 DEF Gapless
  <2>2. k \in 1..Len(o)
    BY <1>1
  <2>3. o[k] # NULL
    BY <2>2, ElementOfSeq, TxAssumption
  <2>4. i # Len(line)
    BY <2>1, <2>3
  <2>5. i \in 1..Len(new)
    BY <1>1, <2>1, <2>4
  <2> QED
    BY <1>2, <2>1, <2>5
<1> QED
  BY <1>3, <1>4 DEF Gapless

(* Dropping the last of the second list drops the last of the whole.       *)
LEMMA ConcatFront ==
  ASSUME NEW S, NEW a \in Seq(S), NEW b \in Seq(S), NEW new \in Seq(S), Len(b) > 0,
         Len(new) = Len(b) - 1, \A j \in 1..Len(new) : new[j] = b[j]
  PROVE  /\ a \o new \in Seq(S) /\ Len(a \o b) > 0 /\ Len(a \o new) = Len(a \o b) - 1
         /\ \A j \in 1..Len(a \o new) : (a \o new)[j] = (a \o b)[j]
         /\ (a \o b)[Len(a \o b)] = b[Len(b)]
<1>1. /\ Len(a) \in Nat /\ Len(b) \in Nat /\ Len(new) \in Nat
      /\ Len(a \o b) = Len(a) + Len(b) /\ Len(a \o new) = Len(a) + Len(new) /\ a \o new \in Seq(S)
      /\ \A i \in 1..(Len(a) + Len(b)) : (a \o b)[i] = IF i <= Len(a) THEN a[i] ELSE b[i - Len(a)]
      /\ \A i \in 1..(Len(a) + Len(new)) :
           (a \o new)[i] = IF i <= Len(a) THEN a[i] ELSE new[i - Len(a)]
  BY LenProperties, ConcatProperties
<1>2. ASSUME NEW j \in 1..(Len(a) + Len(new)) PROVE (a \o new)[j] = (a \o b)[j]
  <2>1. j \in 1..(Len(a) + Len(b)) /\ (j > Len(a) => j - Len(a) \in 1..Len(new))
    BY <1>1
  <2> QED
    BY <1>1, <2>1
<1>3. (Len(a) + Len(b)) - Len(a) = Len(b) /\ ~(Len(a) + Len(b) <= Len(a))
      /\ Len(a) + Len(b) \in 1..(Len(a) + Len(b))
  BY <1>1
<1>4. (a \o b)[Len(a) + Len(b)] = b[Len(b)]
  BY <1>1, <1>3
<1> QED
  BY <1>1, <1>2, <1>4

(* Contexts leave a list, their callbacks are made and they become free.   *)
LEMMA CalledPdus ==
  ASSUME IInv, NEW list \in Seq(Txs), Once(list, Txs), told' = Called(list),
         \A u \in Txs : txcb'[u] = IF Has(list, u) THEN NULL ELSE txcb[u],
         \A u \in freeTx' : u \in freeTx \/ Has(list, u), freeTx' \subseteq Txs,
         UNCHANGED <<order, sent, txq>>, main'.cb = NULL \/ UNCHANGED main
  PROVE  PduInv' /\ told' \in [Pdus -> Nat]
<1>1. TypeOK /\ PduInv /\ NULL \notin Pdus
  BY TxAssumption DEF IInv
<1>2. told' \in [Pdus -> Nat]
  BY <1>1, CalledOnce DEF PduInv
<1>3. \A p \in Pdus : told'[p] = IF \E u \in Txs : Has(list, u) /\ txcb[u] = p
                                 THEN told[p] + 1 ELSE told[p]
  BY <1>1, CalledOnce DEF PduInv
<1>4. \A p \in Pdus : told'[p] <= 1
  <2> TAKE p \in Pdus
  <2>1. told[p] \in Nat /\ told[p] <= 1
    BY <1>1 DEF TypeOK, PduInv
  <2>2. CASE \E u \in Txs : Has(list, u) /\ txcb[u] = p
    <3>1. told[p] = 0
      BY <1>1, <2>2 DEF PduInv
    <3> QED
      BY <1>3, <2>2, <3>1
  <2>3. CASE ~ \E u \in Txs : Has(list, u) /\ txcb[u] = p
    BY <1>3, <2>1, <2>3
  <2> QED
    BY <2>2, <2>3
<1>5. ASSUME NEW p \in Pdus, \A u \in Txs : txcb[u] # p
      PROVE  told'[p] = told[p] /\ \A u \in Txs : txcb'[u] # p
  BY <1>1, <1>3, <1>5
<1>6. \A p \in Pdus : Untouched(p) => Untouched(p)'
  <2> SUFFICES ASSUME NEW p \in Pdus, Untouched(p) PROVE Untouched(p)'
    OBVIOUS
  <2>1. told'[p] = told[p] /\ \A u \in Txs : txcb'[u] # p
    BY <1>5 DEF Untouched
  <2>2. main'.cb # p
    BY <1>1 DEF Untouched
  <2> QED
    BY <2>1, <2>2 DEF Untouched
<1>7. \A u \in Txs : txcb'[u] # NULL => ~Has(list, u) /\ txcb'[u] = txcb[u] /\ txcb[u] \in Pdus
  BY <1>1 DEF TypeOK
<1>8. \A u \in Txs : txcb'[u] # NULL => told'[txcb'[u]] = 0
  BY <1>1, <1>3, <1>7 DEF PduInv
<1>9. \A u, v \in Txs : txcb'[u] = txcb'[v] /\ txcb'[u] # NULL => u = v
  BY <1>1, <1>7 DEF PduInv
<1>10. \A u \in freeTx' : txcb'[u] = NULL
  <2> TAKE u \in freeTx'
  <2>1. u \in Txs /\ (u \in freeTx \/ Has(list, u))
    OBVIOUS
  <2> QED
    BY <1>1, <2>1 DEF PduInv
<1>11. ASSUME main'.cb # NULL
       PROVE  /\ main' = main /\ main.cb \in Pdus
              /\ \A d \in Conns : ~Has(order'[d], main'.cb)
              /\ main'.at = "send" => told'[main'.cb] = 0 /\ \A u \in Txs : txcb'[u] # main'.cb
              /\ Driving' => \A u \in Txs : txcb'[u] = main'.cb => u = main'.tx
  <2>1. main' = main /\ main.cb \in Pdus /\ main.cb # NULL /\ (Driving' <=> Driving)
    BY <1>1, <1>11 DEF TypeOK, Driving
  <2>2. \A d \in Conns : ~Has(order'[d], main'.cb)
    BY <1>1, <2>1 DEF PduInv
  <2>3. ASSUME main.at = "send" PROVE told'[main.cb] = 0 /\ \A u \in Txs : txcb'[u] # main.cb
    <3>1. told[main.cb] = 0 /\ \A u \in Txs : txcb[u] # main.cb
      BY <1>1, <2>1, <2>3 DEF PduInv
    <3> QED
      BY <1>5, <2>1, <3>1
  <2>4. ASSUME Driving, NEW u \in Txs, txcb'[u] = main.cb PROVE u = main.tx
    <3>1. txcb[u] = main.cb
      BY <1>7, <2>1, <2>4
    <3> QED
      BY <1>1, <2>1, <2>4, <3>1 DEF PduInv
  <2> QED
    BY <2>1, <2>2, <2>3, <2>4
<1>12. /\ \A h \in Chans : /\ Once(txq'[h], Pdus)
                           /\ \A p \in Pdus : Has(txq'[h], p) => Route[p] = h /\ p \in sent'
       /\ \A p \in Pdus : p \notin sent' \/ Has(txq'[Route[p]], p) => Untouched(p)'
       /\ \A d \in Conns : Once(order'[d], Pdus)
  BY <1>1, <1>6 DEF PduInv
<1>13. PduInv'
  BY <1>4, <1>8, <1>9, <1>10, <1>11, <1>12 DEF PduInv
<1> QED
  BY <1>2, <1>13

(* The driver refuses a packet.  If its context is in tx_pending, it is    *)
(* the last.                                                               *)
LEMMA DriverRefusesInv ==
  ASSUME IInv, DriverRefuses, Has(pending[main.conn], main.tx) PROVE IInv'
<1> DEFINE c == main.conn
           t == main.tx
           new == RemoveFirst(pending[c], t)
<1>1. /\ TypeOK /\ ListsInv /\ CreditInv /\ CountInv /\ MainInv /\ PduInv /\ LineInv
      /\ NULL \notin Pdus /\ NULL \notin Txs
  BY TxAssumption DEF IInv
<1>2. main.at = "driver" /\ Driving /\ c \in Conns /\ t \in Txs
  BY <1>1 DEF DriverRefuses, MainInv, Driving
<1>4. /\ pending[c] # <<>> /\ Last(pending[c]) = t
      /\ \A d \in Conns : ~Has(complete[d], t) /\ (Has(pending[d], t) => d = c)
  BY <1>1, <1>2 DEF MainInv
<1>5. /\ inLL' = [inLL EXCEPT ![c] = inLL[c] - 1]
      /\ pending' = [pending EXCEPT ![c] = new] /\ told' = Called(<<t>>)
      /\ freeTx' = freeTx \cup {t} /\ txcb' = [txcb EXCEPT ![t] = NULL] /\ pkts' = Give(1)
      /\ kick' = TRUE /\ main' = Idle /\ torn' \in BOOLEAN /\ ~aborted
      /\ UNCHANGED <<preempt, rx, sent, connReady, complete, ctlr, notify, chanVars, order, done,
                     aborted>>
  BY <1>1 DEF DriverRefuses, TypeOK
<1>0. \/ state' = [state EXCEPT ![c] = IF state[c] = "connected" THEN "disconnecting" ELSE state[c]]
      \/ state' = state
  BY DEF DriverRefuses
<1> HIDE DEF c, t
<1>6. /\ pending[c] \in Seq(Txs) /\ complete[c] \in Seq(Txs)
      /\ Once(pending[c], Txs) /\ Once(complete[c], Txs)
  BY <1>1, <1>2, LineFacts
<1>7. /\ new \in Seq(Txs) /\ Len(new) = Len(pending[c]) - 1 /\ Len(pending[c]) \in Nat
      /\ Len(pending[c]) > 0 /\ \A j \in 1..Len(new) : new[j] = pending[c][j]
      /\ \A x \in Txs : Has(new, x) <=> Has(pending[c], x) /\ x # t
      /\ Once(new, Txs) /\ Has(pending[c], t) /\ pending[c][Len(pending[c])] = t
  <2> DEFINE b == pending[c]
  <2>1. b \in Seq(Txs) /\ b # <<>> /\ Once(b, Txs) /\ Last(b) = t /\ new = RemoveFirst(b, Last(b))
    BY <1>4, <1>6
  <2> HIDE DEF new
  <2>2. /\ new \in Seq(Txs) /\ Len(new) = Len(b) - 1
        /\ \A j \in 1..Len(new) : new[j] = b[j]
        /\ \A x \in Txs : Has(new, x) <=> Has(b, x) /\ x # t
        /\ Once(new, Txs)
    <3> HIDE DEF b
    <3> QED
      BY <2>1, LastRemoved
  <2>3. Len(b) \in Nat /\ Len(b) > 0
    <3> HIDE DEF b
    <3> QED
      BY <2>1, EmptySeq, LenProperties
  <2>4. b[Len(b)] = t
    BY <2>1 DEF Last
  <2>5. Has(b, t)
    BY <2>3, <2>4 DEF Has
  <2> QED
    BY <2>2, <2>3, <2>4, <2>5
<1> HIDE DEF new
<1>8. /\ pending' \in [Conns -> Seq(Txs)] /\ pending'[c] = new
      /\ \A d \in Conns : d # c => pending'[d] = pending[d]
  BY <1>1, <1>2, <1>5, <1>7 DEF TypeOK
<1>9. \A d \in Conns : \A x \in Txs : Has(pending'[d], x) <=> Has(pending[d], x) /\ x # t
  <2> TAKE d \in Conns
  <2> TAKE x \in Txs
  <2>1. CASE d = c
    BY <1>7, <1>8, <2>1
  <2>2. CASE d # c
    BY <1>4, <1>8, <2>2
  <2> QED
    BY <2>1, <2>2
<1>10. ListsInv'
  <2>1. \A d \in Conns : Once(pending'[d], Txs) /\ Once(complete'[d], Txs)
    BY <1>1, <1>5, <1>7, <1>8 DEF ListsInv, Sorted
  <2>2. \A d, e \in Conns : \A x \in Txs :
          /\ ~(Has(pending'[d], x) /\ Has(complete'[e], x))
          /\ Has(pending'[d], x) /\ Has(pending'[e], x) => d = e
          /\ Has(complete'[d], x) /\ Has(complete'[e], x) => d = e
    BY <1>1, <1>5, <1>9 DEF ListsInv, Sorted
  <2>3. \A x \in Txs : x \in freeTx' <=> \A d \in Conns : ~Has(pending'[d], x) /\ ~Has(complete'[d], x)
    <3> TAKE x \in Txs
    <3>1. x \in freeTx <=> \A d \in Conns : ~Has(pending[d], x) /\ ~Has(complete[d], x)
      BY <1>1 DEF ListsInv, Sorted
    <3> QED
      BY <1>4, <1>5, <1>9, <3>1
  <2> QED
    BY <2>1, <2>2, <2>3 DEF ListsInv, Sorted
<1>11. pkts' \in 0..CtlrBufs /\ CreditInv'
  <2>1. Waiting(pending') = Waiting(pending) \ {t}
    BY <1>9 DEF Waiting
  <2>2. {t} \subseteq Waiting(pending) /\ Cardinality({t}) = 1
    BY <1>2, <1>7, FS_Singleton DEF Waiting, t, c
  <2>3. Give(1) \in 0..CtlrBufs /\ Give(1) + Cardinality(Waiting(pending')) = CtlrBufs
    BY <1>1, <2>1, <2>2, GiveExact
  <2> QED
    BY <1>5, <2>3 DEF CreditInv
<1>12. /\ Idle \in MainType /\ Idle.at = "idle" /\ Idle.cb = NULL /\ ~Driving'
       /\ \A d \in Conns : Up(d)' <=> Up(d)
       /\ state' \in [Conns -> {"connected", "disconnecting", "complete", "disconnected", "released"}]
  <2>1. Idle \in MainType /\ Idle.at = "idle" /\ Idle.cb = NULL
    BY <1>2, MainMoves
  <2>2. /\ state' \in [Conns -> {"connected", "disconnecting", "complete", "disconnected", "released"}]
        /\ \A d \in Conns : Up(d)' <=> Up(d)
    BY <1>0, <1>1, <1>2 DEF TypeOK, Up
  <2> QED
    BY <1>5, <2>1, <2>2 DEF Driving
<1>13. PduInv' /\ told' \in [Pdus -> Nat]
  <2> DEFINE list == <<t>>
  <2>1. list \in Seq(Txs) /\ Once(list, Txs) /\ \A u : Has(list, u) <=> u = t
    BY <1>2 DEF Once, Has
  <2>2. \A u \in Txs : txcb'[u] = IF u = t THEN NULL ELSE txcb[u]
    BY <1>1, <1>2, <1>5 DEF TypeOK
  <2>3. /\ \A u \in Txs : txcb'[u] = IF Has(list, u) THEN NULL ELSE txcb[u]
        /\ \A u \in freeTx' : u \in freeTx \/ Has(list, u)
        /\ freeTx' \subseteq Txs /\ UNCHANGED <<order, sent, txq>> /\ main'.cb = NULL
    BY <1>1, <1>2, <1>5, <1>12, <2>1, <2>2 DEF TypeOK, chanVars
  <2>4. told' = Called(list)
    BY <1>5
  <2> HIDE DEF list
  <2> QED
    BY <2>1, <2>3, <2>4, CalledPdus
<1>14. Up(c) => inLL[c] = Len(pending[c]) + Unaligned(c) /\ ctlr[c] = Len(pending[c]) - 1
  BY <1>1, <1>2, <1>4 DEF CountInv, c
<1>15. TypeOK'
  <2>1. inLL' \in [Conns -> Int]
    <3>1. inLL \in [Conns -> Int]
      BY <1>1 DEF TypeOK
    <3> QED
      BY <1>2, <1>5, <3>1
  <2>2. txcb' \in [Txs -> Pdus \cup {NULL}] /\ freeTx' \subseteq Txs
    BY <1>1, <1>2, <1>5 DEF TypeOK
  <2> QED
    BY <1>1, <1>5, <1>8, <1>11, <1>12, <1>13, <2>1, <2>2 DEF TypeOK, MainType, chanVars
<1>16. CountInv'
  <2>1. ASSUME NEW d \in Conns
        PROVE  /\ Up(d) => inLL'[d] = Len(pending'[d]) + Unaligned(d) /\ ctlr[d] = Len(pending'[d])
               /\ ~Up(d) => ctlr[d] = 0
    <3>1. CASE d = c
      <4>1. inLL'[c] = inLL[c] - 1 /\ Unaligned(c) \in Nat
        BY <1>1, <1>2, <1>5 DEF TypeOK, Unaligned
      <4>2. ~Up(c) => ctlr[c] = 0
        BY <1>1, <1>2 DEF CountInv
      <4>3. Len(pending'[c]) = Len(pending[c]) - 1
        BY <1>7, <1>8
      <4>4. ASSUME Up(c)
            PROVE  inLL'[c] = Len(pending'[c]) + Unaligned(c) /\ ctlr[c] = Len(pending'[c])
        <5>1. inLL[c] = Len(pending[c]) + Unaligned(c) /\ ctlr[c] = Len(pending[c]) - 1
              /\ Len(pending[c]) \in Nat
          BY <1>7, <1>14, <4>4
        <5> QED
          BY <4>1, <4>3, <5>1
      <4> QED
        BY <3>1, <4>2, <4>4
    <3>2. CASE d # c
      <4>1. inLL'[d] = inLL[d] /\ pending'[d] = pending[d]
        BY <1>1, <1>5, <1>8, <3>2 DEF TypeOK
      <4> QED
        BY <1>1, <3>2, <4>1 DEF CountInv, c
    <3> QED
      BY <3>1, <3>2
  <2> QED
    BY <1>5, <1>12, <2>1 DEF CountInv, Unaligned
<1>17. MainInv'
  BY <1>5, <1>12 DEF MainInv
<1>18. LineInv'
  <2>1. \A u \in Txs : Answer'[u] = Answer[u]
    <3>1. \A u \in Txs : txcb'[u] = IF u = t THEN NULL ELSE txcb[u]
      BY <1>1, <1>2, <1>5 DEF TypeOK
    <3> QED
      BY <1>2, <1>12, <3>1 DEF Answer, t
  <2>2. Answer' = Answer /\ Answer[t] = NULL
    BY <1>2, <2>1 DEF Answer, t
  <2> SUFFICES ASSUME NEW d \in Conns
               PROVE  /\ Lined(Line(d)', Len(done[d]), order[d], Answer)
                      /\ Up(d) => Gapless(Line(d)', Len(done[d]), order[d], Answer)
    BY <1>1, <1>5, <1>12, <2>2 DEF LineInv
  <2>3. /\ Line(d) \in Seq(Txs) /\ order[d] \in Seq(Pdus) /\ Len(done[d]) \in Nat
        /\ Lined(Line(d), Len(done[d]), order[d], Answer)
        /\ Up(d) => Gapless(Line(d), Len(done[d]), order[d], Answer)
    BY AnswerFacts
  <2>4. CASE d = c /\ Up(c)
    <3> DEFINE a == complete[c]
               b == pending[c]
               from == Len(done[d])
               o == order[d]
               cb == Answer
    <3>1. Line(d)' = a \o new /\ Line(d) = a \o b
      BY <1>4, <1>5, <1>8, <1>12, <2>4 DEF Line
    <3>2. /\ a \in Seq(Txs) /\ b \in Seq(Txs) /\ new \in Seq(Txs) /\ Len(b) > 0
          /\ Len(new) = Len(b) - 1 /\ b[Len(b)] = t /\ \A j \in 1..Len(new) : new[j] = b[j]
          /\ a \o b \in Seq(Txs) /\ from \in Nat /\ o \in Seq(Pdus) /\ cb[t] = NULL
          /\ Lined(a \o b, from, o, cb) /\ Gapless(a \o b, from, o, cb)
      BY <1>4, <1>6, <1>7, <2>2, <2>3, <2>4, <3>1
    <3> HIDE DEF a, b, from, o, cb
    <3>3. /\ a \o new \in Seq(Txs) /\ Len(a \o b) > 0 /\ Len(a \o new) = Len(a \o b) - 1
          /\ \A j \in 1..Len(a \o new) : (a \o new)[j] = (a \o b)[j]
          /\ (a \o b)[Len(a \o b)] = b[Len(b)]
      <4>1. /\ a \in Seq(Txs) /\ b \in Seq(Txs) /\ new \in Seq(Txs) /\ Len(b) > 0
            /\ Len(new) = Len(b) - 1 /\ \A j \in 1..Len(new) : new[j] = b[j]
        BY <3>2
      <4> QED
        BY ONLY <4>1, ConcatFront, ZenonT(60)
    <3> DEFINE l == a \o b
               n == a \o new
    <3>4. /\ l \in Seq(Txs) /\ n \in Seq(Txs) /\ Len(l) > 0 /\ Len(n) = Len(l) - 1
          /\ \A j \in 1..Len(n) : n[j] = l[j]
          /\ cb[l[Len(l)]] = NULL /\ Lined(l, from, o, cb) /\ Gapless(l, from, o, cb)
      BY <3>2, <3>3
    <3> HIDE DEF l, n
    <3>5. Lined(n, from, o, cb) /\ Gapless(n, from, o, cb)
      BY <3>2, <3>4, LinedDrops
    <3> QED
      BY <3>1, <3>5 DEF n, from, o, cb
  <2>5. CASE d # c \/ ~Up(c)
    <3>1. Line(d)' = Line(d)
      BY <1>5, <1>8, <1>12, <2>5 DEF Line
    <3> QED
      BY <2>3, <3>1
  <2> QED
    BY <2>4, <2>5
<1>19. SegmentsInv' /\ CostInv'
  BY <1>5 DEF IInv, SegmentsInv, CostInv, chanVars
<1>20. AssertInv'
  BY <1>5 DEF AssertInv
<1> QED
  BY <1>10, <1>11, <1>13, <1>15, <1>16, <1>17, <1>18, <1>19, <1>20 DEF IInv

(* process_unack_tx empties tx_pending: the contexts leave the end of the  *)
(* line and come back with their credits.                                  *)
LEMMA DisconnCompleteInv == ASSUME IInv, NEW c \in Conns, DisconnComplete(c) PROVE IInv'
<1> DEFINE list == pending[c]
           W == {x \in Txs : Has(list, x)}
<1>1. /\ TypeOK /\ ListsInv /\ CreditInv /\ CountInv /\ MainInv /\ PduInv /\ LineInv
      /\ NULL \notin Pdus /\ NULL \notin Txs
  BY TxAssumption DEF IInv
<1>2. Up(c) /\ Others
  BY DEF DisconnComplete, Up
<1>3. /\ state' = [state EXCEPT ![c] = "complete"] /\ ctlr' = [ctlr EXCEPT ![c] = 0]
      /\ told' = Called(list) /\ freeTx' = freeTx \cup Range(list)
      /\ txcb' = [t \in Txs |-> IF Contains(list, t) THEN NULL ELSE txcb[t]]
      /\ pkts' = Give(Len(list)) /\ pending' = [pending EXCEPT ![c] = <<>>] /\ kick' = TRUE
      /\ UNCHANGED <<preempt, rx, torn, sent, connReady, complete, inLL, notify, chanVars, main,
                     order, done, aborted>>
  BY DEF DisconnComplete
<1>4. list \in Seq(Txs) /\ Once(list, Txs) /\ complete[c] \in Seq(Txs)
  BY <1>1, LineFacts
<1>5. pending'[c] = <<>> /\ \A d \in Conns : d # c => pending'[d] = pending[d]
  BY <1>1, <1>3 DEF TypeOK
<1>6. \A d \in Conns : \A x \in Txs : Has(pending'[d], x) <=> Has(pending[d], x) /\ d # c
  <2>1. \A x : ~Has(<<>>, x)
    BY DEF Has
  <2> QED
    BY <1>5, <2>1
<1>7. \A x \in Txs : \A d \in Conns : x \in W /\ Has(pending[d], x) => d = c
  BY <1>1 DEF ListsInv, Sorted
<1> HIDE DEF list
<1>8. Range(list) = W /\ \A x : Contains(list, x) <=> Has(list, x)
  <2>1. DOMAIN list = 1..Len(list) /\ \A i \in 1..Len(list) : list[i] \in Txs
    BY <1>4, LenProperties, ElementOfSeq
  <2>2. Range(list) = W
    BY <2>1 DEF Range, Has
  <2> QED
    BY <2>2 DEF Contains, Has
<1>9. freeTx' = freeTx \cup W /\ \A x \in Txs : txcb'[x] = IF x \in W THEN NULL ELSE txcb[x]
  BY <1>3, <1>8
<1>10. W = {x \in Txs : Has(pending[c], x)}
  BY DEF list
<1> HIDE DEF W
<1>11. ListsInv'
  <2>1. \A d \in Conns : Once(pending'[d], Txs) /\ Once(complete'[d], Txs)
    <3>1. Once(<<>>, Txs)
      BY DEF Once
    <3> QED
      BY <1>1, <1>3, <1>5, <3>1 DEF ListsInv, Sorted
  <2>2. \A d, e \in Conns : \A x \in Txs :
          /\ ~(Has(pending'[d], x) /\ Has(complete'[e], x))
          /\ Has(pending'[d], x) /\ Has(pending'[e], x) => d = e
          /\ Has(complete'[d], x) /\ Has(complete'[e], x) => d = e
    BY <1>1, <1>3, <1>6 DEF ListsInv, Sorted
  <2>3. \A x \in Txs : x \in freeTx' <=> \A d \in Conns : ~Has(pending'[d], x) /\ ~Has(complete'[d], x)
    <3> TAKE x \in Txs
    <3>1. /\ x \in freeTx <=> \A d \in Conns : ~Has(pending[d], x) /\ ~Has(complete[d], x)
          /\ x \in W => \A d \in Conns : ~Has(complete[d], x)
      BY <1>1, <1>10 DEF ListsInv, Sorted
    <3> QED
      BY <1>3, <1>6, <1>7, <1>9, <1>10, <3>1
  <2> QED
    BY <2>1, <2>2, <2>3 DEF ListsInv, Sorted
<1>12. pkts' \in 0..CtlrBufs /\ pkts' >= pkts /\ CreditInv'
  <2>1. Waiting(pending') = Waiting(pending) \ W /\ W \subseteq Waiting(pending)
    BY <1>6, <1>7, <1>10 DEF Waiting
  <2>2. Cardinality(W) = Len(list)
    BY <1>4, OnceCounts DEF W
  <2>3. /\ Give(Cardinality(W)) \in 0..CtlrBufs /\ Give(Cardinality(W)) >= pkts
        /\ Give(Cardinality(W)) + Cardinality(Waiting(pending')) = CtlrBufs
    BY <1>1, <2>1, GiveExact
  <2> QED
    BY <1>3, <2>2, <2>3 DEF CreditInv
<1>13. /\ ~Up(c)' /\ (\A d \in Conns : d # c => (Up(d)' <=> Up(d)) /\ ctlr'[d] = ctlr[d])
       /\ ctlr'[c] = 0 /\ state'[c] # "connected"
       /\ Driving' <=> Driving
       /\ \A d \in Conns : Up(d)' => d # c /\ Up(d)
  BY <1>1, <1>3 DEF TypeOK, Up, Driving
<1>14. PduInv' /\ told' \in [Pdus -> Nat]
  <2>1. \A u \in Txs : u \in W <=> Has(list, u)
    BY DEF W
  <2>2. /\ \A u \in Txs : txcb'[u] = IF Has(list, u) THEN NULL ELSE txcb[u]
        /\ \A u \in freeTx' : u \in freeTx \/ Has(list, u)
        /\ freeTx' \subseteq Txs /\ UNCHANGED <<order, sent, txq>> /\ UNCHANGED main
    BY <1>1, <1>3, <1>9, <2>1 DEF TypeOK, chanVars, W
  <2> QED
    BY <1>3, <1>4, <2>2, CalledPdus
<1>15. TypeOK'
  <2>1. ctlr' \in [Conns -> Nat]
        /\ state' \in [Conns -> {"connected", "disconnecting", "complete", "disconnected", "released"}]
    BY <1>1, <1>3 DEF TypeOK
  <2>2. pending' \in [Conns -> Seq(Txs)]
    BY <1>1, <1>3 DEF TypeOK
  <2>3. txcb' \in [Txs -> Pdus \cup {NULL}]
    BY <1>1, <1>3 DEF TypeOK
  <2>4. freeTx' \subseteq Txs
    <3>1. freeTx \subseteq Txs /\ W \subseteq Txs
      BY <1>1 DEF TypeOK, W
    <3> QED
      BY <1>9, <3>1
  <2>5. kick' \in BOOLEAN /\ UNCHANGED <<preempt, rx, torn, sent, connReady, complete, inLL,
           notify, chanReady, txq, raising, rest, left, credits, out, given, main, order,
           done, aborted>>
    BY <1>3 DEF chanVars
  <2>6. told' \in [Pdus -> Nat] /\ pkts' \in 0..CtlrBufs
    BY <1>12, <1>14
  <2> QED
    BY <1>1, <2>1, <2>2, <2>3, <2>4, <2>5, <2>6, ZenonT(60) DEF TypeOK
<1>16. CountInv'
  <2>1. \A d \in Conns : Unaligned(d)' = Unaligned(d)
    BY <1>3 DEF Unaligned
  <2>2. UNCHANGED <<main, inLL>>
    BY <1>3
  <2> QED
    BY <1>1, <1>5, <1>13, <2>1, <2>2 DEF CountInv
<1>17. MainInv'
  <2>1. main.at \in {"pull", "nodata", "send"} => pkts' > 0 /\ freeTx' # {}
    <3>1. pkts \in Nat /\ pkts' \in Nat
      BY <1>1, <1>12, TxAssumption DEF TypeOK
    <3> QED
      BY <1>1, <1>9, <1>12, <3>1 DEF MainInv
  <2>2. ASSUME Driving
        PROVE  /\ main.tx \in Txs
               /\ \A d \in Conns : /\ ~Has(complete[d], main.tx)
                                   /\ Has(pending'[d], main.tx) => d = main.conn
               /\ Up(main.conn)' \/ Has(pending'[main.conn], main.tx)
                    => /\ pending'[main.conn] # <<>>
                       /\ Last(pending'[main.conn]) = main.tx
                       /\ txcb'[main.tx] = main.cb
    <3>1. /\ main.tx \in Txs /\ main.conn \in Conns
          /\ \A d \in Conns : ~Has(complete[d], main.tx) /\ (Has(pending[d], main.tx) => d = main.conn)
      BY <1>1, <2>2 DEF MainInv, Driving
    <3>2. ASSUME Up(main.conn)' \/ Has(pending'[main.conn], main.tx)
          PROVE  /\ pending'[main.conn] # <<>> /\ Last(pending'[main.conn]) = main.tx
                 /\ txcb'[main.tx] = main.cb
      <4>1. main.conn # c /\ (Up(main.conn) \/ Has(pending[main.conn], main.tx))
        <5>1. main' = main
          BY <1>3
        <5>2. CASE Up(main.conn)'
          BY <1>13, <3>1, <5>1, <5>2
        <5>3. CASE Has(pending'[main.conn], main.tx)
          BY <1>6, <3>1, <5>3
        <5> QED
          BY <3>2, <5>2, <5>3
      <4>2. /\ pending[main.conn] # <<>> /\ Last(pending[main.conn]) = main.tx
            /\ txcb[main.tx] = main.cb
        BY <1>1, <2>2, <4>1 DEF MainInv
      <4>3. main.tx \notin W
        BY <1>10, <3>1, <4>1
      <4> QED
        BY <1>5, <1>9, <3>1, <4>1, <4>2, <4>3
    <3> QED
      BY <1>6, <3>1, <3>2
  <2>3. UNCHANGED <<main, preempt, complete, chanReady>> /\ (preempt \/ main.at \in {"idle", "notify"})
    BY <1>2, <1>3 DEF chanVars, Others
  <2> QED
    BY <1>1, <1>13, <2>1, <2>2, <2>3 DEF MainInv
<1>18. LineInv'
  <2>1. \A u \in Txs : u \notin W => Answer'[u] = Answer[u]
    BY <1>3, <1>9, <1>13 DEF Answer
  <2> SUFFICES ASSUME NEW d \in Conns
               PROVE  /\ Lined(Line(d)', Len(done[d]), order[d], Answer')
                      /\ Up(d)' => Gapless(Line(d)', Len(done[d]), order[d], Answer')
    BY <1>1, <1>3 DEF LineInv
  <2> DEFINE line == Line(d)
             from == Len(done[d])
             o == order[d]
             cb == Answer
             now == Answer'
  <2>2. /\ line \in Seq(Txs) /\ o \in Seq(Pdus) /\ from \in Nat
        /\ Lined(line, from, o, cb) /\ (Up(d) => Gapless(line, from, o, cb))
    BY AnswerFacts
  <2>3. CASE d = c
    <3> DEFINE new == complete[c]
    <3>1. Line(d)' = new
      <4>1. Line(d)' = complete[c] \o <<>>
        BY <1>3, <1>13, <2>3 DEF Line
      <4> QED
        BY <1>4, <4>1, ConcatEmptySeq
    <3>2. line = new \o list
      BY <1>2, <2>3 DEF Line, list
    <3>3. ASSUME NEW u \in Txs, Has(new, u) PROVE now[u] = cb[u]
      <4>1. u \notin W
        BY <1>1, <1>10, <3>3 DEF ListsInv, Sorted
      <4> QED
        BY <2>1, <4>1
    <3>4. new \in Seq(Txs) /\ list \in Seq(Txs)
      BY <1>4
    <3> HIDE DEF new, line, from, o, cb, now
    <3>5. Len(new) <= Len(line) /\ \A j \in 1..Len(new) : new[j] = line[j]
      BY <3>2, <3>4, LenProperties, ConcatProperties
    <3>6. \A j \in 1..Len(new) : new[j] \in Txs /\ Has(new, new[j])
      BY <3>4, ElementOfSeq DEF Has
    <3>7. \A j \in 1..Len(new) : new[j] = line[j] /\ now[new[j]] = cb[line[j]]
      BY <3>3, <3>5, <3>6
    <3>8. Lined(new, from, o, now)
      BY <2>2, <3>4, <3>5, <3>7, LinedFront
    <3> QED
      BY <1>13, <2>3, <3>1, <3>8 DEF from, o, now
  <2>4. CASE d # c
    <3>1. Line(d)' = line /\ (Up(d)' <=> Up(d))
      BY <1>3, <1>5, <1>13, <2>4 DEF Line
    <3>2. ASSUME NEW u \in Txs, Has(line, u) PROVE now[u] = cb[u]
      <4>1. Has(complete[d], u) \/ Has(pending[d], u)
        BY <1>1, <3>2, LineFacts
      <4>2. u \notin W
        BY <1>1, <1>10, <2>4, <4>1 DEF ListsInv, Sorted
      <4> QED
        BY <2>1, <4>2
    <3> HIDE DEF line, from, o, cb, now
    <3>3. Lined(line, from, o, now) /\ (Gapless(line, from, o, cb) => Gapless(line, from, o, now))
      BY <2>2, <3>2, LinedSame
    <3> QED
      BY <2>2, <3>1, <3>3 DEF from, o, now
  <2> QED
    BY <2>3, <2>4
<1>19. SegmentsInv' /\ CostInv'
  BY <1>3 DEF IInv, SegmentsInv, CostInv, chanVars
<1>20. AssertInv'
  BY <1>13 DEF AssertInv
<1> QED
  BY <1>11, <1>12, <1>14, <1>15, <1>16, <1>17, <1>18, <1>19, <1>20 DEF IInv

(* tx_notify_process: the callback of the head of tx_complete is the next  *)
(* of the order.                                                           *)
LEMMA TxNotifyInv == ASSUME IInv, NEW c \in Conns, TxNotify(c) PROVE IInv'
<1> DEFINE t == Head(complete[c])
<1>1. /\ TypeOK /\ ListsInv /\ CreditInv /\ CountInv /\ MainInv /\ PduInv /\ LineInv /\ AssertInv
      /\ NULL \notin Pdus /\ NULL \notin Txs
  BY TxAssumption DEF IInv
<1>2. ~Driving /\ main.cb = NULL
  BY <1>1 DEF TxNotify, MainInv, Driving
<1>3. UNCHANGED <<preempt, rx, torn, sent, state, connReady, pending, inLL, ctlr, chanVars, pkts,
                  order, aborted>>
  BY DEF TxNotify
<1>4. SegmentsInv' /\ CostInv' /\ AssertInv'
  BY <1>3 DEF IInv, SegmentsInv, CostInv, AssertInv, chanVars
<1>5. \A d \in Conns : Up(d)' <=> Up(d)
  BY <1>3 DEF Up
<1>6. CASE complete[c] = <<>>
  <2>1. /\ main' = Idle /\ notify' = [notify EXCEPT ![c] = FALSE]
        /\ UNCHANGED <<complete, told, done, freeTx, txcb, kick>>
    BY <1>6 DEF TxNotify
  <2>2. Idle \in MainType /\ Idle.at = "idle" /\ Idle.cb = NULL
    BY MainMoves
  <2>3. ~Driving'
    BY <2>1, <2>2 DEF Driving
  <2>4. ListsInv' /\ CreditInv' /\ CountInv' /\ LineInv'
    BY <1>2, <1>3, <1>5, <2>1, <2>3, ContextsFrame
  <2>5. PduInv'
    BY <1>2, <1>3, <2>1, <2>2, PdusFrame DEF chanVars
  <2>6. TypeOK'
    <3>1. notify' \in [Conns -> BOOLEAN]
      BY <1>1, <2>1 DEF TypeOK
    <3> QED
      BY <1>1, <1>3, <2>1, <2>2, <3>1 DEF TypeOK, MainType, chanVars
  <2>7. MainInv'
    BY <2>1, <2>2, <2>3 DEF MainInv
  <2> QED
    BY <1>4, <2>4, <2>5, <2>6, <2>7 DEF IInv
<1>7. CASE complete[c] # <<>>
  <2>1. /\ main' = [Idle EXCEPT !.at = "notify", !.conn = c]
        /\ complete' = [complete EXCEPT ![c] = Tail(complete[c])] /\ told' = Called(<<t>>)
        /\ done' = [done EXCEPT ![c] = IF txcb[t] = NULL THEN done[c] ELSE Append(done[c], txcb[t])]
        /\ freeTx' = freeTx \cup {t} /\ txcb' = [txcb EXCEPT ![t] = NULL] /\ kick' = TRUE
        /\ UNCHANGED notify
    BY <1>7 DEF TxNotify
  <2>2. main' \in MainType /\ main'.at = "notify" /\ main'.conn = c /\ main'.cb = NULL /\ ~Driving'
    BY <2>1, MainMoves DEF Driving
  <2>3. /\ pending[c] \in Seq(Txs) /\ complete[c] \in Seq(Txs)
        /\ Once(pending[c], Txs) /\ Once(complete[c], Txs)
    BY <1>1, LineFacts
  <2>4. /\ t \in Txs /\ Has(complete[c], t) /\ Tail(complete[c]) \in Seq(Txs)
        /\ \A x \in Txs : Has(Tail(complete[c]), x) <=> Has(complete[c], x) /\ x # t
        /\ Once(Tail(complete[c]), Txs)
    BY <1>7, <2>3, FirstTaken
  <2> HIDE DEF t
  <2>5. /\ complete' \in [Conns -> Seq(Txs)] /\ complete'[c] = Tail(complete[c])
        /\ \A d \in Conns : d # c => complete'[d] = complete[d]
    BY <1>1, <2>1, <2>4 DEF TypeOK
  <2>6. \A d \in Conns : /\ Has(complete[d], t) => d = c
                         /\ ~Has(pending[d], t)
    BY <1>1, <2>4 DEF ListsInv, Sorted
  <2>7. \A d \in Conns : \A x \in Txs : Has(complete'[d], x) <=> Has(complete[d], x) /\ x # t
    <3> TAKE d \in Conns
    <3> TAKE x \in Txs
    <3>1. CASE d = c
      BY <2>4, <2>5, <3>1
    <3>2. CASE d # c
      BY <2>5, <2>6, <3>2
    <3> QED
      BY <3>1, <3>2
  <2>8. ListsInv'
    <3>1. \A d \in Conns : Once(pending'[d], Txs) /\ Once(complete'[d], Txs)
      BY <1>1, <1>3, <2>4, <2>5 DEF ListsInv, Sorted
    <3>2. \A d, e \in Conns : \A x \in Txs :
            /\ ~(Has(pending'[d], x) /\ Has(complete'[e], x))
            /\ Has(pending'[d], x) /\ Has(pending'[e], x) => d = e
            /\ Has(complete'[d], x) /\ Has(complete'[e], x) => d = e
      BY <1>1, <1>3, <2>7 DEF ListsInv, Sorted
    <3>3. \A x \in Txs : x \in freeTx' <=> \A d \in Conns : ~Has(pending'[d], x) /\ ~Has(complete'[d], x)
      <4> TAKE x \in Txs
      <4>1. x \in freeTx <=> \A d \in Conns : ~Has(pending[d], x) /\ ~Has(complete[d], x)
        BY <1>1 DEF ListsInv, Sorted
      <4> QED
        BY <1>3, <2>1, <2>6, <2>7, <4>1
    <3> QED
      BY <3>1, <3>2, <3>3 DEF ListsInv, Sorted
  <2>9. CreditInv' /\ CountInv'
    BY <1>1, <1>2, <1>3, <1>5, <2>2 DEF CreditInv, Waiting, CountInv, Unaligned, Driving
  <2>10. \A u \in Txs : txcb'[u] = IF u = t THEN NULL ELSE txcb[u]
    BY <1>1, <2>1, <2>4 DEF TypeOK
  <2>11. PduInv' /\ told' \in [Pdus -> Nat]
    <3> DEFINE list == <<t>>
    <3>1. list \in Seq(Txs) /\ Once(list, Txs) /\ \A u : Has(list, u) <=> u = t
      BY <2>4 DEF Once, Has
    <3>2. /\ \A u \in Txs : txcb'[u] = IF Has(list, u) THEN NULL ELSE txcb[u]
          /\ \A u \in freeTx' : u \in freeTx \/ Has(list, u)
          /\ freeTx' \subseteq Txs /\ UNCHANGED <<order, sent, txq>> /\ main'.cb = NULL
      <4>1. \A u \in Txs : txcb'[u] = IF Has(list, u) THEN NULL ELSE txcb[u]
        BY <2>10, <3>1
      <4>2. freeTx' \subseteq Txs /\ \A u \in freeTx' : u \in freeTx \/ Has(list, u)
        BY <1>1, <2>1, <2>4, <3>1 DEF TypeOK
      <4>3. UNCHANGED <<order, sent, txq>> /\ main'.cb = NULL
        BY <1>3, <2>2 DEF chanVars
      <4> QED
        BY <4>1, <4>2, <4>3
    <3>3. told' = Called(list)
      BY <2>1
    <3> HIDE DEF list
    <3> QED
      BY <3>1, <3>2, <3>3, CalledPdus
  <2>12. txcb[t] \in Pdus \cup {NULL} /\ txcb[t] = Answer[t] /\ done[c] \in Seq(Pdus)
         /\ \A u \in Txs : Answer[u] = txcb[u] /\ Answer'[u] = txcb'[u]
    BY <1>1, <1>2, <2>2, <2>4 DEF TypeOK, Answer
  <2>13. done' \in [Conns -> Seq(Pdus)]
         /\ \A d \in Conns : done'[d] = IF d = c /\ txcb[t] # NULL THEN Append(done[d], txcb[t]) ELSE done[d]
    <3>1. txcb[t] # NULL => Append(done[c], txcb[t]) \in Seq(Pdus)
      BY <2>12, AppendProperties
    <3> QED
      BY <1>1, <2>1, <3>1 DEF TypeOK
  <2>14. TypeOK'
    <3>1. txcb' \in [Txs -> Pdus \cup {NULL}] /\ freeTx' \subseteq Txs
      BY <1>1, <2>1, <2>4 DEF TypeOK
    <3> QED
      BY <1>1, <1>3, <2>1, <2>2, <2>5, <2>11, <2>13, <3>1 DEF TypeOK, MainType, chanVars
  <2>15. MainInv'
    BY <2>2 DEF MainInv
  <2>16. LineInv'
    <3> SUFFICES ASSUME NEW d \in Conns
                 PROVE  /\ Len(done'[d]) <= Len(order[d])
                        /\ \A i \in 1..Len(done'[d]) : done'[d][i] = order[d][i]
                        /\ Lined(Line(d)', Len(done'[d]), order[d], Answer')
                        /\ Up(d) => Gapless(Line(d)', Len(done'[d]), order[d], Answer')
      BY <1>3, <1>5 DEF LineInv
    <3> DEFINE line == Line(d)
               from == Len(done[d])
               o == order[d]
               cb == Answer
               now == Answer'
    <3>1. /\ line \in Seq(Txs) /\ Once(line, Txs) /\ o \in Seq(Pdus) /\ Once(o, Pdus)
          /\ from \in Nat /\ from <= Len(o)
          /\ Lined(line, from, o, cb) /\ (Up(d) => Gapless(line, from, o, cb))
          /\ \A u, v \in Txs : cb[u] = cb[v] /\ cb[u] # NULL => u = v
      BY AnswerFacts
    <3>2. \A i \in 1..Len(done[d]) : done[d][i] = order[d][i]
      BY <1>1 DEF LineInv
    <3>3. \A u \in Txs : u # t => now[u] = cb[u]
      BY <2>10, <2>12
    <3>4. CASE d # c
      <4>1. Line(d)' = line /\ done'[d] = done[d]
        BY <1>3, <1>5, <2>5, <2>13, <3>4 DEF Line
      <4>2. ASSUME NEW u \in Txs, Has(line, u) PROVE now[u] = cb[u]
        <5>1. Has(complete[d], u) \/ Has(pending[d], u)
          BY <1>1, <4>2, LineFacts
        <5> QED
          BY <2>6, <3>3, <3>4, <5>1
      <4> HIDE DEF line, from, o, cb, now
      <4>3. Lined(line, from, o, now) /\ (Gapless(line, from, o, cb) => Gapless(line, from, o, now))
        BY <3>1, <4>2, LinedSame
      <4> QED
        BY <3>1, <3>2, <4>1, <4>3 DEF from, o, now
    <3>5. CASE d = c
      <4> DEFINE to == IF cb[Head(line)] = NULL THEN from ELSE from + 1
      <4>1. line # <<>> /\ Head(line) = t /\ Line(d)' = Tail(line)
        <5>1. CASE Up(d)
          <6> DEFINE a == complete[c]
                     b == pending[c]
          <6>1. line = a \o b /\ Line(d)' = Tail(a) \o b
            BY <1>3, <1>5, <2>5, <3>5, <5>1 DEF Line
          <6>2. a \in Seq(Txs) /\ b \in Seq(Txs) /\ a # <<>> /\ t = Head(a)
            BY <1>7, <2>3 DEF t
          <6> HIDE DEF a, b
          <6>3. a \o b # <<>> /\ Head(a \o b) = Head(a) /\ Tail(a \o b) = Tail(a) \o b
            BY <6>2, ConcatTail
          <6> QED
            BY <6>1, <6>2, <6>3
        <5>2. CASE ~Up(d)
          <6>1. line = complete[c]
            BY <1>1, <3>5, <5>2, LineFacts
          <6>2. Line(d)' = Tail(complete[c]) \o <<>>
            BY <1>3, <1>5, <2>5, <3>5, <5>2 DEF Line
          <6>3. Line(d)' = Tail(complete[c])
            BY <2>4, <6>2, ConcatEmptySeq
          <6> QED
            BY <1>7, <6>1, <6>3 DEF t
        <5> QED
          BY <5>1, <5>2
      <4> HIDE DEF line, from, o, cb, now
      <4>2. /\ cb[Head(line)] # NULL => from + 1 \in 1..Len(o) /\ o[from + 1] = cb[Head(line)]
            /\ to \in Nat /\ to <= Len(o)
            /\ Lined(Tail(line), to, o, now)
            /\ Gapless(line, from, o, cb) => Gapless(Tail(line), to, o, now)
        BY <3>1, <3>3, <4>1, LinedTail, SMTT(30)
      <4>3. cb[Head(line)] = txcb[t]
        BY <2>12, <4>1 DEF cb
      <4>4. Len(done'[d]) = to /\ \A i \in 1..Len(done'[d]) : done'[d][i] = order[d][i]
        <5>1. CASE txcb[t] = NULL
          BY <2>13, <3>2, <4>3, <5>1 DEF from
        <5>2. CASE txcb[t] # NULL
          <6> DEFINE a == done[d]
                     q == txcb[t]
          <6>1. /\ done'[d] = Append(a, q) /\ a \in Seq(Pdus) /\ q \in Pdus
                /\ \A i \in 1..Len(a) : a[i] = o[i]
                /\ from = Len(a) /\ o[from + 1] = q
            BY <2>12, <2>13, <3>2, <3>5, <4>2, <4>3, <5>2 DEF from, o
          <6> HIDE DEF a, q
          <6>2. /\ Len(a) \in Nat /\ Len(Append(a, q)) = Len(a) + 1
                /\ \A i \in 1..(Len(a) + 1) : Append(a, q)[i] = IF i <= Len(a) THEN a[i] ELSE q
            BY <6>1, AppendFacts
          <6>3. \A i \in 1..(Len(a) + 1) : Append(a, q)[i] = o[i]
            <7> TAKE i \in 1..(Len(a) + 1)
            <7>1. i \in 1..Len(a) \/ (i = Len(a) + 1 /\ ~(i <= Len(a)))
              BY <6>2
            <7> QED
              BY <6>1, <6>2, <7>1
          <6>4. to = from + 1
            BY <4>3, <5>2
          <6> QED
            BY <6>1, <6>2, <6>3, <6>4 DEF o
        <5> QED
          BY <5>1, <5>2
      <4> HIDE DEF to
      <4> QED
        BY <3>1, <4>1, <4>2, <4>4 DEF o, now
    <3> QED
      BY <3>4, <3>5
  <2> QED
    BY <1>4, <2>8, <2>9, <2>11, <2>14, <2>15, <2>16 DEF IInv
<1> QED
  BY <1>6, <1>7

(* What is true until two threads meet in a list.                          *)
Safe == torn \/ IInv

(* A list that was torn stays torn.                                        *)
LEMMA TornStays == ASSUME torn, [Next]_vars PROVE torn'
<1>1. CASE Next
  BY <1>1 DEF Next, Pass, SendPdu, RaiseDataReady, RaiseTorn, GiveCredits, GetConnReady,
     NothingReady, PullNone, PullRefused, PullAsserts, LowerDataReady, Pull, SendBuf,
     SendBufTorn, DriverTakes, DriverRefuses, DriverRefusesTorn, NumCompleted, InLLAligned,
     DisconnComplete, TxNotify, Disconnected, DeferredWork
<1>2. CASE UNCHANGED vars
  BY <1>2 DEF vars
<1> QED
  BY <1>1, <1>2

(* Every step keeps the invariant or tears a list.                         *)
LEMMA NextInv == ASSUME IInv, [Next]_vars PROVE Safe'
<1>0. SUFFICES ASSUME ~torn' PROVE IInv'
  BY DEF Safe
<1>1. CASE Next
  <2>1. CASE \E p \in Pdus : SendPdu(p)
    BY <2>1, SendPduInv
  <2>2. CASE \E h \in Chans : RaiseDataReady(h) \/ RaiseTorn(h) \/ GiveCredits(h)
    <3>1. ASSUME NEW h \in Chans PROVE ~RaiseTorn(h)
      BY <1>0 DEF RaiseTorn
    <3> QED
      BY <2>2, <3>1, RaiseDataReadyInv, GiveCreditsInv
  <2>3. CASE Pass
    <3>1. ~SendBufTorn
      BY <1>0 DEF SendBufTorn
    <3> QED
      BY <2>3, <3>1, GetConnReadyInv, NothingReadyInv, PullNoneInv, PullRefusedInv, PullAssertsInv,
         LowerDataReadyInv, PullInv, SendBufInv, DriverTakesInv DEF Pass
  <2>4. CASE DriverRefuses \/ DriverRefusesTorn
    <3>1. ~DriverRefusesTorn
      BY <1>0 DEF DriverRefusesTorn
    <3>2. Contains(pending[main.conn], main.tx)
      BY <1>0, <2>4, <3>1 DEF DriverRefuses
    <3>3. Has(pending[main.conn], main.tx)
      BY <3>2 DEF Contains, Has
    <3> QED
      BY <2>4, <3>1, <3>3, DriverRefusesInv
  <2>5. CASE \E c \in Conns : \/ NumCompleted(c) \/ InLLAligned(c) \/ DisconnComplete(c)
                              \/ TxNotify(c) \/ Disconnected(c) \/ DeferredWork(c)
    BY <2>5, NumCompletedInv, InLLAlignedInv, DisconnCompleteInv, TxNotifyInv, DisconnectedInv,
       DeferredWorkInv
  <2> QED
    BY <1>1, <2>1, <2>2, <2>3, <2>4, <2>5 DEF Next
<1>2. CASE UNCHANGED vars
  <2>1. UNCHANGED <<preempt, rx, torn, state, connReady, pending, complete, inLL, ctlr, notify, chanReady,
                    txq, raising, rest, left, credits, out, given, pkts, freeTx, txcb, kick, main,
                    sent, order, told, done, aborted>>
    BY <1>2 DEF vars, connVars, chanVars
  <2>2. (Driving' <=> Driving) /\ \A c \in Conns : Up(c)' <=> Up(c)
    BY <2>1 DEF Driving, Up
  <2>3. ListsInv' /\ CreditInv' /\ CountInv' /\ LineInv'
    BY <2>1, <2>2, ContextsFrame
  <2>4. PduInv'
    BY <2>1, PdusFrame
  <2>5. TypeOK' /\ SegmentsInv' /\ CostInv' /\ AssertInv'
    <3>1. TypeOK'
      BY <2>1, ZenonT(60) DEF IInv, TypeOK
    <3>2. SegmentsInv' /\ CostInv'
      BY <2>1 DEF IInv, SegmentsInv, CostInv
    <3>3. AssertInv'
      BY <2>1 DEF IInv, AssertInv
    <3> QED
      BY <3>1, <3>2, <3>3
  <2>6. MainInv'
    BY <2>1 DEF IInv, MainInv, Driving, Up
  <2> QED
    BY <2>3, <2>4, <2>5, <2>6 DEF IInv
<1> QED
  BY <1>1, <1>2

(* The invariant holds in every behaviour, until a list is torn.           *)
LEMMA Inductive == Spec => []Safe
<1>1. Init => Safe
  BY InitInv DEF Safe
<1>2. Safe /\ [Next]_vars => Safe'
  BY NextInv, TornStays DEF Safe
<1> QED
  BY <1>1, <1>2, PTL DEF Spec

-----------------------------------------------------------------------------
(* The lists and the counts say what the invariant of the model says.      *)
LEMMA CreditsFollow == Safe => CreditsExact
<1> SUFFICES ASSUME IInv, ~torn PROVE CreditsExact
  BY DEF Safe, CreditsExact
<1> DEFINE lists == [c \in Conns |-> pending[c] \o complete[c]]
<1>1. TypeOK /\ ListsInv /\ CreditInv /\ CountInv
  BY DEF IInv
<1>2. ASSUME NEW S, NEW list \in Seq(S)
      PROVE  Range(list) = {x \in S : Has(list, x)}
  <2>1. DOMAIN list = 1..Len(list) /\ \A i \in 1..Len(list) : list[i] \in S
    BY LenProperties, ElementOfSeq
  <2> QED
    BY <2>1 DEF Range, Has
<1>3. ASSUME NEW c \in Conns
      PROVE  /\ lists[c] \in Seq(Txs) /\ Once(lists[c], Txs) /\ pending[c] \in Seq(Txs)
             /\ \A x \in Txs : Has(lists[c], x) <=> Has(pending[c], x) \/ Has(complete[c], x)
  <2>1. /\ pending[c] \in Seq(Txs) /\ complete[c] \in Seq(Txs)
        /\ Once(pending[c], Txs) /\ Once(complete[c], Txs)
        /\ \A x \in Txs : ~(Has(pending[c], x) /\ Has(complete[c], x))
    BY <1>1 DEF TypeOK, ListsInv, Sorted
  <2>2. lists[c] = pending[c] \o complete[c]
    OBVIOUS
  <2> HIDE DEF lists
  <2> QED
    BY ONLY <2>1, <2>2, ConcatHas
<1> HIDE DEF lists
<1>4. UNION {Range(pending[c]) : c \in Conns} = Waiting(pending)
  <2>1. \A c \in Conns : Range(pending[c]) = {x \in Txs : Has(pending[c], x)}
    BY <1>2, <1>3
  <2> QED
    BY <2>1 DEF Waiting
<1>5. pkts + Cardinality(UNION {Range(pending[c]) : c \in Conns}) = CtlrBufs
  BY <1>1, <1>4 DEF CreditInv
<1>6. ASSUME NEW c \in Conns, NEW d \in Conns, NEW i \in 1..Len(lists[c]), NEW j \in 1..Len(lists[d]),
             lists[c][i] = lists[d][j]
      PROVE  c = d /\ i = j
  <2>1. lists[c][i] \in Txs /\ Has(lists[c], lists[c][i]) /\ Has(lists[d], lists[c][i])
    BY <1>3, <1>6, ElementOfSeq DEF Has
  <2>2. c = d
    BY <1>1, <1>3, <2>1 DEF ListsInv, Sorted
  <2> QED
    BY <1>3, <1>6, <2>1, <2>2 DEF Once
<1>7. freeTx = Txs \ UNION {Range(lists[c]) : c \in Conns}
  <2>1. \A c \in Conns : Range(lists[c]) = {x \in Txs : Has(lists[c], x)}
    BY <1>2, <1>3
  <2>2. freeTx \subseteq Txs
    BY <1>1 DEF TypeOK
  <2>3. \A x \in Txs : x \in freeTx <=> \A c \in Conns : ~Has(lists[c], x)
    BY <1>1, <1>3 DEF ListsInv, Sorted
  <2> QED
    BY <2>1, <2>2, <2>3
<1>8. \A c \in Conns : state[c] = "connected" =>
        inLL[c] = Len(pending[c]) + (IF rx = c THEN 1 ELSE 0)
  BY <1>1 DEF CountInv, Unaligned, Up
<1> QED
  BY <1>5, <1>6, <1>7, <1>8 DEF CreditsExact, lists

(* So do the histories.                                                    *)
LEMMA CallbacksFollow == Safe => CallbacksInOrder
BY DEF Safe, IInv, PduInv, LineInv, CallbacksInOrder

(* No buffer of the controller and no TX context is lost or returned       *)
(* twice: send_buf, hci_num_completed_packets, process_unack_tx,           *)
(* tx_notify_process and the error path of send_buf conserve them,         *)
(* whichever threads preempt a pass, until two of them meet in tx_pending  *)
(* or in a ready list, or a refused packet's context is returned twice.    *)
THEOREM CreditsConserved == Spec => []CreditsExact
BY Inductive, CreditsFollow, PTL

(* Until then no callback is made twice, and those that report success     *)
(* come in the order in which send_buf handed the packets to the           *)
(* controller, although they pass through tx_pending, tx_complete and two  *)
(* threads.                                                                *)
THEOREM CallbacksOrdered == Spec => []CallbacksInOrder
BY Inductive, CallbacksFollow, PTL

(* Until then and while every connection is up no assertion of conn.c,     *)
(* l2cap.c and hci_num_completed_packets fails: the credit, the context    *)
(* and the channel that get_conn_ready and get_ready_chan saw are there    *)
(* when send_buf and lower_data_ready use them, even if the other threads  *)
(* run in between, and a completed packet finds its context.               *)
THEOREM AssertsKept == Spec => []AssertsHold
<1>1. Safe => AssertsHold
  BY DEF Safe, IInv, AssertInv, AssertsHold
<1> QED
  BY <1>1, Inductive, PTL

=============================================================================
