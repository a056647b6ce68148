------------------------------ MODULE ListLemmas ------------------------------
(***************************************************************************)
(* What the list operations of the models do to the elements of a list:    *)
(* the slist of include/utils/bt_slist.h is a sequence, and insertion      *)
(* behind a node, prepending and removal are InsertAt, Cons and RemoveAt.  *)
(***************************************************************************)
EXTENDS Integers, Sequences, SequencesExt, SequenceTheorems, TLAPS

(* Removing the i-th element shifts the ones behind it.                    *)
LEMMA RemoveAtFacts ==
  ASSUME NEW S, NEW list \in Seq(S), NEW i \in 1..Len(list)
  PROVE  /\ RemoveAt(list, i) \in Seq(S)
         /\ Len(RemoveAt(list, i)) = Len(list) - 1
         /\ \A j \in 1..(Len(list) - 1) :
              RemoveAt(list, i)[j] = IF j < i THEN list[j] ELSE list[j + 1]
<1> DEFINE front == SubSeq(list, 1, i - 1)
           back  == SubSeq(list, i + 1, Len(list))
<1>0. Len(list) \in Nat /\ i \in Int /\ i >= 1 /\ i <= Len(list)
      /\ \A j \in 1..Len(list) : list[j] \in S
  BY LenProperties, ElementOfSeq
<1>1. front \in Seq(S) /\ Len(front) = i - 1
      /\ \A j \in 1..(i - 1) : front[j] = list[j]
  BY <1>0, SubSeqProperties
<1>2. back \in Seq(S) /\ Len(back) = Len(list) - i
      /\ \A j \in 1..(Len(list) - i) : back[j] = list[i + j]
  BY <1>0, SubSeqProperties
<1>3. RemoveAt(list, i) = front \o back
  BY DEF RemoveAt
<1> HIDE DEF front, back
<1>4. /\ front \o back \in Seq(S)
      /\ Len(front \o back) = Len(front) + Len(back)
      /\ \A j \in 1..(Len(front) + Len(back)) : (front \o back)[j] =
           IF j <= Len(front) THEN front[j] ELSE back[j - Len(front)]
  BY <1>1, <1>2, ConcatProperties
<1>5. Len(front) + Len(back) = Len(list) - 1
  BY <1>0, <1>1, <1>2
<1>6. ASSUME NEW j \in 1..(Len(list) - 1)
      PROVE  (front \o back)[j] = IF j < i THEN list[j] ELSE list[j + 1]
  <2>1. CASE j < i
    BY <2>1, <1>0, <1>1, <1>4, <1>5
  <2>2. CASE j >= i
    <3>1. j - Len(front) \in 1..(Len(list) - i) /\ i + (j - Len(front)) = j + 1
      BY <2>2, <1>0, <1>1
    <3>2. (front \o back)[j] = back[j - Len(front)]
      BY <2>2, <1>0, <1>1, <1>4, <1>5
    <3>3. back[j - Len(front)] = list[i + (j - Len(front))]
      BY <3>1, <1>2
    <3>4. (front \o back)[j] = list[j + 1] /\ ~(j < i)
      BY <3>1, <3>2, <3>3, <2>2, <1>0
    <3> QED BY <3>4
  <2>3. j < i \/ j >= i
    BY <1>0
  <2> QED BY <2>1, <2>2, <2>3
<1> QED BY <1>3, <1>4, <1>5, <1>6

(* Appending leaves every element where it is.                             *)
LEMMA AppendFacts ==
  ASSUME NEW S, NEW list \in Seq(S), NEW e \in S
  PROVE  /\ Append(list, e) \in Seq(S)
         /\ Len(list) \in Nat
         /\ Len(Append(list, e)) = Len(list) + 1
         /\ \A j \in 1..(Len(list) + 1) :
              Append(list, e)[j] = IF j <= Len(list) THEN list[j] ELSE e
BY LenProperties

(* Prepending shifts every element.                                        *)
LEMMA ConsFacts ==
  ASSUME NEW S, NEW list \in Seq(S), NEW e \in S
  PROVE  /\ Cons(e, list) \in Seq(S)
         /\ Len(Cons(e, list)) = Len(list) + 1
         /\ \A j \in 1..(Len(list) + 1) :
              Cons(e, list)[j] = IF j = 1 THEN e ELSE list[j - 1]
<1>0. Len(list) \in Nat /\ <<e>> \in Seq(S) /\ Len(<<e>>) = 1 /\ <<e>>[1] = e
  BY LenProperties
<1>1. /\ <<e>> \o list \in Seq(S)
      /\ Len(<<e>> \o list) = Len(list) + 1
      /\ \A j \in 1..(1 + Len(list)) : (<<e>> \o list)[j] =
           IF j <= 1 THEN <<e>>[j] ELSE list[j - 1]
  BY <1>0, ConcatProperties
<1> QED BY <1>0, <1>1 DEF Cons

(* Inserting at position i shifts the elements from i on.                  *)
LEMMA InsertAtFacts ==
  ASSUME NEW S, NEW list \in Seq(S), NEW i \in 1..(Len(list) + 1), NEW e \in S
  PROVE  /\ InsertAt(list, i, e) \in Seq(S)
         /\ Len(InsertAt(list, i, e)) = Len(list) + 1
         /\ \A j \in 1..(Len(list) + 1) :
              InsertAt(list, i, e)[j] = IF j < i THEN list[j]
                                        ELSE IF j = i THEN e ELSE list[j - 1]
<1> DEFINE front == SubSeq(list, 1, i - 1)
           back  == SubSeq(list, i, Len(list))
<1>0. Len(list) \in Nat /\ i \in Int /\ i >= 1 /\ i <= Len(list) + 1
      /\ \A j \in 1..Len(list) : list[j] \in S
  BY LenProperties, ElementOfSeq
<1>1. front \in Seq(S) /\ Len(front) = i - 1
      /\ \A j \in 1..(i - 1) : front[j] = list[j]
  BY <1>0, SubSeqProperties
<1>2. back \in Seq(S) /\ Len(back) = Len(list) - i + 1
      /\ \A j \in 1..(Len(list) - i + 1) : back[j] = list[i + j - 1]
  BY <1>0, SubSeqProperties
<1>3. InsertAt(list, i, e) = (front \o <<e>>) \o back
  BY DEF InsertAt
<1> HIDE DEF front, back
<1>4. /\ front \o <<e>> \in Seq(S)
      /\ Len(front \o <<e>>) = i
      /\ \A j \in 1..i : (front \o <<e>>)[j] = IF j <= i - 1 THEN front[j] ELSE e
  <2>1. <<e>> \in Seq(S) /\ Len(<<e>>) = 1 /\ <<e>>[1] = e
    OBVIOUS
  <2> QED BY <1>0, <1>1, <2>1, ConcatProperties
<1>5. /\ (front \o <<e>>) \o back \in Seq(S)
      /\ Len((front \o <<e>>) \o back) = Len(list) + 1
      /\ \A j \in 1..(Len(list) + 1) : ((front \o <<e>>) \o back)[j] =
           IF j <= i THEN (front \o <<e>>)[j] ELSE back[j - i]
  BY <1>0, <1>2, <1>4, ConcatProperties
<1>6. ASSUME NEW j \in 1..(Len(list) + 1)
      PROVE  ((front \o <<e>>) \o back)[j] =
               IF j < i THEN list[j] ELSE IF j = i THEN e ELSE list[j - 1]
  BY <1>0, <1>1, <1>2, <1>4, <1>5
<1> QED BY <1>3, <1>5, <1>6

-----------------------------------------------------------------------------
(* Is x on the list, and is every element of W on it at most once?         *)
Has(list, x)  == \E i \in 1..Len(list) : list[i] = x
Once(list, W) == \A i, j \in 1..Len(list) : list[i] \in W /\ list[i] = list[j] => i = j

(* The empty list has no element.                                          *)
LEMMA EmptyHas ==
  ASSUME NEW S, NEW list \in Seq(S), NEW x, Has(list, x)
  PROVE  list # <<>>
BY LenProperties DEF Has

(* What a list has after appending an element that was not on it.          *)
LEMMA AppendHas ==
  ASSUME NEW S, NEW W, NEW list \in Seq(S), NEW e \in S,
         Once(list, W), ~Has(list, e)
  PROVE  /\ \A x : Has(Append(list, e), x) <=> Has(list, x) \/ x = e
         /\ Once(Append(list, e), W)
<1> DEFINE new == Append(list, e)
           n == Len(list)
<1>1. /\ n \in Nat /\ Len(new) = n + 1
      /\ \A j \in 1..(n + 1) : new[j] = IF j <= n THEN list[j] ELSE e
  BY AppendFacts
<1>2. (\A j \in 1..n : new[j] = list[j]) /\ new[n + 1] = e
  BY <1>1
<1>3. \A j \in 1..(n + 1) : j \in 1..n \/ j = n + 1
  BY <1>1
<1>4. \A j \in 1..n : j \in 1..(n + 1)
  BY <1>1
<1> HIDE DEF new
<1>5. ASSUME NEW x PROVE Has(new, x) <=> Has(list, x) \/ x = e
  BY <1>1, <1>2, <1>3, <1>4 DEF Has
<1>6. ASSUME NEW i \in 1..(n + 1), NEW j \in 1..(n + 1), new[i] \in W, new[i] = new[j]
      PROVE  i = j
  <2>1. i \in 1..n /\ j \in 1..n => i = j
    BY <1>2, <1>6 DEF Once
  <2>2. i \in 1..n /\ j = n + 1 => FALSE
    BY <1>2, <1>6 DEF Has
  <2>3. i = n + 1 /\ j \in 1..n => FALSE
    BY <1>2, <1>6 DEF Has
  <2> QED BY <1>3, <2>1, <2>2, <2>3
<1> QED BY <1>1, <1>5, <1>6 DEF Once, new

(* Inserting an element outside W.                                         *)
LEMMA InsertHas ==
  ASSUME NEW S, NEW W, NEW list \in Seq(S), NEW e \in S, NEW k \in 1..(Len(list) + 1),
         Once(list, W), e \notin W
  PROVE  /\ \A x \in W : Has(InsertAt(list, k, e), x) <=> Has(list, x)
         /\ Once(InsertAt(list, k, e), W)
<1> DEFINE new == InsertAt(list, k, e)
           n == Len(list)
           from(j) == IF j < k THEN j ELSE j - 1
           to(j) == IF j < k THEN j ELSE j + 1
<1>0. n \in Nat /\ k \in Int
  BY LenProperties
<1>1. /\ Len(new) = n + 1
      /\ \A j \in 1..(n + 1) : new[j] = IF j < k THEN list[j] ELSE IF j = k THEN e ELSE list[j - 1]
  BY InsertAtFacts
<1>2. \A j \in 1..(n + 1) : j # k => from(j) \in 1..n /\ new[j] = list[from(j)]
  BY <1>0, <1>1
<1>3. \A j \in 1..n : to(j) \in 1..(n + 1) /\ new[to(j)] = list[j]
  BY <1>0, <1>1
<1>4. \A i, j \in 1..(n + 1) : i # k /\ j # k /\ from(i) = from(j) => i = j
  BY <1>0
<1>5. new[k] = e
  BY <1>0, <1>1
<1> HIDE DEF new, from, to
<1>6. ASSUME NEW x \in W PROVE Has(new, x) <=> Has(list, x)
  <2>1. ASSUME Has(new, x) PROVE Has(list, x)
    <3>1. PICK j \in 1..(n + 1) : new[j] = x
      BY <1>1, <2>1 DEF Has
    <3> QED BY <1>2, <1>5, <3>1 DEF Has
  <2>2. ASSUME Has(list, x) PROVE Has(new, x)
    <3>1. PICK j \in 1..n : list[j] = x
      BY <2>2 DEF Has
    <3> QED BY <1>1, <1>3, <3>1 DEF Has
  <2> QED BY <2>1, <2>2
<1>7. ASSUME NEW i \in 1..(n + 1), NEW j \in 1..(n + 1), new[i] \in W, new[i] = new[j]
      PROVE  i = j
  BY <1>7, <1>2, <1>4, <1>5 DEF Once
<1> QED BY <1>1, <1>6, <1>7 DEF Once, new

(* Prepending an element outside W.                                        *)
LEMMA ConsHas ==
  ASSUME NEW S, NEW W, NEW list \in Seq(S), NEW e \in S, Once(list, W), e \notin W
  PROVE  /\ \A x \in W : Has(Cons(e, list), x) <=> Has(list, x)
         /\ Once(Cons(e, list), W)
<1> DEFINE new == Cons(e, list)
           n == Len(list)
<1>0. n \in Nat
  BY LenProperties
<1>1. /\ Len(new) = n + 1
      /\ \A j \in 1..(n + 1) : new[j] = IF j = 1 THEN e ELSE list[j - 1]
  BY ConsFacts
<1>2. \A j \in 1..(n + 1) : j # 1 => j - 1 \in 1..n /\ new[j] = list[j - 1]
  BY <1>0, <1>1
<1>3. \A j \in 1..n : j + 1 \in 1..(n + 1) /\ new[j + 1] = list[j]
  BY <1>0, <1>1
<1>4. new[1] = e
  BY <1>0, <1>1
<1> HIDE DEF new
<1>5. ASSUME NEW x \in W PROVE Has(new, x) <=> Has(list, x)
  <2>1. ASSUME NEW j \in 1..(n + 1), new[j] = x PROVE Has(list, x)
    <3>1. j # 1
      BY <2>1, <1>4, <1>5
    <3>2. j - 1 \in 1..n /\ list[j - 1] = x
      BY <2>1, <3>1, <1>2
    <3> QED BY <3>2 DEF Has
  <2>2. ASSUME NEW j \in 1..n, list[j] = x PROVE Has(new, x)
    <3>1. j + 1 \in 1..Len(new) /\ new[j + 1] = x
      BY <2>2, <1>1, <1>3
    <3> QED BY <3>1 DEF Has
  <2> QED BY <2>1, <2>2, <1>1 DEF Has
<1>6. ASSUME NEW i \in 1..(n + 1), NEW j \in 1..(n + 1), new[i] \in W, new[i] = new[j]
      PROVE  i = j
  <2>1. i # 1 /\ j # 1
    BY <1>4, <1>6
  <2>2. i - 1 = j - 1
    BY <1>2, <1>6, <2>1 DEF Once
  <2> QED BY <2>2, <1>0
<1> QED BY <1>1, <1>5, <1>6 DEF Once, new

(* Removing the element at k, one of W or the first.                       *)
LEMMA RemoveHas ==
  ASSUME NEW S, NEW W, NEW list \in Seq(S), NEW k \in 1..Len(list), Once(list, W)
  PROVE  /\ \A x \in W : Has(RemoveAt(list, k), x) <=> Has(list, x) /\ x # list[k]
         /\ Once(RemoveAt(list, k), W)
<1> DEFINE new == RemoveAt(list, k)
           n == Len(list)
           from(j) == IF j < k THEN j ELSE j + 1
           to(j) == IF j < k THEN j ELSE j - 1
<1>0. n \in Nat /\ k \in Int
  BY LenProperties
<1>1. /\ Len(new) = n - 1
      /\ \A j \in 1..(n - 1) : new[j] = IF j < k THEN list[j] ELSE list[j + 1]
  BY RemoveAtFacts
<1>2. \A j \in 1..(n - 1) : from(j) \in 1..n /\ from(j) # k /\ new[j] = list[from(j)]
  BY <1>0, <1>1
<1>3. \A j \in 1..n : j # k => to(j) \in 1..(n - 1) /\ new[to(j)] = list[j]
  BY <1>0, <1>1
<1>4. \A i, j \in 1..(n - 1) : from(i) = from(j) => i = j
  BY <1>0
<1> HIDE DEF new, from, to
<1>5. ASSUME NEW x \in W PROVE Has(new, x) <=> Has(list, x) /\ x # list[k]
  <2>1. ASSUME NEW j \in 1..(n - 1), new[j] = x PROVE Has(list, x) /\ x # list[k]
    <3>1. from(j) \in 1..n /\ from(j) # k /\ list[from(j)] = x
      BY <2>1, <1>2
    <3> QED BY <3>1, <1>5 DEF Has, Once
  <2>2. ASSUME NEW j \in 1..n, list[j] = x, x # list[k] PROVE Has(new, x)
    <3>1. to(j) \in 1..Len(new) /\ new[to(j)] = x
      BY <2>2, <1>1, <1>3
    <3> QED BY <3>1 DEF Has
  <2> QED BY <2>1, <2>2, <1>1 DEF Has
<1>6. ASSUME NEW i \in 1..(n - 1), NEW j \in 1..(n - 1), new[i] \in W, new[i] = new[j]
      PROVE  i = j
  BY <1>6, <1>2, <1>4 DEF Once
<1> QED BY <1>1, <1>5, <1>6 DEF Once, new

(* Taking the first element is removing it.                                *)
LEMMA TailHas ==
  ASSUME NEW S, NEW W, NEW list \in Seq(S), list # <<>>, Once(list, W)
  PROVE  /\ Tail(list) \in Seq(S) /\ Head(list) \in S
         /\ \A x \in W : Has(Tail(list), x) <=> Has(list, x) /\ x # Head(list)
         /\ Once(Tail(list), W)
<1> DEFINE new == Tail(list)
           n == Len(list)
<1>0. n \in Nat \ {0} /\ Head(list) = list[1] /\ Head(list) \in S
  BY LenProperties, EmptySeq, HeadTailProperties
<1>1. new \in Seq(S) /\ Len(new) = n - 1 /\ \A j \in 1..(n - 1) : new[j] = list[j + 1]
  BY HeadTailProperties
<1>2. \A j \in 1..(n - 1) : j + 1 \in 1..n /\ j + 1 # 1 /\ new[j] = list[j + 1]
  BY <1>0, <1>1
<1>3. \A j \in 1..n : j # 1 => j - 1 \in 1..(n - 1) /\ new[j - 1] = list[j]
  BY <1>0, <1>1
<1>4. 1 \in 1..n
  BY <1>0
<1> HIDE DEF new
<1>5. ASSUME NEW x \in W PROVE Has(new, x) <=> Has(list, x) /\ x # list[1]
  BY <1>1, <1>2, <1>3, <1>4 DEF Has, Once
<1>6. ASSUME NEW i \in 1..(n - 1), NEW j \in 1..(n - 1), new[i] \in W, new[i] = new[j]
      PROVE  i = j
  <2>1. i + 1 = j + 1
    BY <1>2, <1>6 DEF Once
  <2> QED BY <2>1, <1>0
<1> QED BY <1>0, <1>1, <1>5, <1>6 DEF Once, new

-----------------------------------------------------------------------------
(* What a list has and in which order, where each element is on it once.   *)
Before(list, x, y) ==
  \E i, j \in 1..Len(list) : i < j /\ list[i] = x /\ list[j] = y

(* new is list with e put at k: Append, Cons and InsertAt.                 *)
InsertedAt(list, new, k, e) ==
  /\ Len(new) = Len(list) + 1
  /\ \A j \in 1..(Len(list) + 1) :
       new[j] = IF j < k THEN list[j] ELSE IF j = k THEN e ELSE list[j - 1]

(* What InsertAt of SequencesExt inserts.                                  *)
LEMMA InsertAtInserts ==
  ASSUME NEW S, NEW list \in Seq(S), NEW k \in 1..(Len(list) + 1), NEW e \in S
  PROVE  InsertAt(list, k, e) \in Seq(S) /\ InsertedAt(list, InsertAt(list, k, e), k, e)
BY InsertAtFacts DEF InsertedAt

LEMMA ConsInserts ==
  ASSUME NEW S, NEW list \in Seq(S), NEW e \in S
  PROVE  /\ Cons(e, list) \in Seq(S) /\ InsertedAt(list, Cons(e, list), 1, e)
         /\ 1 \in 1..(Len(list) + 1)
<1>1. Len(list) \in Nat
  BY LenProperties
<1>2. /\ Cons(e, list) \in Seq(S)
      /\ Len(Cons(e, list)) = Len(list) + 1
      /\ \A j \in 1..(Len(list) + 1) : Cons(e, list)[j] = IF j = 1 THEN e ELSE list[j - 1]
  BY ConsFacts
<1> DEFINE new == Cons(e, list)
<1> HIDE DEF new
<1>3. InsertedAt(list, new, 1, e)
  BY <1>1, <1>2 DEF InsertedAt, new
<1> QED BY <1>1, <1>2, <1>3 DEF new

(* An insertion keeps every element and its place among the others.        *)
LEMMA InsertedKeeps ==
  ASSUME NEW S, NEW list \in Seq(S), NEW new \in Seq(S), NEW e \in S,
         NEW k \in 1..(Len(list) + 1), InsertedAt(list, new, k, e)
  PROVE  /\ \A x : Has(new, x) <=> Has(list, x) \/ x = e
         /\ \A x, y : Before(list, x, y) => Before(new, x, y)
         /\ Once(list, S) /\ ~Has(list, e) => Once(new, S)
         /\ k > 1 => k - 1 \in 1..Len(list) /\ Before(new, list[k - 1], e)
<1> DEFINE n == Len(list)
           from(j) == IF j < k THEN j ELSE j - 1
           to(j) == IF j < k THEN j ELSE j + 1
<1>0. n \in Nat /\ k \in Int /\ k >= 1 /\ k <= n + 1
  BY LenProperties
<1>1. /\ Len(new) = n + 1
      /\ \A j \in 1..(n + 1) : new[j] = IF j < k THEN list[j] ELSE IF j = k THEN e ELSE list[j - 1]
  BY DEF InsertedAt
<1> HIDE DEF n
<1>2. ASSUME NEW j \in 1..n
      PROVE  to(j) \in 1..(n + 1) /\ new[to(j)] = list[j]
  BY <1>0, <1>1
<1>3. ASSUME NEW j \in 1..(n + 1), j # k
      PROVE  from(j) \in 1..n /\ new[j] = list[from(j)]
  BY <1>0, <1>1, <1>3
<1>4. k \in 1..(n + 1) /\ new[k] = e
  BY <1>0, <1>1
<1>5. /\ \A i, j \in 1..n : i < j => to(i) < to(j)
      /\ \A i, j \in 1..(n + 1) : i # k /\ j # k /\ from(i) = from(j) => i = j
  BY <1>0
<1> HIDE DEF from, to
<1>6. ASSUME NEW x PROVE Has(new, x) <=> Has(list, x) \/ x = e
  <2>1. ASSUME Has(new, x) PROVE Has(list, x) \/ x = e
    <3>1. PICK j \in 1..(n + 1) : new[j] = x
      BY <1>1, <2>1 DEF Has
    <3> QED BY <1>3, <1>4, <3>1 DEF Has, n
  <2>2. ASSUME Has(list, x) PROVE Has(new, x)
    <3>1. PICK j \in 1..n : list[j] = x
      BY <2>2 DEF Has, n
    <3> QED BY <1>1, <1>2, <3>1 DEF Has
  <2>3. Has(new, e)
    BY <1>1, <1>4 DEF Has
  <2> QED BY <2>1, <2>2, <2>3
<1>7. ASSUME NEW x, NEW y, Before(list, x, y) PROVE Before(new, x, y)
  <2>1. PICK i \in 1..n, j \in 1..n : i < j /\ list[i] = x /\ list[j] = y
    BY <1>7 DEF Before, n
  <2> QED BY <1>1, <1>2, <1>5, <2>1 DEF Before
<1>8. ASSUME Once(list, S), ~Has(list, e) PROVE Once(new, S)
  <2>1. ASSUME NEW i \in 1..(n + 1), NEW j \in 1..(n + 1), new[i] \in S, new[i] = new[j]
        PROVE  i = j
    <3>1. CASE i = k \/ j = k
      <4>1. ASSUME NEW h \in 1..(n + 1), h # k PROVE new[h] # e
        BY <1>3, <1>8, <4>1 DEF Has, n
      <4> QED BY <1>4, <2>1, <3>1, <4>1
    <3>2. CASE i # k /\ j # k
      BY <1>3, <1>5, <1>8, <2>1, <3>2 DEF Once, n
    <3> QED BY <3>1, <3>2
  <2> QED BY <1>1, <2>1 DEF Once
<1>9. ASSUME k > 1 PROVE k - 1 \in 1..n /\ Before(new, list[k - 1], e)
  <2>1. k - 1 \in 1..n /\ k - 1 \in 1..(n + 1) /\ k - 1 < k /\ new[k - 1] = list[k - 1]
    BY <1>0, <1>1, <1>9
  <2> QED BY <1>1, <1>4, <2>1 DEF Before
<1> QED BY <1>6, <1>7, <1>8, <1>9 DEF n

(* new is list without its k-th element: RemoveAt and Tail.                *)
RemovedAt(list, new, k) ==
  /\ Len(new) = Len(list) - 1
  /\ \A j \in 1..(Len(list) - 1) : new[j] = IF j < k THEN list[j] ELSE list[j + 1]

(* A removal keeps the others and their order.                             *)
LEMMA RemovedKeeps ==
  ASSUME NEW S, NEW list \in Seq(S), NEW new \in Seq(S), NEW k \in 1..Len(list),
         RemovedAt(list, new, k), Once(list, S)
  PROVE  /\ \A x : Has(new, x) <=> Has(list, x) /\ x # list[k]
         /\ \A x, y : Before(list, x, y) /\ x # list[k] /\ y # list[k] => Before(new, x, y)
         /\ Once(new, S)
<1> DEFINE n == Len(list)
           from(j) == IF j < k THEN j ELSE j + 1
           to(j) == IF j < k THEN j ELSE j - 1
<1>0. n \in Nat /\ k \in Int /\ k >= 1 /\ k <= n
  BY LenProperties
<1>1. /\ Len(new) = n - 1
      /\ \A j \in 1..(n - 1) : new[j] = IF j < k THEN list[j] ELSE list[j + 1]
  BY DEF RemovedAt
<1>2. \A i, j \in 1..n : list[i] = list[j] => i = j
  BY ElementOfSeq DEF Once
<1> HIDE DEF n
<1>3. ASSUME NEW j \in 1..n, j # k
      PROVE  to(j) \in 1..(n - 1) /\ new[to(j)] = list[j]
  BY <1>0, <1>1, <1>3
<1>4. ASSUME NEW j \in 1..(n - 1)
      PROVE  from(j) \in 1..n /\ from(j) # k /\ new[j] = list[from(j)]
  BY <1>0, <1>1
<1>5. /\ \A i, j \in 1..n : i < j /\ i # k /\ j # k => to(i) < to(j)
      /\ \A i, j \in 1..(n - 1) : from(i) = from(j) => i = j
  BY <1>0
<1> HIDE DEF from, to
<1>6. ASSUME NEW x PROVE Has(new, x) <=> Has(list, x) /\ x # list[k]
  <2>1. ASSUME Has(new, x) PROVE Has(list, x) /\ x # list[k]
    <3>1. PICK j \in 1..(n - 1) : new[j] = x
      BY <1>1, <2>1 DEF Has
    <3>2. k \in 1..n
      BY DEF n
    <3> QED BY <1>2, <1>4, <3>1, <3>2 DEF Has, n
  <2>2. ASSUME Has(list, x), x # list[k] PROVE Has(new, x)
    <3>1. PICK j \in 1..n : list[j] = x
      BY <2>2 DEF Has, n
    <3> QED BY <1>1, <1>3, <2>2, <3>1 DEF Has
  <2> QED BY <2>1, <2>2
<1>7. ASSUME NEW x, NEW y, Before(list, x, y), x # list[k], y # list[k] PROVE Before(new, x, y)
  <2>1. PICK i \in 1..n, j \in 1..n : i < j /\ list[i] = x /\ list[j] = y
    BY <1>7 DEF Before, n
  <2> QED BY <1>1, <1>3, <1>5, <1>7, <2>1 DEF Before
<1>8. Once(new, S)
  BY <1>1, <1>2, <1>4, <1>5 DEF Once
<1> QED BY <1>6, <1>7, <1>8 DEF n
=============================================================================
