--------------------------- MODULE ConnLifeProofs ---------------------------
(***************************************************************************)
(* Proofs about ConnLife: a connection object is never given away while    *)
(* somebody holds it, the application is told of a connection once and in  *)
(* order, and no note about a handle meets the wrong connection.  For any  *)
(* number of objects, peers, handles, application threads and attempts, in *)
(* every mode, whatever the controller refuses and however slow it is.     *)
(***************************************************************************)
EXTENDS ConnLife, ListLemmas, WellFoundedInduction

(* Those who hold slot s apart from the stack.                             *)
Extra(s) == Count(s \in held) + Count(Creating(s)) + Count(bq.slot = s)

(* One object, n holding it apart from the stack.  A thread that was       *)
(* preempted before it marked an object may give it a reference too many   *)
(* (Surplus), never one too few.                                           *)
Valid == {"connected", "disconnecting", "complete"}
Surplus(r) == Count(r.state \in Valid /\ r.timer # "none")
SlotOK(r, n) ==
  /\ r.ref >= n + Count(Stack(r)) + r.lost + Surplus(r)
  /\ ~preempt => r.ref = n + Count(Stack(r)) + r.lost
  /\ r.state \in {"scan", "filter"} => r.timer = "none"
  /\ r.timer = "delayed" => r.state = "initiating"
  /\ r.state \in Valid => r.peer \in Peers /\ r.handle \in Handles
  /\ r.state = "scan" => mode = "resolve"

(* What the application has been told of it.                               *)
Ended == {<<>>, <<"failed">>, <<"connected", "disconnected">>, <<"failed", "disconnected">>}
TellOK(r) ==
  /\ r.state \in {"initiating", "filter"} => r.log = <<>>
  /\ r.state \in {"connected", "disconnecting"} => r.log = <<"connected">>
  /\ r.state = "complete" \/ (r.state = "disconnected" /\ r.timer = "queued") =>
       r.log \in {<<"connected">>, <<"failed">>}
  /\ r.state = "disconnected" /\ r.timer # "queued" =>
       r.log \in Ended \/ (r.log = <<"connected">> /\ r.lost > 0)

SlotsInv == \A s \in Slots : SlotOK(conn[s], Extra(s))
TellInv == ~preempt /\ mode # "resolve" => \A s \in Slots : TellOK(conn[s])

(* The threads in the middle of something.                                 *)
Ending == {"disconnect", "answered", "mark"}
Attempt == {"initiating", "scan", "filter"}
Arriving == {"linked", "noted"}
AppOK(w) ==
  /\ w.at \in {"idle", "create", "cancel"} \cup Ending
  /\ w.at = "idle" => w.slot = NULL
  /\ w.at = "create" => w.slot \in Slots \ held
  /\ w.at = "cancel" => w.slot \in held \cup {NULL}
  /\ w.at \in Ending => /\ w.slot \in held
                        /\ conn[w.slot].state \notin Attempt
                        /\ conn[w.slot].peer \in Peers /\ conn[w.slot].handle \in Handles
                        /\ ~(bq.at \in {"pending"} \cup Arriving /\ bq.slot = w.slot)
  /\ w.at = "mark" => preempt
AppInv ==
  /\ \A a \in Apps : AppOK(app[a])
  /\ \A a, b \in Apps : app[a].at = "create" /\ app[b].at = "create" /\ app[a].slot = app[b].slot
                          => a = b
BusyOK(r) ==
  /\ bq.at = "pending" => r.state \in {"scan", "disconnected"} /\ r.timer = "none"
  /\ bq.at \in Arriving => r.state \notin Valid
BqInv ==
  /\ bq.at \in {"idle", "again", "pending"} \cup Arriving
  /\ bq.at = "idle" => bq.slot = NULL
  /\ bq.at # "idle" => bq.slot \in Slots /\ BusyOK(conn[bq.slot])
  /\ bq.at = "pending" => mode = "resolve"
  /\ bq.at \in Arriving => preempt /\ rxq # <<>> /\ Head(rxq).ev = "connected"

(* Links, their objects and the notes about them, while every link that    *)
(* came up was waited for and no object was lost.  The event of a link that *)
(* is about to be given to its object is the head of rxq.                   *)
Coming(h) == \E i \in 1..Len(rxq) : rxq[i].ev = "connected" /\ rxq[i].handle = h
Orderly == ~stray /\ \A s \in Slots : conn[s].lost = 0
LinkInv ==
  ~Eager /\ Orderly =>
    /\ \A h \in Handles : links[h] # NULL \/ Has(dead, h) => Coming(h) \/ LookupHandle(h) # {}
    /\ \A h \in Handles : Has(dead, h) => links[h] = NULL
    /\ Once(dead, Handles)
    /\ \A s \in Slots : conn[s].state = "complete" =>
         links[conn[s].handle] = NULL /\ ~Has(dead, conn[s].handle)
    /\ bq.at = "noted" => links[Head(rxq).handle] = NULL /\ ~Has(dead, Head(rxq).handle)

LInv == TypeOK /\ SlotsInv /\ TellInv /\ AppInv /\ BqInv /\ LinkInv
-----------------------------------------------------------------------------
(* The first slot of a set is one of it.                                   *)
LEMMA FirstIsElement ==
  ASSUME NEW S, S \subseteq Nat, S # {}
  PROVE  First(S) \in S
<1> DEFINE R == OpToRel(<, Nat)
<1>0. IsWellFoundedOn(R, Nat)
  BY NatLessThanWellFounded
<1>1. \A i, j \in Nat : <<j, i>> \in R <=> j < i
  BY DEF OpToRel
<1> HIDE DEF R
<1>2. PICK i \in S : \A j \in S : ~(<<j, i>> \in R)
  BY <1>0, WFMin
<1>3. ASSUME NEW j \in S PROVE i <= j
  <2>1. i \in Nat /\ j \in Nat /\ ~(j < i)
    BY <1>1, <1>2
  <2> QED BY <2>1
<1> QED BY <1>3 DEF First

(* What is found among the slots, and its first element, is a slot.        *)
LEMMA FoundIsSlot ==
  ASSUME NEW S, S \subseteq Slots, S # {}
  PROVE  First(S) \in S /\ First(S) \in Slots
BY LifeAssumption, FirstIsElement

LEMMA CountFacts ==
  ASSUME NEW b
  PROVE  Count(b) \in 0..1 /\ (b => Count(b) = 1) /\ (~b => Count(b) = 0)
BY DEF Count

LEMMA ExtraIsNat == \A s \in Slots : Extra(s) \in Nat
BY CountFacts DEF Extra

-----------------------------------------------------------------------------
(* The operations of conn.c on one object.                                 *)
LEMMA EnterFields ==
  ASSUME NEW r \in Conns, NEW st \in ConnStates
  PROVE  LET e == Enter(r, st)
         IN  /\ e \in Conns /\ e.state = st
             /\ e.ref = IF r.state = "disconnected" THEN r.ref + 1 ELSE r.ref
             /\ e.timer = IF st = "initiating" THEN "delayed"
                          ELSE IF r.state = "initiating" THEN "none" ELSE r.timer
             /\ e.peer = r.peer /\ e.handle = r.handle /\ e.log = r.log /\ e.lost = r.lost
<1> DEFINE ref == IF r.state = "disconnected" THEN r.ref + 1 ELSE r.ref
           timer == IF st = "initiating" THEN "delayed"
                    ELSE IF r.state = "initiating" THEN "none" ELSE r.timer
<1>1. ref \in Nat /\ timer \in {"none", "delayed", "queued"}
  BY DEF Conns
<1>2. Enter(r, st) = [r EXCEPT !.ref = ref, !.timer = timer, !.state = st]
  BY DEF Enter, Conns
<1> HIDE DEF ref, timer
<1>3. /\ Enter(r, st) \in Conns /\ Enter(r, st).state = st
      /\ Enter(r, st).ref = ref /\ Enter(r, st).timer = timer
      /\ Enter(r, st).peer = r.peer /\ Enter(r, st).handle = r.handle
      /\ Enter(r, st).log = r.log /\ Enter(r, st).lost = r.lost
  BY <1>1, <1>2 DEF Conns
<1> QED BY <1>3 DEF ref, timer

LEMMA LogFields ==
  ASSUME NEW r \in Conns, NEW what \in {"connected", "failed", "disconnected"}
  PROVE  LET e == Log(r, what)
         IN  /\ e \in Conns /\ e.log = Append(r.log, what)
             /\ e.ref = r.ref /\ e.state = r.state /\ e.timer = r.timer
             /\ e.peer = r.peer /\ e.handle = r.handle /\ e.lost = r.lost
<1>1. Append(r.log, what) \in Seq({"connected", "failed", "disconnected"})
  BY DEF Conns
<1> QED BY <1>1 DEF Log, Conns

LEMMA UnrefFields ==
  ASSUME NEW r \in Conns, r.ref > 0
  PROVE  LET e == Unref(r)
         IN  /\ e \in Conns /\ e.ref = r.ref - 1
             /\ e.state = r.state /\ e.timer = r.timer /\ e.log = r.log
             /\ e.peer = r.peer /\ e.handle = r.handle /\ e.lost = r.lost
BY DEF Unref, Conns

LEMMA LeaveFields ==
  ASSUME NEW r \in Conns, NEW err \in BOOLEAN, r.state \in Attempt => r.ref > 0
  PROVE  LET e == Leave(r, err)
         IN  /\ e \in Conns /\ e.state = "disconnected"
             /\ e.ref = IF r.state \in Attempt THEN r.ref - 1 ELSE r.ref
             /\ e.timer = IF r.state = "complete" THEN "queued"
                          ELSE IF r.state = "initiating" THEN "none" ELSE r.timer
             /\ e.lost = IF r.state \in {"connected", "disconnecting"} THEN r.lost + 1 ELSE r.lost
             /\ e.log = IF r.state \in {"initiating", "scan"} /\ err
                        THEN Append(r.log, "failed") ELSE r.log
             /\ e.peer = r.peer /\ e.handle = r.handle
<1> DEFINE ended == [Unref(r) EXCEPT !.state = "disconnected"]
           told == IF err THEN Log(ended, "failed") ELSE ended
<1>0. r.state \in ConnStates /\ r.lost \in Nat /\ r.ref \in Nat
  BY DEF Conns
<1>1. ASSUME r.state \in Attempt
      PROVE  /\ ended \in Conns /\ ended.state = "disconnected" /\ ended.ref = r.ref - 1
             /\ ended.timer = r.timer /\ ended.lost = r.lost /\ ended.log = r.log
             /\ ended.peer = r.peer /\ ended.handle = r.handle
  <2>1. Unref(r) \in Conns
    BY <1>1, UnrefFields
  <2>2. ended \in Conns
    BY <2>1 DEF Conns, ConnStates
  <2> QED BY <1>1, <2>1, <2>2, UnrefFields DEF Conns
<1> HIDE DEF ended
<1>2. ASSUME r.state \in Attempt
      PROVE  /\ told \in Conns /\ told.state = "disconnected" /\ told.ref = r.ref - 1
             /\ told.timer = r.timer /\ told.lost = r.lost
             /\ told.log = IF err THEN Append(r.log, "failed") ELSE r.log
             /\ told.peer = r.peer /\ told.handle = r.handle
  <2>1. CASE err
    BY <1>1, <1>2, <2>1, LogFields
  <2>2. CASE ~err
    BY <1>1, <1>2, <2>2
  <2> QED BY <2>1, <2>2
<1>3. /\ r.state = "complete" => Leave(r, err) = [r EXCEPT !.state = "disconnected", !.timer = "queued"]
      /\ r.state = "initiating" => Leave(r, err) = [told EXCEPT !.timer = "none"]
      /\ r.state = "scan" => Leave(r, err) = told
      /\ r.state = "filter" => Leave(r, err) = ended
      /\ r.state = "disconnected" => Leave(r, err) = r
      /\ r.state \in {"connected", "disconnecting"} =>
           Leave(r, err) = [r EXCEPT !.state = "disconnected", !.lost = @ + 1]
  BY DEF Leave, ended, told
<1> HIDE DEF told
<1>4. CASE r.state = "complete"
  BY <1>3, <1>4 DEF Conns, ConnStates, Attempt
<1>5. CASE r.state = "initiating"
  <2>1. /\ Leave(r, err) \in Conns /\ Leave(r, err).state = told.state /\ Leave(r, err).ref = told.ref
        /\ Leave(r, err).timer = "none" /\ Leave(r, err).lost = told.lost
        /\ Leave(r, err).log = told.log /\ Leave(r, err).peer = told.peer
        /\ Leave(r, err).handle = told.handle
    BY <1>2, <1>3, <1>5 DEF Conns, Attempt
  <2> QED BY <1>2, <1>5, <2>1 DEF Attempt
<1>6. CASE r.state = "scan"
  BY <1>2, <1>3, <1>6 DEF Attempt
<1>7. CASE r.state = "filter"
  BY <1>1, <1>3, <1>7 DEF Attempt
<1>8. CASE r.state = "disconnected"
  BY <1>3, <1>8 DEF Attempt
<1>9. CASE r.state \in {"connected", "disconnecting"}
  <2> DEFINE n == r.lost + 1
  <2>1. n \in Nat /\ "disconnected" \in ConnStates
    BY <1>0 DEF ConnStates
  <2>2. Leave(r, err) = [r EXCEPT !.state = "disconnected", !.lost = n]
    BY <1>3, <1>9 DEF Conns
  <2> HIDE DEF n
  <2>3. /\ Leave(r, err) \in Conns /\ Leave(r, err).state = "disconnected"
        /\ Leave(r, err).lost = n /\ Leave(r, err).ref = r.ref /\ Leave(r, err).log = r.log
        /\ Leave(r, err).timer = r.timer
        /\ Leave(r, err).peer = r.peer /\ Leave(r, err).handle = r.handle
    BY <2>1, <2>2 DEF Conns
  <2> QED BY <1>9, <2>3 DEF Attempt, n
<1> QED BY <1>0, <1>4, <1>5, <1>6, <1>7, <1>8, <1>9 DEF ConnStates

(* SlotOK follows from the fields it reads.                                *)
LEMMA EnterOK ==
  ASSUME TypeOK, NEW r \in Conns, NEW n \in Nat, SlotOK(r, n),
         NEW st \in Valid \cup {"initiating"},
         st \in Valid => r.peer \in Peers /\ r.handle \in Handles,
         r.state = "disconnected" /\ ~preempt => r.timer = "none"
  PROVE  SlotOK(Enter(r, st), n)
<1> DEFINE e == Enter(r, st)
<1>1. /\ e.state = st /\ e.ref = IF r.state = "disconnected" THEN r.ref + 1 ELSE r.ref
      /\ e.timer = IF st = "initiating" THEN "delayed"
                   ELSE IF r.state = "initiating" THEN "none" ELSE r.timer
      /\ e.peer = r.peer /\ e.handle = r.handle /\ e.lost = r.lost
  BY EnterFields DEF Valid, ConnStates
<1>2. r.ref \in Nat /\ r.lost \in Nat /\ r.state \in ConnStates /\ st \in Valid \cup {"initiating"}
  BY DEF Conns
<1> HIDE DEF e
<1>3. SlotOK(e, n)
  BY <1>1, <1>2 DEF SlotOK, Stack, Surplus, Count, Valid, ConnStates
<1> QED BY <1>3 DEF e

LEMMA LeaveOK ==
  ASSUME TypeOK, NEW r \in Conns, NEW n \in Nat, SlotOK(r, n), NEW err \in BOOLEAN
  PROVE  SlotOK(Leave(r, err), n) /\ (r.state \in Attempt => r.ref > 0)
<1> DEFINE e == Leave(r, err)
<1>2. r.ref \in Nat /\ r.lost \in Nat /\ r.state \in ConnStates
  BY DEF Conns
<1>3. r.state \in Attempt => r.ref > 0
  BY <1>2 DEF SlotOK, Stack, Surplus, Count, Attempt
<1>1. /\ e.state = "disconnected"
      /\ e.ref = IF r.state \in Attempt THEN r.ref - 1 ELSE r.ref
      /\ e.timer = IF r.state = "complete" THEN "queued"
                   ELSE IF r.state = "initiating" THEN "none" ELSE r.timer
      /\ e.lost = IF r.state \in {"connected", "disconnecting"} THEN r.lost + 1 ELSE r.lost
  BY <1>3, LeaveFields
<1> HIDE DEF e
<1>4. SlotOK(e, n)
  BY <1>1, <1>2 DEF SlotOK, Stack, Surplus, Count, Valid, ConnStates, Attempt
<1> QED BY <1>3, <1>4 DEF e

LEMMA UnrefOK ==
  ASSUME TypeOK, NEW r \in Conns, NEW n \in Nat, SlotOK(r, n + 1)
  PROVE  SlotOK(Unref(r), n) /\ r.ref > 0 /\ Unref(r) \in Conns
<1>1. r.ref \in Nat /\ r.lost \in Nat /\ r.ref > 0
  BY DEF SlotOK, Stack, Surplus, Count, Conns
<1> DEFINE e == Unref(r)
<1>2. /\ e \in Conns /\ e.ref = r.ref - 1 /\ e.state = r.state /\ e.timer = r.timer
      /\ e.peer = r.peer /\ e.handle = r.handle /\ e.lost = r.lost
  BY <1>1, UnrefFields
<1> HIDE DEF e
<1>3. SlotOK(e, n)
  BY <1>1, <1>2 DEF SlotOK, Stack, Surplus, Count
<1> QED BY <1>1, <1>2, <1>3 DEF e

(* One more holds the object, or one more reference is lost.               *)
LEMMA RefOK ==
  ASSUME TypeOK, NEW r \in Conns, NEW n \in Nat, SlotOK(r, n), NEW x \in BOOLEAN
  PROVE  LET e == [r EXCEPT !.ref = @ + 1]
             d == [e EXCEPT !.excused = x]
         IN  /\ e \in Conns /\ e.state = r.state /\ e.timer = r.timer /\ e.log = r.log
             /\ e.peer = r.peer /\ e.handle = r.handle /\ e.lost = r.lost /\ SlotOK(e, n + 1)
             /\ d \in Conns /\ d.state = r.state /\ d.timer = r.timer /\ d.log = r.log
             /\ d.peer = r.peer /\ d.handle = r.handle /\ d.lost = r.lost /\ SlotOK(d, n + 1)
<1> DEFINE k == r.ref + 1
           e == [r EXCEPT !.ref = k]
           d == [e EXCEPT !.excused = x]
<1>1. r.ref \in Nat /\ r.lost \in Nat /\ k \in Nat
  BY DEF Conns
<1> HIDE DEF k
<1>2. /\ e \in Conns /\ e.state = r.state /\ e.timer = r.timer /\ e.log = r.log
      /\ e.peer = r.peer /\ e.handle = r.handle /\ e.lost = r.lost /\ e.ref = k
  BY <1>1 DEF Conns
<1> HIDE DEF e
<1>3. /\ d \in Conns /\ d.state = e.state /\ d.timer = e.timer /\ d.log = e.log
      /\ d.peer = e.peer /\ d.handle = e.handle /\ d.lost = e.lost /\ d.ref = e.ref
  BY <1>2 DEF Conns
<1> HIDE DEF d
<1>4. SlotOK(e, n + 1) /\ SlotOK(d, n + 1)
  BY <1>1, <1>2, <1>3 DEF SlotOK, Stack, Surplus, Count, k
<1> QED BY <1>2, <1>3, <1>4 DEF e, d, k

LEMMA LostOK ==
  ASSUME TypeOK, NEW r \in Conns, NEW n \in Nat, SlotOK(r, n)
  PROVE  LET e == [r EXCEPT !.ref = @ + 1, !.lost = @ + 1]
         IN  /\ e \in Conns /\ e.state = r.state /\ e.timer = r.timer /\ e.log = r.log
             /\ e.peer = r.peer /\ e.handle = r.handle /\ e.lost = r.lost + 1 /\ SlotOK(e, n)
<1> DEFINE k == r.ref + 1
           l == r.lost + 1
           e == [r EXCEPT !.ref = k, !.lost = l]
<1>1. r.ref \in Nat /\ r.lost \in Nat /\ k \in Nat /\ l \in Nat
  BY DEF Conns
<1> HIDE DEF k, l
<1>2. /\ e \in Conns /\ e.state = r.state /\ e.timer = r.timer /\ e.log = r.log
      /\ e.peer = r.peer /\ e.handle = r.handle /\ e.lost = l /\ e.ref = k
  BY <1>1 DEF Conns
<1> HIDE DEF e
<1>3. SlotOK(e, n)
  BY <1>1, <1>2 DEF SlotOK, Stack, Surplus, Count, k, l
<1> QED BY <1>2, <1>3 DEF e, k, l

(* The timer of an attempt expires or is cancelled.                        *)
LEMMA TimerOK ==
  ASSUME TypeOK, NEW r \in Conns, NEW n \in Nat, SlotOK(r, n), NEW timer \in {"none", "queued"},
         \/ timer = "none" /\ r.state # "disconnected"
         \/ timer = "queued" /\ r.timer = "delayed"
  PROVE  LET e == [r EXCEPT !.timer = timer]
         IN  /\ e \in Conns /\ e.state = r.state /\ e.log = r.log /\ e.timer = timer
             /\ e.peer = r.peer /\ e.handle = r.handle /\ e.lost = r.lost /\ SlotOK(e, n)
<1> DEFINE e == [r EXCEPT !.timer = timer]
<1>1. /\ e \in Conns /\ e.state = r.state /\ e.timer = timer /\ e.log = r.log
      /\ e.peer = r.peer /\ e.handle = r.handle /\ e.lost = r.lost /\ e.ref = r.ref
      /\ r.ref \in Nat /\ r.lost \in Nat
  BY DEF Conns
<1> HIDE DEF e
<1>2. SlotOK(e, n)
  BY <1>1 DEF SlotOK, Stack, Surplus, Count, Valid
<1> QED BY <1>1, <1>2 DEF e

(* deferred_work ends a connection.                                        *)
LEMMA DeferredOK ==
  ASSUME TypeOK, NEW r \in Conns, NEW n \in Nat, SlotOK(r, n),
         r.state = "disconnected", r.timer = "queued"
  PROVE  LET e == Unref(Log([r EXCEPT !.timer = "none"], "disconnected"))
         IN  /\ e \in Conns /\ e.state = r.state /\ e.timer = "none"
             /\ e.log = Append(r.log, "disconnected")
             /\ e.peer = r.peer /\ e.handle = r.handle /\ e.lost = r.lost /\ SlotOK(e, n)
<1> DEFINE c == [r EXCEPT !.timer = "none"]
           d == Log(c, "disconnected")
           e == Unref(d)
<1>1. /\ c \in Conns /\ c.state = r.state /\ c.timer = "none" /\ c.log = r.log
      /\ c.peer = r.peer /\ c.handle = r.handle /\ c.lost = r.lost /\ c.ref = r.ref
      /\ r.ref \in Nat /\ r.lost \in Nat
  BY DEF Conns
<1> HIDE DEF c
<1>2. /\ d \in Conns /\ d.state = r.state /\ d.timer = "none" /\ d.ref = r.ref
      /\ d.log = Append(r.log, "disconnected")
      /\ d.peer = r.peer /\ d.handle = r.handle /\ d.lost = r.lost
  BY <1>1, LogFields
<1> HIDE DEF d
<1>3. r.ref > 0
  BY <1>1 DEF SlotOK, Stack, Surplus, Count
<1>4. /\ e \in Conns /\ e.state = r.state /\ e.timer = "none" /\ e.ref = r.ref - 1
      /\ e.log = Append(r.log, "disconnected")
      /\ e.peer = r.peer /\ e.handle = r.handle /\ e.lost = r.lost
  BY <1>2, <1>3, UnrefFields
<1> HIDE DEF e
<1>5. /\ r.ref >= n + 1 + r.lost /\ (~preempt => r.ref = n + 1 + r.lost)
  BY <1>1 DEF SlotOK, Stack, Surplus, Count, Valid
<1>6. Count(Stack(e)) = 0 /\ Surplus(e) = 0
  BY <1>4 DEF Stack, Surplus, Count, Valid
<1>7. SlotOK(e, n)
  BY <1>1, <1>4, <1>5, <1>6 DEF SlotOK, Valid
<1> QED BY <1>4, <1>7 DEF c, d, e

(* An object is initialised and its attempt begins.                        *)
LEMMA NewOK ==
  ASSUME TypeOK, NEW p \in Peers \cup {ADDR_NONE}, NEW st \in Attempt,
         st = "scan" => mode = "resolve"
  PROVE  LET e == Enter(New(p), st)
         IN  e \in Conns /\ e.state = st /\ e.log = <<>> /\ e.lost = 0 /\ SlotOK(e, 1)
<1> DEFINE r == New(p)
           e == Enter(r, st)
<1>1. /\ r \in Conns /\ r.state = "disconnected" /\ r.timer = "none" /\ r.ref = 1
      /\ r.log = <<>> /\ r.lost = 0
  <2>1. /\ Free \in Conns /\ Free.state = "disconnected" /\ Free.timer = "none"
        /\ Free.log = <<>> /\ Free.lost = 0
    BY DEF Free, Conns, ConnStates
  <2> QED BY <2>1 DEF New, Conns
<1> HIDE DEF r
<1>2. /\ e \in Conns /\ e.state = st /\ e.ref = 2 /\ e.log = <<>> /\ e.lost = 0
      /\ e.timer = IF st = "initiating" THEN "delayed" ELSE "none"
  BY <1>1, EnterFields DEF Attempt, ConnStates
<1> HIDE DEF e
<1>3. SlotOK(e, 1)
  BY <1>1, <1>2 DEF SlotOK, Stack, Surplus, Count, Valid, Attempt
<1> QED BY <1>2, <1>3 DEF r, e

-----------------------------------------------------------------------------
(* What the operations do to what the application has been told.           *)
LEMMA TellLeave ==
  ASSUME TypeOK, NEW r \in Conns, NEW n \in Nat, SlotOK(r, n), TellOK(r), mode # "resolve",
         NEW err \in BOOLEAN
  PROVE  TellOK(Leave(r, err))
<1> DEFINE e == Leave(r, err)
<1>1. /\ e.state = "disconnected"
      /\ e.timer = IF r.state = "complete" THEN "queued"
                   ELSE IF r.state = "initiating" THEN "none" ELSE r.timer
      /\ e.lost = IF r.state \in {"connected", "disconnecting"} THEN r.lost + 1 ELSE r.lost
      /\ e.log = IF r.state \in {"initiating", "scan"} /\ err
                 THEN Append(r.log, "failed") ELSE r.log
  BY LeaveOK, LeaveFields
<1>2. r.lost \in Nat /\ r.state \in ConnStates /\ r.state # "scan" /\ Append(<<>>, "failed") = <<"failed">>
  BY DEF SlotOK, Conns
<1> HIDE DEF e
<1>3. ASSUME r.state = "disconnected" PROVE TellOK(e)
  BY <1>1, <1>3 DEF TellOK
<1>4. ASSUME r.state = "complete" PROVE TellOK(e)
  BY <1>1, <1>4 DEF TellOK
<1>5. ASSUME r.state \in {"initiating", "filter"} PROVE TellOK(e)
  <2>1. r.log = <<>> /\ e.log \in {<<>>, <<"failed">>}
    BY <1>1, <1>2, <1>5 DEF TellOK
  <2>2. e.timer = "none"
    BY <1>1, <1>5 DEF SlotOK
  <2> QED BY <1>1, <2>1, <2>2 DEF TellOK, Ended
<1>6. ASSUME r.state \in {"connected", "disconnecting"} PROVE TellOK(e)
  <2>1. r.log = <<"connected">> /\ e.log = r.log /\ e.lost > 0 /\ e.timer = r.timer
    BY <1>1, <1>2, <1>6 DEF TellOK
  <2> QED BY <1>1, <2>1 DEF TellOK
<1> QED BY <1>2, <1>3, <1>4, <1>5, <1>6 DEF ConnStates, e

LEMMA TellSame ==
  ASSUME NEW r \in Conns, NEW e \in Conns, TellOK(r), e.state = r.state, e.log = r.log,
         e.lost >= r.lost, r.state = "disconnected" => e.timer = r.timer
  PROVE  TellOK(e)
<1>1. e.lost \in Nat /\ r.lost \in Nat
  BY DEF Conns
<1> QED BY <1>1 DEF TellOK

LEMMA AppendToOne ==
  ASSUME NEW S, NEW x \in S, NEW y \in S
  PROVE  Append(<<x>>, y) = <<x, y>>
<1> DEFINE s == <<x>>
           t == <<x, y>>
<1>1. s \in Seq(S) /\ Len(s) = 1 /\ s[1] = x
  OBVIOUS
<1>2. t \in Seq(S) /\ Len(t) = 2 /\ t[1] = x /\ t[2] = y
  OBVIOUS
<1> HIDE DEF s, t
<1>3. /\ Append(s, y) \in Seq(S) /\ Len(Append(s, y)) = 2
      /\ Append(s, y)[1] = x /\ Append(s, y)[2] = y
  <2>1. /\ Append(s, y) \in Seq(S) /\ Len(Append(s, y)) = Len(s) + 1
        /\ \A j \in 1..(Len(s) + 1) : Append(s, y)[j] = IF j <= Len(s) THEN s[j] ELSE y
    BY <1>1, AppendFacts
  <2> QED BY <1>1, <2>1
<1>4. Append(s, y) = t
  BY <1>2, <1>3, SeqEqual
<1> QED BY <1>4 DEF s, t

LEMMA TellDeferred ==
  ASSUME NEW r \in Conns, NEW e \in Conns, TellOK(r), r.state = "disconnected", r.timer = "queued",
         e.state = "disconnected", e.timer = "none", e.log = Append(r.log, "disconnected")
  PROVE  TellOK(e)
<1>1. r.log \in {<<"connected">>, <<"failed">>}
  BY DEF TellOK
<1>2. /\ Append(<<"connected">>, "disconnected") = <<"connected", "disconnected">>
      /\ Append(<<"failed">>, "disconnected") = <<"failed", "disconnected">>
  <2> DEFINE S == {"connected", "failed", "disconnected"}
  <2>1. "connected" \in S /\ "failed" \in S /\ "disconnected" \in S
    OBVIOUS
  <2> HIDE DEF S
  <2> QED BY <2>1, AppendToOne, Zenon
<1>3. e.log \in {<<"connected", "disconnected">>, <<"failed", "disconnected">>}
  BY <1>1, <1>2
<1> QED BY <1>3 DEF TellOK, Ended

(* The attempt has its link, and the end of the link has been noted        *)
(* already or has not.                                                     *)
LEMMA TellConnected ==
  ASSUME NEW r \in Conns, TellOK(r), r.state \in {"initiating", "filter"}, NEW e \in Conns,
         \/ e.state = "connected" /\ e.log = Append(r.log, "connected")
         \/ e.state = "complete" /\ e.log = Append(r.log, "failed")
  PROVE  TellOK(e)
<1>1. r.log = <<>> /\ Append(<<>>, "connected") = <<"connected">> /\ Append(<<>>, "failed") = <<"failed">>
  BY DEF TellOK
<1> QED BY <1>1 DEF TellOK

(* The link is about to end, or has ended.                                 *)
LEMMA TellEnding ==
  ASSUME NEW r \in Conns, TellOK(r), NEW e \in Conns, e.log = r.log,
         \/ r.state = "connected" /\ e.state = "disconnecting"
         \/ r.state \in Valid /\ e.state = "complete"
  PROVE  TellOK(e)
BY DEF TellOK, Valid

(* An attempt begins.                                                      *)
LEMMA TellNew ==
  ASSUME NEW e \in Conns, e.state \in Attempt, e.log = <<>>
  PROVE  TellOK(e)
BY DEF TellOK, Attempt

-----------------------------------------------------------------------------
(* Who holds an object.                                                    *)
LEMMA FreeSlot ==
  ASSUME LInv, NEW s \in Slots, conn[s].ref = 0
  PROVE  /\ s \notin held /\ ~Creating(s) /\ bq.slot # s /\ Extra(s) = 0
         /\ conn[s].state = "disconnected" /\ conn[s].timer = "none" /\ conn[s].lost = 0
<1>1. conn[s].ref >= Extra(s) + Count(Stack(conn[s])) + conn[s].lost + Surplus(conn[s])
  BY DEF LInv, SlotsInv, SlotOK
<1>2. /\ Extra(s) \in Nat /\ Count(Stack(conn[s])) \in 0..1 /\ conn[s].lost \in Nat
      /\ Surplus(conn[s]) \in 0..1
  BY ExtraIsNat, CountFacts DEF LInv, TypeOK, Conns, Surplus
<1>3. Extra(s) = 0 /\ Count(Stack(conn[s])) = 0 /\ conn[s].lost = 0
  BY <1>1, <1>2
<1>4. ~Stack(conn[s])
  BY <1>3, CountFacts
<1>5. /\ Count(s \in held) \in 0..1 /\ Count(Creating(s)) \in 0..1 /\ Count(bq.slot = s) \in 0..1
  BY CountFacts
<1>6. Count(s \in held) = 0 /\ Count(Creating(s)) = 0 /\ Count(bq.slot = s) = 0
  BY <1>3, <1>5 DEF Extra
<1>7. s \notin held /\ ~Creating(s) /\ bq.slot # s
  BY <1>6 DEF Count
<1> QED BY <1>3, <1>4, <1>7 DEF Stack

(* One thread goes on to something else.                                   *)
LEMMA CreatingStep ==
  ASSUME LInv, NEW a \in Apps, NEW w, app' = [app EXCEPT ![a] = w]
  PROVE  \A s : Creating(s)' <=> \/ w = [at |-> "create", slot |-> s]
                                 \/ Creating(s) /\ app[a] # [at |-> "create", slot |-> s]
<1> SUFFICES ASSUME NEW s
             PROVE  Creating(s)' <=> \/ w = [at |-> "create", slot |-> s]
                                     \/ Creating(s) /\ app[a] # [at |-> "create", slot |-> s]
  OBVIOUS
<1> DEFINE c == [at |-> "create", slot |-> s]
<1>1. \A b, d \in Apps : app[b] = c /\ app[d] = c => b = d
  BY DEF LInv, AppInv
<1>2. (Creating(s) <=> \E b \in Apps : app[b] = c) /\ (Creating(s)' <=> \E b \in Apps : app'[b] = c)
  BY DEF Creating
<1>3. \A b \in Apps : app'[b] = IF b = a THEN w ELSE app[b]
  BY DEF LInv, TypeOK
<1> HIDE DEF c
<1>4. Creating(s)' <=> w = c \/ (Creating(s) /\ app[a] # c)
  BY <1>1, <1>2, <1>3
<1> QED BY <1>4 DEF c

-----------------------------------------------------------------------------
(* What most handlers do to an object, as far as links are concerned: they *)
(* lose no connected object without counting it, and report the end of a   *)
(* link only when it has ended.                                            *)
Gentle(r, e) ==
  /\ e.lost >= r.lost
  /\ r.state \in {"connected", "disconnecting"} =>
       e.lost > 0 \/ (e.state \in Valid /\ e.handle = r.handle)
  /\ e.state = "complete" => r.state = "complete" /\ e.handle = r.handle

(* An object that is held stays what it was for those who end it.          *)
Sane(r, e) ==
  r.ref > 0 => /\ e.state \in Attempt => r.state \in Attempt
               /\ r.peer \in Peers /\ r.handle \in Handles => e.peer \in Peers /\ e.handle \in Handles

Mild(r, e) == Gentle(r, e) /\ Sane(r, e)

(* The events on their way stay, and the one that is being handled.        *)
Follows ==
  /\ \A h \in Handles : Coming(h)' <=> Coming(h)
  /\ bq'.at \in Arriving => bq.at = bq'.at /\ rxq' # <<>> /\ Head(rxq') = Head(rxq)

(* A handle is found if and only if an object has it.                      *)
LEMMA LookupFacts ==
  ASSUME TypeOK, SlotsInv, NEW h
  PROVE  /\ LookupHandle(h) \subseteq Slots
         /\ \A s \in Slots : s \in LookupHandle(h) <=> conn[s].state \in Valid /\ conn[s].handle = h
         /\ \A s \in Slots : conn[s].state # "disconnected" => conn[s].ref > 0
<1>1. ASSUME NEW s \in Slots, conn[s].state # "disconnected" PROVE conn[s].ref > 0
  <2>1. conn[s].ref >= Extra(s) + Count(Stack(conn[s])) + conn[s].lost + Surplus(conn[s])
    BY DEF SlotsInv, SlotOK
  <2>2. Extra(s) \in Nat /\ Count(Stack(conn[s])) = 1 /\ conn[s].lost \in Nat /\ Surplus(conn[s]) \in Nat
    BY <1>1, ExtraIsNat DEF TypeOK, Conns, Surplus, Count, Stack
  <2>3. conn[s].ref \in Nat
    BY DEF TypeOK, Conns
  <2> QED BY <2>1, <2>2, <2>3
<1> QED BY <1>1 DEF LookupHandle, HandleValid, Valid

LEMMA ChangeSlots ==
  ASSUME LInv, NEW s \in Slots, NEW e \in Conns, conn' = [conn EXCEPT ![s] = e],
         UNCHANGED <<mode, preempt>>,
         SlotOK(e, Extra(s)'), \A q \in Slots : q # s => Extra(q)' = Extra(q),
         ~preempt /\ mode # "resolve" => TellOK(e)
  PROVE  SlotsInv' /\ TellInv'
<1>1. \A q \in Slots : conn'[q] = IF q = s THEN e ELSE conn[q]
  BY DEF LInv, TypeOK
<1>2. SlotsInv'
  <2> SUFFICES ASSUME NEW q \in Slots PROVE SlotOK(conn[q], Extra(q))'
    BY DEF SlotsInv
  <2>1. SlotOK(conn'[q], Extra(q)')
    <3>1. CASE q = s
      BY <1>1, <3>1
    <3>2. CASE q # s
      BY <1>1, <3>2 DEF LInv, SlotsInv
    <3> QED BY <3>1, <3>2
  <2> QED BY <2>1 DEF SlotOK
<1>3. TellInv'
  BY <1>1 DEF LInv, TellInv, TellOK
<1> QED BY <1>2, <1>3

LEMMA ChangeLinks ==
  ASSUME LInv, NEW s \in Slots, NEW e \in Conns, conn' = [conn EXCEPT ![s] = e],
         SlotsInv', TypeOK', Gentle(conn[s], e), UNCHANGED <<links, dead, stray>>, Follows
  PROVE  LinkInv'
<1>1. \A q \in Slots : conn'[q] = IF q = s THEN e ELSE conn[q]
  BY DEF LInv, TypeOK
<1> SUFFICES ASSUME ~Eager, Orderly' PROVE LinkInv'
  BY DEF LinkInv
<1>2. e.lost = 0 /\ \A q \in Slots : conn[q].lost = 0
  <2>1. \A q \in Slots : conn'[q].lost = 0
    BY DEF Orderly
  <2>2. e.lost = 0 /\ conn[s].lost \in Nat
    BY <1>1, <2>1 DEF LInv, TypeOK, Conns
  <2>3. conn[s].lost = 0
    BY <2>2 DEF Gentle
  <2> QED BY <1>1, <2>1, <2>2, <2>3
<1>3. Orderly
  BY <1>2 DEF Orderly
<1>4. /\ \A h \in Handles : links[h] # NULL \/ Has(dead, h) => Coming(h) \/ LookupHandle(h) # {}
      /\ \A h \in Handles : Has(dead, h) => links[h] = NULL
      /\ Once(dead, Handles)
      /\ \A q \in Slots : conn[q].state = "complete" =>
           links[conn[q].handle] = NULL /\ ~Has(dead, conn[q].handle)
      /\ bq.at = "noted" => links[Head(rxq).handle] = NULL /\ ~Has(dead, Head(rxq).handle)
  BY <1>3 DEF LInv, LinkInv
<1>5. ASSUME NEW h \in Handles, links[h] # NULL \/ Has(dead, h), LookupHandle(h) # {}
      PROVE  LookupHandle(h)' # {}
  <2>1. PICK q \in Slots : conn[q].state \in Valid /\ conn[q].handle = h
    BY <1>5, LookupFacts DEF LInv
  <2>2. conn[q].state \in {"connected", "disconnecting"}
    BY <1>4, <1>5, <2>1 DEF Valid
  <2>3. conn'[q].state \in Valid /\ conn'[q].handle = h
    BY <1>1, <1>2, <2>1, <2>2 DEF Gentle
  <2>4. conn'[q].ref > 0
    <3>1. conn'[q].ref >= Extra(q)' + Count(Stack(conn'[q])) + conn'[q].lost + Surplus(conn'[q])
      BY DEF SlotsInv, SlotOK
    <3>2. /\ Extra(q)' \in Nat /\ Count(Stack(conn'[q])) = 1 /\ conn'[q].lost \in Nat
          /\ Surplus(conn'[q]) \in Nat /\ conn'[q].ref \in Nat
      BY <2>3 DEF TypeOK, Conns, Extra, Surplus, Count, Stack, Valid
    <3> QED BY <3>1, <3>2
  <2> QED BY <2>3, <2>4 DEF LookupHandle, HandleValid, Valid
<1>6. \A q \in Slots : conn'[q].state = "complete" =>
        links[conn'[q].handle] = NULL /\ ~Has(dead, conn'[q].handle)
  BY <1>1, <1>4 DEF Gentle
<1>7. bq'.at = "noted" => links[Head(rxq').handle] = NULL /\ ~Has(dead, Head(rxq').handle)
  BY <1>4 DEF Follows, Arriving
<1>8. \A h \in Handles : links[h] # NULL \/ Has(dead, h) => Coming(h)' \/ LookupHandle(h)' # {}
  BY <1>4, <1>5 DEF Follows
<1> QED BY <1>4, <1>6, <1>7, <1>8 DEF LinkInv

(* Nothing happens to any object.                                          *)
LEMMA SameSlots ==
  ASSUME LInv, UNCHANGED <<conn, mode, preempt>>, \A q \in Slots : Extra(q)' = Extra(q)
  PROVE  SlotsInv' /\ TellInv'
BY DEF LInv, SlotsInv, TellInv, SlotOK, TellOK

LEMMA SameLinks ==
  ASSUME LInv, UNCHANGED <<conn, links, dead, stray>>, Follows
  PROVE  LinkInv'
BY DEF LInv, LinkInv, Orderly, LookupHandle, Follows, Arriving

-----------------------------------------------------------------------------
(* What the threads in the middle of something rely on.                    *)
LEMMA HeldIsUsed ==
  ASSUME LInv, NEW s \in held
  PROVE  s \in Slots /\ conn[s].ref > 0
<1>1. s \in Slots /\ conn[s].ref \in Nat
  BY DEF LInv, TypeOK, Conns
<1> QED BY <1>1, FreeSlot

LEMMA ThreadStays ==
  ASSUME LInv, NEW w, AppOK(w), UNCHANGED preempt, NEW s \in Slots, NEW e \in Conns,
         conn' = [conn EXCEPT ![s] = e], Sane(conn[s], e),
         w.slot \in held => w.slot \in held', w.at = "create" => w.slot \notin held',
         \/ bq' = bq \/ bq'.at \notin {"pending"} \cup Arriving \/ conn[bq'.slot].state \in Attempt
  PROVE  AppOK(w)'
<1>1. \A q \in Slots : conn'[q] = IF q = s THEN e ELSE conn[q]
  BY DEF LInv, TypeOK
<1>2. ASSUME w.at \in Ending
      PROVE  /\ w.slot \in held' /\ conn'[w.slot].state \notin Attempt
             /\ conn'[w.slot].peer \in Peers /\ conn'[w.slot].handle \in Handles
             /\ ~(bq'.at \in {"pending"} \cup Arriving /\ bq'.slot = w.slot)
  <2>1. /\ w.slot \in held /\ conn[w.slot].state \notin Attempt
        /\ conn[w.slot].peer \in Peers /\ conn[w.slot].handle \in Handles
        /\ ~(bq.at \in {"pending"} \cup Arriving /\ bq.slot = w.slot)
    BY <1>2 DEF AppOK
  <2>2. w.slot \in Slots /\ conn[w.slot].ref > 0
    BY <2>1, HeldIsUsed
  <2>3. /\ conn'[w.slot].state \notin Attempt
        /\ conn'[w.slot].peer \in Peers /\ conn'[w.slot].handle \in Handles
    BY <1>1, <2>1, <2>2 DEF Sane
  <2> QED BY <2>1, <2>3
<1> QED BY <1>2 DEF AppOK

LEMMA ThreadKeeps ==
  ASSUME LInv, NEW w, AppOK(w), UNCHANGED preempt, NEW s \in Slots, NEW e \in Conns,
         conn' = [conn EXCEPT ![s] = e], Mild(conn[s], e),
         w.slot \in held => w.slot \in held', w.at = "create" => w.slot \notin held',
         \/ bq' = bq \/ bq'.at \notin {"pending"} \cup Arriving \/ conn[bq'.slot].state \in Attempt
  PROVE  AppOK(w)'
<1>1. Sane(conn[s], e)
  BY DEF Mild
<1> QED BY <1>1, ThreadStays

(* All threads stay where they are, or one goes on.                        *)
LEMMA ThreadsKeep ==
  ASSUME LInv, UNCHANGED app, \A b \in Apps : AppOK(app[b])'
  PROVE  AppInv'
BY DEF LInv, AppInv

LEMMA ThreadGoesOn ==
  ASSUME LInv, NEW a \in Apps, NEW w, app' = [app EXCEPT ![a] = w], AppOK(w)',
         \A b \in Apps : b # a => AppOK(app[b])',
         w.at = "create" => \A b \in Apps : ~(app[b].at = "create" /\ app[b].slot = w.slot)
  PROVE  AppInv'
<1>1. \A b \in Apps : app'[b] = IF b = a THEN w ELSE app[b]
  BY DEF LInv, TypeOK
<1>2. ASSUME NEW b \in Apps PROVE AppOK(app[b])'
  <2>1. CASE b = a
    BY <1>1, <2>1 DEF AppOK
  <2>2. CASE b # a
    <3>1. AppOK(app[b])' /\ app'[b] = app[b]
      BY <1>1, <2>2
    <3> QED BY <3>1 DEF AppOK
  <2> QED BY <2>1, <2>2
<1>3. \A b, c \in Apps : app'[b].at = "create" /\ app'[c].at = "create" /\ app'[b].slot = app'[c].slot
                           => b = c
  BY <1>1 DEF LInv, AppInv
<1> QED BY <1>2, <1>3 DEF AppInv

(* The object a handler is busy with.                                      *)
LEMMA BusySlot ==
  ASSUME LInv, NEW s \in Slots, bq.slot = s
  PROVE  BusyOK(conn[s])
<1>1. NULL \notin Slots
  BY LifeAssumption
<1> QED BY <1>1 DEF LInv, BqInv

LEMMA BqKeeps ==
  ASSUME LInv, UNCHANGED <<bq, mode, preempt>>, NEW s \in Slots, NEW e \in Conns,
         conn' = [conn EXCEPT ![s] = e], Follows, bq.slot = s => BusyOK(e)
  PROVE  BqInv'
<1>1. \A q \in Slots : conn'[q] = IF q = s THEN e ELSE conn[q]
  BY DEF LInv, TypeOK
<1> QED BY <1>1 DEF LInv, BqInv, BusyOK, Follows

LEMMA BqStays ==
  ASSUME LInv, UNCHANGED <<bq, mode, preempt, conn>>, Follows
  PROVE  BqInv'
BY DEF LInv, BqInv, BusyOK, Follows

LEMMA BqIdle ==
  ASSUME bq' = Idle
  PROVE  BqInv'
BY DEF BqInv, Idle, Arriving

LEMMA ComingKept ==
  ASSUME LInv, UNCHANGED rxq, bq' = bq \/ bq' = Idle
  PROVE  Follows
BY DEF LInv, BqInv, Coming, Follows, Idle, Arriving

-----------------------------------------------------------------------------
(* One lemma for each handler.                                             *)

(* Create and CreateAuto: the slot is free, and then the thread's.         *)
LEMMA CreateBegins ==
  ASSUME LInv, NEW a \in Apps, app[a] = Idle, NEW p \in Peers \cup {ADDR_NONE},
         NEW st \in {"initiating", "filter"}, FreeSlots # {}, NEW s, s = First(FreeSlots),
         conn' = [conn EXCEPT ![s] = Enter(New(p), st)],
         app' = [app EXCEPT ![a] = [at |-> "create", slot |-> s]],
         tries' = tries + 1,
         UNCHANGED <<mode, preempt, held, scanUser, initiating, dead, bq, mq, ctlVars, stray>>
  PROVE  LInv'
<1>1. s \in Slots /\ conn[s].ref = 0
  BY FoundIsSlot DEF FreeSlots
<1>2. /\ s \notin held /\ ~Creating(s) /\ bq.slot # s /\ Extra(s) = 0
      /\ conn[s].state = "disconnected" /\ conn[s].timer = "none" /\ conn[s].lost = 0
  BY <1>1, FreeSlot
<1> DEFINE e == Enter(New(p), st)
           w == [at |-> "create", slot |-> s]
<1>3. e \in Conns /\ e.state = st /\ e.log = <<>> /\ e.lost = 0 /\ SlotOK(e, 1)
  BY NewOK DEF Attempt, LInv
<1>4. w \in Waiting /\ w.at = "create" /\ w.slot = s
  BY <1>1 DEF Waiting
<1>5. \A q \in Slots : Creating(q)' <=> q = s \/ Creating(q)
  <2>1. \A q \in Slots : app[a] # [at |-> "create", slot |-> q]
    BY DEF Idle
  <2>2. \A q \in Slots : w = [at |-> "create", slot |-> q] <=> q = s
    OBVIOUS
  <2>3. \A q \in Slots : Creating(q)' <=> \/ w = [at |-> "create", slot |-> q]
                                          \/ Creating(q) /\ app[a] # [at |-> "create", slot |-> q]
    BY CreatingStep
  <2> HIDE DEF w
  <2> QED BY <2>1, <2>2, <2>3
<1> HIDE DEF e, w
<1>6. Extra(s)' = 1 /\ \A q \in Slots : q # s => Extra(q)' = Extra(q)
  BY <1>1, <1>2, <1>5 DEF Extra, Count
<1>7. TypeOK'
  BY <1>1, <1>3, <1>4 DEF LInv, TypeOK, ctlVars, e, w
<1>8. Mild(conn[s], e)
  BY <1>1, <1>2, <1>3 DEF Mild, Gentle, Sane
<1>f. Follows
  BY ComingKept DEF ctlVars
<1>9. SlotsInv' /\ TellInv'
  BY <1>1, <1>3, <1>6, ChangeSlots, TellNew DEF e, Attempt
<1>10. LinkInv'
  BY <1>1, <1>3, <1>7, <1>8, <1>9, <1>f, ChangeLinks DEF e, ctlVars, Mild
<1>11. AppInv'
  <2>1. ASSUME NEW b \in Apps, b # a PROVE AppOK(app[b])'
    <3>1. AppOK(app[b]) /\ app'[b] = app[b]
      BY <2>1 DEF LInv, AppInv, TypeOK
    <3> QED BY <1>1, <1>3, <1>8, <3>1, ThreadKeeps DEF e, AppOK
  <2>2. AppOK(w)'
    BY <1>1, <1>2, <1>4 DEF AppOK, Ending
  <2>3. \A b \in Apps : ~(app[b].at = "create" /\ app[b].slot = s)
    <3>1. \A b \in Apps : app[b].at = "create" /\ app[b].slot = s => app[b] = [at |-> "create", slot |-> s]
      BY DEF LInv, TypeOK, Waiting
    <3> QED BY <1>2, <3>1 DEF Creating
  <2> QED BY <1>4, <2>1, <2>2, <2>3, ThreadGoesOn DEF w
<1>12. BqInv'
  BY <1>1, <1>2, <1>3, <1>f, BqKeeps DEF e
<1> QED BY <1>7, <1>9, <1>10, <1>11, <1>12 DEF LInv

(* Handlers that change one object and no holder of any.                   *)
LEMMA ChangeOne ==
  ASSUME LInv, TypeOK', AppInv', NEW s \in Slots, NEW e \in Conns, conn' = [conn EXCEPT ![s] = e],
         UNCHANGED <<mode, preempt, held, bq, links, dead, stray>>,
         \A q \in Slots : Creating(q)' <=> Creating(q),
         SlotOK(e, Extra(s)), ~preempt /\ mode # "resolve" => TellOK(e), Mild(conn[s], e),
         Follows, bq.slot = s => BusyOK(e)
  PROVE  LInv'
<1>1. \A q \in Slots : Extra(q)' = Extra(q)
  BY DEF Extra, Count
<1>2. SlotsInv' /\ TellInv'
  <2>1. SlotOK(e, Extra(s)')
    BY <1>1
  <2> QED BY <1>1, <2>1, ChangeSlots
<1>3. LinkInv'
  BY <1>2, ChangeLinks DEF Mild
<1>4. BqInv'
  BY BqKeeps
<1> QED BY <1>2, <1>3, <1>4 DEF LInv

LEMMA MildLeave ==
  ASSUME NEW r \in Conns, NEW err \in BOOLEAN, r.state \in Attempt => r.ref > 0
  PROVE  Mild(r, Leave(r, err))
<1> DEFINE e == Leave(r, err)
<1>1. /\ e.state = "disconnected" /\ e.peer = r.peer /\ e.handle = r.handle
      /\ e.lost = IF r.state \in {"connected", "disconnecting"} THEN r.lost + 1 ELSE r.lost
  BY LeaveFields
<1>2. r.lost \in Nat
  BY DEF Conns
<1> HIDE DEF e
<1>3. Mild(r, e)
  BY <1>1, <1>2 DEF Mild, Gentle, Sane, Attempt
<1> QED BY <1>3 DEF e

LEMMA MildSame ==
  ASSUME NEW r \in Conns, NEW e \in Conns, e.state = r.state, e.peer = r.peer, e.handle = r.handle,
         e.lost >= r.lost
  PROVE  Mild(r, e)
BY DEF Mild, Gentle, Sane, Valid

(* The threads' part of a handler that changes one object.                 *)
LEMMA NoThreadMoves ==
  ASSUME LInv, UNCHANGED <<app, preempt, held>>, NEW s \in Slots, NEW e \in Conns,
         conn' = [conn EXCEPT ![s] = e], Mild(conn[s], e),
         \/ bq' = bq \/ bq'.at \notin {"pending"} \cup Arriving \/ conn[bq'.slot].state \in Attempt
  PROVE  AppInv' /\ \A q : Creating(q)' <=> Creating(q)
<1>1. ASSUME NEW b \in Apps PROVE AppOK(app[b])'
  <2>1. AppOK(app[b]) /\ app'[b] = app[b]
    BY DEF LInv, AppInv
  <2> QED BY <2>1, ThreadKeeps DEF AppOK
<1> QED BY <1>1, ThreadsKeep DEF Creating

LEMMA OneThreadMoves ==
  ASSUME LInv, NEW a \in Apps, NEW w, app' = [app EXCEPT ![a] = w],
         app[a].at # "create", w.at # "create", AppOK(w)',
         UNCHANGED <<preempt, held, bq>>, NEW s \in Slots, NEW e \in Conns,
         conn' = [conn EXCEPT ![s] = e], Mild(conn[s], e)
  PROVE  AppInv' /\ \A q \in Slots : Creating(q)' <=> Creating(q)
<1>1. ASSUME NEW b \in Apps, b # a PROVE AppOK(app[b])'
  <2>1. AppOK(app[b]) /\ app'[b] = app[b]
    BY <1>1 DEF LInv, AppInv, TypeOK
  <2> QED BY <2>1, ThreadKeeps DEF AppOK
<1>2. ASSUME NEW q \in Slots PROVE Creating(q)' <=> Creating(q)
  <2> DEFINE c == [at |-> "create", slot |-> q]
  <2>1. w # c /\ app[a] # c
    OBVIOUS
  <2>2. Creating(q)' <=> w = c \/ (Creating(q) /\ app[a] # c)
    BY CreatingStep
  <2> HIDE DEF c
  <2> QED BY <2>1, <2>2
<1> QED BY <1>1, <1>2, ThreadGoesOn

(* A thread goes on while nothing happens to any object.                   *)
LEMMA OnlyThreadMoves ==
  ASSUME LInv, TypeOK', NEW a \in Apps, NEW w, app' = [app EXCEPT ![a] = w],
         app[a].at # "create", w.at # "create", AppOK(w),
         UNCHANGED <<mode, preempt, conn, held, bq, links, dead, stray>>, Follows
  PROVE  LInv'
<1>1. ASSUME NEW b \in Apps, b # a PROVE AppOK(app[b])'
  <2>1. AppOK(app[b]) /\ app'[b] = app[b]
    BY <1>1 DEF LInv, AppInv, TypeOK
  <2> QED BY <2>1 DEF AppOK
<1>2. ASSUME NEW q \in Slots PROVE Creating(q)' <=> Creating(q)
  <2> DEFINE c == [at |-> "create", slot |-> q]
  <2>1. w # c /\ app[a] # c
    OBVIOUS
  <2>2. Creating(q)' <=> w = c \/ (Creating(q) /\ app[a] # c)
    BY CreatingStep
  <2> HIDE DEF c
  <2> QED BY <2>1, <2>2
<1>3. \A q \in Slots : Extra(q)' = Extra(q)
  BY <1>2 DEF Extra, Count
<1>4. AppOK(w)'
  BY DEF AppOK
<1>5. AppInv'
  BY <1>1, <1>4, ThreadGoesOn
<1>6. BqInv'
  BY BqStays
<1> QED BY <1>3, <1>5, <1>6, SameSlots, SameLinks DEF LInv

(* A handler that changes nothing the invariant mentions but types.        *)
LEMMA NothingMoves ==
  ASSUME LInv, TypeOK', UNCHANGED <<mode, preempt, conn, held, app, bq, links, dead, stray>>, Follows
  PROVE  LInv'
<1>1. \A q \in Slots : Extra(q)' = Extra(q)
  BY DEF Extra, Creating
<1>2. AppInv' /\ BqInv'
  BY BqStays DEF LInv, AppInv, AppOK
<1> QED BY <1>1, <1>2, SameSlots, SameLinks DEF LInv

-----------------------------------------------------------------------------
(* Events on their way.                                                    *)
LEMMA ComingAppend ==
  ASSUME TypeOK, NEW x \in Events, rxq' = Append(rxq, x)
  PROVE  /\ rxq' \in Seq(Events)
         /\ \A h : Coming(h)' <=> Coming(h) \/ (x.ev = "connected" /\ x.handle = h)
         /\ rxq # <<>> => rxq' # <<>> /\ Head(rxq') = Head(rxq)
<1> DEFINE n == Len(rxq)
<1>1. /\ Append(rxq, x) \in Seq(Events) /\ n \in Nat /\ Len(Append(rxq, x)) = n + 1
      /\ \A j \in 1..(n + 1) : Append(rxq, x)[j] = IF j <= n THEN rxq[j] ELSE x
  <2>1. rxq \in Seq(Events)
    BY DEF TypeOK
  <2> QED BY <2>1, AppendFacts
<1>2. rxq' \in Seq(Events) /\ Len(rxq') = n + 1 /\ \A j \in 1..(n + 1) : rxq'[j] = IF j <= n THEN rxq[j] ELSE x
  BY <1>1
<1>3. ASSUME NEW h PROVE Coming(h)' <=> Coming(h) \/ (x.ev = "connected" /\ x.handle = h)
  <2>1. Coming(h) <=> \E i \in 1..n : rxq[i].ev = "connected" /\ rxq[i].handle = h
    BY DEF Coming
  <2>2. Coming(h)' <=> \E i \in 1..(n + 1) : rxq'[i].ev = "connected" /\ rxq'[i].handle = h
    BY <1>2 DEF Coming
  <2> HIDE DEF n
  <2>3. \A i \in 1..(n + 1) : i \in 1..n \/ i = n + 1
    BY <1>1
  <2>4. n + 1 \in 1..(n + 1) /\ rxq'[n + 1] = x
    BY <1>1, <1>2
  <2>5. \A i \in 1..n : i \in 1..(n + 1) /\ rxq'[i] = rxq[i]
    BY <1>1, <1>2
  <2> QED BY <2>1, <2>2, <2>3, <2>4, <2>5
<1>4. ASSUME rxq # <<>> PROVE rxq' # <<>> /\ Head(rxq') = Head(rxq)
  <2>1. rxq \in Seq(Events) /\ n # 0
    BY <1>4, EmptySeq DEF TypeOK
  <2>2. rxq' # <<>> /\ 1 \in 1..n /\ 1 <= n /\ rxq'[1] = rxq[1]
    BY <1>1, <1>2, <2>1
  <2>3. Head(rxq) = rxq[1] /\ Head(rxq') = rxq'[1]
    BY <1>2, <1>4, <2>1, <2>2, HeadTailProperties
  <2> QED BY <2>2, <2>3
<1> QED BY <1>2, <1>3, <1>4

LEMMA FollowsAppend ==
  ASSUME LInv, NEW x \in Events, rxq' = Append(rxq, x), x.ev # "connected", UNCHANGED bq
  PROVE  rxq' \in Seq(Events) /\ (\A h : Coming(h)' <=> Coming(h)) /\ Follows
<1>1. TypeOK /\ (bq.at \in Arriving => rxq # <<>>)
  BY DEF LInv, BqInv
<1> QED BY <1>1, ComingAppend DEF Follows

LEMMA ComingTail ==
  ASSUME TypeOK, rxq # <<>>, rxq' = Tail(rxq)
  PROVE  /\ rxq' \in Seq(Events) /\ Head(rxq) \in Events
         /\ \A h : Coming(h) <=> Coming(h)' \/ (Head(rxq).ev = "connected" /\ Head(rxq).handle = h)
<1> DEFINE n == Len(rxq)
<1>1. rxq \in Seq(Events) /\ n \in Nat /\ n # 0
  BY LenProperties, EmptySeq DEF TypeOK
<1>2. /\ rxq' \in Seq(Events) /\ Head(rxq) \in Events /\ Head(rxq) = rxq[1] /\ Len(rxq') = n - 1
      /\ \A j \in 1..(n - 1) : rxq'[j] = rxq[j + 1]
  BY <1>1, HeadTailProperties
<1>3. ASSUME NEW h
      PROVE  Coming(h) <=> Coming(h)' \/ (Head(rxq).ev = "connected" /\ Head(rxq).handle = h)
  <2>1. Coming(h) <=> \E i \in 1..n : rxq[i].ev = "connected" /\ rxq[i].handle = h
    BY DEF Coming
  <2>2. Coming(h)' <=> \E i \in 1..(n - 1) : rxq'[i].ev = "connected" /\ rxq'[i].handle = h
    BY <1>2 DEF Coming
  <2> HIDE DEF n
  <2>3. \A i \in 1..n : i = 1 \/ (i - 1 \in 1..(n - 1) /\ rxq'[i - 1] = rxq[i])
    BY <1>1, <1>2
  <2>4. 1 \in 1..n
    BY <1>1
  <2>5. \A i \in 1..(n - 1) : i + 1 \in 1..n /\ rxq'[i] = rxq[i + 1]
    BY <1>1, <1>2
  <2> QED BY <1>2, <2>1, <2>2, <2>3, <2>4, <2>5
<1> QED BY <1>2, <1>3

LEMMA CancelCmdFacts ==
  ASSUME LInv, CancelCmd, UNCHANGED bq
  PROVE  /\ rxq' \in Seq(Events) /\ initiating' \in BOOLEAN
         /\ target' \in Peers \cup {ADDR_NONE, NULL}
         /\ Follows
<1>1. CASE target # NULL
  <2> DEFINE x == [ev |-> "cancelled"]
  <2>1. x \in Events /\ x.ev # "connected"
    BY DEF Events
  <2>2. rxq' = Append(rxq, x) /\ target' = NULL /\ initiating' = FALSE
    BY <1>1 DEF CancelCmd
  <2> HIDE DEF x
  <2> QED BY <2>1, <2>2, FollowsAppend
<1>2. CASE target = NULL
  BY <1>2, ComingKept DEF CancelCmd, LInv, TypeOK
<1> QED BY <1>1, <1>2

LEMMA IdleOK == AppOK(Idle) /\ AppOK(Idle)' /\ Idle \in Waiting /\ Idle.at = "idle"
BY DEF AppOK, Idle, Ending, Waiting

-----------------------------------------------------------------------------
(* bt_conn_disconnect up to the command.                                   *)
LEMMA DisconnectStep ==
  ASSUME LInv, NEW a \in Apps, NEW s \in Slots, Disconnect(a, s)
  PROVE  LInv'
<1> DEFINE r == conn[s]
<1>0. /\ r \in Conns /\ SlotOK(r, Extra(s)) /\ s \in held /\ app[a].at = "idle" /\ Extra(s) \in Nat
      /\ TypeOK
  BY ExtraIsNat DEF LInv, TypeOK, SlotsInv, Disconnect, Idle
<1>u. /\ UNCHANGED <<mode, preempt, held, bq, links, dead, stray, rxq, initiating, mq, asked, target, tries>>
      /\ Follows
  BY ComingKept DEF Disconnect, ctlVars
<1>1. CASE r.state = "scan" /\ conn' = [conn EXCEPT ![s] = Leave(@, TRUE)] /\ scanUser' = TRUE /\ UNCHANGED app
  <2> DEFINE e == Leave(r, TRUE)
  <2>1. SlotOK(e, Extra(s)) /\ (r.state \in Attempt => r.ref > 0)
    BY <1>0, LeaveOK
  <2>2. /\ e \in Conns /\ e.state = "disconnected" /\ e.timer = r.timer
    BY <1>0, <1>1, <2>1, LeaveFields
  <2>3. Mild(r, e)
    BY <1>0, <2>1, MildLeave
  <2>4. conn' = [conn EXCEPT ![s] = e]
    BY <1>1
  <2>5. mode = "resolve" /\ e.timer = "none"
    BY <1>0, <1>1, <2>2 DEF SlotOK
  <2> HIDE DEF e
  <2>6. TypeOK'
    BY <1>0, <1>1, <1>u, <2>2, <2>4 DEF TypeOK
  <2>7. AppInv' /\ \A q : Creating(q)' <=> Creating(q)
    BY <1>1, <1>u, <2>2, <2>3, <2>4, NoThreadMoves
  <2>8. BusyOK(e)
    BY <2>2, <2>5 DEF BusyOK, Valid
  <2> QED BY <1>u, <2>1, <2>2, <2>3, <2>4, <2>5, <2>6, <2>7, <2>8, ChangeOne
<1>2. CASE /\ r.state = "initiating" /\ conn' = [conn EXCEPT ![s].timer = "none"]
           /\ app' = [app EXCEPT ![a] = [at |-> "cancel", slot |-> s]] /\ UNCHANGED scanUser
  <2> DEFINE e == [r EXCEPT !.timer = "none"]
             w == [at |-> "cancel", slot |-> s]
  <2>1. /\ e \in Conns /\ e.state = r.state /\ e.log = r.log
        /\ e.peer = r.peer /\ e.handle = r.handle /\ e.lost = r.lost /\ SlotOK(e, Extra(s))
    BY <1>0, <1>2, TimerOK
  <2>2. conn' = [conn EXCEPT ![s] = e] /\ app' = [app EXCEPT ![a] = w]
    BY <1>2
  <2>3. w \in Waiting /\ w.at = "cancel" /\ w.slot = s
    BY DEF Waiting
  <2> HIDE DEF e, w
  <2>4. Mild(r, e) /\ (~preempt /\ mode # "resolve" => TellOK(e))
    <3>1. e.lost >= r.lost
      BY <1>0, <2>1 DEF Conns
    <3> QED BY <1>0, <1>2, <2>1, <3>1, MildSame, TellSame DEF LInv, TellInv
  <2>5. TypeOK'
    <3>1. scanUser' = scanUser
      BY <1>2
    <3>2. conn' \in [Slots -> Conns] /\ app' \in [Apps -> Waiting]
      BY <1>0, <2>1, <2>2, <2>3 DEF TypeOK
    <3> QED BY <1>0, <1>u, <3>1, <3>2 DEF TypeOK
  <2>6. AppOK(w)'
    BY <1>0, <1>u, <2>3 DEF AppOK, Ending
  <2>7. AppInv' /\ \A q \in Slots : Creating(q)' <=> Creating(q)
    BY <1>0, <1>u, <2>1, <2>2, <2>3, <2>4, <2>6, OneThreadMoves
  <2>8. bq.slot = s => BusyOK(e)
    BY <1>2, <2>1, BusySlot DEF BusyOK
  <2> QED BY <1>u, <2>1, <2>2, <2>4, <2>5, <2>7, <2>8, ChangeOne
<1>3. CASE /\ r.state = "connected" /\ app' = [app EXCEPT ![a] = [at |-> "disconnect", slot |-> s]]
           /\ UNCHANGED <<conn, scanUser>>
  <2> DEFINE w == [at |-> "disconnect", slot |-> s]
  <2>1. w \in Waiting /\ w.at = "disconnect" /\ w.slot = s /\ app' = [app EXCEPT ![a] = w]
    BY <1>3 DEF Waiting
  <2> HIDE DEF w
  <2>2. TypeOK'
    BY <1>0, <1>3, <1>u, <2>1 DEF TypeOK
  <2>3. /\ r.peer \in Peers /\ r.handle \in Handles
        /\ ~(bq.at \in {"pending"} \cup Arriving /\ bq.slot = s)
    BY <1>0, <1>3, BusySlot DEF SlotOK, Valid, BusyOK
  <2>4. AppOK(w)
    BY <1>0, <1>3, <2>1, <2>3 DEF AppOK, Ending, Attempt
  <2> QED BY <1>0, <1>3, <1>u, <2>1, <2>2, <2>4, OnlyThreadMoves
<1> QED BY <1>1, <1>2, <1>3 DEF Disconnect

(* The command that cancels an attempt.                                    *)
LEMMA CancelStep ==
  ASSUME LInv, NEW a \in Apps, Cancel(a)
  PROVE  LInv'
<1> DEFINE s == app[a].slot
<1>0. TypeOK /\ AppOK(app[a]) /\ app[a].at = "cancel" /\ app' = [app EXCEPT ![a] = Idle]
  BY DEF LInv, AppInv, Cancel
<1>1. /\ rxq' \in Seq(Events) /\ initiating' \in BOOLEAN /\ target' \in Peers \cup {ADDR_NONE, NULL}
      /\ Follows
  BY <1>0, CancelCmdFacts DEF Cancel
<1>u. UNCHANGED <<mode, preempt, held, scanUser, dead, bq, mq, links, asked, tries, stray>>
  BY DEF Cancel
<1>2. CASE UNCHANGED conn
  <2>1. TypeOK'
    BY <1>0, <1>1, <1>2, <1>u, IdleOK DEF TypeOK
  <2> QED BY <1>0, <1>1, <1>2, <1>u, <2>1, IdleOK, OnlyThreadMoves
<1>3. CASE s # NULL /\ conn' = [conn EXCEPT ![s].excused = TRUE]
  <2> DEFINE r == conn[s]
             e == [r EXCEPT !.excused = TRUE]
  <2>1. s \in Slots
    BY <1>0, <1>3 DEF AppOK, TypeOK
  <2>2. r \in Conns /\ SlotOK(r, Extra(s))
    BY <2>1 DEF LInv, TypeOK, SlotsInv
  <2>3. /\ e \in Conns /\ e.state = r.state /\ e.timer = r.timer /\ e.log = r.log /\ e.ref = r.ref
        /\ e.peer = r.peer /\ e.handle = r.handle /\ e.lost = r.lost /\ r.lost \in Nat
    BY <2>2 DEF Conns
  <2>4. conn' = [conn EXCEPT ![s] = e]
    BY <1>3
  <2> HIDE DEF e
  <2>5. SlotOK(e, Extra(s))
    BY <2>2, <2>3 DEF SlotOK, Stack, Surplus
  <2>6. Mild(r, e) /\ (~preempt /\ mode # "resolve" => TellOK(e))
    <3>1. e.lost >= r.lost
      BY <2>3
    <3> QED BY <2>1, <2>2, <2>3, <3>1, MildSame, TellSame DEF LInv, TellInv
  <2>7. TypeOK'
    BY <1>0, <1>1, <1>u, <2>1, <2>3, <2>4, IdleOK DEF TypeOK
  <2>8. AppInv' /\ \A q \in Slots : Creating(q)' <=> Creating(q)
    BY <1>0, <1>u, <2>1, <2>3, <2>4, <2>6, IdleOK, OneThreadMoves
  <2>9. bq.slot = s => BusyOK(e)
    BY <2>1, <2>3, BusySlot DEF BusyOK
  <2> QED BY <1>1, <1>u, <2>1, <2>3, <2>4, <2>5, <2>6, <2>7, <2>8, <2>9, ChangeOne
<1> QED BY <1>2, <1>3 DEF Cancel

(* conn_disconnect after the command, and its check of conn->state.        *)
LEMMA DisconnectSentStep ==
  ASSUME LInv, NEW a \in Apps, DisconnectSent(a)
  PROVE  LInv'
<1> DEFINE s == app[a].slot
           w == IF links[conn[s].handle] = NULL THEN Idle ELSE [app[a] EXCEPT !.at = "answered"]
<1>0. TypeOK /\ AppOK(app[a]) /\ app[a] \in Waiting /\ app[a].at = "disconnect" /\ app' = [app EXCEPT ![a] = w]
  BY DEF LInv, AppInv, DisconnectSent, TypeOK
<1>1. s \in Slots /\ conn[s].handle \in Handles
  BY <1>0 DEF AppOK, Ending, TypeOK
<1>2. w \in Waiting /\ w.at # "create" /\ AppOK(w)
  <2>1. CASE links[conn[s].handle] = NULL
    BY <2>1, IdleOK
  <2>2. CASE links[conn[s].handle] # NULL
    <3>1. w \in Waiting /\ w.at = "answered" /\ w.slot = s
      BY <1>0, <2>2 DEF Waiting
    <3> HIDE DEF w
    <3> QED BY <1>0, <3>1 DEF AppOK, Ending
  <2> QED BY <2>1, <2>2
<1> HIDE DEF w
<1>u. UNCHANGED <<mode, preempt, hostVars, bq, mq, rxq, target, links, tries, stray>>
  BY DEF DisconnectSent
<1>3. asked' \subseteq Handles
  BY <1>0, <1>1 DEF DisconnectSent, DisconnectCmd, TypeOK
<1>4. TypeOK'
  BY <1>0, <1>2, <1>3, <1>u DEF TypeOK, hostVars
<1>5. Follows
  BY <1>u, ComingKept
<1> QED BY <1>0, <1>2, <1>4, <1>5, <1>u, OnlyThreadMoves DEF hostVars

(* A thread marks its object as disconnecting.                             *)
LEMMA MarkFacts ==
  ASSUME LInv, NEW s \in Slots, conn[s].state # "scan",
         conn[s].peer \in Peers, conn[s].handle \in Handles,
         preempt \/ conn[s].state = "connected"
  PROVE  LET e == Enter(conn[s], "disconnecting")
         IN  /\ e \in Conns /\ SlotOK(e, Extra(s)) /\ Mild(conn[s], e)
             /\ ~preempt /\ mode # "resolve" => TellOK(e)
<1> DEFINE r == conn[s]
           e == Enter(r, "disconnecting")
<1>1. r \in Conns /\ SlotOK(r, Extra(s)) /\ Extra(s) \in Nat /\ TypeOK
  BY ExtraIsNat DEF LInv, TypeOK, SlotsInv
<1>2. /\ e \in Conns /\ e.state = "disconnecting"
      /\ e.peer = r.peer /\ e.handle = r.handle /\ e.log = r.log /\ e.lost = r.lost
  BY <1>1, EnterFields DEF ConnStates
<1>3. SlotOK(e, Extra(s))
  BY <1>1, EnterOK DEF Valid
<1> HIDE DEF e
<1>4. e.lost >= r.lost
  BY <1>1, <1>2 DEF Conns
<1>5. Mild(r, e)
  BY <1>2, <1>4 DEF Mild, Gentle, Sane, Valid, Attempt
<1>6. ~preempt /\ mode # "resolve" => TellOK(e)
  BY <1>1, <1>2, TellEnding DEF LInv, TellInv
<1> QED BY <1>2, <1>3, <1>5, <1>6 DEF e

LEMMA AnsweredStep ==
  ASSUME LInv, NEW a \in Apps, Answered(a)
  PROVE  LInv'
<1> DEFINE s == app[a].slot
           w == IF conn[s].state = "connected" /\ preempt THEN [app[a] EXCEPT !.at = "mark"] ELSE Idle
<1>0. TypeOK /\ AppOK(app[a]) /\ app[a] \in Waiting /\ app[a].at = "answered" /\ app' = [app EXCEPT ![a] = w]
  BY DEF LInv, AppInv, Answered, TypeOK
<1>1. s \in Slots /\ conn[s].state # "scan" /\ conn[s].peer \in Peers /\ conn[s].handle \in Handles
  BY <1>0 DEF AppOK, Ending, TypeOK, Attempt
<1>u. /\ UNCHANGED <<mode, preempt, held, scanUser, initiating, dead, bq, mq, ctlVars, tries, stray>>
      /\ Follows
  BY ComingKept DEF Answered, ctlVars
<1>2. CASE conn[s].state = "connected" /\ ~preempt
  <2> DEFINE e == Enter(conn[s], "disconnecting")
  <2>1. conn' = [conn EXCEPT ![s] = e] /\ app' = [app EXCEPT ![a] = Idle]
    BY <1>0, <1>2 DEF Answered
  <2>2. /\ e \in Conns /\ SlotOK(e, Extra(s)) /\ Mild(conn[s], e)
        /\ ~preempt /\ mode # "resolve" => TellOK(e)
    BY <1>1, <1>2, MarkFacts
  <2> HIDE DEF e, w
  <2>3. TypeOK'
    <3>1. conn' \in [Slots -> Conns] /\ app' \in [Apps -> Waiting]
      BY <1>0, <1>1, <2>1, <2>2, IdleOK DEF TypeOK
    <3> QED BY <1>0, <1>u, <3>1 DEF TypeOK, ctlVars
  <2>4. AppInv' /\ \A q \in Slots : Creating(q)' <=> Creating(q)
    BY <1>0, <1>1, <1>u, <2>1, <2>2, IdleOK, OneThreadMoves
  <2>5. bq.slot = s => BusyOK(e)
    BY <1>1, <1>2, BusySlot DEF BusyOK, Valid
  <2> QED BY <1>1, <1>u, <2>1, <2>2, <2>3, <2>4, <2>5, ChangeOne DEF ctlVars
<1>3. CASE ~(conn[s].state = "connected" /\ ~preempt)
  <2>1. UNCHANGED conn
    BY <1>3 DEF Answered
  <2>2. w \in Waiting /\ w.at # "create" /\ AppOK(w)
    <3>1. CASE conn[s].state = "connected" /\ preempt
      <4>1. w \in Waiting /\ w.at = "mark" /\ w.slot = s
        BY <1>0, <3>1 DEF Waiting
      <4> HIDE DEF w
      <4> QED BY <1>0, <3>1, <4>1 DEF AppOK, Ending
    <3>2. CASE ~(conn[s].state = "connected" /\ preempt)
      BY <3>2, IdleOK
    <3> QED BY <3>1, <3>2
  <2> HIDE DEF w
  <2>3. TypeOK'
    BY <1>0, <1>u, <2>1, <2>2 DEF TypeOK, ctlVars
  <2> QED BY <1>0, <1>u, <2>1, <2>2, <2>3, OnlyThreadMoves DEF ctlVars
<1> QED BY <1>2, <1>3

LEMMA MarkStep ==
  ASSUME LInv, NEW a \in Apps, Mark(a)
  PROVE  LInv'
<1> DEFINE s == app[a].slot
           e == Enter(conn[s], "disconnecting")
<1>0. /\ TypeOK /\ AppOK(app[a]) /\ app[a].at = "mark" /\ app' = [app EXCEPT ![a] = Idle]
      /\ conn' = [conn EXCEPT ![s] = e]
  BY DEF LInv, AppInv, Mark, TypeOK
<1>1. /\ s \in Slots /\ conn[s].state # "scan" /\ conn[s].peer \in Peers /\ conn[s].handle \in Handles
      /\ preempt /\ ~(bq.at \in {"pending"} \cup Arriving /\ bq.slot = s)
  BY <1>0 DEF AppOK, Ending, TypeOK, Attempt
<1>u. /\ UNCHANGED <<mode, preempt, held, scanUser, initiating, dead, bq, mq, ctlVars, tries, stray>>
      /\ Follows
  BY ComingKept DEF Mark, ctlVars
<1>2. /\ e \in Conns /\ SlotOK(e, Extra(s)) /\ Mild(conn[s], e)
      /\ ~preempt /\ mode # "resolve" => TellOK(e)
  BY <1>1, MarkFacts
<1> HIDE DEF e
<1>3. TypeOK'
  <2>1. conn' \in [Slots -> Conns] /\ app' \in [Apps -> Waiting]
    BY <1>0, <1>1, <1>2, IdleOK DEF TypeOK
  <2> QED BY <1>0, <1>u, <2>1 DEF TypeOK, ctlVars
<1>4. AppInv' /\ \A q \in Slots : Creating(q)' <=> Creating(q)
  BY <1>0, <1>1, <1>2, <1>u, IdleOK, OneThreadMoves
<1>5. bq.slot = s => BusyOK(e)
  BY <1>1 DEF BusyOK
<1> QED BY <1>0, <1>1, <1>2, <1>3, <1>4, <1>5, <1>u, ChangeOne DEF ctlVars

(* bt_conn_le_create with host-based resolving.                            *)
LEMMA CreateResolveStep ==
  ASSUME LInv, NEW a \in Apps, NEW p \in Peers, CreateResolve(a, p)
  PROVE  LInv'
<1>0. PICK s : s = First(FreeSlots)
  OBVIOUS
<1> DEFINE r == Enter(New(p), "scan")
<1>1. s \in Slots /\ conn[s].ref = 0 /\ mode = "resolve" /\ TypeOK /\ tries \in Nat
  BY <1>0, FoundIsSlot DEF FreeSlots, CreateResolve, MayCreate, LInv, TypeOK
<1>2. /\ s \notin held /\ ~Creating(s) /\ bq.slot # s /\ Extra(s) = 0
      /\ conn[s].state = "disconnected" /\ conn[s].timer = "none" /\ conn[s].lost = 0
  BY <1>1, FreeSlot
<1>3. r \in Conns /\ r.state = "scan" /\ r.log = <<>> /\ r.lost = 0 /\ SlotOK(r, 1)
  BY <1>1, NewOK DEF Attempt
<1>u. /\ UNCHANGED <<mode, preempt, initiating, dead, app, bq, mq, rxq, target, links, asked, stray>>
      /\ tries' = tries + 1
  BY DEF CreateResolve, ctlVars
<1>4. CASE scanUser
  <2> DEFINE l == Leave(r, FALSE)
             e == Unref(l)
  <2>0. conn' = [conn EXCEPT ![s] = e] /\ scanUser' = FALSE /\ held' = held
    BY <1>0, <1>4 DEF CreateResolve
  <2> HIDE DEF r
  <2>1. SlotOK(l, 1) /\ (r.state \in Attempt => r.ref > 0)
    BY <1>1, <1>3, LeaveOK
  <2>2. l \in Conns /\ l.state = "disconnected" /\ l.lost = 0
    BY <1>3, <2>1, LeaveFields
  <2> HIDE DEF l
  <2>3. SlotOK(e, 0) /\ e \in Conns /\ l.ref > 0
    BY <1>1, <2>1, <2>2, UnrefOK
  <2>4. e.state = "disconnected" /\ e.lost = 0
    BY <2>2, <2>3, UnrefFields
  <2> HIDE DEF e
  <2>5. Mild(conn[s], e)
    BY <1>1, <1>2, <2>4 DEF Mild, Gentle, Sane, Attempt
  <2>6. TypeOK'
    <3>1. conn' \in [Slots -> Conns] /\ held' \subseteq Slots /\ tries' \in Nat
      BY <1>1, <1>u, <2>0, <2>3 DEF TypeOK
    <3> QED BY <1>1, <1>u, <2>0, <3>1 DEF TypeOK
  <2>7. AppInv' /\ \A q : Creating(q)' <=> Creating(q)
    BY <1>1, <1>u, <2>0, <2>3, <2>5, NoThreadMoves
  <2>8. Follows
    BY <1>u, ComingKept
  <2> QED BY <1>1, <1>2, <1>u, <2>0, <2>3, <2>5, <2>6, <2>7, <2>8, ChangeOne
<1>5. CASE ~scanUser
  <2>0. conn' = [conn EXCEPT ![s] = r] /\ scanUser' = TRUE /\ held' = held \cup {s}
    BY <1>0, <1>5 DEF CreateResolve
  <2> HIDE DEF r
  <2>1. \A q : Creating(q)' <=> Creating(q)
    BY <1>u DEF Creating
  <2>2. Extra(s)' = 1 /\ \A q \in Slots : q # s => Extra(q)' = Extra(q)
    BY <1>1, <1>2, <1>u, <2>0, <2>1 DEF Extra, Count
  <2>3. Mild(conn[s], r)
    BY <1>1, <1>2, <1>3 DEF Mild, Gentle, Sane
  <2>f. Follows
    BY <1>u, ComingKept
  <2>4. TypeOK'
    <3>1. conn' \in [Slots -> Conns] /\ held' \subseteq Slots /\ tries' \in Nat
      BY <1>1, <1>3, <1>u, <2>0 DEF TypeOK
    <3> QED BY <1>1, <1>u, <2>0, <3>1 DEF TypeOK
  <2>5. SlotsInv' /\ TellInv'
    BY <1>1, <1>3, <1>u, <2>0, <2>2, ChangeSlots
  <2>6. LinkInv'
    BY <1>1, <1>3, <1>u, <2>0, <2>3, <2>4, <2>5, <2>f, ChangeLinks DEF Mild
  <2>7. AppInv'
    <3>1. ASSUME NEW b \in Apps PROVE AppOK(app[b])'
      <4>1. AppOK(app[b]) /\ app'[b] = app[b]
        BY <1>u DEF LInv, AppInv
      <4>2. app[b].at = "create" => app[b].slot # s
        <5>1. app[b].at = "create" /\ app[b].slot = s => app[b] = [at |-> "create", slot |-> s]
          BY DEF LInv, TypeOK, Waiting
        <5> QED BY <1>2, <5>1 DEF Creating
      <4>3. app[b].at = "create" => app[b].slot \notin held'
        BY <2>0, <4>1, <4>2 DEF AppOK
      <4> QED BY <1>1, <1>3, <1>u, <2>0, <2>3, <4>1, <4>3, ThreadKeeps DEF AppOK
    <3> QED BY <1>u, <3>1, ThreadsKeep
  <2>8. BqInv'
    BY <1>1, <1>2, <1>3, <1>u, <2>0, <2>f, BqKeeps
  <2> QED BY <2>4, <2>5, <2>6, <2>7, <2>8 DEF LInv
<1> QED BY <1>4, <1>5

(* Create and CreateAuto.                                                  *)
LEMMA CreateStep ==
  ASSUME LInv, NEW a \in Apps, CreateAuto(a) \/ \E p \in Peers : Create(a, p)
  PROVE  LInv'
<1>1. CASE CreateAuto(a)
  <2> DEFINE s == First(FreeSlots)
  <2>1. /\ app[a] = Idle /\ FreeSlots # {} /\ tries' = tries + 1
        /\ conn' = [conn EXCEPT ![s] = Enter(New(ADDR_NONE), "filter")]
        /\ app' = [app EXCEPT ![a] = [at |-> "create", slot |-> s]]
        /\ UNCHANGED <<mode, preempt, held, scanUser, initiating, dead, bq, mq, ctlVars, stray>>
    BY <1>1 DEF CreateAuto
  <2> HIDE DEF s
  <2>2. s = First(FreeSlots)
    BY DEF s
  <2> QED BY <2>1, <2>2, CreateBegins
<1>2. ASSUME NEW p \in Peers, Create(a, p) PROVE LInv'
  <2> DEFINE s == First(FreeSlots)
  <2>1. /\ app[a] = Idle /\ FreeSlots # {} /\ tries' = tries + 1
        /\ conn' = [conn EXCEPT ![s] = Enter(New(p), "initiating")]
        /\ app' = [app EXCEPT ![a] = [at |-> "create", slot |-> s]]
        /\ UNCHANGED <<mode, preempt, held, scanUser, initiating, dead, bq, mq, ctlVars, stray>>
    BY <1>2 DEF Create, MayCreate
  <2> HIDE DEF s
  <2>2. s = First(FreeSlots)
    BY DEF s
  <2> QED BY <2>1, <2>2, CreateBegins
<1> QED BY <1>1, <1>2

(* The rest of bt_conn_le_create: the thread gives its reference back, or  *)
(* to the application.                                                     *)
LEMMA CreateEnds ==
  ASSUME LInv, TypeOK', NEW a \in Apps, app[a].at = "create", NEW s, s = app[a].slot, NEW e \in Conns,
         conn' = [conn EXCEPT ![s] = e], app' = [app EXCEPT ![a] = Idle],
         UNCHANGED <<mode, preempt, bq, rxq, links, dead, stray>>,
         \/ held' = held \cup {s} /\ SlotOK(e, Extra(s))
         \/ held' = held /\ SlotOK(e, Extra(s) - 1),
         ~preempt /\ mode # "resolve" => TellOK(e), Mild(conn[s], e),
         bq.slot = s => BusyOK(e)
  PROVE  LInv'
<1>f. Follows
  BY ComingKept
<1>1. s \in Slots /\ s \notin held /\ app[a] = [at |-> "create", slot |-> s]
  BY DEF LInv, AppInv, AppOK, TypeOK, Waiting
<1>2. Creating(s)
  BY <1>1 DEF Creating
<1>3. \A q : Creating(q)' <=> Creating(q) /\ q # s
  <2> SUFFICES ASSUME NEW q PROVE Creating(q)' <=> Creating(q) /\ q # s
    OBVIOUS
  <2> DEFINE c == [at |-> "create", slot |-> q]
  <2>1. Idle # c /\ (app[a] = c <=> q = s)
    BY <1>1 DEF Idle
  <2>2. Creating(q)' <=> Idle = c \/ (Creating(q) /\ app[a] # c)
    BY CreatingStep
  <2> HIDE DEF c
  <2> QED BY <2>1, <2>2
<1>4. /\ Extra(s)' = IF held' = held THEN Extra(s) - 1 ELSE Extra(s)
      /\ \A q \in Slots : q # s => Extra(q)' = Extra(q)
  BY <1>1, <1>2, <1>3 DEF Extra, Count
<1>5. SlotsInv' /\ TellInv'
  <2>1. SlotOK(e, Extra(s)')
    BY <1>1, <1>4
  <2> QED BY <1>1, <1>4, <2>1, ChangeSlots
<1>6. LinkInv'
  BY <1>1, <1>5, <1>f, ChangeLinks DEF Mild
<1>7. AppInv'
  <2>1. ASSUME NEW b \in Apps, b # a PROVE AppOK(app[b])'
    <3>1. AppOK(app[b]) /\ app'[b] = app[b]
      BY <2>1 DEF LInv, AppInv, TypeOK
    <3>2. app[b].at = "create" => app[b].slot # s
      BY <2>1 DEF LInv, AppInv
    <3>3. app[b].at = "create" => app[b].slot \notin held'
      BY <3>1, <3>2 DEF AppOK
    <3>4. held \subseteq held'
      OBVIOUS
    <3> QED BY <1>1, <3>1, <3>3, <3>4, ThreadKeeps DEF AppOK
  <2> QED BY <2>1, IdleOK, ThreadGoesOn
<1>8. BqInv'
  BY <1>1, <1>f, BqKeeps
<1> QED BY <1>5, <1>6, <1>7, <1>8 DEF LInv

LEMMA CreatedStep ==
  ASSUME LInv, NEW a \in Apps, Created(a)
  PROVE  LInv'
<1>0. PICK s : s = app[a].slot
  OBVIOUS
<1> DEFINE r == conn[s]
           l == Leave(r, FALSE)
<1>1. /\ app[a].at = "create" /\ app' = [app EXCEPT ![a] = Idle] /\ s \in Slots /\ s \notin held
      /\ r \in Conns /\ SlotOK(r, Extra(s)) /\ TypeOK
      /\ ~preempt /\ mode # "resolve" => TellOK(r)
  BY <1>0 DEF Created, LInv, AppInv, AppOK, TypeOK, SlotsInv, TellInv
<1>2. Extra(s) \in Nat /\ Extra(s) - 1 \in Nat
  <2>1. app[a] = [at |-> "create", slot |-> s]
    BY <1>0, <1>1 DEF TypeOK, Waiting
  <2>2. Creating(s)
    BY <2>1 DEF Creating
  <2> QED BY <2>2 DEF Extra, Count
<1>u. UNCHANGED <<mode, preempt, scanUser, dead, bq, mq, rxq, links, asked, tries, stray>>
  BY DEF Created
<1>b. bq.slot = s => BusyOK(r)
  BY <1>1, BusySlot
<1>t. target' \in Peers \cup {ADDR_NONE, NULL} /\ initiating' \in BOOLEAN
  BY <1>0, <1>1 DEF Created, CreateOk, CreateFails, TypeOK, Conns
<1>3. CASE conn' = [conn EXCEPT ![s] = r] /\ held' = held \cup {s}
  <2>1. Mild(r, r)
    <3>1. r.lost >= r.lost
      BY <1>1 DEF Conns
    <3> QED BY <1>1, <3>1, MildSame
  <2>2. TypeOK'
    <3>1. conn' \in [Slots -> Conns] /\ held' \subseteq Slots /\ app' \in [Apps -> Waiting]
      BY <1>1, <1>3, IdleOK DEF TypeOK
    <3> QED BY <1>1, <1>t, <1>u, <3>1 DEF TypeOK
  <2> QED BY <1>0, <1>1, <1>3, <1>b, <1>u, <2>1, <2>2, CreateEnds
<1>4. ASSUME NEW x \in Conns, conn' = [conn EXCEPT ![s] = Unref(x)], held' = held, SlotOK(x, Extra(s)),
             x.lost >= r.lost, Mild(r, x), ~preempt /\ mode # "resolve" => TellOK(x),
             bq.slot = s => BusyOK(x)
      PROVE  LInv'
  <2> DEFINE e == Unref(x)
             n == Extra(s) - 1
  <2>1. SlotOK(e, n) /\ x.ref > 0 /\ e \in Conns
    <3>1. n \in Nat /\ n + 1 = Extra(s)
      BY <1>2
    <3> HIDE DEF n
    <3>2. SlotOK(x, n + 1)
      BY <1>4, <3>1
    <3> QED BY <1>1, <3>1, <3>2, UnrefOK
  <2>2. /\ e.state = x.state /\ e.timer = x.timer /\ e.log = x.log
        /\ e.peer = x.peer /\ e.handle = x.handle /\ e.lost = x.lost
    BY <2>1, UnrefFields
  <2> HIDE DEF e
  <2>3. Mild(r, e)
    BY <1>4, <2>2 DEF Mild, Gentle, Sane
  <2>4. ~preempt /\ mode # "resolve" => TellOK(e)
    BY <1>4, <2>2 DEF TellOK
  <2>5. TypeOK'
    <3>1. conn' \in [Slots -> Conns] /\ held' \subseteq Slots /\ app' \in [Apps -> Waiting]
      BY <1>1, <1>4, <2>1, IdleOK DEF TypeOK, e
    <3> QED BY <1>1, <1>t, <1>u, <3>1 DEF TypeOK
  <2>6. conn' = [conn EXCEPT ![s] = e]
    BY <1>4 DEF e
  <2>7. bq.slot = s => BusyOK(e)
    BY <1>4, <2>2 DEF BusyOK
  <2> QED BY <1>0, <1>1, <1>4, <1>u, <2>1, <2>2, <2>3, <2>4, <2>5, <2>6, <2>7, CreateEnds
<1>5. CASE conn' = [conn EXCEPT ![s] = Unref(r)] /\ held' = held
  <2>1. r.lost >= r.lost
    BY <1>1 DEF Conns
  <2> QED BY <1>1, <1>4, <1>5, <1>b, <2>1, MildSame
<1>6. CASE conn' = [conn EXCEPT ![s] = Unref(l)] /\ held' = held
  <2>1. SlotOK(l, Extra(s)) /\ (r.state \in Attempt => r.ref > 0)
    BY <1>1, <1>2, LeaveOK
  <2>2. /\ l \in Conns /\ l.state = "disconnected"
        /\ r.state \in {"scan", "disconnected"} => l.timer = r.timer
    BY <1>1, <2>1, LeaveFields
  <2>3. Mild(r, l)
    BY <1>1, <2>1, MildLeave
  <2>4. ~preempt /\ mode # "resolve" => TellOK(l)
    BY <1>1, <1>2, TellLeave
  <2> HIDE DEF l
  <2>5. l.lost >= r.lost
    BY <2>3 DEF Mild, Gentle
  <2>6. bq.slot = s => BusyOK(l)
    BY <1>b, <2>2 DEF BusyOK, Valid
  <2> QED BY <1>4, <1>6, <2>1, <2>2, <2>3, <2>4, <2>5, <2>6
<1> QED BY <1>0, <1>3, <1>5, <1>6 DEF Created

(* bt_conn_create_auto_stop.                                               *)
LEMMA AutoStopStep ==
  ASSUME LInv, NEW a \in Apps, AutoStop(a)
  PROVE  LInv'
<1>0. PICK s : s = First(LookupState(ADDR_NONE, "filter"))
  OBVIOUS
<1> DEFINE r == conn[s]
<1>1. s \in Slots /\ r.state = "filter" /\ mode = "auto" /\ app[a] = Idle
  <2>1. LookupState(ADDR_NONE, "filter") # {} /\ LookupState(ADDR_NONE, "filter") \subseteq Slots
    BY DEF AutoStop, LookupState
  <2>2. s \in LookupState(ADDR_NONE, "filter")
    BY <1>0, <2>1, FoundIsSlot
  <2> QED BY <2>2 DEF LookupState, AutoStop
<1>2. /\ r \in Conns /\ SlotOK(r, Extra(s)) /\ Extra(s) \in Nat /\ TypeOK
      /\ ~preempt /\ mode # "resolve" => TellOK(r)
  BY <1>1, ExtraIsNat DEF LInv, TypeOK, SlotsInv, TellInv
<1>u. /\ UNCHANGED <<mode, preempt, held, scanUser, initiating, dead, bq, mq, rxq, target, links,
                     asked, tries, stray>>
      /\ Follows
  BY ComingKept DEF AutoStop, ctlVars
<1>b. bq.slot = s => bq.at # "pending"
  BY <1>1, BusySlot DEF BusyOK
<1>3. CASE initiating
  <2> DEFINE e == Leave(r, FALSE)
             w == [Idle EXCEPT !.at = "cancel"]
  <2>1. conn' = [conn EXCEPT ![s] = e] /\ app' = [app EXCEPT ![a] = w]
    BY <1>0, <1>1, <1>3 DEF AutoStop
  <2>2. SlotOK(e, Extra(s)) /\ (r.state \in Attempt => r.ref > 0)
    BY <1>2, LeaveOK
  <2>3. e \in Conns /\ e.state = "disconnected"
    BY <1>2, <2>2, LeaveFields
  <2>4. Mild(r, e)
    BY <1>2, <2>2, MildLeave
  <2>5. ~preempt /\ mode # "resolve" => TellOK(e)
    BY <1>2, TellLeave
  <2>6. w \in Waiting /\ w.at = "cancel" /\ w.slot = NULL /\ app[a].at # "create"
    BY <1>1 DEF Idle, Waiting
  <2> HIDE DEF e, w
  <2>7. TypeOK'
    <3>1. conn' \in [Slots -> Conns] /\ app' \in [Apps -> Waiting]
      BY <1>1, <1>2, <2>1, <2>3, <2>6 DEF TypeOK
    <3> QED BY <1>2, <1>u, <3>1 DEF TypeOK
  <2>8. AppOK(w)'
    BY <2>6 DEF AppOK, Ending
  <2>9. AppInv' /\ \A q \in Slots : Creating(q)' <=> Creating(q)
    BY <1>1, <1>u, <2>1, <2>3, <2>4, <2>6, <2>8, OneThreadMoves
  <2>10. bq.slot = s => BusyOK(e)
    BY <1>b, <2>3 DEF BusyOK, Valid
  <2> QED BY <1>1, <1>u, <2>1, <2>2, <2>3, <2>4, <2>5, <2>7, <2>9, <2>10, ChangeOne
<1>4. CASE ~initiating
  <2> DEFINE e == [r EXCEPT !.ref = @ + 1, !.lost = @ + 1]
  <2>1. conn' = [conn EXCEPT ![s] = e] /\ UNCHANGED app
    <3>1. conn' = [conn EXCEPT ![s].ref = @ + 1, ![s].lost = @ + 1] /\ UNCHANGED app
      BY <1>0, <1>4 DEF AutoStop
    <3> QED BY <1>1, <1>2, <3>1 DEF TypeOK, Conns
  <2>2. /\ e \in Conns /\ e.state = r.state /\ e.timer = r.timer /\ e.log = r.log
        /\ e.peer = r.peer /\ e.handle = r.handle /\ e.lost = r.lost + 1 /\ SlotOK(e, Extra(s))
    BY <1>2, LostOK
  <2> HIDE DEF e
  <2>3. e.lost >= r.lost
    BY <1>2, <2>2 DEF Conns
  <2>4. Mild(r, e) /\ (~preempt /\ mode # "resolve" => TellOK(e))
    BY <1>2, <2>2, <2>3, MildSame, TellSame
  <2>5. TypeOK'
    BY <1>1, <1>2, <1>u, <2>1, <2>2 DEF TypeOK
  <2>6. AppInv' /\ \A q : Creating(q)' <=> Creating(q)
    BY <1>1, <1>u, <2>1, <2>2, <2>4, NoThreadMoves
  <2>7. bq.slot = s => BusyOK(e)
    BY <1>1, <2>2, BusySlot DEF BusyOK
  <2> QED BY <1>1, <1>u, <2>1, <2>2, <2>4, <2>5, <2>6, <2>7, ChangeOne
<1> QED BY <1>3, <1>4

(* The application gives its reference back.                               *)
LEMMA AppUnrefStep ==
  ASSUME LInv, NEW s \in Slots, AppUnref(s)
  PROVE  LInv'
<1> DEFINE r == conn[s]
           e == Unref(r)
           n == Extra(s) - 1
<1>1. /\ r \in Conns /\ SlotOK(r, Extra(s)) /\ TypeOK
      /\ ~preempt /\ mode # "resolve" => TellOK(r)
      /\ s \in held /\ (\A b \in Apps : app[b].slot # s) /\ held' = held \ {s}
      /\ conn' = [conn EXCEPT ![s] = e]
  BY DEF LInv, TypeOK, SlotsInv, TellInv, AppUnref
<1>u. UNCHANGED <<mode, preempt, scanUser, initiating, dead, app, bq, mq, rxq, target, links, asked,
                  tries, stray>>
  BY DEF AppUnref, ctlVars
<1>2. \A q : Creating(q)' <=> Creating(q)
  BY <1>u DEF Creating
<1>3. n \in Nat /\ n + 1 = Extra(s) /\ Extra(s)' = n /\ \A q \in Slots : q # s => Extra(q)' = Extra(q)
  BY <1>1, <1>2, <1>u DEF Extra, Count
<1> HIDE DEF n
<1>4. SlotOK(e, n) /\ r.ref > 0 /\ e \in Conns
  <2>1. SlotOK(r, n + 1)
    BY <1>1, <1>3
  <2> QED BY <1>1, <1>3, <2>1, UnrefOK
<1>5. /\ e.state = r.state /\ e.timer = r.timer /\ e.log = r.log
      /\ e.peer = r.peer /\ e.handle = r.handle /\ e.lost = r.lost
  BY <1>1, <1>4, UnrefFields
<1> HIDE DEF e
<1>6. e.lost >= r.lost
  BY <1>1, <1>5 DEF Conns
<1>7. Mild(r, e) /\ (~preempt /\ mode # "resolve" => TellOK(e))
  BY <1>1, <1>4, <1>5, <1>6, MildSame, TellSame
<1>8. TypeOK'
  BY <1>1, <1>4, <1>u DEF TypeOK
<1>9. SlotsInv' /\ TellInv'
  BY <1>1, <1>3, <1>4, <1>7, <1>u, ChangeSlots
<1>f. Follows
  BY <1>u, ComingKept
<1>10. LinkInv'
  BY <1>1, <1>4, <1>7, <1>8, <1>9, <1>f, <1>u, ChangeLinks DEF Mild
<1>11. AppInv'
  <2>1. ASSUME NEW b \in Apps PROVE AppOK(app[b])'
    <3>1. AppOK(app[b]) /\ app'[b] = app[b] /\ app[b].slot # s
      BY <1>1, <1>u DEF LInv, AppInv
    <3>2. /\ app[b].slot \in held => app[b].slot \in held'
          /\ app[b].at = "create" => app[b].slot \notin held'
      BY <1>1, <3>1 DEF AppOK
    <3> QED BY <1>1, <1>4, <1>7, <1>u, <3>1, <3>2, ThreadKeeps DEF AppOK
  <2> QED BY <1>u, <2>1, ThreadsKeep
<1>12. BqInv'
  <2>1. bq.slot = s => BusyOK(e)
    BY <1>5, BusySlot DEF BusyOK
  <2> QED BY <1>1, <1>4, <1>f, <1>u, <2>1, BqKeeps
<1> QED BY <1>8, <1>9, <1>10, <1>11, <1>12 DEF LInv

-----------------------------------------------------------------------------
(* The timer of an attempt.                                                *)
LEMMA ExpireStep ==
  ASSUME LInv, NEW s \in Slots, Expire(s)
  PROVE  LInv'
<1> DEFINE r == conn[s]
           e == [r EXCEPT !.timer = "queued"]
<1>1. /\ r \in Conns /\ SlotOK(r, Extra(s)) /\ TypeOK /\ Extra(s) \in Nat
      /\ ~preempt /\ mode # "resolve" => TellOK(r)
      /\ r.timer = "delayed" /\ conn' = [conn EXCEPT ![s] = e]
  BY ExtraIsNat DEF LInv, TypeOK, SlotsInv, TellInv, Expire
<1>u. /\ UNCHANGED <<mode, preempt, held, scanUser, initiating, dead, app, bq, mq, rxq, target, links,
                     asked, tries, stray>>
      /\ Follows
  BY ComingKept DEF Expire, ctlVars
<1>2. /\ e \in Conns /\ e.state = r.state /\ e.log = r.log
      /\ e.peer = r.peer /\ e.handle = r.handle /\ e.lost = r.lost /\ SlotOK(e, Extra(s))
  BY <1>1, TimerOK
<1>3. r.state = "initiating"
  BY <1>1 DEF SlotOK
<1> HIDE DEF e
<1>4. e.lost >= r.lost
  BY <1>1, <1>2 DEF Conns
<1>5. Mild(r, e) /\ (~preempt /\ mode # "resolve" => TellOK(e))
  BY <1>1, <1>2, <1>3, <1>4, MildSame, TellSame
<1>6. TypeOK'
  BY <1>1, <1>2, <1>u DEF TypeOK
<1>7. AppInv' /\ \A q : Creating(q)' <=> Creating(q)
  BY <1>1, <1>2, <1>5, <1>u, NoThreadMoves
<1>8. bq.slot = s => BusyOK(e)
  BY <1>2, <1>3, BusySlot DEF BusyOK
<1> QED BY <1>1, <1>2, <1>5, <1>6, <1>7, <1>8, <1>u, ChangeOne

(* deferred_work.                                                          *)
LEMMA DeferredWorkStep ==
  ASSUME LInv, NEW s \in Slots, DeferredWork(s)
  PROVE  LInv'
<1> DEFINE r == conn[s]
<1>1. /\ r \in Conns /\ SlotOK(r, Extra(s)) /\ TypeOK /\ Extra(s) \in Nat
      /\ ~preempt /\ mode # "resolve" => TellOK(r)
      /\ r.timer = "queued"
  BY ExtraIsNat DEF LInv, TypeOK, SlotsInv, TellInv, DeferredWork
<1>u. /\ UNCHANGED <<mode, preempt, held, scanUser, initiating, dead, app, bq, rxq, target, links,
                     asked, tries, stray>>
      /\ Follows
  BY ComingKept DEF DeferredWork, ctlVars
<1>b. bq.slot = s => bq.at # "pending" /\ BusyOK(r)
  BY <1>1, BusySlot DEF BusyOK
<1>2. ASSUME NEW e \in Conns, conn' = [conn EXCEPT ![s] = e], mq' \in Waiting, SlotOK(e, Extra(s)),
             e.state = r.state, e.peer = r.peer, e.handle = r.handle, e.lost = r.lost,
             ~preempt /\ mode # "resolve" => TellOK(e)
      PROVE  LInv'
  <2>1. e.lost >= r.lost
    BY <1>1, <1>2 DEF Conns
  <2>2. Mild(r, e)
    BY <1>1, <1>2, <2>1, MildSame
  <2>3. TypeOK'
    BY <1>1, <1>2, <1>u DEF TypeOK
  <2>4. AppInv' /\ \A q : Creating(q)' <=> Creating(q)
    BY <1>2, <1>u, <2>2, NoThreadMoves
  <2>5. bq.slot = s => BusyOK(e)
    BY <1>2, <1>b DEF BusyOK
  <2> QED BY <1>1, <1>2, <1>u, <2>2, <2>3, <2>4, <2>5, ChangeOne
<1>3. CASE r.state = "disconnected"
  <2> DEFINE e == Unref(Log([r EXCEPT !.timer = "none"], "disconnected"))
  <2>1. conn' = [conn EXCEPT ![s] = e] /\ mq' \in Waiting
    BY <1>1, <1>3 DEF DeferredWork, TypeOK
  <2>2. /\ e \in Conns /\ e.state = r.state /\ e.timer = "none" /\ e.log = Append(r.log, "disconnected")
        /\ e.peer = r.peer /\ e.handle = r.handle /\ e.lost = r.lost /\ SlotOK(e, Extra(s))
    BY <1>1, <1>3, DeferredOK
  <2> HIDE DEF e
  <2>3. ~preempt /\ mode # "resolve" => TellOK(e)
    BY <1>1, <1>3, <2>2, TellDeferred
  <2> QED BY <1>2, <2>1, <2>2, <2>3
<1>4. CASE r.state # "disconnected"
  <2> DEFINE e == [r EXCEPT !.timer = "none"]
  <2>1. conn' = [conn EXCEPT ![s] = e] /\ mq' = [at |-> "cancel", slot |-> s]
    BY <1>4 DEF DeferredWork
  <2>2. mq' \in Waiting
    BY <2>1 DEF Waiting
  <2>3. /\ e \in Conns /\ e.state = r.state /\ e.log = r.log
        /\ e.peer = r.peer /\ e.handle = r.handle /\ e.lost = r.lost /\ SlotOK(e, Extra(s))
    BY <1>1, <1>4, TimerOK
  <2> HIDE DEF e
  <2>4. e.lost >= r.lost
    BY <1>1, <2>3 DEF Conns
  <2>5. ~preempt /\ mode # "resolve" => TellOK(e)
    BY <1>1, <1>4, <2>3, <2>4, TellSame
  <2> QED BY <1>2, <2>1, <2>2, <2>3, <2>5
<1> QED BY <1>3, <1>4

LEMMA MainQueueStep ==
  ASSUME LInv, TimeoutCancel \/ Return
  PROVE  LInv'
<1>0. TypeOK
  BY DEF LInv
<1>1. CASE TimeoutCancel
  <2>1. /\ rxq' \in Seq(Events) /\ initiating' \in BOOLEAN /\ target' \in Peers \cup {ADDR_NONE, NULL}
        /\ Follows
    BY <1>0, <1>1, CancelCmdFacts DEF TimeoutCancel
  <2>2. mq' \in Waiting
    BY <1>0, <1>1 DEF TimeoutCancel, TypeOK, Waiting
  <2>3. UNCHANGED <<mode, preempt, conn, held, scanUser, dead, app, bq, links, asked, tries, stray>>
    BY <1>1 DEF TimeoutCancel
  <2>4. TypeOK'
    BY <1>0, <2>1, <2>2, <2>3 DEF TypeOK
  <2> QED BY <2>1, <2>3, <2>4, NothingMoves
<1>2. CASE Return
  <2>1. UNCHANGED <<mode, preempt, conn, held, scanUser, dead, app, bq, links, asked, tries, stray>>
    BY <1>2 DEF Return, hostVars, ctlVars
  <2>2. Follows
    BY <1>2, ComingKept DEF Return, ctlVars
  <2>3. TypeOK'
    BY <1>0, <1>2, IdleOK DEF Return, TypeOK, hostVars, ctlVars
  <2> QED BY <2>1, <2>2, <2>3, NothingMoves
<1> QED BY <1>1, <1>2

-----------------------------------------------------------------------------
(* The controller and the receive thread.                                  *)
LEMMA ReportStep ==
  ASSUME LInv, NEW p \in Peers, Report(p)
  PROVE  LInv'
<1> DEFINE x == [ev |-> "report", peer |-> p]
<1>0. TypeOK /\ x \in Events /\ x.ev # "connected" /\ rxq' = Append(rxq, x)
  BY DEF LInv, Events, Report
<1> HIDE DEF x
<1>2. UNCHANGED <<mode, preempt, conn, held, scanUser, initiating, dead, app, bq, mq, target, links,
                  asked, tries, stray>>
  BY DEF Report, hostVars
<1>1. rxq' \in Seq(Events) /\ Follows
  BY <1>0, <1>2, FollowsAppend
<1>3. TypeOK'
  BY <1>0, <1>1, <1>2 DEF TypeOK
<1> QED BY <1>1, <1>2, <1>3, NothingMoves

(* The event that is being handled is on its way.                          *)
LEMMA ArrivingHead ==
  ASSUME LInv, bq.at \in Arriving
  PROVE  /\ Head(rxq).handle \in Handles /\ Head(rxq).peer \in Peers
         /\ Coming(Head(rxq).handle)
<1>1. rxq \in Seq(Events) /\ rxq # <<>> /\ Head(rxq).ev = "connected"
  BY DEF LInv, TypeOK, BqInv
<1>2. Len(rxq) \in Nat /\ Len(rxq) # 0
  BY <1>1, LenProperties, EmptySeq
<1>3. Head(rxq) = rxq[1] /\ Head(rxq) \in Events /\ 1 \in 1..Len(rxq)
  BY <1>1, <1>2, HeadTailProperties
<1>4. Head(rxq).handle \in Handles /\ Head(rxq).peer \in Peers
  BY <1>1, <1>3 DEF Events
<1> QED BY <1>1, <1>3, <1>4 DEF Coming

LEMMA EstablishStep ==
  ASSUME LInv, NEW p \in Peers, NEW h \in Handles, Establish(p, h)
  PROVE  LInv'
<1> DEFINE x == [ev |-> "connected", handle |-> h, peer |-> p]
<1>0. TypeOK /\ x \in Events /\ x.ev = "connected" /\ x.handle = h /\ rxq' = Append(rxq, x)
  BY DEF LInv, Events, Establish
<1> HIDE DEF x
<1>1. /\ rxq' \in Seq(Events) /\ \A g : Coming(g)' <=> Coming(g) \/ g = h
      /\ rxq # <<>> => rxq' # <<>> /\ Head(rxq') = Head(rxq)
  BY <1>0, ComingAppend
<1>2. /\ UNCHANGED <<mode, preempt, conn, held, scanUser, initiating, dead, app, bq, mq,
                     asked, tries, stray>>
      /\ links' = [links EXCEPT ![h] = p] /\ target' = NULL
  BY DEF Establish, hostVars
<1>3. TypeOK'
  BY <1>0, <1>1, <1>2 DEF TypeOK
<1>4. \A q \in Slots : Extra(q)' = Extra(q)
  BY <1>2 DEF Extra, Creating
<1>5. SlotsInv' /\ TellInv'
  BY <1>2, <1>4, SameSlots
<1>6. AppInv' /\ BqInv'
  <2>1. AppInv'
    BY <1>2 DEF LInv, AppInv, AppOK
  <2>2. BqInv'
    BY <1>1, <1>2 DEF LInv, BqInv, BusyOK
  <2> QED BY <2>1, <2>2
<1>7. LinkInv'
  <2> SUFFICES ASSUME ~Eager, Orderly' PROVE LinkInv'
    BY DEF LinkInv
  <2>1. Orderly
    BY <1>2 DEF Orderly
  <2>2. /\ \A g \in Handles : links[g] # NULL \/ Has(dead, g) => Coming(g) \/ LookupHandle(g) # {}
        /\ \A g \in Handles : Has(dead, g) => links[g] = NULL
        /\ Once(dead, Handles)
        /\ \A q \in Slots : conn[q].state = "complete" =>
             links[conn[q].handle] = NULL /\ ~Has(dead, conn[q].handle)
        /\ bq.at = "noted" => links[Head(rxq).handle] = NULL /\ ~Has(dead, Head(rxq).handle)
    BY <2>1 DEF LInv, LinkInv
  <2>3. ~Coming(h) /\ LookupHandle(h) = {}
    BY DEF Establish, Settled, Coming
  <2>4. \A g \in Handles : links'[g] = IF g = h THEN p ELSE links[g]
    BY <1>0, <1>2 DEF TypeOK
  <2>5. \A q \in Slots : conn[q].state = "complete" => conn[q].handle \in Handles /\ conn[q].handle # h
    <3>1. ASSUME NEW q \in Slots, conn[q].state = "complete" PROVE conn[q].handle \in Handles /\ conn[q].handle # h
      <4>1. SlotOK(conn[q], Extra(q))
        BY DEF LInv, SlotsInv
      <4>2. conn[q].handle \in Handles
        BY <3>1, <4>1 DEF SlotOK, Valid
      <4> QED BY <2>3, <3>1, <4>2, LookupFacts DEF LInv, Valid
    <3> QED BY <3>1
  <2>6. \A g : LookupHandle(g)' = LookupHandle(g)
    BY <1>2 DEF LookupHandle
  <2>7. \A g \in Handles : links'[g] # NULL \/ Has(dead, g) => Coming(g)' \/ LookupHandle(g)' # {}
    BY <1>1, <2>2, <2>4, <2>6
  <2>8. \A g \in Handles : Has(dead, g) => links'[g] = NULL
    BY <2>2, <2>3, <2>4
  <2>9. \A q \in Slots : conn[q].state = "complete" =>
          links'[conn[q].handle] = NULL /\ ~Has(dead, conn[q].handle)
    BY <2>2, <2>4, <2>5
  <2>10. ASSUME bq.at = "noted" PROVE links'[Head(rxq').handle] = NULL /\ ~Has(dead, Head(rxq').handle)
    <3>1. rxq # <<>> /\ Head(rxq').handle = Head(rxq).handle
      BY <1>1, <2>10 DEF LInv, BqInv, Arriving
    <3>2. Head(rxq).handle \in Handles /\ Coming(Head(rxq).handle)
      BY <2>10, ArrivingHead DEF Arriving
    <3> QED BY <2>2, <2>3, <2>4, <2>10, <3>1, <3>2
  <2> QED BY <1>2, <2>2, <2>7, <2>8, <2>9, <2>10 DEF LinkInv
<1> QED BY <1>3, <1>5, <1>6, <1>7 DEF LInv

(* An object in use has a reference.                                       *)
LEMMA UsedHasRef ==
  ASSUME NEW r \in Conns, NEW n \in Nat, SlotOK(r, n), r.state # "disconnected"
  PROVE  r.ref > 0
<1>1. r.ref >= n + Count(Stack(r)) + r.lost + Surplus(r)
  BY DEF SlotOK
<1>2. Count(Stack(r)) = 1 /\ r.lost \in Nat /\ Surplus(r) \in Nat /\ r.ref \in Nat
  BY DEF Conns, Surplus, Count, Stack
<1> QED BY <1>1, <1>2

(* A link ends whose object is found.                                      *)
LEMMA DroppedFound ==
  ASSUME LInv, NEW h \in Handles, Dropped(h), LookupHandle(h) # {}
  PROVE  LInv'
<1>0. PICK s : s = First(LookupHandle(h))
  OBVIOUS
<1> DEFINE r == conn[s]
           e == Enter(r, "complete")
           x == [ev |-> "disconnected", handle |-> h]
<1>1. s \in Slots /\ r.state \in Valid /\ r.handle = h
  <2>1. LookupHandle(h) \subseteq Slots
    BY DEF LookupHandle
  <2>2. s \in LookupHandle(h) /\ s \in Slots
    BY <1>0, <2>1, FoundIsSlot
  <2> QED BY <2>2, LookupFacts DEF LInv
<1>2. /\ r \in Conns /\ SlotOK(r, Extra(s)) /\ TypeOK /\ Extra(s) \in Nat
      /\ ~preempt /\ mode # "resolve" => TellOK(r)
      /\ conn' = [conn EXCEPT ![s] = e] /\ UNCHANGED dead
  BY <1>0, <1>1, ExtraIsNat DEF LInv, TypeOK, SlotsInv, TellInv, Dropped
<1>3. x \in Events /\ x.ev # "connected" /\ rxq' = Append(rxq, x)
  BY DEF Events, Dropped
<1>u. /\ UNCHANGED <<mode, preempt, held, scanUser, initiating, app, bq, mq, target, tries, stray>>
      /\ links' = [links EXCEPT ![h] = NULL] /\ asked' = asked \ {h}
  BY DEF Dropped
<1>4. /\ e \in Conns /\ e.state = "complete"
      /\ e.peer = r.peer /\ e.handle = r.handle /\ e.log = r.log /\ e.lost = r.lost
  BY <1>2, EnterFields DEF ConnStates
<1>5. SlotOK(e, Extra(s))
  <2>1. r.peer \in Peers /\ r.handle \in Handles
    BY <1>1, <1>2 DEF SlotOK
  <2>2. r.state # "disconnected"
    BY <1>1 DEF Valid
  <2> QED BY <1>2, <2>1, <2>2, EnterOK DEF Valid
<1>6. ~preempt /\ mode # "resolve" => TellOK(e)
  BY <1>1, <1>2, <1>4, TellEnding
<1> HIDE DEF e, x
<1>7. rxq' \in Seq(Events) /\ (\A g : Coming(g)' <=> Coming(g)) /\ Follows
  BY <1>3, <1>u, FollowsAppend
<1>8. TypeOK'
  <2>1. conn' \in [Slots -> Conns] /\ links' \in [Handles -> Peers \cup {NULL}] /\ asked' \subseteq Handles
    BY <1>1, <1>2, <1>4, <1>u DEF TypeOK
  <2> QED BY <1>2, <1>7, <1>u, <2>1 DEF TypeOK
<1>9. \A q \in Slots : Extra(q)' = Extra(q)
  BY <1>u DEF Extra, Creating
<1>10. SlotsInv' /\ TellInv'
  <2>1. SlotOK(e, Extra(s)')
    BY <1>1, <1>5, <1>9
  <2> QED BY <1>1, <1>2, <1>4, <1>6, <1>9, <1>u, <2>1, ChangeSlots
<1>11. AppInv'
  <2>1. Sane(r, e)
    BY <1>4 DEF Sane, Attempt
  <2>2. ASSUME NEW b \in Apps PROVE AppOK(app[b])'
    <3>1. AppOK(app[b]) /\ app'[b] = app[b]
      BY <1>u DEF LInv, AppInv
    <3> QED BY <1>1, <1>2, <1>4, <1>u, <2>1, <3>1, ThreadStays DEF AppOK
  <2> QED BY <1>u, <2>2, ThreadsKeep
<1>12. BqInv'
  <2>1. bq.slot = s => BusyOK(e)
    BY <1>1, BusySlot DEF BusyOK, Valid
  <2> QED BY <1>1, <1>2, <1>4, <1>7, <1>u, <2>1, BqKeeps
<1>13. LinkInv'
  <2> SUFFICES ASSUME ~Eager, Orderly' PROVE LinkInv'
    BY DEF LinkInv
  <2>0. \A q \in Slots : conn'[q] = IF q = s THEN e ELSE conn[q]
    BY <1>2 DEF TypeOK
  <2>1. Orderly
    <3>1. \A q \in Slots : conn'[q].lost = 0
      BY DEF Orderly
    <3>2. \A q \in Slots : conn[q].lost = 0
      BY <1>4, <2>0, <3>1
    <3> QED BY <1>u, <3>2 DEF Orderly
  <2>2. /\ \A g \in Handles : links[g] # NULL \/ Has(dead, g) => Coming(g) \/ LookupHandle(g) # {}
        /\ \A g \in Handles : Has(dead, g) => links[g] = NULL
        /\ Once(dead, Handles)
        /\ \A q \in Slots : conn[q].state = "complete" =>
             links[conn[q].handle] = NULL /\ ~Has(dead, conn[q].handle)
        /\ bq.at = "noted" => links[Head(rxq).handle] = NULL /\ ~Has(dead, Head(rxq).handle)
    BY <2>1 DEF LInv, LinkInv
  <2>3. \A g \in Handles : links'[g] = IF g = h THEN NULL ELSE links[g]
    BY <1>2, <1>u DEF TypeOK
  <2>4. ASSUME NEW g \in Handles, g # h, LookupHandle(g) # {} PROVE LookupHandle(g)' # {}
    <3>1. PICK q \in Slots : conn[q].ref > 0 /\ HandleValid(conn[q]) /\ conn[q].handle = g
      BY <2>4 DEF LookupHandle
    <3>2. conn'[q] = conn[q]
      BY <1>1, <2>0, <2>4, <3>1
    <3> QED BY <3>1, <3>2 DEF LookupHandle
  <2>l. LookupHandle(h)' # {}
    <3>1. e.ref > 0
      BY <1>2, <1>4, <1>5, UsedHasRef
    <3> QED BY <1>1, <1>4, <2>0, <3>1 DEF LookupHandle, HandleValid
  <2>5. \A g \in Handles : links'[g] # NULL \/ Has(dead, g) => Coming(g)' \/ LookupHandle(g)' # {}
    BY <1>7, <2>2, <2>3, <2>4, <2>l
  <2>6. (\A g \in Handles : Has(dead, g) => links'[g] = NULL) /\ ~Has(dead, h)
    <3>1. links[h] # NULL
      BY DEF Dropped
    <3> QED BY <2>2, <2>3, <3>1
  <2>7. ASSUME NEW q \in Slots, conn'[q].state = "complete"
        PROVE  links'[conn'[q].handle] = NULL /\ ~Has(dead, conn'[q].handle)
    <3>1. CASE q = s
      BY <1>1, <1>4, <2>0, <2>3, <2>6, <3>1
    <3>2. CASE q # s
      <4>1. conn[q].state = "complete" /\ conn'[q] = conn[q] /\ SlotOK(conn[q], Extra(q))
        BY <2>0, <2>7, <3>2 DEF LInv, SlotsInv
      <4>2. conn[q].handle \in Handles
        BY <4>1 DEF SlotOK, Valid
      <4> QED BY <2>2, <2>3, <4>1, <4>2
    <3> QED BY <3>1, <3>2
  <2>8. ASSUME bq.at = "noted" PROVE links'[Head(rxq').handle] = NULL /\ ~Has(dead, Head(rxq').handle)
    <3>1. Head(rxq') = Head(rxq)
      BY <1>7, <1>u, <2>8 DEF Follows, Arriving
    <3>2. Head(rxq).handle \in Handles
      BY <2>8, ArrivingHead DEF Arriving
    <3> QED BY <2>2, <2>3, <2>8, <3>1, <3>2
  <2> QED BY <1>2, <1>u, <2>2, <2>5, <2>6, <2>7, <2>8 DEF LinkInv
<1> QED BY <1>8, <1>10, <1>11, <1>12, <1>13 DEF LInv

(* A link ends whose object is not connected yet: the note.                *)
LEMMA DroppedNoted ==
  ASSUME LInv, NEW h \in Handles, Dropped(h), LookupHandle(h) = {}
  PROVE  LInv'
<1> DEFINE x == [ev |-> "disconnected", handle |-> h]
<1>1. x \in Events /\ x.ev # "connected" /\ rxq' = Append(rxq, x) /\ TypeOK
  BY DEF Events, Dropped, LInv
<1> HIDE DEF x
<1>u. /\ UNCHANGED <<conn, mode, preempt, held, scanUser, initiating, app, bq, mq, target, tries, stray>>
      /\ links' = [links EXCEPT ![h] = NULL] /\ asked' = asked \ {h} /\ links[h] # NULL
      /\ dead' = Append(dead, h) \/ dead' = dead
  BY DEF Dropped
<1>2. rxq' \in Seq(Events) /\ (\A g : Coming(g)' <=> Coming(g)) /\ Follows
  BY <1>1, <1>u, FollowsAppend
<1>3. TypeOK'
  <2>1. dead' \in Seq(Handles)
    <3>1. dead \in Seq(Handles)
      BY <1>1 DEF TypeOK
    <3>2. Append(dead, h) \in Seq(Handles)
      BY <3>1, AppendFacts
    <3> QED BY <1>u, <3>1, <3>2
  <2>2. links' \in [Handles -> Peers \cup {NULL}] /\ asked' \subseteq Handles
    BY <1>1, <1>u DEF TypeOK
  <2> QED BY <1>1, <1>2, <1>u, <2>1, <2>2 DEF TypeOK
<1>4. \A q \in Slots : Extra(q)' = Extra(q)
  BY <1>u DEF Extra, Creating
<1>5. SlotsInv' /\ TellInv'
  BY <1>u, <1>4, SameSlots
<1>6. AppInv' /\ BqInv'
  BY <1>2, <1>u, BqStays DEF LInv, AppInv, AppOK
<1>7. LinkInv'
  <2> SUFFICES ASSUME ~Eager, Orderly' PROVE LinkInv'
    BY DEF LinkInv
  <2>1. Orderly
    BY <1>u DEF Orderly
  <2>2. /\ \A g \in Handles : links[g] # NULL \/ Has(dead, g) => Coming(g) \/ LookupHandle(g) # {}
        /\ \A g \in Handles : Has(dead, g) => links[g] = NULL
        /\ Once(dead, Handles)
        /\ \A q \in Slots : conn[q].state = "complete" =>
             links[conn[q].handle] = NULL /\ ~Has(dead, conn[q].handle)
        /\ bq.at = "noted" => links[Head(rxq).handle] = NULL /\ ~Has(dead, Head(rxq).handle)
    BY <2>1 DEF LInv, LinkInv
  <2>3. \A g \in Handles : links'[g] = IF g = h THEN NULL ELSE links[g]
    BY <1>1, <1>u DEF TypeOK
  <2>4. Coming(h) /\ ~Has(dead, h)
    BY <1>u, <2>2
  <2>5. (\A g : Has(dead', g) => Has(dead, g) \/ g = h) /\ Once(dead', Handles)
    <3>1. CASE dead' = dead
      BY <2>2, <3>1
    <3>2. CASE dead' = Append(dead, h)
      <4>1. dead \in Seq(Handles)
        BY <1>1 DEF TypeOK
      <4> QED BY <2>2, <2>4, <3>2, <4>1, AppendHas
    <3> QED BY <1>u, <3>1, <3>2
  <2>6. \A g : LookupHandle(g)' = LookupHandle(g)
    BY <1>u DEF LookupHandle
  <2>7. \A g \in Handles : links'[g] # NULL \/ Has(dead', g) => Coming(g)' \/ LookupHandle(g)' # {}
    BY <1>2, <2>2, <2>3, <2>4, <2>5, <2>6
  <2>8. \A g \in Handles : Has(dead', g) => links'[g] = NULL
    BY <2>2, <2>3, <2>5
  <2>9. ASSUME NEW q \in Slots, conn[q].state = "complete"
        PROVE  links'[conn[q].handle] = NULL /\ ~Has(dead', conn[q].handle)
    <3>1. SlotOK(conn[q], Extra(q))
      BY DEF LInv, SlotsInv
    <3>2. conn[q].handle \in Handles
      BY <2>9, <3>1 DEF SlotOK, Valid
    <3>3. conn[q].handle # h
      BY <2>9, <3>2, LookupFacts DEF LInv, Valid
    <3> QED BY <2>2, <2>3, <2>5, <2>9, <3>2, <3>3
  <2>10. ASSUME bq.at = "noted" PROVE links'[Head(rxq').handle] = NULL /\ ~Has(dead', Head(rxq').handle)
    <3>1. Head(rxq') = Head(rxq)
      BY <1>2, <1>u, <2>10 DEF Follows, Arriving
    <3>2. Head(rxq).handle \in Handles
      BY <2>10, ArrivingHead DEF Arriving
    <3> QED BY <1>u, <2>2, <2>3, <2>5, <2>10, <3>1, <3>2
  <2> QED BY <1>u, <2>5, <2>7, <2>8, <2>9, <2>10 DEF LinkInv
<1> QED BY <1>3, <1>5, <1>6, <1>7 DEF LInv

-----------------------------------------------------------------------------
(* The Bluetooth work queue.                                               *)

(* An attempt that waits for a link.                                       *)
LEMMA PendingIsAttempt ==
  ASSUME NEW p, FindPending(p) # {}, NEW s, s = First(FindPending(p))
  PROVE  s \in Slots /\ conn[s].state \in {"initiating", "filter"}
<1>1. /\ FindPending(p) \subseteq Slots
      /\ \A q \in FindPending(p) : conn[q].state \in {"initiating", "filter"}
  BY DEF FindPending, LookupState
<1>2. s \in FindPending(p)
  BY <1>1, FoundIsSlot
<1> QED BY <1>1, <1>2

(* The note about a handle is used up.                                     *)
LEMMA ForgetFacts ==
  ASSUME TypeOK, NEW h \in Handles
  PROVE  /\ Forget(h) \in Seq(Handles) /\ (Contains(dead, h) <=> Has(dead, h))
         /\ Once(dead, Handles) =>
              /\ Once(Forget(h), Handles)
              /\ \A g \in Handles : Has(Forget(h), g) <=> Has(dead, g) /\ g # h
<1>0. dead \in Seq(Handles) /\ Len(dead) \in Nat
  BY LenProperties DEF TypeOK
<1>1. Contains(dead, h) <=> Has(dead, h)
  BY DEF Contains, Has
<1>2. CASE Has(dead, h)
  <2> DEFINE S == {i \in 1..Len(dead) : dead[i] = h}
  <2>1. S \subseteq Nat /\ S # {}
    BY <1>0, <1>2 DEF Has
  <2>2. PICK k : k = First(S)
    OBVIOUS
  <2>3. k \in 1..Len(dead) /\ dead[k] = h
    <3>1. k \in S
      BY <2>1, <2>2, FirstIsElement
    <3> QED BY <3>1
  <2>4. Forget(h) = RemoveAt(dead, k)
    BY <1>1, <1>2, <2>2 DEF Forget
  <2>5. RemoveAt(dead, k) \in Seq(Handles)
    BY <1>0, <2>3, RemoveAtFacts
  <2>6. Once(dead, Handles) =>
          /\ Once(RemoveAt(dead, k), Handles)
          /\ \A g \in Handles : Has(RemoveAt(dead, k), g) <=> Has(dead, g) /\ g # h
    BY <1>0, <2>3, RemoveHas
  <2> QED BY <1>1, <2>4, <2>5, <2>6
<1>3. CASE ~Has(dead, h)
  <2>1. Forget(h) = dead
    BY <1>1, <1>3 DEF Forget
  <2> QED BY <1>0, <1>1, <1>3, <2>1
<1> QED BY <1>2, <1>3

(* The object a link is given to, which may have ended.                    *)
LEMMA ConnectedObject ==
  ASSUME TypeOK, NEW c \in Conns, NEW n \in Nat, SlotOK(c, n),
         preempt \/ c.state \in {"initiating", "filter"},
         NEW v, NEW p \in Peers, NEW h \in Handles, v.peer = p, v.handle = h, NEW ended \in BOOLEAN
  PROVE  LET e == Linked(c, v, ended)
         IN  /\ e \in Conns /\ SlotOK(e, n) /\ e.peer = p /\ e.handle = h /\ e.lost = c.lost
             /\ e.state = IF ended THEN "complete" ELSE "connected"
             /\ c.state \in {"initiating", "filter"} /\ TellOK(c) => TellOK(e)
<1> DEFINE r == [c EXCEPT !.peer = p, !.handle = h]
           up == Enter(r, "connected")
           down == Enter(up, "complete")
           e == IF ended THEN Log(down, "failed") ELSE Log(up, "connected")
<1>1. /\ r \in Conns /\ r.state = c.state /\ r.timer = c.timer /\ r.log = c.log /\ r.ref = c.ref
      /\ r.peer = p /\ r.handle = h /\ r.lost = c.lost
  BY DEF Conns
<1> HIDE DEF r
<1>2. SlotOK(r, n)
  BY <1>1 DEF SlotOK, Stack, Surplus, Valid
<1>3. /\ up \in Conns /\ up.state = "connected" /\ up.log = c.log /\ up.lost = c.lost
      /\ up.peer = p /\ up.handle = h
  BY <1>1, EnterFields DEF ConnStates
<1>4. SlotOK(up, n)
  BY <1>1, <1>2, EnterOK DEF Valid
<1> HIDE DEF up
<1>5. /\ down \in Conns /\ down.state = "complete" /\ down.log = c.log /\ down.lost = c.lost
      /\ down.peer = p /\ down.handle = h
  BY <1>3, EnterFields DEF ConnStates
<1>6. SlotOK(down, n)
  BY <1>3, <1>4, EnterOK DEF Valid
<1> HIDE DEF down
<1>7. ASSUME NEW b \in Conns, NEW what \in {"connected", "failed"}, SlotOK(b, n)
      PROVE  SlotOK(Log(b, what), n)
  <2> DEFINE d == Log(b, what)
  <2>1. /\ d.ref = b.ref /\ d.state = b.state /\ d.timer = b.timer
        /\ d.peer = b.peer /\ d.handle = b.handle /\ d.lost = b.lost
    BY <1>7, LogFields
  <2> HIDE DEF d
  <2>2. SlotOK(d, n)
    BY <1>7, <2>1 DEF SlotOK, Stack, Surplus
  <2> QED BY <2>2 DEF d
<1>8. /\ e \in Conns /\ SlotOK(e, n) /\ e.peer = p /\ e.handle = h /\ e.lost = c.lost
      /\ e.state = IF ended THEN "complete" ELSE "connected"
      /\ e.log = Append(c.log, IF ended THEN "failed" ELSE "connected")
  <2>1. CASE ended
    BY <1>5, <1>6, <1>7, <2>1, LogFields
  <2>2. CASE ~ended
    BY <1>3, <1>4, <1>7, <2>2, LogFields
  <2> QED BY <2>1, <2>2
<1> HIDE DEF e
<1>9. c.state \in {"initiating", "filter"} /\ TellOK(c) => TellOK(e)
  BY <1>8, TellConnected
<1>10. Linked(c, v, ended) = e
  BY DEF Linked, r, up, down, e
<1> QED BY <1>8, <1>9, <1>10

(* bt_hci_le_enh_conn_complete: a link for nobody.                         *)
LEMMA ConnCompleteStray ==
  ASSUME LInv, ConnComplete, FindPending(Head(rxq).peer) = {}
  PROVE  LInv'
<1>0. TypeOK /\ rxq # <<>> /\ rxq' = Tail(rxq) /\ Head(rxq).ev = "connected" /\ bq = Idle
  BY DEF LInv, ConnComplete
<1>1. rxq' \in Seq(Events) /\ Head(rxq).handle \in Handles
  <2>1. rxq' \in Seq(Events) /\ Head(rxq) \in Events
    BY <1>0, ComingTail
  <2> QED BY <1>0, <2>1 DEF Events
<1>u. /\ UNCHANGED <<mode, preempt, conn, held, scanUser, app, bq, mq, target, links, tries>>
      /\ dead' = Forget(Head(rxq).handle) /\ initiating' = FALSE /\ stray' = TRUE
      /\ DisconnectCmd(Head(rxq).handle)
  BY DEF ConnComplete
<1>2. TypeOK'
  <2>1. dead' \in Seq(Handles)
    BY <1>0, <1>1, <1>u, ForgetFacts
  <2>2. asked' \subseteq Handles
    BY <1>0, <1>1, <1>u DEF DisconnectCmd, TypeOK
  <2> QED BY <1>0, <1>1, <1>u, <2>1, <2>2 DEF TypeOK
<1>3. \A q \in Slots : Extra(q)' = Extra(q)
  BY <1>u DEF Extra, Creating
<1>4. SlotsInv' /\ TellInv'
  BY <1>u, <1>3, SameSlots
<1>5. AppInv' /\ BqInv'
  BY <1>0, <1>u, BqIdle DEF LInv, AppInv, AppOK
<1>6. LinkInv'
  BY <1>u DEF LinkInv, Orderly
<1> QED BY <1>2, <1>4, <1>5, <1>6 DEF LInv

(* bt_hci_le_enh_conn_complete: a link that an attempt waits for.          *)
LEMMA ConnCompleteFound ==
  ASSUME LInv, ConnComplete, FindPending(Head(rxq).peer) # {}, ~preempt
  PROVE  LInv'
<1>0. TypeOK /\ rxq # <<>> /\ rxq' = Tail(rxq) /\ Head(rxq).ev = "connected" /\ bq = Idle
  BY DEF LInv, ConnComplete
<1>1. PICK h \in Handles, p \in Peers : h = Head(rxq).handle /\ p = Head(rxq).peer
  <2>1. Head(rxq) \in Events
    BY <1>0, ComingTail
  <2>2. Head(rxq).handle \in Handles /\ Head(rxq).peer \in Peers
    BY <1>0, <2>1 DEF Events
  <2> QED BY <2>2
<1>2. rxq' \in Seq(Events) /\ \A g : Coming(g) <=> Coming(g)' \/ g = h
  BY <1>0, <1>1, ComingTail
<1>3. PICK s : s = First(FindPending(p))
  OBVIOUS
<1>4. s \in Slots /\ conn[s].state \in {"initiating", "filter"}
  BY <1>1, <1>3, PendingIsAttempt
<1>e. PICK ended \in BOOLEAN : ended <=> Contains(dead, h)
  <2>1. Contains(dead, h) \in BOOLEAN
    BY DEF Contains
  <2> QED BY <2>1
<1> DEFINE c == conn[s]
           e == Linked(c, Head(rxq), ended)
<1>u. /\ UNCHANGED <<mode, preempt, held, scanUser, app, bq, mq, target, links, asked, tries>>
      /\ dead' = Forget(h) /\ initiating' = FALSE /\ stray' = stray
      /\ conn' = [conn EXCEPT ![s] = e]
  <2>1. stray' = (stray \/ FALSE)
    BY <1>1 DEF ConnComplete
  <2>2. stray' = stray
    BY <1>0, <2>1 DEF TypeOK
  <2>3. conn' = [conn EXCEPT ![s] = e]
    <3>1. conn' = [conn EXCEPT ![s] = Linked(@, Head(rxq), Contains(dead, h))]
      BY <1>1, <1>3 DEF ConnComplete
    <3>2. Contains(dead, h) = ended
      BY <1>e DEF Contains
    <3> QED BY <3>1, <3>2
  <2>4. /\ UNCHANGED <<mode, preempt, held, scanUser, app, bq, mq, target, links, asked, tries>>
        /\ dead' = Forget(h) /\ initiating' = FALSE
    BY <1>1 DEF ConnComplete
  <2> QED BY <2>2, <2>3, <2>4
<1>5. /\ c \in Conns /\ SlotOK(c, Extra(s)) /\ Extra(s) \in Nat
      /\ ~preempt /\ mode # "resolve" => TellOK(c)
  BY <1>4, ExtraIsNat DEF LInv, TypeOK, SlotsInv, TellInv
<1>6. /\ Forget(h) \in Seq(Handles) /\ (Contains(dead, h) <=> Has(dead, h))
      /\ Once(dead, Handles) =>
           /\ Once(Forget(h), Handles)
           /\ \A g \in Handles : Has(Forget(h), g) <=> Has(dead, g) /\ g # h
  BY <1>0, ForgetFacts
<1>7. /\ e \in Conns /\ SlotOK(e, Extra(s)) /\ e.peer = p /\ e.handle = h /\ e.lost = c.lost
      /\ e.state = IF ended THEN "complete" ELSE "connected"
      /\ TellOK(c) => TellOK(e)
  BY <1>0, <1>1, <1>4, <1>5, ConnectedObject
<1> HIDE DEF e
<1>8. TypeOK'
  <2>1. conn' \in [Slots -> Conns]
    BY <1>0, <1>4, <1>7, <1>u DEF TypeOK
  <2> QED BY <1>0, <1>2, <1>6, <1>u, <2>1 DEF TypeOK
<1>9. \A q \in Slots : Extra(q)' = Extra(q)
  BY <1>u DEF Extra, Creating
<1>10. SlotsInv' /\ TellInv'
  <2>1. SlotOK(e, Extra(s)')
    BY <1>4, <1>7, <1>9
  <2> QED BY <1>4, <1>5, <1>7, <1>9, <1>u, <2>1, ChangeSlots
<1>11. AppInv'
  <2>1. Sane(c, e)
    BY <1>7 DEF Sane, Attempt
  <2>2. ASSUME NEW b \in Apps PROVE AppOK(app[b])'
    <3>1. AppOK(app[b]) /\ app'[b] = app[b]
      BY <1>u DEF LInv, AppInv
    <3> QED BY <1>4, <1>7, <1>u, <2>1, <3>1, ThreadStays DEF AppOK
  <2> QED BY <1>u, <2>2, ThreadsKeep
<1>12. BqInv'
  BY <1>0, <1>u, BqIdle
<1>13. LinkInv'
  <2> SUFFICES ASSUME ~Eager, Orderly' PROVE LinkInv'
    BY DEF LinkInv
  <2>0. \A q \in Slots : conn'[q] = IF q = s THEN e ELSE conn[q]
    BY <1>0, <1>u DEF TypeOK
  <2>1. Orderly
    <3>1. \A q \in Slots : conn'[q].lost = 0
      BY DEF Orderly
    <3>2. \A q \in Slots : conn[q].lost = 0
      BY <1>4, <1>7, <2>0, <3>1
    <3> QED BY <1>u, <3>2 DEF Orderly
  <2>2. /\ \A g \in Handles : links[g] # NULL \/ Has(dead, g) => Coming(g) \/ LookupHandle(g) # {}
        /\ \A g \in Handles : Has(dead, g) => links[g] = NULL
        /\ Once(dead, Handles)
        /\ \A q \in Slots : conn[q].state = "complete" =>
             links[conn[q].handle] = NULL /\ ~Has(dead, conn[q].handle)
        /\ bq.at = "noted" => links[Head(rxq).handle] = NULL /\ ~Has(dead, Head(rxq).handle)
    BY <2>1 DEF LInv, LinkInv
  <2>3. LookupHandle(h)' # {}
    <3>1. e.state \in Valid
      BY <1>7 DEF Valid
    <3>2. e.ref > 0
      BY <1>5, <1>7, <3>1, UsedHasRef DEF Valid
    <3> QED BY <1>4, <1>7, <2>0, <3>1, <3>2 DEF LookupHandle, HandleValid, Valid
  <2>4. ASSUME NEW g \in Handles, LookupHandle(g) # {} PROVE LookupHandle(g)' # {}
    <3>1. PICK q \in Slots : conn[q].ref > 0 /\ HandleValid(conn[q]) /\ conn[q].handle = g
      BY <2>4 DEF LookupHandle
    <3>2. conn'[q] = conn[q]
      BY <1>4, <2>0, <3>1 DEF HandleValid
    <3> QED BY <3>1, <3>2 DEF LookupHandle
  <2>5. \A g \in Handles : links[g] # NULL \/ Has(dead', g) => Coming(g)' \/ LookupHandle(g)' # {}
    BY <1>2, <1>6, <1>u, <2>2, <2>3, <2>4
  <2>6. Once(dead', Handles) /\ \A g \in Handles : Has(dead', g) => links[g] = NULL
    BY <1>6, <1>u, <2>2
  <2>7. ASSUME NEW q \in Slots, conn'[q].state = "complete"
        PROVE  links[conn'[q].handle] = NULL /\ ~Has(dead', conn'[q].handle)
    <3>1. CASE q = s
      BY <1>6, <1>7, <1>e, <1>u, <2>0, <2>2, <2>7, <3>1
    <3>2. CASE q # s
      <4>1. conn[q].state = "complete" /\ conn'[q] = conn[q] /\ SlotOK(conn[q], Extra(q))
        BY <2>0, <2>7, <3>2 DEF LInv, SlotsInv
      <4>2. conn[q].handle \in Handles
        BY <4>1 DEF SlotOK, Valid
      <4> QED BY <1>6, <1>u, <2>2, <4>1, <4>2
    <3> QED BY <3>1, <3>2
  <2>8. bq'.at # "noted"
    BY <1>0, <1>u DEF Idle
  <2> QED BY <1>u, <2>5, <2>6, <2>7, <2>8 DEF LinkInv
<1> QED BY <1>8, <1>10, <1>11, <1>12, <1>13 DEF LInv

(* The same where the thread is preempted after it has looked for a note.  *)
LEMMA ConnCompleteBegins ==
  ASSUME LInv, ConnComplete, FindPending(Head(rxq).peer) # {}, preempt
  PROVE  LInv'
<1>0. TypeOK /\ rxq # <<>> /\ rxq' = rxq /\ Head(rxq).ev = "connected" /\ bq = Idle
  BY DEF LInv, ConnComplete
<1>1. PICK h \in Handles, p \in Peers : h = Head(rxq).handle /\ p = Head(rxq).peer
  <2>1. rxq \in Seq(Events) /\ Head(rxq) \in Events
    BY <1>0, HeadTailProperties DEF TypeOK
  <2>2. Head(rxq).handle \in Handles /\ Head(rxq).peer \in Peers
    BY <1>0, <2>1 DEF Events
  <2> QED BY <2>2
<1>3. PICK s : s = First(FindPending(p))
  OBVIOUS
<1>4. s \in Slots /\ conn[s].state \in {"initiating", "filter"}
  BY <1>1, <1>3, PendingIsAttempt
<1> DEFINE r == conn[s]
           e == [r EXCEPT !.ref = @ + 1]
<1>5. r \in Conns /\ SlotOK(r, Extra(s)) /\ Extra(s) \in Nat
  BY <1>4, ExtraIsNat DEF LInv, TypeOK, SlotsInv
<1>u. /\ UNCHANGED <<mode, preempt, held, scanUser, app, mq, rxq, target, links, asked, tries>>
      /\ dead' = Forget(h) /\ initiating' = FALSE /\ stray' = stray
      /\ conn' = [conn EXCEPT ![s] = e]
      /\ bq' = [at |-> IF Contains(dead, h) THEN "noted" ELSE "linked", slot |-> s]
  <2>1. stray' = (stray \/ FALSE)
    BY <1>1 DEF ConnComplete
  <2>2. stray' = stray
    BY <1>0, <2>1 DEF TypeOK
  <2>3. conn' = [conn EXCEPT ![s].ref = @ + 1]
    BY <1>1, <1>3 DEF ConnComplete
  <2>4. conn' = [conn EXCEPT ![s] = e]
    BY <1>0, <1>4, <1>5, <2>3 DEF TypeOK, Conns
  <2>5. /\ UNCHANGED <<mode, preempt, held, scanUser, app, mq, rxq, target, links, asked, tries>>
        /\ dead' = Forget(h) /\ initiating' = FALSE
        /\ bq' = [at |-> IF Contains(dead, h) THEN "noted" ELSE "linked", slot |-> s]
    BY <1>1, <1>3 DEF ConnComplete
  <2> QED BY <2>2, <2>4, <2>5
<1>6. /\ Forget(h) \in Seq(Handles) /\ (Contains(dead, h) <=> Has(dead, h))
      /\ Once(dead, Handles) =>
           /\ Once(Forget(h), Handles)
           /\ \A g \in Handles : Has(Forget(h), g) <=> Has(dead, g) /\ g # h
  BY <1>0, ForgetFacts
<1>7. /\ e \in Conns /\ e.state = r.state /\ e.timer = r.timer
      /\ e.peer = r.peer /\ e.handle = r.handle /\ e.lost = r.lost /\ SlotOK(e, Extra(s) + 1)
  <2>1. TRUE \in BOOLEAN
    OBVIOUS
  <2> QED BY <1>0, <1>5, <2>1, RefOK
<1> HIDE DEF e
<1>8. bq' \in Waiting /\ bq'.at \in Arriving /\ bq'.slot = s /\ (bq'.at = "noted" <=> Contains(dead, h))
  BY <1>4, <1>u DEF Waiting, Arriving
<1>9. TypeOK'
  <2>1. conn' \in [Slots -> Conns]
    BY <1>0, <1>4, <1>7, <1>u DEF TypeOK
  <2> QED BY <1>0, <1>6, <1>8, <1>u, <2>1 DEF TypeOK
<1>10. \A q \in Slots : conn'[q] = IF q = s THEN e ELSE conn[q]
  BY <1>0, <1>u DEF TypeOK
<1>11. Sane(r, e) /\ e.lost = r.lost
  BY <1>7 DEF Sane
<1>12. AppInv' /\ \A q : Creating(q)' <=> Creating(q)
  <2>1. ASSUME NEW b \in Apps PROVE AppOK(app[b])'
    <3>1. AppOK(app[b]) /\ app'[b] = app[b]
      BY <1>u DEF LInv, AppInv
    <3>2. conn[bq'.slot].state \in Attempt
      BY <1>4, <1>8 DEF Attempt
    <3> QED BY <1>4, <1>7, <1>11, <1>u, <3>1, <3>2, ThreadStays DEF AppOK
  <2> QED BY <1>u, <2>1, ThreadsKeep DEF Creating
<1>13. SlotsInv' /\ TellInv'
  <2>1. bq.slot \notin Slots
    BY <1>0, LifeAssumption DEF Idle
  <2>2. Extra(s)' = Extra(s) + 1 /\ \A q \in Slots : q # s => Extra(q)' = Extra(q)
    BY <1>4, <1>8, <1>12, <1>u, <2>1 DEF Extra, Count
  <2>3. SlotOK(e, Extra(s)')
    BY <1>7, <2>2
  <2> QED BY <1>4, <1>7, <1>u, <2>2, <2>3, ChangeSlots
<1>14. BqInv'
  <2>1. conn'[s].state \notin Valid
    BY <1>4, <1>7, <1>10 DEF Valid
  <2>2. bq'.at \notin {"idle", "pending"}
    BY <1>8 DEF Arriving
  <2> QED BY <1>0, <1>4, <1>8, <1>u, <2>1, <2>2 DEF BqInv, BusyOK
<1>15. LinkInv'
  <2> SUFFICES ASSUME ~Eager, Orderly' PROVE LinkInv'
    BY DEF LinkInv
  <2>1. Orderly
    <3>1. \A q \in Slots : conn'[q].lost = 0
      BY DEF Orderly
    <3>2. \A q \in Slots : conn[q].lost = 0
      BY <1>4, <1>10, <1>11, <3>1
    <3> QED BY <1>u, <3>2 DEF Orderly
  <2>2. /\ \A g \in Handles : links[g] # NULL \/ Has(dead, g) => Coming(g) \/ LookupHandle(g) # {}
        /\ \A g \in Handles : Has(dead, g) => links[g] = NULL
        /\ Once(dead, Handles)
        /\ \A q \in Slots : conn[q].state = "complete" =>
             links[conn[q].handle] = NULL /\ ~Has(dead, conn[q].handle)
        /\ bq.at = "noted" => links[Head(rxq).handle] = NULL /\ ~Has(dead, Head(rxq).handle)
    BY <2>1 DEF LInv, LinkInv
  <2>3. ASSUME NEW g, LookupHandle(g) # {} PROVE LookupHandle(g)' # {}
    <3>1. PICK q \in Slots : conn[q].ref > 0 /\ HandleValid(conn[q]) /\ conn[q].handle = g
      BY <2>3 DEF LookupHandle
    <3>2. conn'[q] = conn[q]
      BY <1>4, <1>10, <3>1 DEF HandleValid
    <3> QED BY <3>1, <3>2 DEF LookupHandle
  <2>4. \A g : Coming(g)' <=> Coming(g)
    BY <1>u DEF Coming
  <2>5. \A g \in Handles : links[g] # NULL \/ Has(dead', g) => Coming(g)' \/ LookupHandle(g)' # {}
    BY <1>6, <1>u, <2>2, <2>3, <2>4
  <2>6. /\ Once(dead', Handles) /\ ~Has(dead', h)
        /\ \A g \in Handles : Has(dead', g) => Has(dead, g) /\ links[g] = NULL
    BY <1>6, <1>u, <2>2
  <2>7. ASSUME NEW q \in Slots, conn'[q].state = "complete"
        PROVE  links[conn'[q].handle] = NULL /\ ~Has(dead', conn'[q].handle)
    <3>1. conn[q].state = "complete" /\ conn'[q].handle = conn[q].handle /\ SlotOK(conn[q], Extra(q))
      BY <1>7, <1>10, <2>7 DEF LInv, SlotsInv
    <3>2. conn[q].handle \in Handles
      BY <3>1 DEF SlotOK, Valid
    <3> QED BY <2>2, <2>6, <3>1, <3>2
  <2>8. bq'.at = "noted" => links[Head(rxq').handle] = NULL /\ ~Has(dead', Head(rxq').handle)
    BY <1>0, <1>1, <1>6, <1>8, <2>2, <2>6
  <2> QED BY <1>u, <2>5, <2>6, <2>7, <2>8 DEF LinkInv
<1> QED BY <1>9, <1>12, <1>13, <1>14, <1>15 DEF LInv

(* And goes on.  The object has no link yet, whatever became of the attempt. *)
LEMMA ConnUpStep ==
  ASSUME LInv, ConnUp
  PROVE  LInv'
<1>0. PICK s : s = bq.slot
  OBVIOUS
<1>1. PICK ended \in BOOLEAN : ended <=> bq.at = "noted"
  OBVIOUS
<1>2. PICK h \in Handles, p \in Peers : h = Head(rxq).handle /\ p = Head(rxq).peer
  BY ArrivingHead DEF ConnUp, Arriving
<1>3. /\ TypeOK /\ preempt /\ rxq # <<>> /\ Head(rxq).ev = "connected"
      /\ s \in Slots /\ bq.at # "idle" /\ conn[s].state \notin Valid
  BY <1>0 DEF LInv, BqInv, BusyOK, ConnUp, Arriving
<1> DEFINE c == conn[s]
           x == Linked(c, Head(rxq), ended)
           e == Unref(x)
           n == Extra(s) - 1
<1>u. /\ UNCHANGED <<mode, preempt, held, scanUser, initiating, dead, app, mq, target, links, asked,
                     tries, stray>>
      /\ bq' = Idle /\ rxq' = Tail(rxq) /\ conn' = [conn EXCEPT ![s] = e]
  <2>1. conn' = [conn EXCEPT ![s] = Unref(Linked(@, Head(rxq), bq.at = "noted"))]
    BY <1>0 DEF ConnUp
  <2>2. (bq.at = "noted") = ended
    BY <1>1
  <2>3. conn' = [conn EXCEPT ![s] = e]
    BY <2>1, <2>2
  <2> QED BY <2>3 DEF ConnUp
<1>4. rxq' \in Seq(Events) /\ \A g : Coming(g) <=> Coming(g)' \/ g = h
  BY <1>2, <1>3, <1>u, ComingTail
<1>5. c \in Conns /\ SlotOK(c, Extra(s)) /\ Extra(s) \in Nat
  BY <1>3, ExtraIsNat DEF LInv, TypeOK, SlotsInv
<1>6. /\ x \in Conns /\ SlotOK(x, Extra(s)) /\ x.peer = p /\ x.handle = h /\ x.lost = c.lost
      /\ x.state = IF ended THEN "complete" ELSE "connected"
  BY <1>2, <1>3, <1>5, ConnectedObject
<1> HIDE DEF x
<1>7. n \in Nat /\ n + 1 = Extra(s)
  BY <1>0 DEF Extra, Count
<1> HIDE DEF n
<1>8. SlotOK(e, n) /\ x.ref > 0 /\ e \in Conns
  <2>1. SlotOK(x, n + 1)
    BY <1>6, <1>7
  <2> QED BY <1>3, <1>6, <1>7, <2>1, UnrefOK
<1>9. /\ e.peer = p /\ e.handle = h /\ e.lost = c.lost
      /\ e.state = IF ended THEN "complete" ELSE "connected"
  BY <1>6, <1>8, UnrefFields
<1> HIDE DEF e
<1>10. TypeOK'
  <2>1. conn' \in [Slots -> Conns]
    BY <1>3, <1>8, <1>u DEF TypeOK
  <2> QED BY <1>3, <1>4, <1>u, <2>1, IdleOK DEF TypeOK
<1>11. AppInv' /\ \A q : Creating(q)' <=> Creating(q)
  <2>1. Sane(c, e)
    BY <1>9 DEF Sane, Attempt
  <2>2. bq'.at \notin {"pending"} \cup Arriving
    BY <1>u DEF Idle, Arriving
  <2>3. ASSUME NEW b \in Apps PROVE AppOK(app[b])'
    <3>1. AppOK(app[b]) /\ app'[b] = app[b]
      BY <1>u DEF LInv, AppInv
    <3> QED BY <1>3, <1>8, <1>u, <2>1, <2>2, <3>1, ThreadStays DEF AppOK
  <2> QED BY <1>u, <2>3, ThreadsKeep DEF Creating
<1>12. SlotsInv' /\ TellInv'
  <2>1. bq'.slot \notin Slots
    BY <1>u, LifeAssumption DEF Idle
  <2>2. Extra(s)' = n /\ \A q \in Slots : q # s => Extra(q)' = Extra(q)
    BY <1>0, <1>3, <1>11, <1>u, <2>1 DEF Extra, Count, n
  <2>3. SlotOK(e, Extra(s)')
    BY <1>8, <2>2
  <2> QED BY <1>3, <1>8, <1>u, <2>2, <2>3, ChangeSlots
<1>13. LinkInv'
  <2> SUFFICES ASSUME ~Eager, Orderly' PROVE LinkInv'
    BY DEF LinkInv
  <2>0. \A q \in Slots : conn'[q] = IF q = s THEN e ELSE conn[q]
    BY <1>3, <1>u DEF TypeOK
  <2>1. Orderly
    <3>1. \A q \in Slots : conn'[q].lost = 0
      BY DEF Orderly
    <3>2. \A q \in Slots : conn[q].lost = 0
      BY <1>3, <1>9, <2>0, <3>1
    <3> QED BY <1>u, <3>2 DEF Orderly
  <2>2. /\ \A g \in Handles : links[g] # NULL \/ Has(dead, g) => Coming(g) \/ LookupHandle(g) # {}
        /\ \A g \in Handles : Has(dead, g) => links[g] = NULL
        /\ Once(dead, Handles)
        /\ \A q \in Slots : conn[q].state = "complete" =>
             links[conn[q].handle] = NULL /\ ~Has(dead, conn[q].handle)
        /\ bq.at = "noted" => links[Head(rxq).handle] = NULL /\ ~Has(dead, Head(rxq).handle)
    BY <2>1 DEF LInv, LinkInv
  <2>3. LookupHandle(h)' # {}
    <3>1. e.state \in Valid
      BY <1>9 DEF Valid
    <3>2. e.ref > 0
      BY <1>7, <1>8, <3>1, UsedHasRef DEF Valid
    <3> QED BY <1>3, <1>9, <2>0, <3>1, <3>2 DEF LookupHandle, HandleValid, Valid
  <2>4. ASSUME NEW g \in Handles, LookupHandle(g) # {} PROVE LookupHandle(g)' # {}
    <3>1. PICK q \in Slots : conn[q].ref > 0 /\ HandleValid(conn[q]) /\ conn[q].handle = g
      BY <2>4 DEF LookupHandle
    <3>2. conn'[q] = conn[q]
      BY <1>3, <2>0, <3>1 DEF HandleValid, Valid
    <3> QED BY <3>1, <3>2 DEF LookupHandle
  <2>5. \A g \in Handles : links[g] # NULL \/ Has(dead, g) => Coming(g)' \/ LookupHandle(g)' # {}
    BY <1>4, <2>2, <2>3, <2>4
  <2>6. \A q \in Slots : conn'[q].state = "complete" =>
          links[conn'[q].handle] = NULL /\ ~Has(dead, conn'[q].handle)
    BY <1>1, <1>2, <1>9, <2>0, <2>2
  <2>7. bq'.at # "noted"
    BY <1>u DEF Idle
  <2> QED BY <1>u, <2>2, <2>5, <2>6, <2>7 DEF LinkInv
<1> QED BY <1>10, <1>11, <1>12, <1>13, <1>u, BqIdle DEF LInv

(* A handler takes a reference for the time of a command.                  *)
LEMMA BqBegins ==
  ASSUME LInv, TypeOK', BqInv', bq = Idle, NEW s \in Slots, bq'.slot = s, NEW e \in Conns,
         conn' = [conn EXCEPT ![s] = e], UNCHANGED <<mode, preempt, held, app, links, dead, stray>>,
         conn[s].state \in Attempt, Follows,
         SlotOK(e, Extra(s) + 1), ~preempt /\ mode # "resolve" => TellOK(e), Mild(conn[s], e)
  PROVE  LInv'
<1>1. AppInv' /\ \A q : Creating(q)' <=> Creating(q)
  BY NoThreadMoves
<1>2. bq.slot \notin Slots
  BY LifeAssumption DEF Idle
<1>3. Extra(s)' = Extra(s) + 1 /\ \A q \in Slots : q # s => Extra(q)' = Extra(q)
  BY <1>1, <1>2 DEF Extra, Count
<1>4. SlotsInv' /\ TellInv'
  <2>1. SlotOK(e, Extra(s)')
    BY <1>3
  <2> QED BY <1>3, <2>1, ChangeSlots
<1>5. LinkInv'
  BY <1>4, ChangeLinks DEF Mild
<1> QED BY <1>1, <1>4, <1>5 DEF LInv

(* And gives it back.                                                      *)
LEMMA BqEnds ==
  ASSUME LInv, TypeOK', NEW s \in Slots, bq.slot = s, bq' = Idle, NEW x \in Conns,
         conn' = [conn EXCEPT ![s] = Unref(x)], UNCHANGED <<mode, preempt, held, app, rxq, links, dead, stray>>,
         SlotOK(x, Extra(s)), ~preempt /\ mode # "resolve" => TellOK(x),
         Gentle(conn[s], x), Sane(conn[s], x) \/ bq.at = "pending"
  PROVE  LInv'
<1> DEFINE e == Unref(x)
           n == Extra(s) - 1
<1>1. n \in Nat /\ n + 1 = Extra(s)
  BY DEF Extra, Count
<1> HIDE DEF n
<1>2. SlotOK(e, n) /\ x.ref > 0 /\ e \in Conns
  <2>1. SlotOK(x, n + 1) /\ TypeOK
    BY <1>1 DEF LInv
  <2> QED BY <1>1, <2>1, UnrefOK
<1>3. /\ e.state = x.state /\ e.timer = x.timer /\ e.log = x.log
      /\ e.peer = x.peer /\ e.handle = x.handle /\ e.lost = x.lost
  BY <1>2, UnrefFields
<1> HIDE DEF e
<1>4. Gentle(conn[s], e) /\ (~preempt /\ mode # "resolve" => TellOK(e))
  <2>1. Gentle(conn[s], e)
    BY <1>3 DEF Gentle
  <2>2. TellOK(x) => TellOK(e)
    BY <1>3 DEF TellOK
  <2> QED BY <2>1, <2>2
<1>5. conn' = [conn EXCEPT ![s] = e]
  BY DEF e
<1>f. Follows
  BY ComingKept
<1>6. AppInv' /\ \A q : Creating(q)' <=> Creating(q)
  <2>1. CASE Sane(conn[s], x)
    <3>1. Mild(conn[s], e)
      BY <1>3, <1>4, <2>1 DEF Mild, Sane
    <3>2. bq'.at \notin {"pending"} \cup Arriving
      BY DEF Idle, Arriving
    <3> QED BY <1>2, <1>5, <3>1, <3>2, NoThreadMoves
  <2>2. CASE bq.at = "pending"
    <3>1. ASSUME NEW b \in Apps PROVE AppOK(app[b])'
      <4>1. AppOK(app[b]) /\ bq'.at = "idle"
        BY DEF LInv, AppInv, Idle
      <4>2. app[b].at \in Ending => app[b].slot \in Slots /\ conn'[app[b].slot] = conn[app[b].slot]
        BY <1>5, <2>2, <4>1 DEF AppOK, LInv, TypeOK
      <4> QED BY <4>1, <4>2 DEF AppOK, Arriving
    <3> QED BY <3>1, ThreadsKeep DEF Creating
  <2> QED BY <2>1, <2>2
<1>7. NULL \notin Slots
  BY LifeAssumption
<1>8. Extra(s)' = n /\ \A q \in Slots : q # s => Extra(q)' = Extra(q)
  <2>1. bq'.slot = NULL
    BY DEF Idle
  <2> QED BY <1>6, <1>7, <2>1 DEF Extra, Count, n
<1>9. SlotsInv' /\ TellInv'
  BY <1>2, <1>4, <1>5, <1>8, ChangeSlots
<1>10. LinkInv'
  BY <1>2, <1>4, <1>5, <1>9, <1>f, ChangeLinks
<1> QED BY <1>6, <1>9, <1>10, BqIdle DEF LInv

(* An event other than a connection is taken.                              *)
LEMMA EventTaken ==
  ASSUME TypeOK, rxq # <<>>, rxq' = Tail(rxq), Head(rxq).ev # "connected", bq'.at \notin Arriving
  PROVE  rxq' \in Seq(Events) /\ Follows
BY ComingTail DEF Follows

(* le_conn_complete_cancel.                                                *)
LEMMA ConnCancelledStep ==
  ASSUME LInv, ConnCancelled
  PROVE  LInv'
<1>0. /\ TypeOK /\ bq = Idle /\ rxq # <<>> /\ rxq' = Tail(rxq) /\ Head(rxq).ev # "connected"
      /\ UNCHANGED <<mode, preempt, held, scanUser, initiating, dead, app, mq, target, links, asked,
                     tries, stray>>
  BY DEF LInv, ConnCancelled
<1>b. bq'.at \notin Arriving
  <2>1. bq' = bq \/ \E s : bq' = [at |-> "again", slot |-> s]
    BY DEF ConnCancelled
  <2>2. bq'.at \in {"idle", "again"}
    BY <1>0, <2>1 DEF Idle
  <2> QED BY <2>2 DEF Arriving
<1>1. rxq' \in Seq(Events) /\ Follows
  BY <1>0, <1>b, EventTaken
<1>2. CASE FindPending(NULL) = {}
  <2>1. UNCHANGED <<conn, bq>>
    BY <1>2 DEF ConnCancelled
  <2>2. TypeOK'
    BY <1>0, <1>1, <2>1 DEF TypeOK
  <2> QED BY <1>0, <1>1, <2>1, <2>2, NothingMoves
<1>3. CASE FindPending(NULL) # {}
  <2>0. PICK s : s = First(FindPending(NULL))
    OBVIOUS
  <2> DEFINE r == conn[s]
  <2>1. s \in Slots /\ r.state \in {"initiating", "filter"}
    BY <1>3, <2>0, PendingIsAttempt
  <2>2. /\ r \in Conns /\ SlotOK(r, Extra(s)) /\ Extra(s) \in Nat
        /\ ~preempt /\ mode # "resolve" => TellOK(r)
    BY <2>1, ExtraIsNat DEF LInv, TypeOK, SlotsInv, TellInv
  <2>3. CASE r.state = "filter" \/ r.timer # "none"
    <3> DEFINE e == [[r EXCEPT !.ref = @ + 1] EXCEPT !.excused = TRUE]
    <3>1. conn' = [conn EXCEPT ![s].ref = @ + 1, ![s].excused = TRUE] /\ bq' = [at |-> "again", slot |-> s]
      BY <1>3, <2>0, <2>3 DEF ConnCancelled
    <3>2. conn' = [conn EXCEPT ![s] = e]
      BY <1>0, <2>1, <2>2, <3>1 DEF TypeOK, Conns
    <3>3. /\ e \in Conns /\ e.state = r.state /\ e.timer = r.timer /\ e.log = r.log
          /\ e.peer = r.peer /\ e.handle = r.handle /\ e.lost = r.lost /\ SlotOK(e, Extra(s) + 1)
      BY <1>0, <2>2, RefOK
    <3> HIDE DEF e
    <3>4. e.lost >= r.lost
      BY <2>2, <3>3 DEF Conns
    <3>5. Mild(r, e) /\ (~preempt /\ mode # "resolve" => TellOK(e))
      BY <2>2, <3>3, <3>4, MildSame, TellSame
    <3>6. bq' \in Waiting /\ bq'.at = "again" /\ bq'.slot = s
      BY <2>1, <3>1 DEF Waiting
    <3>7. TypeOK'
      <4>1. conn' \in [Slots -> Conns]
        BY <1>0, <2>1, <3>2, <3>3 DEF TypeOK
      <4> QED BY <1>0, <1>1, <3>6, <4>1 DEF TypeOK
    <3>8. BqInv' /\ r.state \in Attempt
      BY <2>1, <3>6 DEF BqInv, BusyOK, Arriving, Attempt
    <3> QED BY <1>0, <1>1, <2>1, <3>2, <3>3, <3>5, <3>6, <3>7, <3>8, BqBegins
  <2>4. CASE ~(r.state = "filter" \/ r.timer # "none")
    <3> DEFINE e == Leave(r, TRUE)
    <3>1. conn' = [conn EXCEPT ![s] = e] /\ UNCHANGED bq
      BY <1>3, <2>0, <2>4 DEF ConnCancelled
    <3>2. SlotOK(e, Extra(s)) /\ (r.state \in Attempt => r.ref > 0)
      BY <1>0, <2>2, LeaveOK
    <3>3. e \in Conns
      BY <2>2, <3>2, LeaveFields
    <3>4. Mild(r, e)
      BY <2>2, <3>2, MildLeave
    <3>5. ~preempt /\ mode # "resolve" => TellOK(e)
      BY <1>0, <2>2, TellLeave
    <3> HIDE DEF e
    <3>6. TypeOK'
      <4>1. conn' \in [Slots -> Conns]
        BY <1>0, <2>1, <3>1, <3>3 DEF TypeOK
      <4> QED BY <1>0, <1>1, <3>1, <4>1 DEF TypeOK
    <3>7. AppInv' /\ \A q : Creating(q)' <=> Creating(q)
      BY <1>0, <2>1, <3>1, <3>3, <3>4, NoThreadMoves
    <3>8. BusyOK(e)
      BY <1>0 DEF Idle, BusyOK, Arriving
    <3> QED BY <1>0, <1>1, <2>1, <3>1, <3>2, <3>3, <3>4, <3>5, <3>6, <3>7, <3>8, ChangeOne
  <2> QED BY <2>3, <2>4
<1> QED BY <1>2, <1>3

LEMMA AgainStep ==
  ASSUME LInv, Again
  PROVE  LInv'
<1>0. PICK s : s = bq.slot
  OBVIOUS
<1> DEFINE r == conn[s]
<1>1. /\ s \in Slots /\ r \in Conns /\ SlotOK(r, Extra(s)) /\ TypeOK
      /\ ~preempt /\ mode # "resolve" => TellOK(r)
  BY <1>0 DEF LInv, BqInv, TypeOK, SlotsInv, TellInv, Again
<1>2. /\ UNCHANGED <<mode, preempt, held, scanUser, dead, app, mq, rxq, links, asked, tries, stray>>
      /\ bq' = Idle /\ conn' = [conn EXCEPT ![s] = Unref(r)]
  BY <1>0 DEF Again
<1>3. target' \in Peers \cup {ADDR_NONE, NULL} /\ initiating' \in BOOLEAN
  BY <1>0, <1>1 DEF Again, CreateOk, CreateFails, TypeOK, Conns
<1>4. r.ref > 0
  <2> DEFINE n == Extra(s) - 1
  <2>1. n \in Nat /\ n + 1 = Extra(s)
    BY <1>0 DEF Extra, Count
  <2> HIDE DEF n
  <2>2. SlotOK(r, n + 1)
    BY <1>1, <2>1
  <2> QED BY <1>1, <2>1, <2>2, UnrefOK
<1>5. TypeOK'
  <2>1. Unref(r) \in Conns
    BY <1>1, <1>4, UnrefFields
  <2>2. conn' \in [Slots -> Conns]
    BY <1>1, <1>2, <2>1 DEF TypeOK
  <2> QED BY <1>1, <1>2, <1>3, <2>2, IdleOK DEF TypeOK
<1>6. Mild(r, r)
  <2>1. r.lost >= r.lost
    BY <1>1 DEF Conns
  <2> QED BY <1>1, <2>1, MildSame
<1> QED BY <1>0, <1>1, <1>2, <1>5, <1>6, BqEnds DEF Mild

(* check_pending_conn.                                                     *)
LEMMA CheckPendingStep ==
  ASSUME LInv, CheckPending
  PROVE  LInv'
<1>0. /\ TypeOK /\ bq = Idle /\ rxq # <<>> /\ rxq' = Tail(rxq) /\ Head(rxq).ev # "connected"
      /\ UNCHANGED <<mode, preempt, held, initiating, dead, app, mq, target, links, asked, tries, stray>>
  BY DEF LInv, CheckPending
<1>b. bq'.at \notin Arriving
  BY <1>0 DEF CheckPending, Idle, Arriving
<1>1. rxq' \in Seq(Events) /\ Follows
  BY <1>0, <1>b, EventTaken
<1> DEFINE found == LookupState(Head(rxq).peer, "scan")
<1>2. CASE found = {}
  <2>1. UNCHANGED <<conn, bq, scanUser>>
    BY <1>2 DEF CheckPending
  <2>2. TypeOK'
    BY <1>0, <1>1, <2>1 DEF TypeOK
  <2> QED BY <1>0, <1>1, <2>1, <2>2, NothingMoves
<1>3. CASE found # {}
  <2>0. PICK s : s = First(found)
    OBVIOUS
  <2> DEFINE r == conn[s]
             e == [r EXCEPT !.ref = @ + 1]
  <2>1. s \in Slots /\ r.state = "scan"
    <3>1. found \subseteq Slots /\ \A q \in found : conn[q].state = "scan"
      BY DEF LookupState
    <3>2. s \in found
      BY <1>3, <2>0, <3>1, FoundIsSlot
    <3> QED BY <3>1, <3>2
  <2>2. /\ r \in Conns /\ SlotOK(r, Extra(s)) /\ Extra(s) \in Nat
    BY <2>1, ExtraIsNat DEF LInv, TypeOK, SlotsInv
  <2>3. r.timer = "none" /\ mode = "resolve"
    BY <2>1, <2>2 DEF SlotOK
  <2>4. conn' = [conn EXCEPT ![s] = e] /\ bq' = [at |-> "pending", slot |-> s] /\ scanUser' = FALSE
    BY <1>3, <2>0 DEF CheckPending
  <2>5. /\ e \in Conns /\ e.state = r.state /\ e.timer = r.timer /\ e.log = r.log
        /\ e.peer = r.peer /\ e.handle = r.handle /\ e.lost = r.lost /\ SlotOK(e, Extra(s) + 1)
    <3>1. TRUE \in BOOLEAN
      OBVIOUS
    <3> QED BY <1>0, <2>2, <3>1, RefOK
  <2> HIDE DEF e
  <2>6. e.lost >= r.lost
    BY <2>2, <2>5 DEF Conns
  <2>7. Mild(r, e)
    BY <2>2, <2>5, <2>6, MildSame
  <2>8. bq' \in Waiting /\ bq'.at = "pending" /\ bq'.slot = s
    BY <2>1, <2>4 DEF Waiting
  <2>9. TypeOK'
    <3>1. conn' \in [Slots -> Conns]
      BY <1>0, <2>1, <2>4, <2>5 DEF TypeOK
    <3> QED BY <1>0, <1>1, <2>4, <2>8, <3>1 DEF TypeOK
  <2>10. BqInv'
    <3>1. conn'[s] = e
      BY <1>0, <2>1, <2>4 DEF TypeOK
    <3> QED BY <1>0, <2>1, <2>3, <2>5, <2>8, <3>1 DEF BqInv, BusyOK, Arriving
  <2>11. r.state \in Attempt
    BY <2>1 DEF Attempt
  <2> QED BY <1>0, <1>1, <2>1, <2>3, <2>4, <2>5, <2>7, <2>8, <2>9, <2>10, <2>11, BqBegins
<1> QED BY <1>2, <1>3

LEMMA PendingStep ==
  ASSUME LInv, Pending
  PROVE  LInv'
<1>0. PICK s : s = bq.slot
  OBVIOUS
<1> DEFINE r == conn[s]
<1>1. /\ s \in Slots /\ r \in Conns /\ SlotOK(r, Extra(s)) /\ TypeOK /\ Extra(s) \in Nat
      /\ mode = "resolve" /\ r.state \in {"scan", "disconnected"} /\ r.timer = "none"
  <2>1. s \in Slots
    BY <1>0 DEF LInv, BqInv, Pending
  <2> QED BY <1>0, <2>1, ExtraIsNat DEF LInv, BqInv, BusyOK, TypeOK, SlotsInv, Pending
<1>2. /\ UNCHANGED <<mode, preempt, held, dead, app, mq, rxq, links, asked, tries, stray>> /\ bq' = Idle
      /\ scanUser' \in BOOLEAN /\ bq.at = "pending"
  BY <1>1 DEF Pending, TypeOK
<1>3. target' \in Peers \cup {ADDR_NONE, NULL} /\ initiating' \in BOOLEAN
  BY <1>0, <1>1 DEF Pending, CreateOk, CreateFails, TypeOK, Conns
<1>4. ASSUME NEW x \in Conns, conn' = [conn EXCEPT ![s] = Unref(x)], SlotOK(x, Extra(s)), Gentle(r, x)
      PROVE  LInv'
  <2>1. x.ref > 0
    <3> DEFINE n == Extra(s) - 1
    <3>1. n \in Nat /\ n + 1 = Extra(s)
      BY <1>0 DEF Extra, Count
    <3> HIDE DEF n
    <3>2. SlotOK(x, n + 1)
      BY <1>4, <3>1
    <3> QED BY <1>1, <3>1, <3>2, UnrefOK
  <2>2. Unref(x) \in Conns
    BY <2>1, UnrefFields
  <2>3. TypeOK'
    <3>1. conn' \in [Slots -> Conns]
      BY <1>1, <1>4, <2>2 DEF TypeOK
    <3> QED BY <1>1, <1>2, <1>3, <3>1, IdleOK DEF TypeOK
  <2> QED BY <1>0, <1>1, <1>2, <1>4, <2>3, BqEnds
<1>5. CASE conn' = [conn EXCEPT ![s] = Unref(Enter(r, "initiating"))]
  <2> DEFINE x == Enter(r, "initiating")
  <2>1. SlotOK(x, Extra(s))
    BY <1>1, EnterOK DEF Valid
  <2>2. x \in Conns /\ x.state = "initiating" /\ x.peer = r.peer /\ x.handle = r.handle /\ x.lost = r.lost
    BY <1>1, EnterFields DEF ConnStates
  <2> HIDE DEF x
  <2>3. Gentle(r, x)
    <3>1. x.lost >= r.lost
      BY <1>1, <2>2 DEF Conns
    <3> QED BY <1>1, <2>2, <3>1 DEF Gentle
  <2> QED BY <1>4, <1>5, <2>1, <2>2, <2>3 DEF x
<1>6. CASE conn' = [conn EXCEPT ![s] = Unref(Leave(r, TRUE))]
  <2> DEFINE x == Leave(r, TRUE)
  <2>1. SlotOK(x, Extra(s)) /\ (r.state \in Attempt => r.ref > 0)
    BY <1>1, LeaveOK
  <2>2. x \in Conns
    BY <1>1, <2>1, LeaveFields
  <2>3. Gentle(r, x)
    BY <1>1, <2>1, MildLeave DEF Mild
  <2> QED BY <1>4, <1>6, <2>1, <2>2, <2>3
<1> QED BY <1>0, <1>5, <1>6 DEF Pending

(* hci_disconn_complete.                                                   *)
LEMMA DisconnCompleteStep ==
  ASSUME LInv, DisconnComplete
  PROVE  LInv'
<1>0. /\ TypeOK /\ bq = Idle /\ rxq # <<>> /\ rxq' = Tail(rxq) /\ Head(rxq).ev # "connected"
      /\ UNCHANGED <<mode, preempt, held, scanUser, initiating, dead, app, bq, mq, target, links, asked,
                     tries, stray>>
  BY DEF LInv, DisconnComplete
<1>b. bq'.at \notin Arriving
  BY <1>0 DEF DisconnComplete, Idle, Arriving
<1>1. rxq' \in Seq(Events) /\ Follows
  BY <1>0, <1>b, EventTaken
<1> DEFINE found == LookupHandle(Head(rxq).handle)
<1>2. CASE found = {}
  <2>1. UNCHANGED conn
    BY <1>2 DEF DisconnComplete
  <2>2. TypeOK'
    BY <1>0, <1>1, <2>1 DEF TypeOK
  <2> QED BY <1>0, <1>1, <2>1, <2>2, NothingMoves
<1>3. CASE found # {}
  <2>0. PICK s : s = First(found)
    OBVIOUS
  <2> DEFINE r == conn[s]
             e == Leave(r, TRUE)
  <2>1. s \in Slots
    <3>1. found \subseteq Slots
      BY DEF LookupHandle
    <3> QED BY <1>3, <2>0, <3>1, FoundIsSlot
  <2>2. /\ r \in Conns /\ SlotOK(r, Extra(s)) /\ Extra(s) \in Nat
        /\ ~preempt /\ mode # "resolve" => TellOK(r)
    BY <2>1, ExtraIsNat DEF LInv, TypeOK, SlotsInv, TellInv
  <2>3. conn' = [conn EXCEPT ![s] = e]
    BY <1>3, <2>0 DEF DisconnComplete
  <2>4. SlotOK(e, Extra(s)) /\ (r.state \in Attempt => r.ref > 0)
    BY <1>0, <2>2, LeaveOK
  <2>5. e \in Conns
    BY <2>2, <2>4, LeaveFields
  <2>6. Mild(r, e)
    BY <2>2, <2>4, MildLeave
  <2>7. ~preempt /\ mode # "resolve" => TellOK(e)
    BY <1>0, <2>2, TellLeave
  <2> HIDE DEF e
  <2>8. TypeOK'
    <3>1. conn' \in [Slots -> Conns]
      BY <1>0, <2>1, <2>3, <2>5 DEF TypeOK
    <3> QED BY <1>0, <1>1, <3>1 DEF TypeOK
  <2>9. AppInv' /\ \A q : Creating(q)' <=> Creating(q)
    BY <1>0, <2>1, <2>3, <2>5, <2>6, NoThreadMoves
  <2>10. BusyOK(e)
    BY <1>0 DEF Idle, BusyOK, Arriving
  <2> QED BY <1>0, <1>1, <2>1, <2>3, <2>4, <2>5, <2>6, <2>7, <2>8, <2>9, <2>10, ChangeOne
<1> QED BY <1>2, <1>3

-----------------------------------------------------------------------------
(* The invariant holds initially.                                          *)
LEMMA LInvInit == Init => LInv
<1> SUFFICES ASSUME Init PROVE LInv
  OBVIOUS
<1>0. /\ Free \in Conns /\ Free.state = "disconnected" /\ Free.timer = "none" /\ Free.ref = 0
      /\ Free.log = <<>> /\ Free.lost = 0
  BY DEF Free, Conns, ConnStates
<1>1. NULL \notin Slots
  BY LifeAssumption
<1>2. TypeOK
  <2>1. /\ mode \in Modes /\ preempt \in BOOLEAN
    BY LifeAssumption DEF Init
  <2>2. dead \in Seq(Handles) /\ rxq \in Seq(Events) /\ Len(dead) = 0 /\ Len(rxq) = 0
    BY DEF Init
  <2>3. conn \in [Slots -> Conns] /\ app \in [Apps -> Waiting] /\ bq \in Waiting /\ mq \in Waiting
    BY <1>0, IdleOK DEF Init
  <2> QED BY <2>1, <2>2, <2>3 DEF Init, TypeOK
<1>3. \A s \in Slots : conn[s] = Free /\ Extra(s) = 0
  <2>1. \A s \in Slots : ~Creating(s)
    BY DEF Init, Idle, Creating
  <2>2. held = {} /\ bq.slot = NULL /\ \A s \in Slots : conn[s] = Free
    BY DEF Init, Idle
  <2> QED BY <1>1, <2>1, <2>2 DEF Extra, Count
<1>4. SlotsInv
  <2>1. SlotOK(Free, 0)
    BY <1>0 DEF SlotOK, Stack, Surplus, Count, Valid
  <2> QED BY <1>3, <2>1 DEF SlotsInv
<1>5. TellInv
  BY <1>0, <1>3 DEF TellInv, TellOK, Ended
<1>6. AppInv
  <2>1. \A a \in Apps : app[a] = Idle
    BY DEF Init
  <2> QED BY <2>1, IdleOK DEF AppInv
<1>7. BqInv
  BY DEF Init, Idle, BqInv, Arriving
<1>8. LinkInv
  <2>1. dead = <<>> /\ \A h \in Handles : links[h] = NULL
    BY DEF Init
  <2>2. ~\E h : Has(dead, h)
    BY <2>1 DEF Has
  <2>3. Once(dead, Handles)
    BY <2>1 DEF Once
  <2>4. bq.at # "noted"
    BY DEF Init, Idle
  <2> QED BY <1>0, <1>3, <2>1, <2>2, <2>3, <2>4 DEF LinkInv
<1> QED BY <1>2, <1>4, <1>5, <1>6, <1>7, <1>8 DEF LInv

(* Every step preserves it.                                                *)
LEMMA LInvNext == LInv /\ [Next]_vars => LInv'
<1> SUFFICES ASSUME LInv, [Next]_vars PROVE LInv'
  OBVIOUS
<1>1. ASSUME NEW a \in Apps, AppNext(a) PROVE LInv'
  BY <1>1, CreatedStep, CancelStep, DisconnectSentStep, AnsweredStep, MarkStep DEF AppNext
<1>2. ASSUME NEW a \in Apps,
             \/ CreateAuto(a) \/ AutoStop(a) \/ \E p \in Peers : Create(a, p) \/ CreateResolve(a, p)
             \/ \E s \in Slots : Disconnect(a, s)
      PROVE  LInv'
  BY <1>2, CreateStep, AutoStopStep, CreateResolveStep, DisconnectStep
<1>3. ASSUME NEW s \in Slots, AppUnref(s) \/ Expire(s) PROVE LInv'
  BY <1>3, AppUnrefStep, ExpireStep
<1>4. ASSUME NEW p \in Peers, Report(p) \/ \E h \in Handles : Establish(p, h) PROVE LInv'
  BY <1>4, ReportStep, EstablishStep
<1>5. ASSUME NEW h \in Handles, Dropped(h) PROVE LInv'
  BY <1>5, DroppedFound, DroppedNoted
<1>6. ASSUME ConnComplete PROVE LInv'
  BY <1>6, ConnCompleteStray, ConnCompleteFound, ConnCompleteBegins
<1>7. ASSUME BqNext PROVE LInv'
  BY <1>6, <1>7, ConnUpStep, ConnCancelledStep, AgainStep, CheckPendingStep, PendingStep, DisconnCompleteStep
  DEF BqNext
<1>8. ASSUME MqNext PROVE LInv'
  BY <1>8, MainQueueStep, DeferredWorkStep DEF MqNext
<1>9. ASSUME UNCHANGED vars PROVE LInv'
  <2>1. UNCHANGED <<mode, preempt, conn, held, scanUser, initiating, app, bq, mq, rxq, target, links,
                    asked, dead, tries, stray>>
    BY <1>9 DEF vars, hostVars, ctlVars
  <2>2. TypeOK'
    BY <2>1 DEF LInv, TypeOK
  <2> QED BY <2>1, <2>2, ComingKept, NothingMoves
<1> QED BY <1>1, <1>2, <1>3, <1>4, <1>5, <1>7, <1>8, <1>9 DEF Next

(* Every reachable state satisfies the invariant.                          *)
THEOREM LifeInvariance == Spec => []LInv
BY LInvInit, LInvNext, PTL DEF Spec

(* Every variable of the connection model stays in its range.              *)
THEOREM ConnTypeCorrect == Spec => []TypeOK
<1>1. LInv => TypeOK
  BY DEF LInv
<1> QED BY <1>1, LifeInvariance, PTL

(* The reference count of a connection object is the number of those who   *)
(* hold it, and of the references that bt_conn_set_state and               *)
(* bt_conn_create_auto_stop lose.                                          *)
THEOREM RefsConserved == Spec => []RefsExact
<1>1. LInv => RefsExact
  <2> SUFFICES ASSUME LInv, ~preempt, NEW s \in Slots PROVE conn[s].ref = Holders(s) + conn[s].lost
    BY DEF RefsExact
  <2>1. conn[s].ref = Extra(s) + Count(Stack(conn[s])) + conn[s].lost
    BY DEF LInv, SlotsInv, SlotOK
  <2> QED BY <2>1 DEF Extra, Holders
<1> QED BY <1>1, LifeInvariance, PTL

(* No object that bt_conn_new may give away is held, is timed, is in use   *)
(* or is referred to by a thread, even if threads are preempted between    *)
(* reading and setting conn->state.                                        *)
FreeIsUnused ==
  \A s \in Slots : conn[s].ref = 0 =>
    /\ s \notin held /\ bq.slot # s /\ ~Stack(conn[s])
    /\ \A a \in Apps : app[a].slot # s

(* bt_conn_new never gives away an object that is still in use.            *)
THEOREM FreeSlotsUnused == Spec => []FreeIsUnused
<1>1. LInv => FreeIsUnused
  <2> SUFFICES ASSUME LInv, NEW s \in Slots, conn[s].ref = 0
               PROVE  /\ s \notin held /\ bq.slot # s /\ ~Stack(conn[s])
                      /\ \A a \in Apps : app[a].slot # s
    BY DEF FreeIsUnused
  <2>1. /\ s \notin held /\ ~Creating(s) /\ bq.slot # s
        /\ conn[s].state = "disconnected" /\ conn[s].timer = "none" /\ s # NULL
    BY FreeSlot, LifeAssumption
  <2>2. ASSUME NEW a \in Apps PROVE app[a].slot # s
    <3>1. AppOK(app[a]) /\ app[a] \in Waiting
      BY DEF LInv, AppInv, TypeOK
    <3>2. app[a].at # "create" \/ app[a].slot # s
      <4>1. app[a].at = "create" /\ app[a].slot = s => app[a] = [at |-> "create", slot |-> s]
        BY <3>1 DEF Waiting
      <4> QED BY <2>1, <4>1 DEF Creating
    <3> QED BY <2>1, <3>1, <3>2 DEF AppOK, Ending
  <2> QED BY <2>1, <2>2 DEF Stack
<1> QED BY <1>1, LifeInvariance, PTL

(* The application is told once how an attempt ends and, after that, once  *)
(* of the end of the connection, before the object is free again.          *)
THEOREM ToldInOrder == Spec => []ToldOnce
<1>1. ASSUME NEW r \in Conns, TellOK(r), r.state # "scan", r.timer = "delayed" => r.state = "initiating"
      PROVE  r.log \in Ended \cup {<<"connected">>}
  <2>1. r.state \in ConnStates /\ r.timer \in {"none", "delayed", "queued"}
    BY DEF Conns
  <2> QED BY <1>1, <2>1 DEF TellOK, Ended, ConnStates
<1>2. ASSUME NEW log \in Ended \cup {<<"connected">>}
      PROVE  Len(log) <= 2 /\ \A i \in 1..Len(log) : (log[i] = "disconnected") <=> i = 2
  <2>1. CASE log = <<>>
    BY <2>1
  <2>2. CASE log = <<"connected">>
    BY <2>2
  <2>3. CASE log = <<"failed">>
    BY <2>3
  <2>4. CASE log = <<"connected", "disconnected">>
    <3>1. Len(log) = 2 /\ log[1] = "connected" /\ log[2] = "disconnected"
      BY <2>4
    <3> QED BY <3>1
  <2>5. CASE log = <<"failed", "disconnected">>
    <3>1. Len(log) = 2 /\ log[1] = "failed" /\ log[2] = "disconnected"
      BY <2>5
    <3> QED BY <3>1
  <2> QED BY <1>2, <2>1, <2>2, <2>3, <2>4, <2>5 DEF Ended
<1>3. LInv => ToldOnce
  <2> SUFFICES ASSUME LInv, ~preempt, mode # "resolve", NEW s \in Slots
               PROVE  /\ Len(conn[s].log) <= 2
                      /\ \A i \in 1..Len(conn[s].log) : (conn[s].log[i] = "disconnected") <=> i = 2
                      /\ conn[s].ref = 0 => conn[s].log # <<"connected">>
    BY DEF ToldOnce, Told
  <2>1. /\ conn[s] \in Conns /\ TellOK(conn[s]) /\ conn[s].state # "scan"
        /\ conn[s].timer = "delayed" => conn[s].state = "initiating"
    BY DEF LInv, TypeOK, TellInv, SlotsInv, SlotOK
  <2>2. conn[s].log \in Ended \cup {<<"connected">>}
    BY <1>1, <2>1
  <2>3. ASSUME conn[s].ref = 0 PROVE conn[s].log # <<"connected">>
    <3>1. conn[s].state = "disconnected" /\ conn[s].timer = "none" /\ conn[s].lost = 0
      BY <2>3, FreeSlot
    <3>2. conn[s].log \in Ended
      BY <2>1, <3>1 DEF TellOK
    <3>3. <<"connected">> \notin Ended
      BY DEF Ended
    <3> QED BY <3>2, <3>3
  <2> QED BY <1>2, <2>2, <2>3
<1> QED BY <1>3, LifeInvariance, PTL

(* No object is treated as disconnected while its link is up, if the       *)
(* controller does not reuse a handle of which the host still has events:  *)
(* the note in disconnected_handles meets the connection it was made for,  *)
(* however many attempts there are and however full the table is.          *)
THEOREM NotesMeetTheirLinks == ASSUME ~Eager PROVE Spec => []DeadIsDead
<1>1. LInv => DeadIsDead
  <2> SUFFICES ASSUME LInv, Orderly, NEW s \in Slots, conn[s].ref > 0, conn[s].state = "complete"
               PROVE  links[conn[s].handle] # conn[s].peer
    BY DEF DeadIsDead, NothingLost, Dead, Orderly
  <2>1. links[conn[s].handle] = NULL
    BY DEF LInv, LinkInv
  <2>2. conn[s].peer \in Peers
    BY DEF LInv, SlotsInv, SlotOK, Valid
  <2> QED BY <2>1, <2>2, LifeAssumption
<1> QED BY <1>1, LifeInvariance, PTL
=============================================================================
