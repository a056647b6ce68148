--------------------------- MODULE WorkQueueProofs ---------------------------
(***************************************************************************)
(* Proofs about WorkQueue.                                                 *)
(*                                                                         *)
(* First the type invariant, and that the flags of a work item tell the    *)
(* truth about the lists and the queue threads, from which it follows that *)
(* no handler is re-entered.  The inductive invariant IInv has two parts.  *)
(* Consistent is about the locked state: lists, flags, and the items the   *)
(* threads have taken.  Each *_locked operator preserves it, and there is  *)
(* one lemma for each.  ThreadsOK relates where a queue thread is to its   *)
(* flags and its item.                                                     *)
(*                                                                         *)
(* Then, each on top of IInv: WaitInv, who waits for what, which needs the *)
(* order of the lists (a flusher stays behind its item); WakeInv, that     *)
(* whatever arrives leaves a token; OwnerInv, whose DRAIN, STOP and token  *)
(* in drainq these are, for one thread that drains and stops; and Quiet,   *)
(* what an item being cancelled looks like, where nobody reschedules.      *)
(* Effect, LockedSection and Waits are about the locked operators and are  *)
(* established once per operator, not once per call.                       *)
(***************************************************************************)
EXTENDS WorkQueue, ListLemmas, WellFoundedInduction

LockedStates ==
  [flags   : [Works -> SUBSET WorkFlag],
   queue   : [Works -> Queues \cup {NULL}],
   pending : [Queues -> Seq(Item)],
   notifyq : [Queues -> {0, 1}]]

(* An item is on a list exactly if it is marked queued there, and once.    *)
ListedIsQueued(s) ==
  /\ \A w \in Works : "QUEUED" \in s.flags[w] => s.queue[w] \in Queues
  /\ \A w \in Works, q \in Queues :
       Has(s.pending[q], w) <=> "QUEUED" \in s.flags[w] /\ s.queue[w] = q
  /\ \A q \in Queues : Once(s.pending[q], Works)

(* The item a thread has taken is exactly the one running on its queue.    *)
TakenIsRunning(s, cur) ==
  \A w \in Works :
    /\ "RUNNING" \in s.flags[w] => s.queue[w] \in Queues
    /\ \A q \in Queues : cur[q] = w <=> "RUNNING" \in s.flags[w] /\ s.queue[w] = q

(* Only a started queue has anything on its list or taken.                 *)
BusyIsStarted(s, cur, qf) ==
  \A q \in Queues :
    s.pending[q] # <<>> \/ cur[q] # NULL => "STARTED" \in qf[q]

Consistent(s, cur, qf) ==
  /\ s \in LockedStates
  /\ ListedIsQueued(s)
  /\ TakenIsRunning(s, cur)
  /\ BusyIsStarted(s, cur, qf)

-----------------------------------------------------------------------------
(* Marking an item delayed or cancelled says nothing of where it is.       *)
LEMMA WithFlagsConsistent ==
  ASSUME NEW s, NEW cur, NEW qf, Consistent(s, cur, qf),
         NEW w \in Works, NEW f \in SUBSET WorkFlag,
         "QUEUED" \in f <=> "QUEUED" \in s.flags[w],
         "RUNNING" \in f <=> "RUNNING" \in s.flags[w]
  PROVE  Consistent(WithFlags(s, w, f), cur, qf)
<1> DEFINE t == WithFlags(s, w, f)
<1>1. t \in LockedStates /\ t.queue = s.queue /\ t.pending = s.pending
      /\ \A v \in Works : t.flags[v] = IF v = w THEN f ELSE s.flags[v]
  BY DEF WithFlags, Consistent, LockedStates
<1>2. \A v \in Works : /\ "QUEUED" \in t.flags[v] <=> "QUEUED" \in s.flags[v]
                       /\ "RUNNING" \in t.flags[v] <=> "RUNNING" \in s.flags[v]
  BY <1>1
<1> HIDE DEF t
<1>3. ListedIsQueued(t)
  BY <1>1, <1>2 DEF Consistent, ListedIsQueued
<1>4. TakenIsRunning(t, cur) /\ BusyIsStarted(t, cur, qf)
  BY <1>1, <1>2 DEF Consistent, TakenIsRunning, BusyIsStarted
<1>5. Consistent(t, cur, qf)
  BY <1>1, <1>3, <1>4 DEF Consistent
<1> QED BY <1>5 DEF t

(* A submission puts an item that is on no list at the end of one, of the  *)
(* queue it runs on if it is running.                                      *)
LEMMA SubmitConsistent ==
  ASSUME NEW s, NEW cur, Consistent(s, cur, qflags),
         NEW w \in Works, NEW q \in Queues \cup {NULL}, NEW caller
  PROVE  Consistent(submit_to_queue_locked(s, w, q, caller), cur, qflags)
<1> DEFINE target == submit_target(s, w, q)
           t == [flags   |-> [s.flags EXCEPT ![w] = @ \cup {"QUEUED"}],
                 queue   |-> [s.queue EXCEPT ![w] = target],
                 pending |-> [s.pending EXCEPT ![target] = Append(@, w)],
                 notifyq |-> notify_queue_locked(s.notifyq, target)]
<1> SUFFICES ASSUME submittable(s, w), queue_accepts(target, caller)
             PROVE  Consistent(t, cur, qflags)
  BY DEF submit_to_queue_locked
<1>1. /\ s \in LockedStates
      /\ target \in Queues
      /\ "STARTED" \in qflags[target]
      /\ "QUEUED" \notin s.flags[w]
      /\ "RUNNING" \in s.flags[w] => target = s.queue[w]
      /\ w \in Item
  BY DEF Consistent, LockedStates, submit_target, queue_accepts, submittable, Item
<1> HIDE DEF target
<1>2. Once(s.pending[target], Works) /\ ~Has(s.pending[target], w)
  BY <1>1 DEF Consistent, ListedIsQueued
<1>3. /\ Append(s.pending[target], w) \in Seq(Item)
      /\ \A x : Has(Append(s.pending[target], w), x) <=> Has(s.pending[target], x) \/ x = w
      /\ Once(Append(s.pending[target], w), Works)
  <2>1. s.pending[target] \in Seq(Item)
    BY <1>1 DEF LockedStates
  <2> QED BY <1>1, <1>2, <2>1, AppendFacts, AppendHas
<1>4. /\ t \in LockedStates
      /\ t.queue = [s.queue EXCEPT ![w] = target]
      /\ t.flags = [s.flags EXCEPT ![w] = @ \cup {"QUEUED"}]
      /\ \A p \in Queues :
           t.pending[p] = IF p = target THEN Append(s.pending[p], w) ELSE s.pending[p]
  BY <1>1, <1>3 DEF LockedStates, WorkFlag, notify_queue_locked
<1>5. \A v \in Works :
        /\ t.queue[v] = IF v = w THEN target ELSE s.queue[v]
        /\ "QUEUED" \in t.flags[v] <=> v = w \/ "QUEUED" \in s.flags[v]
        /\ "RUNNING" \in t.flags[v] <=> "RUNNING" \in s.flags[v]
  BY <1>1, <1>4 DEF LockedStates
<1> HIDE DEF t
<1>6. ListedIsQueued(t)
  BY <1>1, <1>3, <1>4, <1>5 DEF Consistent, ListedIsQueued
<1>7. TakenIsRunning(t, cur)
  BY <1>1, <1>5 DEF Consistent, TakenIsRunning
<1>8. BusyIsStarted(t, cur, qflags)
  BY <1>1, <1>4 DEF Consistent, BusyIsStarted
<1> QED BY <1>4, <1>6, <1>7, <1>8 DEF Consistent

(* A flusher on the list disturbs no item: it is not one.                  *)
LEMMA FlushConsistent ==
  ASSUME NEW s, NEW cur, NEW qf, Consistent(s, cur, qf),
         NEW w \in Works, NEW c \in Clients
  PROVE  Consistent(work_flush_locked(s, w, c), cur, qf)
<1> DEFINE q == s.queue[w]
           list == s.pending[q]
           new == queue_flusher_locked(list, w, c, "QUEUED" \in s.flags[w])
           t == work_flush_locked(s, w, c)
<1> SUFFICES ASSUME needs_flush(s, w)
             PROVE  Consistent(t, cur, qf)
  BY DEF work_flush_locked
<1>1. /\ s \in LockedStates
      /\ q \in Queues
      /\ "STARTED" \in qf[q]
      /\ list \in Seq(Item)
      /\ Once(list, Works)
      /\ c \in Item /\ c \notin Works
  <2>1. s \in LockedStates /\ c \in Item /\ c \notin Works
    BY ConstantsAssumption DEF Consistent, Item
  <2>2. "QUEUED" \in s.flags[w] \/ "RUNNING" \in s.flags[w]
    BY DEF needs_flush
  <2>3. q \in Queues
    BY <2>2 DEF Consistent, ListedIsQueued, TakenIsRunning
  <2>4. list \in Seq(Item) /\ Once(list, Works)
    BY <2>1, <2>3 DEF Consistent, LockedStates, ListedIsQueued
  <2>5. CASE "QUEUED" \in s.flags[w]
    <3>1. Has(list, w)
      BY <2>3, <2>5 DEF Consistent, ListedIsQueued
    <3>2. list # <<>>
      BY <2>4, <3>1, EmptyHas
    <3> QED BY <2>1, <2>3, <2>4, <3>2 DEF Consistent, BusyIsStarted
  <2>6. CASE "RUNNING" \in s.flags[w]
    <3>1. cur[q] = w /\ w # NULL
      BY <2>3, <2>6, ConstantsAssumption DEF Consistent, TakenIsRunning
    <3> QED BY <2>1, <2>3, <2>4, <3>1 DEF Consistent, BusyIsStarted
  <2> QED BY <2>2, <2>5, <2>6
<1>2. new \in Seq(Item) /\ Once(new, Works) /\ \A x \in Works : Has(new, x) <=> Has(list, x)
  <2>1. CASE "QUEUED" \in s.flags[w]
    <3>1. Has(list, w)
      BY <1>1, <2>1 DEF Consistent, ListedIsQueued
    <3>2. IndexOf(list, w) \in 1..Len(list)
      BY <3>1, <1>1, LenProperties DEF IndexOf, Has
    <3>3. IndexOf(list, w) + 1 \in 1..(Len(list) + 1)
      BY <3>2, <1>1, LenProperties
    <3>4. new = InsertAt(list, IndexOf(list, w) + 1, c)
      BY <2>1 DEF queue_flusher_locked
    <3> HIDE DEF new, list
    <3> QED BY <1>1, <3>3, <3>4, InsertAtFacts, InsertHas
  <2>2. CASE "QUEUED" \notin s.flags[w]
    <3>1. new = Cons(c, list)
      BY <2>2 DEF queue_flusher_locked
    <3> HIDE DEF new, list
    <3> QED BY <1>1, <3>1, ConsFacts, ConsHas
  <2> QED BY <2>1, <2>2
<1>3. /\ t \in LockedStates /\ t.queue = s.queue /\ t.flags = s.flags
      /\ \A p \in Queues : t.pending[p] = IF p = q THEN new ELSE s.pending[p]
  <2>1. t = [s EXCEPT !.pending = [@ EXCEPT ![q] = new], !.notifyq = notify_queue_locked(@, q)]
    BY DEF work_flush_locked
  <2> HIDE DEF new, t
  <2> QED BY <1>1, <1>2, <2>1 DEF LockedStates, notify_queue_locked
<1> HIDE DEF new, t
<1>4. ListedIsQueued(t)
  BY <1>1, <1>2, <1>3 DEF Consistent, ListedIsQueued
<1>5. TakenIsRunning(t, cur)
  BY <1>3 DEF Consistent, TakenIsRunning
<1>6. BusyIsStarted(t, cur, qf)
  BY <1>1, <1>3 DEF Consistent, BusyIsStarted
<1> QED BY <1>3, <1>4, <1>5, <1>6 DEF Consistent

(* Cancelling takes a queued item off its list.                            *)
LEMMA RemoveConsistent ==
  ASSUME NEW s, NEW cur, NEW qf, Consistent(s, cur, qf), NEW w \in Works
  PROVE  Consistent(queue_remove_locked(s, w), cur, qf)
<1> DEFINE q == s.queue[w]
           list == s.pending[q]
           new == RemoveAt(list, IndexOf(list, w))
           t == queue_remove_locked(s, w)
<1> SUFFICES ASSUME "QUEUED" \in s.flags[w]
             PROVE  Consistent(t, cur, qf)
  BY DEF queue_remove_locked
<1>1. /\ s \in LockedStates
      /\ q \in Queues
      /\ list \in Seq(Item)
      /\ Once(list, Works)
      /\ Has(list, w)
  BY DEF Consistent, LockedStates, ListedIsQueued
<1>2. IndexOf(list, w) \in 1..Len(list) /\ list[IndexOf(list, w)] = w
  BY <1>1, LenProperties DEF IndexOf, Has
<1>3. /\ new \in Seq(Item) /\ Once(new, Works)
      /\ \A x \in Works : Has(new, x) <=> Has(list, x) /\ x # w
  <2> HIDE DEF list
  <2> QED BY <1>1, <1>2, RemoveAtFacts, RemoveHas
<1>4. /\ t \in LockedStates /\ t.queue = s.queue
      /\ t.flags = [s.flags EXCEPT ![w] = @ \ {"QUEUED"}]
      /\ \A p \in Queues : t.pending[p] = IF p = q THEN new ELSE s.pending[p]
  <2> DEFINE u == WithFlags(s, w, s.flags[w] \ {"QUEUED"})
  <2>1. t = [u EXCEPT !.pending = [@ EXCEPT ![q] = new]]
    BY DEF queue_remove_locked
  <2>2. /\ u \in LockedStates /\ u.queue = s.queue /\ u.pending = s.pending
        /\ u.flags = [s.flags EXCEPT ![w] = @ \ {"QUEUED"}]
    BY <1>1 DEF LockedStates, WithFlags
  <2> HIDE DEF t, u, new
  <2> QED BY <1>1, <1>3, <2>1, <2>2 DEF LockedStates
<1>5. \A v \in Works :
        /\ "QUEUED" \in t.flags[v] <=> v # w /\ "QUEUED" \in s.flags[v]
        /\ "RUNNING" \in t.flags[v] <=> "RUNNING" \in s.flags[v]
  BY <1>1, <1>4 DEF LockedStates
<1> HIDE DEF new, t
<1>6. ListedIsQueued(t)
  BY <1>1, <1>3, <1>4, <1>5 DEF Consistent, ListedIsQueued
<1>7. TakenIsRunning(t, cur)
  BY <1>4, <1>5 DEF Consistent, TakenIsRunning
<1>8. BusyIsStarted(t, cur, qf)
  <2>1. list # <<>>
    BY <1>1, EmptyHas
  <2> QED BY <1>1, <1>4, <2>1 DEF Consistent, BusyIsStarted
<1> QED BY <1>4, <1>6, <1>7, <1>8 DEF Consistent

(* cancel_async_locked removes the item and marks it.                      *)
LEMMA CancelConsistent ==
  ASSUME NEW s, NEW cur, NEW qf, Consistent(s, cur, qf), NEW w \in Works
  PROVE  Consistent(cancel_async_locked(s, w), cur, qf)
<1> DEFINE r == IF "CANCELING" \in s.flags[w] THEN s ELSE queue_remove_locked(s, w)
<1>1. Consistent(r, cur, qf)
  BY RemoveConsistent
<1> HIDE DEF r
<1>2. r.flags[w] \cup {"CANCELING"} \in SUBSET WorkFlag
  BY <1>1 DEF Consistent, LockedStates, WorkFlag
<1>3. Consistent(WithFlags(r, w, r.flags[w] \cup {"CANCELING"}), cur, qf)
  BY <1>1, <1>2, WithFlagsConsistent
<1> QED BY <1>1, <1>3 DEF cancel_async_locked, r

(* unschedule_locked clears the delayed mark.                              *)
LEMMA UnscheduleConsistent ==
  ASSUME NEW s, NEW cur, NEW qf, Consistent(s, cur, qf), NEW d \in Works
  PROVE  Consistent(unscheduled(s, d), cur, qf)
<1>1. s.flags[d] \ {"DELAYED"} \in SUBSET WorkFlag
  BY DEF Consistent, LockedStates
<1> QED BY <1>1, WithFlagsConsistent DEF unscheduled

-----------------------------------------------------------------------------
(* The type invariant in parts: the locked state, the timers, the queue    *)
(* threads, the waiting clients and the history.                           *)
TimerTypeOK ==
  /\ delayQueue \in [Delayables -> Queues \cup {NULL}]
  /\ armed \in [Delayables -> BOOLEAN]
  /\ freshCb \in [Delayables -> Nat]
  /\ staleCb \in [Delayables -> Nat]

QueueTypeOK ==
  /\ qflags \in [Queues -> SUBSET QueueFlag]
  /\ drainq \in [Queues -> {0, 1}]
  /\ qpc \in [Queues -> {"off", "loop", "sleep", "handler"}]
  /\ qcur \in [Queues -> Item \cup {NULL}]

SyncTypeOK ==
  /\ pc \in [Clients -> {"idle", "flush", "cancel", "drain", "join", "unstop"}]
  /\ arg \in [Clients -> Works \cup Queues \cup {NULL}]
  /\ sem \in [Clients -> {0, 1}]
  /\ cancels \in Seq(Clients)

OwedTypeOK ==
  /\ owedQueued \in [Clients -> SUBSET Works]
  /\ owedRunning \in [Clients -> SUBSET Works]

(* A thread has an item while it runs a handler, and exists while its      *)
(* queue is marked started.                                                *)
ThreadsOK ==
  \A q \in Queues :
    /\ qcur[q] # NULL <=> qpc[q] = "handler"
    /\ "STARTED" \in qflags[q] <=> qpc[q] # "off"

IInv ==
  /\ Consistent(Locked, qcur, qflags)
  /\ TimerTypeOK
  /\ QueueTypeOK
  /\ SyncTypeOK
  /\ OwedTypeOK
  /\ ThreadsOK

(* The invariant implies the properties the runs check.                    *)
LEMMA InvImpliesTypeOK == IInv => TypeOK
BY DEF IInv, TypeOK, Consistent, Locked, LockedStates, TimerTypeOK, QueueTypeOK,
       SyncTypeOK, OwedTypeOK

LEMMA InvImpliesRunningIsCurrent == IInv => RunningIsCurrent
BY DEF IInv, RunningIsCurrent, Consistent, Locked, TakenIsRunning

LEMMA InvImpliesNoReentrancy == IInv => NoReentrancy
BY InvImpliesRunningIsCurrent DEF RunningIsCurrent, NoReentrancy

LEMMA InvImpliesQueuedOnce == IInv => QueuedOnce
<1> SUFFICES ASSUME IInv, NEW w \in Works, NEW q \in Queues
             PROVE  /\ w \in ToSet(pending[q]) <=> "QUEUED" \in flags[w] /\ workQueue[w] = q
                    /\ \A i, j \in DOMAIN pending[q] :
                         pending[q][i] = w /\ pending[q][j] = w => i = j
  BY DEF QueuedOnce
<1>1. /\ pending[q] \in Seq(Item)
      /\ Has(pending[q], w) <=> "QUEUED" \in flags[w] /\ workQueue[w] = q
      /\ Once(pending[q], Works)
  BY DEF IInv, Consistent, Locked, LockedStates, ListedIsQueued
<1>2. DOMAIN pending[q] = 1..Len(pending[q])
  BY <1>1, LenProperties
<1>3. w \in ToSet(pending[q]) <=> Has(pending[q], w)
  BY <1>2 DEF ToSet, Has
<1> QED BY <1>1, <1>2, <1>3 DEF Once

LEMMA InitInv == Init => IInv
<1> SUFFICES ASSUME Init PROVE IInv
  OBVIOUS
<1>1. Locked \in LockedStates
  BY DEF Init, Locked, LockedStates
<1>2. ListedIsQueued(Locked)
  BY DEF Init, Locked, ListedIsQueued, Has, Once
<1>3. TakenIsRunning(Locked, qcur) /\ BusyIsStarted(Locked, qcur, qflags)
  BY ConstantsAssumption DEF Init, Locked, TakenIsRunning, BusyIsStarted
<1>4. TimerTypeOK /\ QueueTypeOK /\ SyncTypeOK /\ OwedTypeOK
  BY DEF Init, TimerTypeOK, QueueTypeOK, SyncTypeOK, OwedTypeOK
<1>5. ThreadsOK
  BY DEF Init, ThreadsOK
<1> QED BY <1>1, <1>2, <1>3, <1>4, <1>5 DEF IInv, Consistent

-----------------------------------------------------------------------------
(* A call that leaves the queue threads alone and a consistent locked      *)
(* state behind preserves the invariant.                                   *)
LEMMA CallStep ==
  ASSUME IInv, NEW s, Consistent(s, qcur, qflags), Unlock(s),
         UNCHANGED queueVars, TimerTypeOK', SyncTypeOK', OwedTypeOK'
  PROVE  IInv'
<1>1. Locked' = s
  BY DEF Unlock, Locked, Consistent, LockedStates
<1>2. qcur' = qcur /\ qflags' = qflags /\ QueueTypeOK' /\ ThreadsOK'
  BY DEF IInv, queueVars, QueueTypeOK, ThreadsOK
<1> QED BY <1>1, <1>2 DEF IInv

LEMMA SubmitStep ==
  ASSUME IInv, NEW t, NEW w \in Works, NEW q \in Queues \cup {NULL},
         bt_work_submit_to_queue(t, w, q)
  PROVE  IInv'
<1>1. Consistent(submit_to_queue_locked(Locked, w, q, t), qcur, qflags)
  BY SubmitConsistent DEF IInv
<1>2. TimerTypeOK' /\ SyncTypeOK' /\ OwedTypeOK'
  BY DEF IInv, bt_work_submit_to_queue, TimerTypeOK, SyncTypeOK, OwedTypeOK,
         timerVars, syncVars, owedVars
<1> QED BY <1>1, <1>2, CallStep DEF bt_work_submit_to_queue

(* The wait of a flush changes what the client waits for and the list.     *)
LEMMA WaitForFlusherTypes ==
  ASSUME SyncTypeOK, OwedTypeOK, NEW c \in Clients, NEW w \in Works, NEW s,
         WaitForFlusher(c, w, s)
  PROVE  SyncTypeOK' /\ OwedTypeOK'
<1>1. If("QUEUED" \in s.flags[w], w) \in SUBSET Works
      /\ If("QUEUED" \notin s.flags[w], w) \in SUBSET Works
  BY DEF If
<1>2. CASE needs_flush(s, w)
  BY <1>1, <1>2 DEF WaitForFlusher, Wait, SyncTypeOK, OwedTypeOK
<1>3. CASE ~needs_flush(s, w)
  BY <1>3 DEF WaitForFlusher, SyncTypeOK, OwedTypeOK, owedVars
<1> QED BY <1>2, <1>3

LEMMA FlushStep ==
  ASSUME IInv, NEW c, NEW w \in Works, bt_work_flush(c, w)
  PROVE  IInv'
<1>1. c \in Clients
  BY DEF bt_work_flush, MayBlock
<1>2. Consistent(work_flush_locked(Locked, w, c), qcur, qflags)
  BY <1>1, FlushConsistent DEF IInv
<1>3. TimerTypeOK' /\ SyncTypeOK' /\ OwedTypeOK'
  BY <1>1, WaitForFlusherTypes DEF IInv, bt_work_flush, TimerTypeOK, timerVars
<1> QED BY <1>2, <1>3, CallStep DEF bt_work_flush, WaitForFlusher

LEMMA ForgetQueuedType ==
  ASSUME OwedTypeOK, NEW w
  PROVE  ForgetQueued(w) \in [Clients -> SUBSET Works]
BY DEF OwedTypeOK, ForgetQueued

LEMMA CancelStep ==
  ASSUME IInv, NEW t, NEW w \in Works, bt_work_cancel(t, w)
  PROVE  IInv'
<1>1. Consistent(cancel_async_locked(Locked, w), qcur, qflags)
  BY CancelConsistent DEF IInv
<1>2. TimerTypeOK' /\ SyncTypeOK' /\ OwedTypeOK'
  BY ForgetQueuedType DEF IInv, bt_work_cancel, Cancel, TimerTypeOK, SyncTypeOK, OwedTypeOK,
         timerVars, syncVars
<1> QED BY <1>1, <1>2, CallStep DEF bt_work_cancel, Cancel

(* The wait of a synchronous cancel.                                       *)
LEMMA CancelAndWaitTypes ==
  ASSUME SyncTypeOK, OwedTypeOK, NEW c \in Clients, NEW w \in Works, NEW s,
         CancelAndWait(c, s, w)
  PROVE  SyncTypeOK' /\ OwedTypeOK'
<1> DEFINE r == cancel_async_locked(s, w)
<1>1. owedQueued' \in [Clients -> SUBSET Works] /\ sem' = sem
  BY ForgetQueuedType DEF CancelAndWait
<1>2. CASE "CANCELING" \in r.flags[w]
  <2>1. /\ cancels' = Append(cancels, c)
        /\ pc' = [pc EXCEPT ![c] = "cancel"]
        /\ arg' = [arg EXCEPT ![c] = w]
        /\ owedRunning' = [owedRunning EXCEPT ![c] = {w}]
    BY <1>2 DEF CancelAndWait
  <2> QED BY <1>1, <2>1 DEF SyncTypeOK, OwedTypeOK
<1>3. CASE "CANCELING" \notin r.flags[w]
  BY <1>1, <1>3 DEF CancelAndWait, SyncTypeOK, OwedTypeOK
<1> QED BY <1>2, <1>3

LEMMA CancelSyncStep ==
  ASSUME IInv, NEW c, NEW w \in Works, bt_work_cancel_sync(c, w)
  PROVE  IInv'
<1>1. c \in Clients
  BY DEF bt_work_cancel_sync, MayBlock
<1>2. TimerTypeOK' /\ UNCHANGED queueVars
  BY DEF IInv, bt_work_cancel_sync, TimerTypeOK, timerVars
<1>3. CASE flags[w] # {}
  <2>1. Consistent(cancel_async_locked(Locked, w), qcur, qflags)
    BY CancelConsistent DEF IInv
  <2>2. SyncTypeOK' /\ OwedTypeOK'
    BY <1>1, <1>3, CancelAndWaitTypes DEF IInv, bt_work_cancel_sync
  <2>3. Unlock(cancel_async_locked(Locked, w))
    BY <1>3 DEF bt_work_cancel_sync, CancelAndWait
  <2> QED BY <1>2, <2>1, <2>2, <2>3, CallStep
<1>4. CASE flags[w] = {}
  <2>1. Unlock(Locked) /\ SyncTypeOK' /\ OwedTypeOK'
    BY <1>4 DEF IInv, bt_work_cancel_sync, Unlock, Locked, wqVars, syncVars, owedVars,
                SyncTypeOK, OwedTypeOK
  <2> QED BY <1>2, <2>1, CallStep DEF IInv
<1> QED BY <1>3, <1>4

-----------------------------------------------------------------------------
(* Setting or stopping the timer of a delayable item.                      *)
LEMMA TimerSetTypes ==
  ASSUME TimerTypeOK, NEW d \in Delayables, NEW on \in BOOLEAN, TimerSet(d, on),
         delayQueue' \in [Delayables -> Queues \cup {NULL}]
  PROVE  TimerTypeOK'
<1>1. armed' \in [Delayables -> BOOLEAN]
  BY Zenon DEF TimerTypeOK, TimerSet
<1>2. freshCb' \in [Delayables -> Nat] /\ staleCb' \in [Delayables -> Nat]
  BY DEF TimerTypeOK, TimerSet
<1> QED BY <1>1, <1>2 DEF TimerTypeOK

LEMMA StopTimerTypes ==
  ASSUME TimerTypeOK, NEW d \in Delayables, StopTimerIfDelayed(d), UNCHANGED delayQueue
  PROVE  TimerTypeOK'
<1>1. CASE "DELAYED" \in flags[d]
  BY <1>1, TimerSetTypes DEF StopTimerIfDelayed, TimerTypeOK
<1>2. CASE "DELAYED" \notin flags[d]
  BY <1>2 DEF StopTimerIfDelayed, TimerTypeOK
<1> QED BY <1>1, <1>2

(* Scheduling a consistent locked state, for later or at once.             *)
LEMMA LaterConsistent ==
  ASSUME NEW s, NEW cur, NEW qf, Consistent(s, cur, qf), NEW d \in Works
  PROVE  Consistent(WithFlags(s, d, s.flags[d] \cup {"DELAYED"}), cur, qf)
<1>1. s.flags[d] \cup {"DELAYED"} \in SUBSET WorkFlag
  BY DEF Consistent, LockedStates, WorkFlag
<1> QED BY <1>1, WithFlagsConsistent

LEMMA ScheduleStep ==
  ASSUME IInv, NEW t, NEW d \in Delayables, NEW q \in Queues, NEW now \in BOOLEAN,
         bt_work_schedule_for_queue(t, d, q, now)
  PROVE  IInv'
<1>0. d \in Works /\ q \in Queues \cup {NULL}
  BY ConstantsAssumption
<1>1. SyncTypeOK' /\ OwedTypeOK' /\ UNCHANGED queueVars
  BY DEF IInv, bt_work_schedule_for_queue, syncVars, owedVars, SyncTypeOK, OwedTypeOK
<1>2. CASE now
  <2>1. Consistent(submit_to_queue_locked(Locked, d, q, t), qcur, qflags)
    BY <1>0, SubmitConsistent DEF IInv
  <2>2. Unlock(submit_to_queue_locked(Locked, d, q, t)) /\ TimerTypeOK'
    BY <1>2 DEF IInv, bt_work_schedule_for_queue, ScheduleNow, TimerTypeOK
  <2> QED BY <1>1, <2>1, <2>2, CallStep
<1>3. CASE ~now
  <2> DEFINE s == WithFlags(Locked, d, Locked.flags[d] \cup {"DELAYED"})
  <2>1. Consistent(s, qcur, qflags)
    BY <1>0, LaterConsistent DEF IInv
  <2>2. ScheduleLater(Locked, d, q)
    BY <1>3 DEF bt_work_schedule_for_queue
  <2>3. Unlock(s)
    BY <2>2 DEF ScheduleLater
  <2>4. TimerTypeOK'
    BY <2>2, TimerSetTypes DEF IInv, ScheduleLater, TimerTypeOK
  <2> QED BY <1>1, <2>1, <2>3, <2>4, CallStep
<1> QED BY <1>2, <1>3

LEMMA RescheduleStep ==
  ASSUME IInv, NEW t, NEW d \in Delayables, NEW q \in Queues, NEW now \in BOOLEAN,
         bt_work_reschedule_for_queue(t, d, q, now)
  PROVE  IInv'
<1> DEFINE u == unscheduled(Locked, d)
<1>0. d \in Works /\ q \in Queues \cup {NULL}
  BY ConstantsAssumption
<1>1. SyncTypeOK' /\ OwedTypeOK' /\ UNCHANGED queueVars
  BY DEF IInv, bt_work_reschedule_for_queue, syncVars, owedVars, SyncTypeOK, OwedTypeOK
<1>2. Consistent(u, qcur, qflags)
  BY <1>0, UnscheduleConsistent DEF IInv
<1>3. CASE now
  <2>1. ScheduleNow(t, u, d, q) /\ StopTimerIfDelayed(d)
    BY <1>3 DEF bt_work_reschedule_for_queue
  <2> HIDE DEF u
  <2>2. Consistent(submit_to_queue_locked(u, d, q, t), qcur, qflags)
    BY <1>0, <1>2, SubmitConsistent
  <2>3. Unlock(submit_to_queue_locked(u, d, q, t)) /\ TimerTypeOK'
    BY <2>1, StopTimerTypes DEF IInv, ScheduleNow
  <2> QED BY <1>1, <2>2, <2>3, CallStep
<1>4. CASE ~now
  <2>1. ScheduleLater(u, d, q)
    BY <1>4 DEF bt_work_reschedule_for_queue
  <2> HIDE DEF u
  <2> DEFINE s == WithFlags(u, d, u.flags[d] \cup {"DELAYED"})
  <2>2. Consistent(s, qcur, qflags)
    BY <1>0, <1>2, LaterConsistent
  <2>3. Unlock(s)
    BY <2>1 DEF ScheduleLater
  <2>4. TimerTypeOK'
    BY <2>1, TimerSetTypes DEF IInv, ScheduleLater, TimerTypeOK
  <2> QED BY <1>1, <2>2, <2>3, <2>4, CallStep
<1> QED BY <1>3, <1>4

LEMMA CancelDelayableStep ==
  ASSUME IInv, NEW t, NEW d \in Delayables, bt_work_cancel_delayable(t, d)
  PROVE  IInv'
<1> DEFINE u == unscheduled(Locked, d)
<1>0. d \in Works
  BY ConstantsAssumption
<1>1. Consistent(u, qcur, qflags)
  BY <1>0, UnscheduleConsistent DEF IInv
<1>2. Cancel(u, d) /\ StopTimerIfDelayed(d) /\ UNCHANGED <<delayQueue, queueVars>>
  BY DEF bt_work_cancel_delayable
<1> HIDE DEF u
<1>3. Consistent(cancel_async_locked(u, d), qcur, qflags)
  BY <1>0, <1>1, CancelConsistent
<1>4. Unlock(cancel_async_locked(u, d)) /\ SyncTypeOK' /\ OwedTypeOK'
  BY <1>2, ForgetQueuedType DEF IInv, Cancel, syncVars, SyncTypeOK, OwedTypeOK
<1>5. TimerTypeOK'
  BY <1>2, StopTimerTypes DEF IInv
<1> QED BY <1>2, <1>3, <1>4, <1>5, CallStep

LEMMA CancelDelayableSyncStep ==
  ASSUME IInv, NEW c, NEW d \in Delayables, bt_work_cancel_delayable_sync(c, d)
  PROVE  IInv'
<1> DEFINE u == unscheduled(Locked, d)
<1>0. d \in Works /\ c \in Clients /\ UNCHANGED <<delayQueue, queueVars>>
  BY ConstantsAssumption DEF bt_work_cancel_delayable_sync, MayBlock
<1>1. Consistent(u, qcur, qflags)
  BY <1>0, UnscheduleConsistent DEF IInv
<1>2. CASE flags[d] # {}
  <2>1. CancelAndWait(c, u, d) /\ StopTimerIfDelayed(d)
    BY <1>2 DEF bt_work_cancel_delayable_sync
  <2> HIDE DEF u
  <2>2. Consistent(cancel_async_locked(u, d), qcur, qflags)
    BY <1>0, <1>1, CancelConsistent
  <2>3. SyncTypeOK' /\ OwedTypeOK'
    BY <1>0, <2>1, CancelAndWaitTypes DEF IInv
  <2>4. TimerTypeOK' /\ Unlock(cancel_async_locked(u, d))
    BY <1>0, <2>1, StopTimerTypes DEF IInv, CancelAndWait
  <2> QED BY <1>0, <2>2, <2>3, <2>4, CallStep
<1>3. CASE flags[d] = {}
  <2>1. Unlock(Locked) /\ SyncTypeOK' /\ OwedTypeOK' /\ TimerTypeOK'
    BY <1>0, <1>3 DEF IInv, bt_work_cancel_delayable_sync, Unlock, Locked, wqVars, syncVars,
                owedVars, SyncTypeOK, OwedTypeOK, TimerTypeOK
  <2> QED BY <1>0, <2>1, CallStep DEF IInv
<1> QED BY <1>2, <1>3

LEMMA FlushDelayableStep ==
  ASSUME IInv, NEW c, NEW d \in Delayables, bt_work_flush_delayable(c, d)
  PROVE  IInv'
<1> DEFINE u == unscheduled(Locked, d)
           s == IF "DELAYED" \in flags[d]
                THEN submit_to_queue_locked(u, d, delayQueue[d], c)
                ELSE u
<1>0. d \in Works /\ c \in Clients /\ delayQueue[d] \in Queues \cup {NULL}
  BY ConstantsAssumption DEF IInv, TimerTypeOK, bt_work_flush_delayable, MayBlock
<1>1. Consistent(u, qcur, qflags)
  BY <1>0, UnscheduleConsistent DEF IInv
<1>2. /\ WaitForFlusher(c, d, s) /\ StopTimerIfDelayed(d)
      /\ UNCHANGED <<delayQueue, queueVars>>
  BY DEF bt_work_flush_delayable
<1> HIDE DEF u
<1>3. Consistent(s, qcur, qflags)
  BY <1>0, <1>1, SubmitConsistent
<1> HIDE DEF s
<1>4. Consistent(work_flush_locked(s, d, c), qcur, qflags)
  BY <1>0, <1>3, FlushConsistent
<1>5. SyncTypeOK' /\ OwedTypeOK'
  BY <1>0, <1>2, WaitForFlusherTypes DEF IInv
<1>6. TimerTypeOK' /\ Unlock(work_flush_locked(s, d, c))
  BY <1>2, StopTimerTypes DEF IInv, WaitForFlusher
<1> QED BY <1>2, <1>4, <1>5, <1>6, CallStep

LEMMA TimerExpiresStep ==
  ASSUME IInv, NEW d \in Delayables, TimerExpires(d)
  PROVE  IInv'
<1>1. Unlock(Locked) /\ SyncTypeOK' /\ OwedTypeOK' /\ UNCHANGED queueVars
  BY DEF IInv, TimerExpires, Unlock, Locked, wqVars, syncVars, owedVars, SyncTypeOK, OwedTypeOK
<1>2. TimerTypeOK'
  BY DEF IInv, TimerExpires, TimerTypeOK
<1> QED BY <1>1, <1>2, CallStep DEF IInv

LEMMA WorkTimeoutStep ==
  ASSUME IInv, NEW d \in Delayables, work_timeout(d)
  PROVE  IInv'
<1> DEFINE u == unscheduled(Locked, d)
           s == submit_to_queue_locked(u, d, delayQueue[d], NULL)
<1>0. d \in Works /\ delayQueue[d] \in Queues \cup {NULL}
  BY ConstantsAssumption DEF IInv, TimerTypeOK
<1>1. SyncTypeOK' /\ OwedTypeOK' /\ UNCHANGED queueVars
  BY DEF IInv, work_timeout, syncVars, owedVars, SyncTypeOK, OwedTypeOK
<1>2. TimerTypeOK'
  BY DEF IInv, work_timeout, TimerTypeOK
<1>3. CASE "DELAYED" \in flags[d]
  <2>1. Consistent(u, qcur, qflags)
    BY <1>0, UnscheduleConsistent DEF IInv
  <2>2. Unlock(s)
    BY <1>3 DEF work_timeout, SubmitDelayed
  <2> HIDE DEF u
  <2>3. Consistent(s, qcur, qflags)
    BY <1>0, <2>1, SubmitConsistent
  <2> QED BY <1>1, <1>2, <2>2, <2>3, CallStep
<1>4. CASE "DELAYED" \notin flags[d]
  <2>1. Unlock(Locked)
    BY <1>4 DEF work_timeout, SubmitDelayed, wqVars, Unlock, Locked
  <2> QED BY <1>1, <1>2, <2>1, CallStep DEF IInv
<1> QED BY <1>3, <1>4

-----------------------------------------------------------------------------
(* A step on the queue's flags and thread that leaves the items, the lists *)
(* and the taken items alone, and every started queue started.             *)
LEMMA QueueStep ==
  ASSUME IInv, UNCHANGED <<flags, workQueue, pending, qcur, timerVars>>,
         notifyq' \in [Queues -> {0, 1}],
         \A q \in Queues : /\ "STARTED" \in qflags'[q] <=> qpc'[q] # "off"
                           /\ qpc'[q] = "handler" <=> qpc[q] = "handler"
                           /\ pending[q] # <<>> \/ qcur[q] # NULL => "STARTED" \in qflags'[q],
         QueueTypeOK', SyncTypeOK', OwedTypeOK'
  PROVE  IInv'
<1> DEFINE s == Locked
           r == Locked'
<1>1. /\ s \in LockedStates /\ r \in LockedStates
      /\ r.flags = s.flags /\ r.queue = s.queue /\ r.pending = s.pending
      /\ s.pending = pending
  BY DEF IInv, Consistent, Locked, LockedStates
<1> HIDE DEF s, r
<1>2. ListedIsQueued(s) /\ TakenIsRunning(s, qcur)
  BY DEF IInv, Consistent, s
<1>3. ListedIsQueued(r)
  BY <1>1, <1>2 DEF ListedIsQueued
<1>4. TakenIsRunning(r, qcur')
  BY <1>1, <1>2 DEF TakenIsRunning
<1>5. BusyIsStarted(r, qcur', qflags')
  BY <1>1 DEF BusyIsStarted
<1>6. Consistent(Locked, qcur, qflags)'
  BY <1>1, <1>3, <1>4, <1>5 DEF Consistent, r
<1>7. TimerTypeOK' /\ ThreadsOK'
  BY DEF IInv, TimerTypeOK, ThreadsOK, timerVars
<1> QED BY <1>6, <1>7 DEF IInv

LEMMA NotifyType ==
  ASSUME IInv, NEW q \in Queues
  PROVE  notifyq \in [Queues -> {0, 1}] /\ notify_queue_locked(notifyq, q) \in [Queues -> {0, 1}]
<1>1. notifyq \in [Queues -> {0, 1}]
  BY DEF IInv, Consistent, Locked, LockedStates
<1> QED BY <1>1 DEF notify_queue_locked

(* What the invariant says of a queue thread.                              *)
LEMMA ThreadFacts ==
  ASSUME IInv, NEW q \in Queues
  PROVE  /\ qflags[q] \in SUBSET QueueFlag
         /\ qcur[q] # NULL <=> qpc[q] = "handler"
         /\ "STARTED" \in qflags[q] <=> qpc[q] # "off"
         /\ pending[q] # <<>> \/ qcur[q] # NULL => "STARTED" \in qflags[q]
         /\ pending[q] \in Seq(Item)
BY DEF IInv, ThreadsOK, QueueTypeOK, Consistent, BusyIsStarted, Locked, LockedStates

LEMMA DrainStep ==
  ASSUME IInv, NEW c, NEW q \in Queues, NEW plug \in BOOLEAN, bt_work_queue_drain(c, q, plug)
  PROVE  IInv'
<1>1. c \in Clients
  BY DEF bt_work_queue_drain, MayBlock
<1>2. notifyq' \in [Queues -> {0, 1}]
  BY NotifyType DEF bt_work_queue_drain
<1>3. DrainFlags(plug) \in SUBSET QueueFlag
  BY DEF DrainFlags, If, QueueFlag
<1>4. QueueTypeOK'
  BY <1>3 DEF IInv, QueueTypeOK, bt_work_queue_drain
<1>5. SyncTypeOK' /\ OwedTypeOK'
  BY <1>1 DEF IInv, SyncTypeOK, OwedTypeOK, bt_work_queue_drain, Wait
<1>6. \A p \in Queues : qpc'[p] = qpc[p]
                        /\ ("STARTED" \in qflags'[p] <=> "STARTED" \in qflags[p])
  BY DEF IInv, QueueTypeOK, bt_work_queue_drain, DrainFlags, If
<1>7. UNCHANGED <<flags, workQueue, pending, qcur, timerVars>>
  BY DEF bt_work_queue_drain
<1> QED BY <1>2, <1>4, <1>5, <1>6, <1>7, ThreadFacts, QueueStep

LEMMA UnplugStep ==
  ASSUME IInv, NEW c, NEW q \in Queues, bt_work_queue_unplug(c, q)
  PROVE  IInv'
<1>1. QueueTypeOK' /\ SyncTypeOK' /\ OwedTypeOK'
  BY DEF IInv, QueueTypeOK, SyncTypeOK, OwedTypeOK, syncVars, owedVars, bt_work_queue_unplug
<1>2. \A p \in Queues : qpc'[p] = qpc[p]
                        /\ ("STARTED" \in qflags'[p] <=> "STARTED" \in qflags[p])
  BY DEF IInv, QueueTypeOK, bt_work_queue_unplug
<1>3. UNCHANGED <<flags, workQueue, pending, qcur, timerVars>> /\ notifyq' = notifyq
  BY DEF bt_work_queue_unplug, wqVars
<1> QED BY <1>1, <1>2, <1>3, NotifyType, ThreadFacts, QueueStep

LEMMA StopStep ==
  ASSUME IInv, NEW c, NEW q \in Queues, NEW nowait \in BOOLEAN, bt_work_queue_stop(c, q, nowait)
  PROVE  IInv'
<1>1. c \in Clients
  BY DEF bt_work_queue_stop, MayBlock
<1>2. notifyq' \in [Queues -> {0, 1}]
  BY NotifyType DEF bt_work_queue_stop
<1>3. QueueTypeOK'
  BY DEF IInv, QueueTypeOK, bt_work_queue_stop, QueueFlag
<1>4. SyncTypeOK' /\ OwedTypeOK'
  BY <1>1 DEF IInv, SyncTypeOK, OwedTypeOK, bt_work_queue_stop, Wait
<1>5. \A p \in Queues : qpc'[p] = qpc[p]
                        /\ ("STARTED" \in qflags'[p] <=> "STARTED" \in qflags[p])
  BY DEF IInv, QueueTypeOK, bt_work_queue_stop
<1>6. UNCHANGED <<flags, workQueue, pending, qcur, timerVars>>
  BY DEF bt_work_queue_stop
<1> QED BY <1>2, <1>3, <1>4, <1>5, <1>6, ThreadFacts, QueueStep

LEMMA ReturnTypes ==
  ASSUME SyncTypeOK, OwedTypeOK, NEW c \in Clients, Return(c)
  PROVE  /\ pc' \in [Clients -> {"idle", "flush", "cancel", "drain", "join", "unstop"}]
         /\ arg' \in [Clients -> Works \cup Queues \cup {NULL}]
         /\ OwedTypeOK'
BY DEF SyncTypeOK, OwedTypeOK, Return

LEMMA CallReturnsStep ==
  ASSUME IInv, NEW c \in Clients, CallReturns(c)
  PROVE  IInv'
<1>1. Return(c) /\ UNCHANGED <<cancels, wqVars, timerVars, qpc, qcur>>
  BY DEF CallReturns, ReturnFromSync, ReturnFromDrain, ReturnFromJoin, StopTimedOut, queueVars,
         wqVars, timerVars
<1>2. sem' \in [Clients -> {0, 1}]
  BY DEF IInv, SyncTypeOK, CallReturns, ReturnFromSync, ReturnFromDrain, ReturnFromJoin, StopTimedOut
<1>3. SyncTypeOK' /\ OwedTypeOK'
  BY <1>1, <1>2, ReturnTypes DEF IInv, SyncTypeOK
<1>4. drainq' \in [Queues -> {0, 1}]
  BY DEF IInv, QueueTypeOK, CallReturns, ReturnFromSync, ReturnFromDrain, ReturnFromJoin,
         StopTimedOut, queueVars
<1>5. qflags' \in [Queues -> SUBSET QueueFlag]
      /\ \A p \in Queues : "STARTED" \in qflags'[p] <=> "STARTED" \in qflags[p]
  BY DEF IInv, QueueTypeOK, CallReturns, ReturnFromSync, ReturnFromDrain, ReturnFromJoin,
         StopTimedOut, queueVars
<1>6. QueueTypeOK'
  BY <1>1, <1>4, <1>5 DEF IInv, QueueTypeOK
<1>7. UNCHANGED <<flags, workQueue, pending, qcur, timerVars>>
      /\ notifyq' \in [Queues -> {0, 1}]
  BY <1>1 DEF wqVars, IInv, Consistent, Locked, LockedStates
<1> QED BY <1>1, <1>3, <1>5, <1>6, <1>7, ThreadFacts, QueueStep

-----------------------------------------------------------------------------
(* A queue that is started has nothing left over from its former life.     *)
LEMMA StartStep ==
  ASSUME IInv, NEW c, NEW q \in Queues, bt_work_queue_start(c, q)
  PROVE  IInv'
<1>1. pending[q] = <<>> /\ qpc[q] = "off" /\ qcur[q] = NULL
  BY ThreadFacts DEF bt_work_queue_start
<1>2. pending' = pending /\ qcur' = qcur
  BY <1>1 DEF IInv, Consistent, Locked, LockedStates, bt_work_queue_start
<1>3. notifyq' \in [Queues -> {0, 1}]
  BY NotifyType DEF bt_work_queue_start
<1>4. QueueTypeOK'
  BY DEF IInv, QueueTypeOK, QueueFlag, bt_work_queue_start
<1>5. SyncTypeOK' /\ OwedTypeOK'
  BY DEF IInv, SyncTypeOK, OwedTypeOK, syncVars, owedVars, bt_work_queue_start
<1>6. \A p \in Queues : /\ "STARTED" \in qflags'[p] <=> p = q \/ "STARTED" \in qflags[p]
                        /\ qpc'[p] = IF p = q THEN "loop" ELSE qpc[p]
  BY DEF IInv, QueueTypeOK, bt_work_queue_start
<1>7. UNCHANGED <<flags, workQueue, pending, qcur, timerVars>>
  BY <1>2 DEF bt_work_queue_start
<1> QED BY <1>1, <1>3, <1>4, <1>5, <1>6, <1>7, ThreadFacts, QueueStep

(* An idle thread that drains, stops, sleeps or wakes has taken nothing.   *)
LEMMA IdleStep ==
  ASSUME IInv, NEW q \in Queues, Drained(q) \/ Stopped(q) \/ Sleep(q) \/ Wake(q)
  PROVE  IInv'
<1>1. UNCHANGED <<flags, workQueue, pending, qcur, timerVars>>
  BY DEF Drained, Stopped, Sleep, Wake, wqVars
<1>2. SyncTypeOK' /\ OwedTypeOK'
  BY DEF IInv, SyncTypeOK, OwedTypeOK, syncVars, owedVars, Drained, Stopped, Sleep, Wake
<1>3. notifyq' \in [Queues -> {0, 1}]
  BY NotifyType DEF Drained, Stopped, Sleep, Wake, wqVars
<1>4. QueueTypeOK'
  BY DEF IInv, QueueTypeOK, Drained, Stopped, Sleep, Wake
<1>5. /\ \A p \in Queues \ {q} : qpc'[p] = qpc[p] /\ qflags'[p] = qflags[p]
      /\ qpc[q] \in {"loop", "sleep"} /\ qpc'[q] # "handler"
  BY DEF IInv, QueueTypeOK, Drained, Stopped, Sleep, Wake, Idle
<1>6. "STARTED" \in qflags'[q] <=> qpc'[q] # "off"
  <2>1. "STARTED" \in qflags[q]
    BY <1>5, ThreadFacts
  <2>2. CASE Drained(q)
    BY <2>1, <2>2 DEF IInv, QueueTypeOK, Drained
  <2>3. CASE Stopped(q)
    BY <2>3 DEF IInv, QueueTypeOK, Stopped
  <2>4. CASE Sleep(q)
    BY <2>1, <2>4 DEF IInv, QueueTypeOK, Sleep
  <2>5. CASE Wake(q)
    BY <2>1, <2>5 DEF IInv, QueueTypeOK, Wake
  <2> QED BY <2>2, <2>3, <2>4, <2>5
<1>7. pending[q] # <<>> => "STARTED" \in qflags'[q]
  <2>1. CASE Drained(q) \/ Stopped(q) \/ Sleep(q)
    BY <2>1 DEF Drained, Stopped, Sleep, Idle
  <2>2. CASE Wake(q)
    BY <2>2, ThreadFacts DEF Wake
  <2> QED BY <2>1, <2>2
<1>8. \A p \in Queues : /\ "STARTED" \in qflags'[p] <=> qpc'[p] # "off"
                        /\ qpc'[p] = "handler" <=> qpc[p] = "handler"
                        /\ pending[p] # <<>> \/ qcur[p] # NULL => "STARTED" \in qflags'[p]
  BY <1>5, <1>6, <1>7, ThreadFacts
<1> QED BY <1>1, <1>2, <1>3, <1>4, <1>8, QueueStep

(* Taking the first element of the list: an item changes from queued to    *)
(* running on the same queue.                                              *)
LEMMA TakeItemStep ==
  ASSUME IInv, NEW q \in Queues, TakeItem(q)
  PROVE  IInv'
<1> DEFINE item == Head(pending[q])
           s == Locked
           r == Locked'
<1>0. /\ qpc[q] = "loop" /\ pending[q] # <<>> /\ pending[q] \in Seq(Item)
      /\ qcur[q] = NULL /\ "STARTED" \in qflags[q]
  BY ThreadFacts DEF TakeItem
<1>1. /\ s \in LockedStates /\ s.pending = pending /\ s.flags = flags /\ s.queue = workQueue
      /\ ListedIsQueued(s) /\ TakenIsRunning(s, qcur) /\ BusyIsStarted(s, qcur, qflags)
  BY DEF IInv, Consistent, Locked
<1>2. /\ Tail(pending[q]) \in Seq(Item) /\ item \in Item
      /\ \A x \in Works : Has(Tail(pending[q]), x) <=> Has(pending[q], x) /\ x # item
      /\ Once(Tail(pending[q]), Works)
  <2>1. Once(pending[q], Works)
    BY <1>1 DEF ListedIsQueued
  <2> QED BY <1>0, <2>1, TailHas
<1>3. item \in Works => "QUEUED" \in flags[item] /\ workQueue[item] = q
  <2>1. Len(pending[q]) \in Nat \ {0} /\ item = pending[q][1]
    BY <1>0, EmptySeq
  <2>2. Has(pending[q], item)
    BY <2>1 DEF Has
  <2> QED BY <1>1, <2>2 DEF ListedIsQueued
<1>4. /\ pending' = [pending EXCEPT ![q] = Tail(@)]
      /\ qcur' = [qcur EXCEPT ![q] = item]
      /\ qpc' = [qpc EXCEPT ![q] = "handler"]
      /\ qflags' = [qflags EXCEPT ![q] = @ \cup {"BUSY"}]
      /\ flags' = [w \in Works |->
                     IF w = item THEN (flags[w] \cup {"RUNNING"}) \ {"QUEUED"} ELSE flags[w]]
      /\ UNCHANGED <<workQueue, notifyq, drainq, timerVars, syncVars>>
  BY DEF TakeItem
<1> HIDE DEF item
<1>5. /\ r.pending = pending' /\ r.flags = flags' /\ r.queue = workQueue
      /\ r \in LockedStates
  BY <1>1, <1>2, <1>4 DEF Locked, LockedStates, WorkFlag
<1> HIDE DEF s, r
<1>6. \A w \in Works :
        /\ "QUEUED" \in flags'[w] <=> w # item /\ "QUEUED" \in flags[w]
        /\ "RUNNING" \in flags'[w] <=> w = item \/ "RUNNING" \in flags[w]
  BY <1>4
<1>7. \A p \in Queues : pending'[p] = IF p = q THEN Tail(pending[q]) ELSE pending[p]
  BY <1>1, <1>4 DEF LockedStates
<1>8. ListedIsQueued(r)
  BY <1>1, <1>2, <1>3, <1>5, <1>6, <1>7 DEF ListedIsQueued
<1>9. \A p \in Queues : qcur'[p] = IF p = q THEN item ELSE qcur[p]
  BY <1>4 DEF IInv, QueueTypeOK
<1>10. TakenIsRunning(r, qcur')
  <2> SUFFICES ASSUME NEW w \in Works
               PROVE  /\ "RUNNING" \in flags'[w] => workQueue[w] \in Queues
                      /\ \A p \in Queues : qcur'[p] = w <=> "RUNNING" \in flags'[w] /\ workQueue[w] = p
    BY <1>5 DEF TakenIsRunning
  <2>1. /\ "RUNNING" \in flags[w] => workQueue[w] \in Queues
        /\ \A p \in Queues : qcur[p] = w <=> "RUNNING" \in flags[w] /\ workQueue[w] = p
    BY <1>1 DEF TakenIsRunning
  <2>2. w # NULL
    BY ConstantsAssumption
  <2>3. CASE w = item
    BY <2>1, <2>2, <2>3, <1>0, <1>3, <1>6, <1>9
  <2>4. CASE w # item
    BY <2>1, <2>2, <2>4, <1>0, <1>6, <1>9
  <2> QED BY <2>3, <2>4
<1>11. QueueTypeOK'
  BY <1>2, <1>4 DEF IInv, QueueTypeOK, QueueFlag
<1>12. \A p \in Queues : /\ "STARTED" \in qflags'[p] <=> "STARTED" \in qflags[p]
                         /\ qpc'[p] = IF p = q THEN "handler" ELSE qpc[p]
  BY <1>4 DEF IInv, QueueTypeOK
<1>13. BusyIsStarted(r, qcur', qflags')
  BY <1>0, <1>1, <1>5, <1>7, <1>9, <1>12 DEF BusyIsStarted
<1>14. ThreadsOK'
  <2>1. item # NULL
    BY <1>2, ConstantsAssumption DEF Item
  <2> QED BY <1>0, <1>9, <1>12, <2>1, ThreadFacts DEF ThreadsOK
<1>15. TimerTypeOK' /\ SyncTypeOK'
  BY <1>4 DEF IInv, TimerTypeOK, SyncTypeOK, timerVars, syncVars
<1>16. OwedTypeOK'
  BY DEF IInv, OwedTypeOK, TakeItem
<1>17. Consistent(Locked, qcur, qflags)'
  BY <1>5, <1>8, <1>10, <1>13 DEF Consistent, r
<1> QED BY <1>11, <1>14, <1>15, <1>16, <1>17 DEF IInv

(* The first canceller listed for an item exists if there is one.          *)
LEMMA FirstOfIsElement ==
  ASSUME NEW S, S \subseteq Nat, S # {}
  PROVE  FirstOf(S) \in S
<1> DEFINE R == OpToRel(<, Nat)
<1>0. IsWellFoundedOn(R, Nat)
  BY NatLessThanWellFounded
<1>1. \A i, j \in Nat : <<j, i>> \in R <=> j < i
  BY DEF OpToRel
<1> HIDE DEF R
<1>2. \E i \in S : \A j \in S : ~(<<j, i>> \in R)
  BY <1>0, WFMin
<1>3. \E i \in S : \A j \in S : i <= j
  <2>1. PICK i \in S : \A j \in S : ~(<<j, i>> \in R)
    BY <1>2
  <2>2. ASSUME NEW j \in S PROVE i <= j
    <3>1. i \in Nat /\ j \in Nat /\ ~(j < i)
      BY <1>1, <2>1
    <3> QED BY <3>1
  <2> QED BY <2>2
<1> QED BY <1>3 DEF FirstOf

LEMMA FinalizeTypes ==
  ASSUME SyncTypeOK, NEW item, Finalize(item), UNCHANGED <<pc, arg>>
  PROVE  SyncTypeOK'
<1>1. CASE item \in Clients
  BY <1>1 DEF Finalize, finalize_flush_locked, SyncTypeOK
<1>2. CASE item \notin Clients /\ "CANCELING" \in flags[item] /\ CancellersOf(item) # {}
  <2> DEFINE i == FirstOf(CancellersOf(item))
  <2>1. CancellersOf(item) \subseteq 1..Len(cancels) /\ Len(cancels) \in Nat
    BY LenProperties DEF CancellersOf, SyncTypeOK
  <2>2. i \in 1..Len(cancels)
    BY <1>2, <2>1, FirstOfIsElement
  <2>3. sem' = [sem EXCEPT ![cancels[i]] = 1] /\ cancels' = RemoveAt(cancels, i)
    BY <1>2 DEF Finalize, finalize_cancel_locked
  <2> HIDE DEF i
  <2>4. cancels' \in Seq(Clients)
    BY <2>2, <2>3, RemoveAtFacts DEF SyncTypeOK
  <2> QED BY <2>3, <2>4 DEF SyncTypeOK
<1>3. CASE ~(item \in Clients) /\ ~("CANCELING" \in flags[item] /\ CancellersOf(item) # {})
  BY <1>3 DEF Finalize, finalize_cancel_locked, SyncTypeOK
<1> QED BY <1>1, <1>2, <1>3

(* A finished item is neither running nor taken.                           *)
LEMMA FinishItemStep ==
  ASSUME IInv, NEW q \in Queues, FinishItem(q)
  PROVE  IInv'
<1> DEFINE item == qcur[q]
           s == Locked
           r == Locked'
<1>0. qpc[q] = "handler" /\ item # NULL /\ "STARTED" \in qflags[q]
  BY ThreadFacts DEF FinishItem
<1>1. /\ s \in LockedStates /\ s.pending = pending /\ s.flags = flags /\ s.queue = workQueue
      /\ ListedIsQueued(s) /\ TakenIsRunning(s, qcur) /\ BusyIsStarted(s, qcur, qflags)
  BY DEF IInv, Consistent, Locked
<1>2. /\ qcur' = [qcur EXCEPT ![q] = NULL]
      /\ qpc' = [qpc EXCEPT ![q] = "loop"]
      /\ qflags' = [qflags EXCEPT ![q] = @ \ {"BUSY"}]
      /\ flags' = [w \in Works |->
                     IF w = item THEN flags[w] \ {"RUNNING", "CANCELING"} ELSE flags[w]]
      /\ Finalize(item)
      /\ UNCHANGED <<owedQueued, workQueue, pending, notifyq, drainq, pc, arg, timerVars>>
  BY DEF FinishItem
<1>3. /\ r.pending = pending /\ r.flags = flags' /\ r.queue = workQueue
      /\ r \in LockedStates
  BY <1>1, <1>2 DEF Locked, LockedStates
<1> HIDE DEF s, r, item
<1>4. \A w \in Works :
        /\ "QUEUED" \in flags'[w] <=> "QUEUED" \in flags[w]
        /\ "RUNNING" \in flags'[w] <=> w # item /\ "RUNNING" \in flags[w]
  BY <1>2
<1>5. ListedIsQueued(r)
  BY <1>1, <1>3, <1>4 DEF ListedIsQueued
<1>6. \A p \in Queues : qcur'[p] = IF p = q THEN NULL ELSE qcur[p]
  BY <1>2 DEF IInv, QueueTypeOK
<1>7. TakenIsRunning(r, qcur')
  <2> SUFFICES ASSUME NEW w \in Works
               PROVE  /\ "RUNNING" \in flags'[w] => workQueue[w] \in Queues
                      /\ \A p \in Queues : qcur'[p] = w <=> "RUNNING" \in flags'[w] /\ workQueue[w] = p
    BY <1>3 DEF TakenIsRunning
  <2>1. /\ "RUNNING" \in flags[w] => workQueue[w] \in Queues
        /\ \A p \in Queues : qcur[p] = w <=> "RUNNING" \in flags[w] /\ workQueue[w] = p
    BY <1>1 DEF TakenIsRunning
  <2>2. w # NULL /\ qcur[q] = item
    BY ConstantsAssumption DEF item
  <2> QED BY <2>1, <2>2, <1>4, <1>6
<1>8. QueueTypeOK'
  BY <1>2 DEF IInv, QueueTypeOK
<1>9. \A p \in Queues : /\ "STARTED" \in qflags'[p] <=> "STARTED" \in qflags[p]
                        /\ qpc'[p] = IF p = q THEN "loop" ELSE qpc[p]
  BY <1>2 DEF IInv, QueueTypeOK
<1>10. BusyIsStarted(r, qcur', qflags')
  BY <1>1, <1>3, <1>6, <1>9 DEF BusyIsStarted
<1>11. ThreadsOK'
  BY <1>0, <1>6, <1>9, ThreadFacts DEF ThreadsOK
<1>12. TimerTypeOK' /\ SyncTypeOK'
  BY <1>2, FinalizeTypes DEF IInv, TimerTypeOK, timerVars
<1>13. OwedTypeOK'
  BY DEF IInv, OwedTypeOK, FinishItem
<1>14. Consistent(Locked, qcur, qflags)'
  BY <1>3, <1>5, <1>7, <1>10 DEF Consistent, r
<1> QED BY <1>8, <1>11, <1>12, <1>13, <1>14 DEF IInv

-----------------------------------------------------------------------------
(* Every step preserves the invariant: one step per action.                *)
LEMMA NextStep == IInv /\ [Next]_vars => IInv'
<1> SUFFICES ASSUME IInv, [Next]_vars PROVE IInv'
  OBVIOUS
<1>1. ASSUME NEW t \in Clients \cup Queues, WorkCall(t) PROVE IInv'
  BY <1>1, SubmitStep, FlushStep, CancelStep, CancelSyncStep DEF WorkCall
<1>2. ASSUME NEW t \in Clients \cup Queues, DelayableCall(t) PROVE IInv'
  BY <1>2, ScheduleStep, RescheduleStep, CancelDelayableStep, CancelDelayableSyncStep,
     FlushDelayableStep DEF DelayableCall
<1>3. ASSUME NEW t \in Clients \cup Queues, QueueCall(t) PROVE IInv'
  BY <1>3, StartStep, DrainStep, UnplugStep, StopStep DEF QueueCall
<1>4. ASSUME NEW c \in Clients, CallReturns(c) PROVE IInv'
  BY <1>4, CallReturnsStep
<1>5. ASSUME NEW q \in Queues, work_queue_main(q) PROVE IInv'
  BY <1>5, TakeItemStep, FinishItemStep, IdleStep DEF work_queue_main
<1>6. ASSUME NEW d \in Delayables, TimerExpires(d) \/ work_timeout(d) PROVE IInv'
  BY <1>6, TimerExpiresStep, WorkTimeoutStep
<1>7. CASE UNCHANGED vars
  <2>1. /\ Unlock(Locked) /\ UNCHANGED queueVars
        /\ TimerTypeOK' /\ SyncTypeOK' /\ OwedTypeOK'
    BY <1>7 DEF vars, IInv, Unlock, Locked, wqVars, timerVars, syncVars, owedVars,
                TimerTypeOK, SyncTypeOK, OwedTypeOK
  <2> QED BY <2>1, CallStep DEF IInv
<1> QED BY <1>1, <1>2, <1>3, <1>4, <1>5, <1>6, <1>7 DEF Next

(* The inductive invariant holds in every reachable state of bt_work.c.    *)
THEOREM Invariance == Spec => []IInv
BY InitInv, NextStep, PTL DEF Spec

(* Type correctness: the semaphores of a queue and of a caller never pass  *)
(* their limit of one and a queue's list holds only items and flushers.    *)
THEOREM TypeCorrect == Spec => []TypeOK
BY Invariance, InvImpliesTypeOK, PTL

(* However many queues, items and callers there are, no handler runs in    *)
(* two queue threads at once: what submit_to_queue_locked's move of a      *)
(* running item to its own queue is for.                                   *)
THEOREM NotReentrant == Spec => []NoReentrancy
BY Invariance, InvImpliesNoReentrancy, PTL

(* RUNNING and work->queue say exactly which thread has the item.          *)
THEOREM RunningFlagTruthful == Spec => []RunningIsCurrent
BY Invariance, InvImpliesRunningIsCurrent, PTL

(* QUEUED and work->queue say exactly on which list the item is, once.     *)
THEOREM QueuedFlagTruthful == Spec => []QueuedOnce
BY Invariance, InvImpliesQueuedOnce, PTL

(* Together: the flags of an item say where it is, and submit, flush and   *)
(* cancel, which look at nothing else, decide on the truth.                *)
THEOREM FlagsTellTruth == Spec => []FlagsTruthful
<1>1. RunningIsCurrent /\ QueuedOnce => FlagsTruthful
  BY DEF FlagsTruthful
<1> QED BY <1>1, RunningFlagTruthful, QueuedFlagTruthful, PTL

-----------------------------------------------------------------------------
(* Waiting.  What a locked operation does to the lists: the flushers stay, *)
(* and every item but those that are gone, in the order they were in.  And *)
(* it leaves a token where it put something on an empty list.              *)
KeepsList(old, new, gone) ==
  /\ new \in Seq(Item) /\ Once(new, Item)
  /\ \A c \in Clients : Has(new, c) <=> Has(old, c)
  /\ \A w \in Works \ gone : Has(old, w) => Has(new, w)
  /\ \A w \in Works \ gone, c \in Clients : Before(old, w, c) => Before(new, w, c)

Told(s, r) ==
  \A q \in Queues :
    \/ r.notifyq[q] = 1
    \/ r.notifyq[q] = s.notifyq[q] /\ (s.pending[q] = <<>> => r.pending[q] = <<>>)

Effect(s, r, gone) ==
  /\ \A q \in Queues : KeepsList(s.pending[q], r.pending[q], gone)
  /\ Told(s, r)

AllOnce(pend) == \A q \in Queues : pend[q] \in Seq(Item) /\ Once(pend[q], Item)

LEMMA NoEffect ==
  ASSUME NEW s, NEW r, AllOnce(s.pending), r.pending = s.pending, r.notifyq = s.notifyq, NEW gone
  PROVE  Effect(s, r, gone)
BY DEF AllOnce, Effect, KeepsList, Told

LEMMA EffectOnce ==
  ASSUME NEW s, NEW r, NEW gone, Effect(s, r, gone)
  PROVE  AllOnce(r.pending)
BY DEF AllOnce, Effect, KeepsList

LEMMA EffectThen ==
  ASSUME NEW s, NEW r, NEW t, NEW gone, Effect(s, r, {}), Effect(r, t, gone)
  PROVE  Effect(s, t, gone)
<1>1. ASSUME NEW q \in Queues PROVE KeepsList(s.pending[q], t.pending[q], gone)
  <2>1. KeepsList(s.pending[q], r.pending[q], {}) /\ KeepsList(r.pending[q], t.pending[q], gone)
    BY DEF Effect
  <2> QED BY <2>1 DEF KeepsList
<1>2. Told(s, t)
  BY DEF Effect, Told
<1> QED BY <1>1, <1>2 DEF Effect

LEMMA SubmitEffect ==
  ASSUME NEW s, NEW cur, Consistent(s, cur, qflags), AllOnce(s.pending),
         NEW w \in Works, NEW q \in Queues \cup {NULL}, NEW caller
  PROVE  Effect(s, submit_to_queue_locked(s, w, q, caller), {})
<1> DEFINE target == submit_target(s, w, q)
           t == submit_to_queue_locked(s, w, q, caller)
<1>1. CASE ~(submittable(s, w) /\ queue_accepts(target, caller))
  <2>1. t = s
    BY <1>1 DEF submit_to_queue_locked
  <2> QED BY <2>1, NoEffect
<1>2. CASE submittable(s, w) /\ queue_accepts(target, caller)
  <2>1. /\ s \in LockedStates
        /\ target \in Queues /\ "QUEUED" \notin s.flags[w] /\ w \in Item
    BY <1>2 DEF Consistent, LockedStates, submit_target, queue_accepts, submittable, Item
  <2>2. /\ t.pending = [s.pending EXCEPT ![target] = Append(@, w)]
        /\ t.notifyq = notify_queue_locked(s.notifyq, target)
    BY <1>2 DEF submit_to_queue_locked
  <2> HIDE DEF target, t
  <2>3. /\ \A p \in Queues : t.pending[p] = IF p = target THEN Append(s.pending[target], w) ELSE s.pending[p]
        /\ \A p \in Queues : t.notifyq[p] = IF p = target THEN 1 ELSE s.notifyq[p]
    BY <2>1, <2>2 DEF LockedStates, notify_queue_locked
  <2>4. KeepsList(s.pending[target], Append(s.pending[target], w), {})
    <3> DEFINE list == s.pending[target]
               new == Append(list, w)
    <3>1. list \in Seq(Item) /\ Once(list, Item) /\ ~Has(list, w) /\ w \notin Clients
      BY <2>1, ConstantsAssumption DEF AllOnce, Consistent, ListedIsQueued
    <3>2. /\ new \in Seq(Item) /\ Len(list) \in Nat
          /\ InsertedAt(list, new, Len(list) + 1, w) /\ Len(list) + 1 \in 1..(Len(list) + 1)
      <4> HIDE DEF list
      <4>1. /\ new \in Seq(Item) /\ Len(list) \in Nat /\ Len(new) = Len(list) + 1
            /\ \A j \in 1..(Len(list) + 1) : new[j] = IF j <= Len(list) THEN list[j] ELSE w
        BY <2>1, <3>1, AppendFacts
      <4> HIDE DEF new
      <4> QED BY <4>1 DEF InsertedAt
    <3> HIDE DEF list, new
    <3>3. /\ \A x : Has(new, x) <=> Has(list, x) \/ x = w
          /\ \A x, y : Before(list, x, y) => Before(new, x, y)
          /\ Once(new, Item)
      BY <2>1, <3>1, <3>2, InsertedKeeps
    <3>4. KeepsList(list, new, {})
      BY <3>1, <3>2, <3>3 DEF KeepsList
    <3> QED BY <3>4 DEF list, new
  <2>5. ASSUME NEW p \in Queues PROVE KeepsList(s.pending[p], t.pending[p], {})
    <3>1. KeepsList(s.pending[p], s.pending[p], {})
      BY DEF AllOnce, KeepsList
    <3> QED BY <2>3, <2>4, <3>1
  <2>6. Told(s, t)
    BY <2>3 DEF Told
  <2> QED BY <2>5, <2>6 DEF Effect, t
<1> QED BY <1>1, <1>2

LEMMA RemoveEffect ==
  ASSUME NEW s, NEW cur, NEW qf, Consistent(s, cur, qf), AllOnce(s.pending), NEW w \in Works
  PROVE  Effect(s, queue_remove_locked(s, w), {w})
<1> DEFINE q == s.queue[w]
           list == s.pending[q]
           k == IndexOf(list, w)
           new == RemoveAt(list, k)
           t == queue_remove_locked(s, w)
<1>1. CASE "QUEUED" \notin s.flags[w]
  <2>1. t = s
    BY <1>1 DEF queue_remove_locked
  <2> QED BY <2>1, NoEffect
<1>2. CASE "QUEUED" \in s.flags[w]
  <2>1. /\ s \in LockedStates /\ q \in Queues
        /\ list \in Seq(Item) /\ Once(list, Item) /\ Has(list, w) /\ w \notin Clients
    BY <1>2, ConstantsAssumption DEF Consistent, LockedStates, ListedIsQueued, AllOnce
  <2>2. k \in 1..Len(list) /\ list[k] = w
    BY <2>1, LenProperties DEF IndexOf, Has
  <2>3. t.pending = [s.pending EXCEPT ![q] = new] /\ t.notifyq = s.notifyq
    <3> DEFINE u == WithFlags(s, w, s.flags[w] \ {"QUEUED"})
    <3>1. t = [u EXCEPT !.pending = [@ EXCEPT ![q] = new]]
      BY <1>2 DEF queue_remove_locked
    <3>2. u \in LockedStates /\ u.pending = s.pending /\ u.notifyq = s.notifyq
      BY <2>1 DEF LockedStates, WithFlags
    <3> HIDE DEF t, u, new
    <3> QED BY <3>1, <3>2 DEF LockedStates
  <2> HIDE DEF t, q, k
  <2>4. \A p \in Queues : t.pending[p] = IF p = q THEN new ELSE s.pending[p]
    BY <2>1, <2>3 DEF LockedStates
  <2>5. KeepsList(list, new, {w})
    <3> HIDE DEF list
    <3>1. new \in Seq(Item) /\ RemovedAt(list, new, k)
      BY <2>1, <2>2, RemoveAtFacts DEF RemovedAt
    <3> HIDE DEF new
    <3>2. /\ \A x : Has(new, x) <=> Has(list, x) /\ x # w
          /\ \A x, y : Before(list, x, y) /\ x # w /\ y # w => Before(new, x, y)
          /\ Once(new, Item)
      BY <2>1, <2>2, <3>1, RemovedKeeps
    <3> QED BY <2>1, <3>1, <3>2 DEF KeepsList
  <2> HIDE DEF new
  <2>6. ASSUME NEW p \in Queues PROVE KeepsList(s.pending[p], t.pending[p], {w})
    <3>1. KeepsList(s.pending[p], s.pending[p], {w})
      BY DEF AllOnce, KeepsList
    <3> QED BY <2>4, <2>5, <3>1 DEF list
  <2>7. list # <<>>
    BY <2>1, EmptyHas
  <2>8. Told(s, t)
    BY <2>3, <2>4, <2>7 DEF Told, list
  <2> QED BY <2>6, <2>8 DEF Effect, t
<1> QED BY <1>1, <1>2

(* What cancelling takes away: a queued item, unless it is being cancelled. *)
Cancelled(s, w) == IF "CANCELING" \in s.flags[w] THEN {} ELSE {w}

LEMMA CancelEffect ==
  ASSUME NEW s, NEW cur, NEW qf, Consistent(s, cur, qf), AllOnce(s.pending), NEW w \in Works
  PROVE  Effect(s, cancel_async_locked(s, w), Cancelled(s, w))
<1> DEFINE r == IF "CANCELING" \in s.flags[w] THEN s ELSE queue_remove_locked(s, w)
           t == cancel_async_locked(s, w)
<1>1. Effect(s, r, Cancelled(s, w)) /\ Consistent(r, cur, qf)
  BY NoEffect, RemoveEffect, RemoveConsistent DEF Cancelled
<1>2. t.pending = r.pending /\ t.notifyq = r.notifyq
  <2>1. t = r \/ t = WithFlags(r, w, r.flags[w] \cup {"CANCELING"})
    BY DEF cancel_async_locked
  <2> HIDE DEF r, t
  <2>2. r \in LockedStates
    BY <1>1 DEF Consistent
  <2> QED BY <2>1, <2>2 DEF WithFlags, LockedStates
<1> HIDE DEF r, t
<1>3. Effect(s, t, Cancelled(s, w))
  BY <1>1, <1>2 DEF Effect, Told
<1> QED BY <1>3 DEF t

LEMMA FlagsEffect ==
  ASSUME NEW s \in LockedStates, AllOnce(s.pending), NEW w, NEW f
  PROVE  Effect(s, WithFlags(s, w, f), {})
<1>1. WithFlags(s, w, f).pending = s.pending /\ WithFlags(s, w, f).notifyq = s.notifyq
  BY DEF WithFlags, LockedStates
<1> QED BY <1>1, NoEffect

(* A flush adds the caller's flusher to one list, behind the item or, if   *)
(* the item is running, in front.                                          *)
AddsFlusher(old, new, c) ==
  /\ new \in Seq(Item) /\ Once(new, Item)
  /\ \A d \in Clients : Has(new, d) <=> Has(old, d) \/ d = c
  /\ \A w \in Works : Has(old, w) => Has(new, w)
  /\ \A w \in Works, d \in Clients : Before(old, w, d) => Before(new, w, d)

LEMMA FlushEffect ==
  ASSUME NEW s, NEW cur, NEW qf, Consistent(s, cur, qf), AllOnce(s.pending),
         NEW w \in Works, NEW c \in Clients, needs_flush(s, w),
         \A q \in Queues : ~Has(s.pending[q], c),
         NEW t, t = work_flush_locked(s, w, c), NEW q, q = s.queue[w]
  PROVE  /\ q \in Queues /\ Told(s, t)
         /\ AddsFlusher(s.pending[q], t.pending[q], c)
         /\ \A p \in Queues : p # q => t.pending[p] = s.pending[p]
         /\ "QUEUED" \in s.flags[w] => Before(t.pending[q], w, c)
         /\ "QUEUED" \notin s.flags[w] => cur[q] = w
<1> DEFINE list == s.pending[q]
           new == queue_flusher_locked(list, w, c, "QUEUED" \in s.flags[w])
<1>1. /\ s \in LockedStates /\ q \in Queues
      /\ "QUEUED" \notin s.flags[w] => cur[q] = w
      /\ list \in Seq(Item) /\ Once(list, Item) /\ ~Has(list, c)
      /\ c \in Item /\ c \notin Works
  <2>1. s \in LockedStates /\ c \in Item /\ c \notin Works
    BY ConstantsAssumption DEF Consistent, Item
  <2>2. "QUEUED" \in s.flags[w] \/ "RUNNING" \in s.flags[w]
    BY DEF needs_flush
  <2>3. q \in Queues /\ ("QUEUED" \notin s.flags[w] => cur[q] = w)
    BY <2>2 DEF Consistent, ListedIsQueued, TakenIsRunning
  <2> QED BY <2>1, <2>3 DEF AllOnce
<1>0. list \in Seq(Item) /\ c \in Item
  BY <1>1
<1>2. \E k \in 1..(Len(list) + 1) :
        /\ new \in Seq(Item) /\ InsertedAt(list, new, k, c)
        /\ "QUEUED" \in s.flags[w] => k > 1 /\ list[k - 1] = w
  <2>1. CASE "QUEUED" \in s.flags[w]
    <3> DEFINE k == IndexOf(list, w) + 1
    <3>1. Has(list, w)
      BY <1>1, <2>1 DEF Consistent, ListedIsQueued
    <3>2. IndexOf(list, w) \in 1..Len(list) /\ list[IndexOf(list, w)] = w
      BY <3>1, <1>1, LenProperties DEF IndexOf, Has
    <3>3. k \in 1..(Len(list) + 1) /\ k > 1 /\ list[k - 1] = w
      BY <3>2, <1>1, LenProperties
    <3>4. new = InsertAt(list, k, c)
      BY <2>1 DEF queue_flusher_locked
    <3> HIDE DEF new, list, k
    <3>5. new \in Seq(Item) /\ InsertedAt(list, new, k, c)
      BY ONLY <1>0, <3>3, <3>4, InsertAtInserts
    <3> QED BY <3>3, <3>5
  <2>2. CASE "QUEUED" \notin s.flags[w]
    <3>1. new = Cons(c, list)
      BY <2>2 DEF queue_flusher_locked
    <3> HIDE DEF new, list
    <3>2. /\ new \in Seq(Item) /\ InsertedAt(list, new, 1, c)
          /\ 1 \in 1..(Len(list) + 1)
      BY ONLY <1>0, <3>1, ConsInserts
    <3> QED BY <2>2, <3>2
  <2> QED BY <2>1, <2>2
<1>3. /\ t.notifyq = notify_queue_locked(s.notifyq, q)
      /\ t.pending = [s.pending EXCEPT ![q] = new]
  <2>1. t = [s EXCEPT !.pending = [@ EXCEPT ![q] = new], !.notifyq = notify_queue_locked(@, q)]
    BY DEF work_flush_locked
  <2> HIDE DEF new
  <2> QED BY <1>1, <2>1 DEF LockedStates
<1> HIDE DEF new
<1>4. \A p \in Queues : /\ t.pending[p] = IF p = q THEN new ELSE s.pending[p]
                        /\ t.notifyq[p] = IF p = q THEN 1 ELSE s.notifyq[p]
  BY <1>1, <1>3 DEF LockedStates, notify_queue_locked
<1>5. Told(s, t)
  BY <1>4 DEF Told
<1> HIDE DEF list
<1>6. PICK k \in 1..(Len(list) + 1) :
        /\ new \in Seq(Item) /\ InsertedAt(list, new, k, c)
        /\ "QUEUED" \in s.flags[w] => k > 1 /\ list[k - 1] = w
  BY <1>2
<1>7. /\ \A x : Has(new, x) <=> Has(list, x) \/ x = c
      /\ \A x, y : Before(list, x, y) => Before(new, x, y)
      /\ Once(list, Item) /\ ~Has(list, c) => Once(new, Item)
      /\ k > 1 => k - 1 \in 1..Len(list) /\ Before(new, list[k - 1], c)
  BY <1>1, <1>6, InsertedKeeps
<1>8. AddsFlusher(list, new, c)
  BY <1>1, <1>6, <1>7 DEF AddsFlusher
<1>9. "QUEUED" \in s.flags[w] => Before(new, w, c)
  BY <1>6, <1>7
<1> QED BY <1>1, <1>4, <1>5, <1>8, <1>9 DEF list

-----------------------------------------------------------------------------
(* Who waits for what.  A flusher is on one list, or taken, once, and its  *)
(* client waits; a canceller is listed once, and its client waits.         *)
FlusherAt(pend, cur, q, c) == Has(pend[q], c) \/ cur[q] = c

FlushersOnce(pend, cur) ==
  /\ \A q \in Queues : Once(pend[q], Item)
  /\ \A c \in Clients, p, q \in Queues :
       FlusherAt(pend, cur, p, c) /\ FlusherAt(pend, cur, q, c) => p = q
  /\ \A c \in Clients, q \in Queues : Has(pend[q], c) => cur[q] # c

Places(pend, cur, k, s, cs) ==
  /\ \A c \in Clients, q \in Queues :
       FlusherAt(pend, cur, q, c) => k[c] = "flush" /\ s[c] = 0
  /\ Once(cs, Clients)
  /\ \A c \in Clients : Has(cs, c) => k[c] = "cancel" /\ s[c] = 0

(* What a client waits for is in front of its flusher, runs on the queue   *)
(* it flushes or drains, or is the item it cancels; nothing is left when   *)
(* it is released.                                                         *)
Owes(pend, cur, k, a, s, oq, ow, c) ==
  /\ k[c] \in {"idle", "join", "unstop"} => oq[c] = {} /\ ow[c] = {} /\ s[c] = 0
  /\ k[c] = "cancel" => oq[c] = {} /\ ow[c] \subseteq {a[c]}
  /\ k[c] = "drain" => /\ s[c] = 0 /\ a[c] \in Queues /\ ow[c] \subseteq {cur[a[c]]}
                       /\ \A w \in oq[c] : Has(pend[a[c]], w)
  /\ s[c] = 1 => oq[c] = {} /\ ow[c] = {}
  /\ \A q \in Queues : cur[q] = c => oq[c] = {} /\ ow[c] = {}
  /\ \A q \in Queues : Has(pend[q], c) => /\ ow[c] \subseteq {cur[q]}
                                          /\ \A w \in oq[c] : Before(pend[q], w, c)

Waits(pend, cur, k, a, s, cs, oq, ow) ==
  /\ FlushersOnce(pend, cur)
  /\ Places(pend, cur, k, s, cs)
  /\ \A c \in Clients : /\ Owes(pend, cur, k, a, s, oq, ow, c)
                        /\ oq[c] \subseteq Works /\ ow[c] \subseteq Works

LEMMA KeepWaits ==
  ASSUME NEW pend, NEW new, NEW cur, NEW k, NEW a, NEW s, NEW cs, NEW oq, NEW ow, NEW oq2, NEW gone,
         Waits(pend, cur, k, a, s, cs, oq, ow),
         \A q \in Queues : KeepsList(pend[q], new[q], gone),
         \A c \in Clients : oq2[c] \subseteq oq[c] /\ oq2[c] \cap gone = {}
  PROVE  Waits(new, cur, k, a, s, cs, oq2, ow)
<1>1. /\ \A q \in Queues, c \in Clients : Has(new[q], c) <=> Has(pend[q], c)
      /\ \A q \in Queues, c \in Clients : FlusherAt(new, cur, q, c) <=> FlusherAt(pend, cur, q, c)
  BY DEF KeepsList, FlusherAt
<1>2. FlushersOnce(new, cur)
  BY <1>1 DEF Waits, FlushersOnce, KeepsList
<1>3. Places(new, cur, k, s, cs)
  BY <1>1 DEF Waits, Places
<1>4. ASSUME NEW c \in Clients
      PROVE  Owes(new, cur, k, a, s, oq2, ow, c) /\ oq2[c] \subseteq Works /\ ow[c] \subseteq Works
  <2>1. Owes(pend, cur, k, a, s, oq, ow, c) /\ oq[c] \subseteq Works /\ ow[c] \subseteq Works
    BY DEF Waits
  <2>2. \A w \in oq2[c] : w \in oq[c] /\ w \in Works \ gone
    BY <2>1
  <2>3. ASSUME k[c] = "drain" PROVE \A w \in oq2[c] : Has(new[a[c]], w)
    BY <2>1, <2>2, <2>3 DEF Owes, KeepsList
  <2>4. ASSUME NEW q \in Queues, Has(new[q], c)
        PROVE  ow[c] \subseteq {cur[q]} /\ \A w \in oq2[c] : Before(new[q], w, c)
    BY <1>1, <2>1, <2>2, <2>4 DEF Owes, KeepsList
  <2>5. oq[c] = {} => oq2[c] = {}
    BY <2>2
  <2> QED BY <2>1, <2>2, <2>3, <2>4, <2>5 DEF Owes
<1> QED BY <1>2, <1>3, <1>4 DEF Waits

LEMMA IdleWaits ==
  ASSUME NEW pend, NEW cur, NEW k, NEW a, NEW s, NEW cs, NEW oq, NEW ow,
         Waits(pend, cur, k, a, s, cs, oq, ow), NEW c \in Clients, k[c] \notin {"flush", "cancel"}
  PROVE  /\ \A q \in Queues : ~FlusherAt(pend, cur, q, c) /\ ~Has(pend[q], c) /\ cur[q] # c
         /\ ~Has(cs, c)
         /\ k[c] = "idle" => s[c] = 0 /\ oq[c] = {} /\ ow[c] = {}
BY DEF Waits, Places, FlusherAt, Owes

LEMMA FlushWaits ==
  ASSUME NEW pend, NEW new, NEW cur, NEW k, NEW a, NEW s, NEW cs, NEW oq, NEW ow,
         NEW k2, NEW a2, NEW oq2, NEW ow2,
         Waits(pend, cur, k, a, s, cs, oq, ow),
         NEW c \in Clients, NEW w \in Works, NEW q \in Queues, k[c] = "idle",
         AddsFlusher(pend[q], new[q], c), \A p \in Queues : p # q => new[p] = pend[p],
         \A d \in Clients : d # c => k2[d] = k[d] /\ a2[d] = a[d] /\ oq2[d] = oq[d] /\ ow2[d] = ow[d],
         k2[c] = "flush",
         \/ oq2[c] = {w} /\ ow2[c] = {} /\ Before(new[q], w, c)
         \/ oq2[c] = {} /\ ow2[c] = {w} /\ cur[q] = w
  PROVE  Waits(new, cur, k2, a2, s, cs, oq2, ow2)
<1>0. /\ \A p \in Queues : ~FlusherAt(pend, cur, p, c) /\ ~Has(pend[p], c) /\ cur[p] # c
      /\ ~Has(cs, c) /\ s[c] = 0
  BY IdleWaits
<1>1. /\ \A p \in Queues, d \in Clients : Has(new[p], d) <=> Has(pend[p], d) \/ (d = c /\ p = q)
      /\ \A p \in Queues, d \in Clients :
           FlusherAt(new, cur, p, d) <=> FlusherAt(pend, cur, p, d) \/ (d = c /\ p = q)
  BY DEF AddsFlusher, FlusherAt
<1>2. FlushersOnce(new, cur)
  BY <1>0, <1>1 DEF Waits, FlushersOnce, AddsFlusher
<1>3. Places(new, cur, k2, s, cs)
  BY <1>0, <1>1 DEF Waits, Places
<1>4. ASSUME NEW d \in Clients
      PROVE  Owes(new, cur, k2, a2, s, oq2, ow2, d) /\ oq2[d] \subseteq Works /\ ow2[d] \subseteq Works
  <2>1. CASE d = c
    BY <1>0, <1>1, <2>1 DEF Owes
  <2>2. CASE d # c
    <3>1. Owes(pend, cur, k, a, s, oq, ow, d) /\ oq[d] \subseteq Works /\ ow[d] \subseteq Works
      BY DEF Waits
    <3>2. ASSUME NEW p \in Queues
          PROVE  /\ Has(new[p], d) <=> Has(pend[p], d)
                 /\ \A v \in Works : Has(pend[p], v) => Has(new[p], v)
                 /\ \A v \in Works : Before(pend[p], v, d) => Before(new[p], v, d)
      BY <1>1, <2>2 DEF AddsFlusher
    <3> QED BY <2>2, <3>1, <3>2 DEF Owes
  <2> QED BY <2>1, <2>2
<1> QED BY <1>2, <1>3, <1>4 DEF Waits

LEMMA CancelWaits ==
  ASSUME NEW pend, NEW cur, NEW k, NEW a, NEW s, NEW cs, NEW oq, NEW ow,
         NEW k2, NEW a2, NEW cs2, NEW ow2,
         Waits(pend, cur, k, a, s, cs, oq, ow),
         NEW c \in Clients, NEW w \in Works, k[c] = "idle",
         Once(cs2, Clients), \A d : Has(cs2, d) <=> Has(cs, d) \/ d = c,
         \A d \in Clients : d # c => k2[d] = k[d] /\ a2[d] = a[d] /\ ow2[d] = ow[d],
         k2[c] = "cancel", a2[c] = w, ow2[c] = {w}
  PROVE  Waits(pend, cur, k2, a2, s, cs2, oq, ow2)
<1>0. /\ \A p \in Queues : ~FlusherAt(pend, cur, p, c) /\ ~Has(pend[p], c) /\ cur[p] # c
      /\ ~Has(cs, c) /\ s[c] = 0 /\ oq[c] = {}
  BY IdleWaits
<1>2. Places(pend, cur, k2, s, cs2)
  BY <1>0 DEF Waits, Places
<1>3. ASSUME NEW d \in Clients
      PROVE  Owes(pend, cur, k2, a2, s, oq, ow2, d) /\ oq[d] \subseteq Works /\ ow2[d] \subseteq Works
  <2>1. CASE d = c
    BY <1>0, <2>1 DEF Owes
  <2>2. CASE d # c
    BY <2>2 DEF Owes, Waits
  <2> QED BY <2>1, <2>2
<1> QED BY <1>2, <1>3 DEF Waits

(* A call on a queue, and the return from any call.                        *)
LEMMA TurnWaits ==
  ASSUME NEW pend, NEW cur, NEW k, NEW a, NEW s, NEW cs, NEW oq, NEW ow,
         NEW k2, NEW a2, NEW s2, NEW oq2, NEW ow2,
         Waits(pend, cur, k, a, s, cs, oq, ow), NEW c \in Clients,
         k[c] \in {"flush", "cancel"} => s[c] = 1,
         \A d \in Clients : d # c => /\ k2[d] = k[d] /\ a2[d] = a[d] /\ s2[d] = s[d]
                                     /\ oq2[d] = oq[d] /\ ow2[d] = ow[d],
         s2[c] = 0,
         \/ k2[c] \in {"idle", "join", "unstop"} /\ oq2[c] = {} /\ ow2[c] = {}
         \/ /\ k2[c] = "drain" /\ a2[c] \in Queues /\ oq2[c] \subseteq Works /\ ow2[c] \subseteq Works
            /\ ow2[c] \subseteq {cur[a2[c]]} /\ \A w \in oq2[c] : Has(pend[a2[c]], w)
  PROVE  Waits(pend, cur, k2, a2, s2, cs, oq2, ow2)
<1>0. /\ \A p \in Queues : ~FlusherAt(pend, cur, p, c) /\ ~Has(pend[p], c) /\ cur[p] # c
      /\ ~Has(cs, c)
  BY DEF Waits, Places, FlusherAt
<1>2. Places(pend, cur, k2, s2, cs)
  BY <1>0 DEF Waits, Places
<1>3. ASSUME NEW d \in Clients
      PROVE  Owes(pend, cur, k2, a2, s2, oq2, ow2, d) /\ oq2[d] \subseteq Works /\ ow2[d] \subseteq Works
  <2>1. CASE d = c
    BY <1>0, <2>1 DEF Owes
  <2>2. CASE d # c
    BY <2>2 DEF Owes, Waits
  <2> QED BY <2>1, <2>2
<1> QED BY <1>2, <1>3 DEF Waits

(* The thread takes the first of its list: nothing is in front of it.      *)
Takes(pend, cur, oq, ow, new, cur2, oq2, ow2, q, item) ==
  /\ \A w \in Works, p \in Queues : Has(pend[p], w) /\ Has(pend[q], w) => p = q
  /\ pend[q] # <<>> /\ item = Head(pend[q]) /\ cur[q] = NULL
  /\ \A p \in Queues : new[p] = IF p = q THEN Tail(pend[q]) ELSE pend[p]
  /\ \A p \in Queues : cur2[p] = IF p = q THEN item ELSE cur[p]
  /\ \A c \in Clients : /\ oq2[c] = oq[c] \ {item}
                        /\ ow2[c] = ow[c] \cup (oq[c] \cap {item})

LEMMA TakeWaits ==
  ASSUME NEW pend, NEW cur, NEW k, NEW a, NEW s, NEW cs, NEW oq, NEW ow,
         NEW new, NEW cur2, NEW oq2, NEW ow2, NEW q \in Queues, NEW item,
         Waits(pend, cur, k, a, s, cs, oq, ow), AllOnce(pend),
         Takes(pend, cur, oq, ow, new, cur2, oq2, ow2, q, item)
  PROVE  Waits(new, cur2, k, a, s, cs, oq2, ow2)
<1> DEFINE list == pend[q]
           tail == Tail(list)
<1> USE DEF Takes
<1>1. list \in Seq(Item) /\ Once(list, Item) /\ list # <<>>
  BY DEF AllOnce
<1>2. /\ item \in Item /\ item # NULL /\ item = list[1] /\ Has(list, item)
      /\ 1 \in 1..Len(list) /\ tail \in Seq(Item) /\ RemovedAt(list, tail, 1)
  <2> HIDE DEF list
  <2>1. /\ Head(list) \in Item /\ Head(list) = list[1] /\ Tail(list) \in Seq(Item)
        /\ Len(list) \in Nat \ {0} /\ Len(Tail(list)) = Len(list) - 1
        /\ \A j \in 1..(Len(list) - 1) : Tail(list)[j] = list[j + 1]
    BY <1>1, HeadTailProperties, LenProperties, EmptySeq
  <2>2. 1 \in 1..Len(list)
    BY <2>1
  <2>3. RemovedAt(list, tail, 1)
    BY <2>1 DEF RemovedAt
  <2>4. item = Head(list) /\ NULL \notin Item
    BY ConstantsAssumption DEF list, Item
  <2> QED BY <2>1, <2>2, <2>3, <2>4 DEF Has
<1> HIDE DEF list, tail
<1>3. /\ \A x : Has(tail, x) <=> Has(list, x) /\ x # item
      /\ \A x, y : Before(list, x, y) /\ x # item /\ y # item => Before(tail, x, y)
      /\ Once(tail, Item)
  BY <1>1, <1>2, RemovedKeeps
<1>4. \A x : ~Before(list, x, item)
  <2>1. ASSUME NEW x, Before(list, x, item) PROVE FALSE
    <3>1. PICK i \in 1..Len(list), j \in 1..Len(list) : i < j /\ list[j] = item
      BY <2>1 DEF Before
    <3>2. j = 1
      BY <1>1, <1>2, <3>1 DEF Once
    <3> QED BY <3>1, <3>2
  <2> QED BY <2>1
<1>5. /\ \A p \in Queues : \A x : Has(new[p], x) <=> Has(pend[p], x) /\ (p = q => x # item)
      /\ \A p \in Queues, c \in Clients :
           FlusherAt(new, cur2, p, c) <=> FlusherAt(pend, cur, p, c)
  <2>1. \A p \in Queues : \A x : Has(new[p], x) <=> Has(pend[p], x) /\ (p = q => x # item)
    BY <1>3 DEF list, tail
  <2>2. \A c \in Clients : c # NULL
    BY ConstantsAssumption
  <2> QED BY <1>2, <2>1, <2>2 DEF FlusherAt, list
<1>6. FlushersOnce(new, cur2)
  <2>1. \A p \in Queues : Once(new[p], Item)
    BY <1>3 DEF Waits, FlushersOnce, tail, list
  <2>2. \A c \in Clients, p \in Queues : Has(new[p], c) => cur2[p] # c
    BY <1>5 DEF Waits, FlushersOnce
  <2>3. \A c \in Clients, p, r \in Queues :
          FlusherAt(new, cur2, p, c) /\ FlusherAt(new, cur2, r, c) => p = r
    BY <1>5 DEF Waits, FlushersOnce
  <2> QED BY <2>1, <2>2, <2>3 DEF FlushersOnce
<1>7. Places(new, cur2, k, s, cs)
  BY <1>5 DEF Waits, Places
<1>8. ASSUME NEW c \in Clients
      PROVE  Owes(new, cur2, k, a, s, oq2, ow2, c) /\ oq2[c] \subseteq Works /\ ow2[c] \subseteq Works
  <2>1. Owes(pend, cur, k, a, s, oq, ow, c) /\ oq[c] \subseteq Works /\ ow[c] \subseteq Works
    BY DEF Waits
  <2>2. /\ oq2[c] = oq[c] \ {item} /\ ow2[c] = ow[c] \cup (oq[c] \cap {item})
        /\ oq2[c] \subseteq Works /\ ow2[c] \subseteq Works
        /\ oq[c] = {} => oq2[c] = {} /\ ow2[c] = ow[c]
        /\ \A w \in Works : w # NULL
    <3>1. oq2[c] = oq[c] \ {item} /\ ow2[c] = ow[c] \cup (oq[c] \cap {item})
      OBVIOUS
    <3>2. \A w \in Works : w # NULL
      BY ConstantsAssumption
    <3> HIDE DEF Takes
    <3> QED BY <2>1, <3>1, <3>2
  <2>3. ASSUME k[c] = "drain" PROVE /\ ow2[c] \subseteq {cur2[a[c]]}
                                   /\ \A w \in oq2[c] : Has(new[a[c]], w)
    <3>1. /\ a[c] \in Queues /\ ow[c] \subseteq {cur[a[c]]}
          /\ \A w \in oq[c] : Has(pend[a[c]], w)
      BY <2>1, <2>3 DEF Owes
    <3>2. item \in oq[c] => a[c] = q
      BY <1>2, <2>1, <3>1 DEF list
    <3>3. a[c] = q => ow[c] = {}
      BY <2>1, <2>2, <3>1
    <3> QED BY <1>5, <2>2, <3>1, <3>2, <3>3
  <2>4. ASSUME NEW p \in Queues, Has(new[p], c)
        PROVE  ow2[c] \subseteq {cur2[p]} /\ \A w \in oq2[c] : Before(new[p], w, c)
    <3>1. /\ Has(pend[p], c) /\ (p = q => c # item)
          /\ ow[c] \subseteq {cur[p]} /\ \A w \in oq[c] : Before(pend[p], w, c)
      BY <1>5, <2>1, <2>4 DEF Owes
    <3>2. \A w \in oq[c] : Has(pend[p], w)
      BY <3>1 DEF Before, Has
    <3>3. item \in oq[c] => p = q
      BY <1>2, <2>1, <3>2 DEF list
    <3>4. p = q => ow[c] = {}
      BY <2>1, <2>2, <3>1
    <3>5. \A w \in oq2[c] : Before(new[p], w, c)
      <4>1. CASE p = q
        BY <1>3, <2>2, <3>1, <4>1 DEF list, tail
      <4>2. CASE p # q
        BY <2>2, <3>1, <4>2
      <4> QED BY <4>1, <4>2
    <3> QED BY <2>2, <3>1, <3>3, <3>4, <3>5
  <2>5. ASSUME NEW p \in Queues, cur2[p] = c PROVE oq2[c] = {} /\ ow2[c] = {}
    <3>1. CASE p = q
      <4>1. Has(pend[q], c) /\ c = item
        BY <1>2, <2>5, <3>1 DEF list
      <4>2. ow[c] \subseteq {cur[q]} /\ \A w \in oq[c] : Before(list, w, item)
        BY <2>1, <4>1 DEF Owes, list
      <4>3. oq[c] = {} /\ ow[c] = {}
        BY <1>4, <2>1, <2>2, <4>2
      <4> QED BY <2>2, <4>3
    <3>2. CASE p # q
      BY <2>1, <2>2, <2>5, <3>2 DEF Owes
    <3> QED BY <3>1, <3>2
  <2>6. /\ k[c] \in {"idle", "join", "unstop"} => oq2[c] = {} /\ ow2[c] = {} /\ s[c] = 0
        /\ k[c] = "cancel" => oq2[c] = {} /\ ow2[c] \subseteq {a[c]}
        /\ s[c] = 1 => oq2[c] = {} /\ ow2[c] = {}
        /\ k[c] = "drain" => s[c] = 0 /\ a[c] \in Queues
    BY <2>1, <2>2 DEF Owes
  <2> QED BY <2>2, <2>3, <2>4, <2>5, <2>6 DEF Owes
<1> QED BY <1>6, <1>7, <1>8 DEF Waits

(* The thread is done with what it took: the flusher's client is released, *)
(* or the first that cancels the item, or nobody.                          *)
Released(item, a, s, cs, s2, cs2) ==
  \/ /\ item \in Clients /\ cs2 = cs
     /\ \A c \in Clients : s2[c] = IF c = item THEN 1 ELSE s[c]
  \/ /\ item \in Works
     /\ \E i \in 1..Len(cs) : /\ a[cs[i]] = item /\ cs2 = RemoveAt(cs, i)
                              /\ \A c \in Clients : s2[c] = IF c = cs[i] THEN 1 ELSE s[c]
  \/ item \in Works /\ cs2 = cs /\ s2 = s

Leaves(cur, ow, cur2, ow2, q, item) ==
  /\ item = cur[q]
  /\ \A p \in Queues : cur2[p] = IF p = q THEN NULL ELSE cur[p]
  /\ \A c \in Clients : ow2[c] = ow[c] \ {item}

LEMMA FinishWaits ==
  ASSUME NEW pend, NEW cur, NEW k, NEW a, NEW s, NEW cs \in Seq(Clients), NEW oq, NEW ow,
         NEW cur2, NEW s2, NEW cs2, NEW ow2, NEW q \in Queues, NEW item,
         Waits(pend, cur, k, a, s, cs, oq, ow), Leaves(cur, ow, cur2, ow2, q, item),
         Released(item, a, s, cs, s2, cs2)
  PROVE  Waits(pend, cur2, k, a, s2, cs2, oq, ow2)
<1> USE DEF Leaves
<1>1. \A c \in Clients : c # NULL
  BY ConstantsAssumption
<1>2. \A p \in Queues, c \in Clients :
        FlusherAt(pend, cur2, p, c) => FlusherAt(pend, cur, p, c) /\ c # item
  BY <1>1 DEF Waits, FlushersOnce, FlusherAt
<1>3. FlushersOnce(pend, cur2)
  <2>1. \A c \in Clients, p \in Queues : Has(pend[p], c) => cur2[p] # c
    BY <1>1 DEF Waits, FlushersOnce
  <2> QED BY <1>2, <2>1 DEF Waits, FlushersOnce
<1>4. ASSUME NEW c \in Clients, s2[c] # s[c]
      PROVE  /\ s2[c] = 1 /\ \A p \in Queues : ~FlusherAt(pend, cur2, p, c)
             /\ k[c] \in {"flush", "cancel"}
             /\ ~Has(cs2, c) /\ oq[c] = {} /\ ow2[c] = {}
  <2>1. CASE c = item /\ s2[c] = 1 /\ cs2 = cs
    <3>1. k[c] = "flush" /\ oq[c] = {} /\ ow[c] = {}
      BY <2>1 DEF Waits, Places, Owes, FlusherAt
    <3>2. ~Has(cs2, c)
      BY <2>1, <3>1 DEF Waits, Places
    <3> QED BY <1>2, <2>1, <3>1, <3>2
  <2>2. ASSUME NEW i \in 1..Len(cs), c = cs[i], a[c] = item, s2[c] = 1, cs2 = RemoveAt(cs, i)
        PROVE  /\ s2[c] = 1 /\ \A p \in Queues : ~FlusherAt(pend, cur2, p, c)
               /\ k[c] \in {"flush", "cancel"}
               /\ ~Has(cs2, c) /\ oq[c] = {} /\ ow2[c] = {}
    <3>1. Has(cs, c)
      BY <2>2 DEF Has
    <3>2. k[c] = "cancel" /\ oq[c] = {} /\ ow[c] \subseteq {item}
      BY <2>2, <3>1 DEF Waits, Places, Owes
    <3>3. \A p \in Queues : ~FlusherAt(pend, cur2, p, c)
      BY <1>2, <3>2 DEF Waits, Places
    <3>4. ~Has(cs2, c)
      BY <2>2, RemoveHas DEF Waits, Places
    <3> QED BY <2>2, <3>2, <3>3, <3>4
  <2> QED BY <1>4, <2>1, <2>2 DEF Released
<1>5. Once(cs2, Clients) /\ \A c \in Clients : Has(cs2, c) => Has(cs, c)
  BY RemoveHas DEF Released, Waits, Places
<1>6. Places(pend, cur2, k, s2, cs2)
  BY <1>2, <1>4, <1>5 DEF Waits, Places
<1>7. ASSUME NEW c \in Clients
      PROVE  Owes(pend, cur2, k, a, s2, oq, ow2, c) /\ oq[c] \subseteq Works /\ ow2[c] \subseteq Works
  <2>1. Owes(pend, cur, k, a, s, oq, ow, c) /\ oq[c] \subseteq Works /\ ow[c] \subseteq Works
    BY DEF Waits
  <2>2. /\ ow2[c] \subseteq ow[c] /\ ow2[c] \subseteq Works /\ (ow[c] = {} => ow2[c] = {})
        /\ item \notin ow2[c]
    BY <2>1
  <2>3. ASSUME NEW p \in Queues, ow[c] \subseteq {cur[p]} PROVE ow2[c] \subseteq {cur2[p]}
    BY <2>2, <2>3
  <2>4. ASSUME NEW p \in Queues, cur2[p] = c PROVE oq[c] = {} /\ ow2[c] = {}
    <3>1. cur[p] = c
      BY <1>1, <2>4
    <3> QED BY <2>1, <2>2, <3>1 DEF Owes
  <2>5. /\ k[c] \in {"idle", "join", "unstop"} => oq[c] = {} /\ ow2[c] = {} /\ s2[c] = 0
        /\ k[c] = "drain" => s2[c] = 0
        /\ s2[c] = 1 => oq[c] = {} /\ ow2[c] = {}
    BY <1>4, <2>1, <2>2 DEF Owes
  <2> QED BY <2>1, <2>2, <2>3, <2>4, <2>5 DEF Owes
<1> QED BY <1>3, <1>6, <1>7 DEF Waits

-----------------------------------------------------------------------------
(* The waits of the program's state, and what a locked section that is no  *)
(* call on a queue does: it leaves the queue threads alone, tells them     *)
(* what it put on their lists, and at most makes its caller wait.          *)
WaitInv == Waits(pending, qcur, pc, arg, sem, cancels, owedQueued, owedRunning)

LockedSection ==
  /\ UNCHANGED queueVars
  /\ Told(Locked, Locked')
  /\ \A c \in Clients :
       \/ /\ pc'[c] = pc[c] /\ arg'[c] = arg[c]
          /\ owedQueued'[c] \subseteq owedQueued[c] /\ owedRunning'[c] = owedRunning[c]
       \/ pc[c] = "idle" /\ pc'[c] \in {"flush", "cancel"}

LEMMA ListsOnce ==
  ASSUME IInv, WaitInv
  PROVE  AllOnce(Locked.pending) /\ Locked.pending = pending
BY DEF IInv, Consistent, Locked, LockedStates, WaitInv, Waits, FlushersOnce, AllOnce

LEMMA BlockingCaller ==
  ASSUME NEW c, NEW op, MayBlock(c, op)
  PROVE  c \in Clients /\ pc[c] = "idle" /\ <<c, op>> \in Calls
BY ConstantsAssumption DEF MayBlock, MayCall

(* A section that makes nobody wait.                                       *)
LEMMA KeepSection ==
  ASSUME WaitInv, NEW r, NEW gone, Effect(Locked, r, gone), Unlock(r),
         UNCHANGED <<queueVars, syncVars>>, owedRunning' = owedRunning,
         \A c \in Clients : owedQueued'[c] \subseteq owedQueued[c] /\ owedQueued'[c] \cap gone = {}
  PROVE  WaitInv' /\ LockedSection
<1>1. /\ pending' = r.pending /\ notifyq' = r.notifyq
      /\ qcur' = qcur /\ pc' = pc /\ arg' = arg /\ sem' = sem /\ cancels' = cancels
  BY DEF Unlock, queueVars, syncVars
<1>2. \A q \in Queues : KeepsList(pending[q], r.pending[q], gone)
  BY DEF Effect, Locked
<1>3. WaitInv'
  <2>1. Waits(r.pending, qcur, pc, arg, sem, cancels, owedQueued', owedRunning)
    BY <1>2, KeepWaits DEF WaitInv
  <2> QED BY <1>1, <2>1 DEF WaitInv
<1>4. Told(Locked, Locked')
  BY <1>1 DEF Effect, Told, Locked
<1> QED BY <1>1, <1>3, <1>4 DEF LockedSection

(* The caller of a flush waits, or finds nothing to wait for.              *)
LEMMA FlushSection ==
  ASSUME IInv, WaitInv, NEW c \in Clients, pc[c] = "idle", NEW w \in Works,
         NEW s, Consistent(s, qcur, qflags), Effect(Locked, s, {}),
         WaitForFlusher(c, w, s), UNCHANGED queueVars
  PROVE  WaitInv' /\ LockedSection
<1> DEFINE t == work_flush_locked(s, w, c)
           q == s.queue[w]
<1>1. Unlock(t) /\ sem' = sem /\ cancels' = cancels /\ qcur' = qcur
  BY DEF WaitForFlusher, queueVars
<1>2. CASE ~needs_flush(s, w)
  <2>1. t = s
    BY <1>2 DEF work_flush_locked
  <2>2. UNCHANGED <<syncVars, owedVars>>
    BY <1>2 DEF WaitForFlusher, syncVars, owedVars
  <2>3. \A d \in Clients : owedQueued'[d] \subseteq owedQueued[d] /\ owedQueued'[d] \cap {} = {}
    BY <2>2 DEF owedVars
  <2> QED BY <1>1, <2>1, <2>2, <2>3, KeepSection DEF owedVars
<1>3. CASE needs_flush(s, w)
  <2>1. Waits(s.pending, qcur, pc, arg, sem, cancels, owedQueued, owedRunning)
    <3>1. \A p \in Queues : KeepsList(pending[p], s.pending[p], {})
      BY DEF Effect, Locked
    <3> QED BY <3>1, KeepWaits DEF WaitInv
  <2>2. AllOnce(s.pending) /\ \A p \in Queues : ~Has(s.pending[p], c)
    BY <2>1, EffectOnce, IdleWaits
  <2> HIDE DEF t, q
  <2>3. /\ q \in Queues /\ Told(s, t)
        /\ AddsFlusher(s.pending[q], t.pending[q], c)
        /\ \A p \in Queues : p # q => t.pending[p] = s.pending[p]
        /\ "QUEUED" \in s.flags[w] => Before(t.pending[q], w, c)
        /\ "QUEUED" \notin s.flags[w] => qcur[q] = w
    BY <1>3, <2>2, FlushEffect DEF t, q
  <2>4. Wait(c, "flush", w, If("QUEUED" \in s.flags[w], w), If("QUEUED" \notin s.flags[w], w))
    BY <1>3 DEF WaitForFlusher
  <2>5. /\ \A d \in Clients : d # c => /\ pc'[d] = pc[d] /\ arg'[d] = arg[d]
                                      /\ owedQueued'[d] = owedQueued[d]
                                      /\ owedRunning'[d] = owedRunning[d]
        /\ pc'[c] = "flush"
        /\ owedQueued'[c] = If("QUEUED" \in s.flags[w], w)
        /\ owedRunning'[c] = If("QUEUED" \notin s.flags[w], w)
    BY <2>4 DEF Wait, IInv, SyncTypeOK, OwedTypeOK
  <2>6. \/ owedQueued'[c] = {w} /\ owedRunning'[c] = {} /\ Before(t.pending[q], w, c)
        \/ owedQueued'[c] = {} /\ owedRunning'[c] = {w} /\ qcur[q] = w
    BY <2>3, <2>5 DEF If
  <2>7. Waits(t.pending, qcur, pc', arg', sem, cancels, owedQueued', owedRunning')
    BY <2>1, <2>3, <2>5, <2>6, FlushWaits
  <2>8. WaitInv'
    BY <1>1, <2>7 DEF WaitInv, Unlock
  <2>9. Told(Locked, Locked')
    <3>1. Told(Locked, t)
      BY <2>3 DEF Effect, Told
    <3>2. Locked'.pending = t.pending /\ Locked'.notifyq = t.notifyq
      BY <1>1 DEF Locked, Unlock
    <3> QED BY <3>1, <3>2 DEF Told
  <2> QED BY <2>5, <2>8, <2>9 DEF LockedSection
<1> QED BY <1>2, <1>3

(* What a cancel takes off a list it takes from those who wait for it.     *)
LEMMA ForgetsCancelled ==
  ASSUME OwedTypeOK, NEW s, NEW w, "CANCELING" \in s.flags[w] <=> "CANCELING" \in flags[w]
  PROVE  \A c \in Clients : /\ ForgetQueued(w)[c] \subseteq owedQueued[c]
                            /\ ForgetQueued(w)[c] \cap Cancelled(s, w) = {}
BY DEF OwedTypeOK, ForgetQueued, Cancelled

LEMMA CancelSection ==
  ASSUME IInv, WaitInv, NEW w \in Works, NEW s, Consistent(s, qcur, qflags),
         Effect(Locked, s, {}), "CANCELING" \in s.flags[w] <=> "CANCELING" \in flags[w],
         Cancel(s, w), UNCHANGED queueVars
  PROVE  WaitInv' /\ LockedSection
<1> DEFINE r == cancel_async_locked(s, w)
           gone == Cancelled(s, w)
<1>1. Unlock(r) /\ owedQueued' = ForgetQueued(w) /\ UNCHANGED <<owedRunning, syncVars>>
  BY DEF Cancel
<1>2. Effect(s, r, gone)
  BY CancelEffect, EffectOnce
<1>3. \A c \in Clients : owedQueued'[c] \subseteq owedQueued[c] /\ owedQueued'[c] \cap gone = {}
  BY <1>1, ForgetsCancelled DEF IInv
<1> HIDE DEF r, gone
<1>4. Effect(Locked, r, gone)
  BY <1>2, EffectThen
<1> QED BY <1>1, <1>3, <1>4, KeepSection

LEMMA CancelWaitSection ==
  ASSUME IInv, WaitInv, NEW c \in Clients, pc[c] = "idle", NEW w \in Works,
         NEW s, Consistent(s, qcur, qflags), Effect(Locked, s, {}),
         "CANCELING" \in s.flags[w] <=> "CANCELING" \in flags[w],
         CancelAndWait(c, s, w), UNCHANGED queueVars
  PROVE  WaitInv' /\ LockedSection
<1> DEFINE r == cancel_async_locked(s, w)
           gone == Cancelled(s, w)
<1>1. /\ Unlock(r) /\ owedQueued' = ForgetQueued(w) /\ sem' = sem /\ qcur' = qcur
  BY DEF CancelAndWait, queueVars
<1>2. Effect(s, r, gone)
  BY CancelEffect, EffectOnce
<1>3. \A d \in Clients : owedQueued'[d] \subseteq owedQueued[d] /\ owedQueued'[d] \cap gone = {}
  BY <1>1, ForgetsCancelled DEF IInv
<1>4. CASE "CANCELING" \notin r.flags[w]
  <2>1. UNCHANGED <<syncVars, owedRunning>>
    BY <1>4 DEF CancelAndWait, syncVars
  <2> HIDE DEF r, gone
  <2>2. Effect(Locked, r, gone)
    BY <1>2, EffectThen
  <2> QED BY <1>1, <1>3, <2>1, <2>2, KeepSection
<1>5. CASE "CANCELING" \in r.flags[w]
  <2>1. /\ cancels' = Append(cancels, c)
        /\ pc' = [pc EXCEPT ![c] = "cancel"]
        /\ arg' = [arg EXCEPT ![c] = w]
        /\ owedRunning' = [owedRunning EXCEPT ![c] = {w}]
    BY <1>5 DEF CancelAndWait
  <2> HIDE DEF r, gone
  <2>2. Effect(Locked, r, gone)
    BY <1>2, EffectThen
  <2>3. Waits(r.pending, qcur, pc, arg, sem, cancels, owedQueued', owedRunning)
    <3>1. \A p \in Queues : KeepsList(pending[p], r.pending[p], gone)
      BY <2>2 DEF Effect, Locked
    <3> QED BY <1>3, <3>1, KeepWaits DEF WaitInv
  <2>4. /\ \A d \in Clients : d # c => /\ pc'[d] = pc[d] /\ arg'[d] = arg[d]
                                      /\ owedRunning'[d] = owedRunning[d]
        /\ pc'[c] = "cancel" /\ arg'[c] = w /\ owedRunning'[c] = {w}
    BY <2>1 DEF IInv, SyncTypeOK, OwedTypeOK
  <2>5. Once(cancels', Clients) /\ \A d : Has(cancels', d) <=> Has(cancels, d) \/ d = c
    <3>1. cancels \in Seq(Clients) /\ ~Has(cancels, c) /\ Once(cancels, Clients)
      BY IdleWaits DEF IInv, SyncTypeOK, WaitInv, Waits, Places
    <3> QED BY <2>1, <3>1, AppendHas
  <2>6. Waits(r.pending, qcur, pc', arg', sem, cancels', owedQueued', owedRunning')
    BY <2>3, <2>4, <2>5, CancelWaits
  <2>7. WaitInv'
    BY <1>1, <2>6 DEF WaitInv, Unlock
  <2>8. Told(Locked, Locked')
    BY <1>1, <2>2 DEF Effect, Told, Locked, Unlock
  <2> QED BY <1>3, <2>4, <2>7, <2>8 DEF LockedSection
<1> QED BY <1>4, <1>5

-----------------------------------------------------------------------------
(* Taking a delayable item off its timer, and marking it delayed.          *)
LEMMA UnscheduledFacts ==
  ASSUME IInv, WaitInv, NEW d \in Works
  PROVE  /\ Consistent(unscheduled(Locked, d), qcur, qflags)
         /\ Effect(Locked, unscheduled(Locked, d), {})
         /\ "CANCELING" \in unscheduled(Locked, d).flags[d] <=> "CANCELING" \in flags[d]
<1>1. Consistent(unscheduled(Locked, d), qcur, qflags)
  BY UnscheduleConsistent DEF IInv
<1>2. Effect(Locked, unscheduled(Locked, d), {})
  BY ListsOnce, FlagsEffect DEF IInv, Consistent, unscheduled
<1>3. "CANCELING" \in unscheduled(Locked, d).flags[d] <=> "CANCELING" \in flags[d]
  BY DEF IInv, Consistent, Locked, LockedStates, unscheduled, WithFlags
<1> QED BY <1>1, <1>2, <1>3

LEMMA LaterEffect ==
  ASSUME IInv, WaitInv, NEW s, Consistent(s, qcur, qflags), Effect(Locked, s, {}), NEW d, NEW f
  PROVE  Effect(Locked, WithFlags(s, d, f), {})
<1> DEFINE r == WithFlags(s, d, f)
<1>1. Effect(s, r, {})
  BY EffectOnce, FlagsEffect DEF Consistent
<1> HIDE DEF r
<1>2. Effect(Locked, r, {})
  BY <1>1, EffectThen
<1> QED BY <1>2 DEF r

LEMMA NowEffect ==
  ASSUME IInv, WaitInv, NEW s, Consistent(s, qcur, qflags), Effect(Locked, s, {}),
         NEW d \in Works, NEW q \in Queues \cup {NULL}, NEW t
  PROVE  Effect(Locked, submit_to_queue_locked(s, d, q, t), {})
<1> DEFINE r == submit_to_queue_locked(s, d, q, t)
<1>1. Effect(s, r, {})
  BY EffectOnce, SubmitEffect
<1> HIDE DEF r
<1>2. Effect(Locked, r, {})
  BY <1>1, EffectThen
<1> QED BY <1>2 DEF r

LEMMA StillEffect ==
  ASSUME IInv, WaitInv
  PROVE  Effect(Locked, Locked, {})
BY ListsOnce, NoEffect

LEMMA SameOwed ==
  ASSUME UNCHANGED owedVars
  PROVE  /\ owedRunning' = owedRunning
         /\ \A c \in Clients : owedQueued'[c] \subseteq owedQueued[c] /\ owedQueued'[c] \cap {} = {}
BY DEF owedVars

LEMMA WorkCallSection ==
  ASSUME IInv, WaitInv, NEW t \in Clients \cup Queues, WorkCall(t)
  PROVE  WaitInv' /\ LockedSection
<1>0. Consistent(Locked, qcur, qflags) /\ Effect(Locked, Locked, {}) /\ Locked.flags = flags
  BY StillEffect DEF IInv, Locked
<1>1. ASSUME NEW w \in Works, NEW q \in Queues \cup {NULL}, bt_work_submit_to_queue(t, w, q)
      PROVE  WaitInv' /\ LockedSection
  <2>1. Effect(Locked, submit_to_queue_locked(Locked, w, q, t), {})
    BY <1>0, NowEffect
  <2> QED BY <1>1, <2>1, SameOwed, KeepSection DEF bt_work_submit_to_queue
<1>2. ASSUME NEW w \in Works, bt_work_flush(t, w) PROVE WaitInv' /\ LockedSection
  <2>1. t \in Clients /\ pc[t] = "idle"
    BY <1>2, BlockingCaller DEF bt_work_flush
  <2> QED BY <1>0, <1>2, <2>1, FlushSection DEF bt_work_flush
<1>3. ASSUME NEW w \in Works, bt_work_cancel(t, w) PROVE WaitInv' /\ LockedSection
  BY <1>0, <1>3, CancelSection DEF bt_work_cancel
<1>4. ASSUME NEW w \in Works, bt_work_cancel_sync(t, w) PROVE WaitInv' /\ LockedSection
  <2>1. t \in Clients /\ pc[t] = "idle" /\ UNCHANGED queueVars
    BY <1>4, BlockingCaller DEF bt_work_cancel_sync
  <2>2. CASE flags[w] # {}
    BY <1>0, <1>4, <2>1, <2>2, CancelWaitSection DEF bt_work_cancel_sync
  <2>3. CASE flags[w] = {}
    <3>1. Unlock(Locked) /\ UNCHANGED <<queueVars, syncVars>> /\ UNCHANGED owedVars
      BY <1>4, <2>1, <2>3 DEF bt_work_cancel_sync, Unlock, Locked, wqVars
    <3> QED BY <1>0, <3>1, SameOwed, KeepSection
  <2> QED BY <2>2, <2>3
<1> QED BY <1>1, <1>2, <1>3, <1>4 DEF WorkCall

LEMMA DelayableCallSection ==
  ASSUME IInv, WaitInv, NEW t \in Clients \cup Queues, DelayableCall(t)
  PROVE  WaitInv' /\ LockedSection
<1>0. Consistent(Locked, qcur, qflags) /\ Effect(Locked, Locked, {}) /\ Delayables \subseteq Works
  BY StillEffect, ConstantsAssumption DEF IInv
<1>1. ASSUME NEW d \in Delayables, NEW q \in Queues, NEW now \in BOOLEAN, NEW s,
             Consistent(s, qcur, qflags), Effect(Locked, s, {}),
             ScheduleNow(t, s, d, q) \/ ScheduleLater(s, d, q),
             UNCHANGED <<queueVars, syncVars, owedVars>>
      PROVE  WaitInv' /\ LockedSection
  <2>1. PICK r : Effect(Locked, r, {}) /\ Unlock(r)
    <3>1. CASE ScheduleNow(t, s, d, q)
      BY <1>0, <1>1, <3>1, NowEffect DEF ScheduleNow
    <3>2. CASE ScheduleLater(s, d, q)
      BY <1>1, <3>2, LaterEffect DEF ScheduleLater
    <3> QED BY <1>1, <3>1, <3>2
  <2> QED BY <1>1, <2>1, SameOwed, KeepSection
<1>2. ASSUME NEW d \in Delayables, NEW q \in Queues, NEW now \in BOOLEAN,
             bt_work_schedule_for_queue(t, d, q, now)
      PROVE  WaitInv' /\ LockedSection
  BY <1>0, <1>1, <1>2 DEF bt_work_schedule_for_queue
<1>3. ASSUME NEW d \in Delayables, NEW q \in Queues, NEW now \in BOOLEAN,
             bt_work_reschedule_for_queue(t, d, q, now)
      PROVE  WaitInv' /\ LockedSection
  <2> DEFINE u == unscheduled(Locked, d)
  <2>1. /\ ScheduleNow(t, u, d, q) \/ ScheduleLater(u, d, q)
        /\ UNCHANGED <<queueVars, syncVars, owedVars>>
    BY <1>3 DEF bt_work_reschedule_for_queue
  <2>2. Consistent(u, qcur, qflags) /\ Effect(Locked, u, {})
    BY <1>0, UnscheduledFacts
  <2> HIDE DEF u
  <2> QED BY <1>1, <2>1, <2>2
<1>4. ASSUME NEW d \in Delayables, bt_work_cancel_delayable(t, d) PROVE WaitInv' /\ LockedSection
  BY <1>0, <1>4, UnscheduledFacts, CancelSection DEF bt_work_cancel_delayable
<1>5. ASSUME NEW d \in Delayables, bt_work_cancel_delayable_sync(t, d)
      PROVE  WaitInv' /\ LockedSection
  <2>1. t \in Clients /\ pc[t] = "idle" /\ UNCHANGED queueVars
    BY <1>5, BlockingCaller DEF bt_work_cancel_delayable_sync
  <2>2. CASE flags[d] # {}
    <3>1. CancelAndWait(t, unscheduled(Locked, d), d)
      BY <1>5, <2>2 DEF bt_work_cancel_delayable_sync
    <3> QED BY <1>0, <2>1, <3>1, UnscheduledFacts, CancelWaitSection
  <2>3. CASE flags[d] = {}
    <3>1. Unlock(Locked) /\ UNCHANGED <<queueVars, syncVars>> /\ UNCHANGED owedVars
      BY <1>5, <2>1, <2>3 DEF bt_work_cancel_delayable_sync, Unlock, Locked, wqVars
    <3> QED BY <1>0, <3>1, SameOwed, KeepSection
  <2> QED BY <2>2, <2>3
<1>6. ASSUME NEW d \in Delayables, bt_work_flush_delayable(t, d) PROVE WaitInv' /\ LockedSection
  <2> DEFINE u == unscheduled(Locked, d)
             s == IF "DELAYED" \in flags[d]
                  THEN submit_to_queue_locked(u, d, delayQueue[d], t)
                  ELSE u
  <2>1. t \in Clients /\ pc[t] = "idle" /\ UNCHANGED queueVars /\ WaitForFlusher(t, d, s)
    BY <1>6, BlockingCaller DEF bt_work_flush_delayable
  <2>2. /\ Consistent(u, qcur, qflags) /\ Effect(Locked, u, {})
        /\ delayQueue[d] \in Queues \cup {NULL}
    BY <1>0, UnscheduledFacts DEF IInv, TimerTypeOK
  <2> HIDE DEF u
  <2>3. Consistent(s, qcur, qflags) /\ Effect(Locked, s, {})
    BY <1>0, <2>2, NowEffect, SubmitConsistent
  <2> HIDE DEF s
  <2> QED BY <1>0, <2>1, <2>3, FlushSection
<1> QED BY <1>2, <1>3, <1>4, <1>5, <1>6 DEF DelayableCall

LEMMA TimerSection ==
  ASSUME IInv, WaitInv, NEW d \in Delayables, TimerExpires(d) \/ work_timeout(d)
  PROVE  WaitInv' /\ LockedSection
<1>0. /\ Effect(Locked, Locked, {}) /\ d \in Works /\ delayQueue[d] \in Queues \cup {NULL}
      /\ UNCHANGED <<queueVars, syncVars>> /\ UNCHANGED owedVars
  BY StillEffect, ConstantsAssumption DEF IInv, TimerTypeOK, TimerExpires, work_timeout
<1>1. CASE Unlock(Locked)
  BY <1>0, <1>1, SameOwed, KeepSection
<1>2. CASE Unlock(submit_to_queue_locked(unscheduled(Locked, d), d, delayQueue[d], NULL))
  <2> DEFINE u == unscheduled(Locked, d)
  <2>1. Consistent(u, qcur, qflags) /\ Effect(Locked, u, {})
    BY <1>0, UnscheduledFacts
  <2>2. Unlock(submit_to_queue_locked(u, d, delayQueue[d], NULL))
    BY <1>2
  <2> HIDE DEF u
  <2>3. Effect(Locked, submit_to_queue_locked(u, d, delayQueue[d], NULL), {})
    BY <1>0, <2>1, NowEffect
  <2> QED BY <1>0, <2>2, <2>3, SameOwed, KeepSection
<1>3. Unlock(Locked)
      \/ Unlock(submit_to_queue_locked(unscheduled(Locked, d), d, delayQueue[d], NULL))
  BY DEF TimerExpires, work_timeout, SubmitDelayed, wqVars, Unlock, Locked
<1> QED BY <1>1, <1>2, <1>3

-----------------------------------------------------------------------------
(* A step that changes no list, nothing taken and nobody's wait.           *)
LEMMA StillWaits ==
  ASSUME WaitInv, UNCHANGED <<pending, qcur, syncVars, owedVars>>
  PROVE  WaitInv'
BY DEF WaitInv, syncVars, owedVars

LEMMA QueueCallWaits ==
  ASSUME IInv, WaitInv, NEW t \in Clients \cup Queues, QueueCall(t)
  PROVE  WaitInv'
<1>1. ASSUME NEW q \in Queues, bt_work_queue_start(t, q) PROVE WaitInv'
  <2>1. pending' = pending
    BY <1>1, ThreadFacts DEF IInv, Consistent, Locked, LockedStates, bt_work_queue_start
  <2> QED BY <1>1, <2>1, StillWaits DEF bt_work_queue_start
<1>2. ASSUME NEW q \in Queues, NEW plug \in BOOLEAN, bt_work_queue_drain(t, q, plug) PROVE WaitInv'
  <2>0. t \in Clients /\ pc[t] = "idle" /\ sem[t] = 0
    <3>1. t \in Clients /\ pc[t] = "idle"
      BY <1>2, ConstantsAssumption DEF bt_work_queue_drain, MayBlock, MayCall
    <3> QED BY <3>1, IdleWaits DEF WaitInv
  <2>1. Wait(t, "drain", q, ToSet(pending[q]) \cap Works, {qcur[q]} \cap Works)
        /\ UNCHANGED <<pending, qcur, sem, cancels>>
    BY <1>2 DEF bt_work_queue_drain
  <2>2. /\ \A d \in Clients : d # t => /\ pc'[d] = pc[d] /\ arg'[d] = arg[d]
                                      /\ owedQueued'[d] = owedQueued[d]
                                      /\ owedRunning'[d] = owedRunning[d]
        /\ pc'[t] = "drain" /\ arg'[t] = q
        /\ owedQueued'[t] = ToSet(pending[q]) \cap Works
        /\ owedRunning'[t] = {qcur[q]} \cap Works
    BY <2>0, <2>1 DEF Wait, IInv, SyncTypeOK, OwedTypeOK
  <2>3. \A w \in owedQueued'[t] : Has(pending[q], w)
    <3>1. DOMAIN pending[q] = 1..Len(pending[q])
      BY ThreadFacts, LenProperties
    <3> QED BY <2>2, <3>1 DEF ToSet, Has
  <2>4. Waits(pending, qcur, pc', arg', sem', cancels, owedQueued', owedRunning')
    BY <2>0, <2>1, <2>2, <2>3, TurnWaits DEF WaitInv
  <2> QED BY <2>1, <2>4 DEF WaitInv
<1>3. ASSUME NEW q \in Queues, bt_work_queue_unplug(t, q) PROVE WaitInv'
  BY <1>3, StillWaits DEF bt_work_queue_unplug, wqVars
<1>4. ASSUME NEW q \in Queues, NEW nowait \in BOOLEAN, bt_work_queue_stop(t, q, nowait)
      PROVE  WaitInv'
  <2>0. t \in Clients /\ pc[t] = "idle" /\ sem[t] = 0
    <3>1. t \in Clients /\ pc[t] = "idle"
      BY <1>4, ConstantsAssumption DEF bt_work_queue_stop, MayBlock, MayCall
    <3> QED BY <3>1, IdleWaits DEF WaitInv
  <2>1. Wait(t, IF nowait THEN "unstop" ELSE "join", q, {}, {})
        /\ UNCHANGED <<pending, qcur, sem, cancels>>
    BY <1>4 DEF bt_work_queue_stop
  <2>2. /\ \A d \in Clients : d # t => /\ pc'[d] = pc[d] /\ arg'[d] = arg[d]
                                      /\ owedQueued'[d] = owedQueued[d]
                                      /\ owedRunning'[d] = owedRunning[d]
        /\ pc'[t] \in {"join", "unstop"}
        /\ owedQueued'[t] = {} /\ owedRunning'[t] = {}
    BY <2>0, <2>1 DEF Wait, IInv, SyncTypeOK, OwedTypeOK
  <2>4. Waits(pending, qcur, pc', arg', sem', cancels, owedQueued', owedRunning')
    BY <2>0, <2>1, <2>2, TurnWaits DEF WaitInv
  <2> QED BY <2>1, <2>4 DEF WaitInv
<1> QED BY <1>1, <1>2, <1>3, <1>4 DEF QueueCall

LEMMA ReturnPoints ==
  ASSUME IInv, NEW c \in Clients, Return(c)
  PROVE  /\ \A d \in Clients : d # c => /\ pc'[d] = pc[d] /\ arg'[d] = arg[d]
                                      /\ owedQueued'[d] = owedQueued[d]
                                      /\ owedRunning'[d] = owedRunning[d]
         /\ pc'[c] = "idle" /\ arg'[c] = NULL /\ owedQueued'[c] = {} /\ owedRunning'[c] = {}
BY DEF Return, IInv, SyncTypeOK, OwedTypeOK

LEMMA ReturnWaits ==
  ASSUME IInv, WaitInv, NEW c \in Clients, CallReturns(c)
  PROVE  WaitInv'
<1>1. /\ Return(c) /\ UNCHANGED <<pending, qcur, cancels>>
      /\ \A d \in Clients : d # c => sem'[d] = sem[d]
  BY DEF CallReturns, ReturnFromSync, ReturnFromDrain, ReturnFromJoin, StopTimedOut, wqVars,
         queueVars, IInv, SyncTypeOK
<1>2. sem'[c] = 0 /\ (pc[c] \in {"flush", "cancel"} => sem[c] = 1)
  <2>1. CASE ReturnFromSync(c)
    BY <2>1 DEF ReturnFromSync, IInv, SyncTypeOK
  <2>2. CASE ReturnFromDrain(c) \/ ReturnFromJoin(c) \/ StopTimedOut(c)
    <3>1. pc[c] \in {"drain", "join", "unstop"} /\ sem' = sem
      BY <2>2 DEF ReturnFromDrain, ReturnFromJoin, StopTimedOut
    <3> QED BY <3>1 DEF WaitInv, Waits, Owes
  <2> QED BY <2>1, <2>2 DEF CallReturns
<1>3. Waits(pending, qcur, pc', arg', sem', cancels, owedQueued', owedRunning')
  BY <1>1, <1>2, ReturnPoints, TurnWaits DEF WaitInv
<1> QED BY <1>1, <1>3 DEF WaitInv

(* Finalizing what a thread took releases at most the one it belongs to.   *)
LEMMA FinalizeReleases ==
  ASSUME IInv, NEW item \in Item, Finalize(item)
  PROVE  Released(item, arg, sem, cancels, sem', cancels')
<1>0. sem \in [Clients -> {0, 1}] /\ cancels \in Seq(Clients)
  BY DEF IInv, SyncTypeOK
<1>1. CASE item \in Clients
  BY <1>0, <1>1 DEF Finalize, finalize_flush_locked, Released
<1>2. CASE item \in Works /\ "CANCELING" \in flags[item] /\ CancellersOf(item) # {}
  <2> DEFINE i == FirstOf(CancellersOf(item))
  <2>1. CancellersOf(item) \subseteq 1..Len(cancels) /\ Len(cancels) \in Nat
    BY <1>0, LenProperties DEF CancellersOf
  <2>2. i \in CancellersOf(item)
    BY <1>2, <2>1, FirstOfIsElement
  <2>3. sem' = [sem EXCEPT ![cancels[i]] = 1] /\ cancels' = RemoveAt(cancels, i)
    BY <1>2, ConstantsAssumption DEF Finalize, finalize_cancel_locked
  <2> HIDE DEF i
  <2>4. i \in 1..Len(cancels) /\ arg[cancels[i]] = item
    BY <2>1, <2>2 DEF CancellersOf
  <2>5. \A c \in Clients : sem'[c] = IF c = cancels[i] THEN 1 ELSE sem[c]
    BY <1>0, <2>3
  <2> QED BY <1>2, <2>3, <2>4, <2>5 DEF Released
<1>3. CASE item \notin Clients /\ ~("CANCELING" \in flags[item] /\ CancellersOf(item) # {})
  BY <1>3 DEF Finalize, finalize_cancel_locked, Released, Item
<1> QED BY <1>1, <1>2, <1>3 DEF Item

LEMMA MainWaits ==
  ASSUME IInv, WaitInv, NEW q \in Queues, work_queue_main(q)
  PROVE  WaitInv'
<1>1. CASE TakeItem(q)
  <2> DEFINE item == Head(pending[q])
  <2>1. /\ pending[q] # <<>> /\ qcur[q] = NULL
        /\ UNCHANGED syncVars
    BY <1>1, ThreadFacts DEF TakeItem
  <2>2. /\ \A p \in Queues : pending'[p] = IF p = q THEN Tail(pending[q]) ELSE pending[p]
        /\ \A p \in Queues : qcur'[p] = IF p = q THEN item ELSE qcur[p]
    BY <1>1 DEF TakeItem, IInv, QueueTypeOK, Consistent, Locked, LockedStates
  <2>3. \A c \in Clients : /\ owedQueued'[c] = owedQueued[c] \ {item}
                           /\ owedRunning'[c] = owedRunning[c] \cup (owedQueued[c] \cap {item})
    BY <1>1 DEF TakeItem
  <2>4. \A w \in Works, p \in Queues : Has(pending[p], w) /\ Has(pending[q], w) => p = q
    BY DEF IInv, Consistent, Locked, ListedIsQueued
  <2>5. AllOnce(pending)
    BY ListsOnce
  <2> HIDE DEF item
  <2>6. /\ item = Head(pending[q]) /\ q \in Queues
        /\ Waits(pending, qcur, pc, arg, sem, cancels, owedQueued, owedRunning)
    BY DEF item, WaitInv
  <2>7. Waits(pending', qcur', pc, arg, sem, cancels, owedQueued', owedRunning')
    <3>1. Takes(pending, qcur, owedQueued, owedRunning, pending', qcur', owedQueued',
                owedRunning', q, item)
      BY <2>1, <2>2, <2>3, <2>4, <2>6 DEF Takes
    <3> QED BY <2>5, <2>6, <3>1, TakeWaits
  <2> QED BY <2>1, <2>7 DEF WaitInv, syncVars
<1>2. CASE FinishItem(q)
  <2> DEFINE item == qcur[q]
  <2>1. item \in Item
    BY <1>2, ThreadFacts DEF FinishItem, IInv, QueueTypeOK
  <2>2. /\ \A p \in Queues : qcur'[p] = IF p = q THEN NULL ELSE qcur[p]
        /\ \A c \in Clients : owedRunning'[c] = owedRunning[c] \ {item}
        /\ Finalize(item) /\ UNCHANGED <<owedQueued, pending, pc, arg>>
    BY <1>2 DEF FinishItem, IInv, QueueTypeOK
  <2> HIDE DEF item
  <2>3. Released(item, arg, sem, cancels, sem', cancels')
    BY <2>1, <2>2, FinalizeReleases
  <2>4. /\ item = qcur[q] /\ cancels \in Seq(Clients) /\ q \in Queues
        /\ Waits(pending, qcur, pc, arg, sem, cancels, owedQueued, owedRunning)
    BY DEF item, IInv, SyncTypeOK, WaitInv
  <2>5. Waits(pending, qcur', pc, arg, sem', cancels', owedQueued, owedRunning')
    <3>1. Leaves(qcur, owedRunning, qcur', owedRunning', q, item)
      BY <2>2, <2>4 DEF Leaves
    <3> QED BY <2>3, <2>4, <3>1, FinishWaits
  <2> QED BY <2>2, <2>5 DEF WaitInv
<1>3. CASE Drained(q) \/ Stopped(q) \/ Sleep(q) \/ Wake(q)
  BY <1>3, StillWaits DEF Drained, Stopped, Sleep, Wake, wqVars
<1> QED BY <1>1, <1>2, <1>3 DEF work_queue_main

LEMMA InitWaits == Init => WaitInv
<1> SUFFICES ASSUME Init PROVE WaitInv
  OBVIOUS
<1>1. /\ \A q \in Queues : pending[q] = <<>> /\ qcur[q] = NULL
      /\ \A c \in Clients : /\ pc[c] = "idle" /\ sem[c] = 0 /\ c # NULL
                            /\ owedQueued[c] = {} /\ owedRunning[c] = {}
      /\ cancels = <<>>
  BY ConstantsAssumption DEF Init
<1>2. \A x : ~Has(<<>>, x)
  BY DEF Has
<1>3. FlushersOnce(pending, qcur)
  BY <1>1, <1>2 DEF FlushersOnce, FlusherAt, Once
<1>4. Places(pending, qcur, pc, sem, cancels)
  BY <1>1, <1>2 DEF Places, FlusherAt, Once
<1>5. \A c \in Clients : Owes(pending, qcur, pc, arg, sem, owedQueued, owedRunning, c)
  BY <1>1, <1>2 DEF Owes
<1> QED BY <1>1, <1>3, <1>4, <1>5 DEF WaitInv, Waits

LEMMA WaitStep == IInv /\ WaitInv /\ [Next]_vars => WaitInv'
<1> SUFFICES ASSUME IInv, WaitInv, [Next]_vars PROVE WaitInv'
  OBVIOUS
<1>1. CASE UNCHANGED vars
  BY <1>1, StillWaits DEF vars, wqVars, queueVars
<1>2. CASE Next
  BY <1>2, WorkCallSection, DelayableCallSection, QueueCallWaits, ReturnWaits, MainWaits,
     TimerSection DEF Next
<1> QED BY <1>1, <1>2

LEMMA WaitsAlways == Spec => []WaitInv
<1>1. Init /\ IInv => WaitInv
  BY InitWaits
<1> QED BY <1>1, Invariance, WaitStep, PTL DEF Spec

(* Whoever waits in a flush or a synchronous cancel, among however many,   *)
(* is released only when the invocation it saw is over or cancelled.       *)
THEOREM SyncWaits == Spec => []SyncWaitsForInvocation
<1>1. WaitInv => SyncWaitsForInvocation
  BY DEF WaitInv, Waits, Owes, SyncWaitsForInvocation
<1> QED BY <1>1, WaitsAlways, PTL

-----------------------------------------------------------------------------
(* Waking and draining.  A thread that has taken something is marked busy, *)
(* and sleeps on no list that is not empty and no drain without a token.   *)
BusyInv == \A q \in Queues : qcur[q] # NULL => "BUSY" \in qflags[q]

WakeInv == BusyInv /\ NoLostWakeup

LEMMA SectionWake ==
  ASSUME WakeInv, LockedSection
  PROVE  WakeInv'
<1>1. UNCHANGED queueVars /\ Told(Locked, Locked')
  BY DEF LockedSection
<1>2. \A q \in Queues : \/ notifyq'[q] = 1
                        \/ notifyq'[q] = notifyq[q] /\ (pending[q] = <<>> => pending'[q] = <<>>)
  BY <1>1 DEF Told, Locked
<1> QED BY <1>1, <1>2 DEF WakeInv, BusyInv, NoLostWakeup, queueVars

(* A step that tells the queues it asks to drain, and lets no thread sleep *)
(* unless it found nothing, keeps the threads awake.                       *)
LEMMA WakeKept ==
  ASSUME WakeInv, UNCHANGED <<pending, qcur>>,
         \A q \in Queues : /\ qcur[q] # NULL /\ "BUSY" \in qflags[q] => "BUSY" \in qflags'[q]
                           /\ \/ notifyq'[q] = 1
                              \/ qpc'[q] # "sleep"
                              \/ pending[q] = <<>> /\ "DRAIN" \notin qflags'[q]
                              \/ /\ notifyq'[q] = notifyq[q] /\ qpc'[q] = qpc[q]
                                 /\ "DRAIN" \in qflags'[q] => "DRAIN" \in qflags[q]
  PROVE  WakeInv'
BY DEF WakeInv, BusyInv, NoLostWakeup

LEMMA QueueCallWake ==
  ASSUME IInv, WakeInv, NEW t \in Clients \cup Queues, QueueCall(t)
  PROVE  WakeInv'
<1>0. notifyq \in [Queues -> {0, 1}] /\ QueueTypeOK
  BY DEF IInv, Consistent, Locked, LockedStates
<1>1. ASSUME NEW q \in Queues, bt_work_queue_start(t, q) PROVE WakeInv'
  <2>1. pending' = pending /\ qcur' = qcur /\ qcur[q] = NULL
    BY <1>1, ThreadFacts DEF IInv, Consistent, Locked, LockedStates, bt_work_queue_start
  <2>2. \A p \in Queues : /\ p # q => /\ qflags'[p] = qflags[p] /\ qpc'[p] = qpc[p]
                                      /\ notifyq'[p] = notifyq[p]
                          /\ p = q => qpc'[p] = "loop"
    BY <1>0, <1>1 DEF QueueTypeOK, bt_work_queue_start
  <2> QED BY <2>1, <2>2, WakeKept
<1>2. ASSUME NEW q \in Queues, NEW plug \in BOOLEAN, bt_work_queue_drain(t, q, plug) PROVE WakeInv'
  <2>1. \A p \in Queues : /\ p # q => qflags'[p] = qflags[p] /\ notifyq'[p] = notifyq[p]
                          /\ p = q => qflags[p] \subseteq qflags'[p] /\ notifyq'[p] = 1
    BY <1>0, <1>2 DEF QueueTypeOK, bt_work_queue_drain, notify_queue_locked
  <2>2. UNCHANGED <<pending, qcur, qpc>>
    BY <1>2 DEF bt_work_queue_drain
  <2> QED BY <2>1, <2>2, WakeKept
<1>3. ASSUME NEW q \in Queues, bt_work_queue_unplug(t, q) PROVE WakeInv'
  <2>1. \A p \in Queues : "BUSY" \in qflags'[p] <=> "BUSY" \in qflags[p]
    BY <1>0, <1>3 DEF QueueTypeOK, bt_work_queue_unplug
  <2>2. \A p \in Queues : "DRAIN" \in qflags'[p] <=> "DRAIN" \in qflags[p]
    BY <1>0, <1>3 DEF QueueTypeOK, bt_work_queue_unplug
  <2>3. UNCHANGED <<pending, qcur, qpc, notifyq>>
    BY <1>3 DEF bt_work_queue_unplug, wqVars
  <2> QED BY <2>1, <2>2, <2>3, WakeKept
<1>4. ASSUME NEW q \in Queues, NEW nowait \in BOOLEAN, bt_work_queue_stop(t, q, nowait)
      PROVE  WakeInv'
  <2>1. \A p \in Queues : /\ p # q => qflags'[p] = qflags[p] /\ notifyq'[p] = notifyq[p]
                          /\ p = q => qflags[p] \subseteq qflags'[p] /\ notifyq'[p] = 1
    BY <1>0, <1>4 DEF QueueTypeOK, bt_work_queue_stop, notify_queue_locked
  <2>2. UNCHANGED <<pending, qcur, qpc>>
    BY <1>4 DEF bt_work_queue_stop
  <2> QED BY <2>1, <2>2, WakeKept
<1> QED BY <1>1, <1>2, <1>3, <1>4 DEF QueueCall

LEMMA ReturnWake ==
  ASSUME IInv, WakeInv, NEW c \in Clients, CallReturns(c)
  PROVE  WakeInv'
<1>1. UNCHANGED <<pending, qcur, qpc, notifyq>>
  BY DEF CallReturns, ReturnFromSync, ReturnFromDrain, ReturnFromJoin, StopTimedOut, wqVars, queueVars
<1>2. \A p \in Queues : /\ "BUSY" \in qflags'[p] <=> "BUSY" \in qflags[p]
                        /\ "DRAIN" \in qflags'[p] <=> "DRAIN" \in qflags[p]
  BY DEF CallReturns, ReturnFromSync, ReturnFromDrain, ReturnFromJoin, StopTimedOut, queueVars,
         IInv, QueueTypeOK
<1> QED BY <1>1, <1>2, WakeKept

LEMMA MainWake ==
  ASSUME IInv, WakeInv, NEW q \in Queues, work_queue_main(q)
  PROVE  WakeInv'
<1>0. notifyq \in [Queues -> {0, 1}] /\ pending \in [Queues -> Seq(Item)] /\ QueueTypeOK
  BY DEF IInv, Consistent, Locked, LockedStates
<1>1. CASE TakeItem(q)
  <2>1. \A p \in Queues :
          /\ p # q => pending'[p] = pending[p] /\ qcur'[p] = qcur[p] /\ qpc'[p] = qpc[p]
                      /\ qflags'[p] = qflags[p]
          /\ p = q => qpc'[p] = "handler" /\ "BUSY" \in qflags'[p]
    BY <1>0, <1>1 DEF QueueTypeOK, TakeItem
  <2>2. notifyq' = notifyq
    BY <1>1 DEF TakeItem
  <2> QED BY <2>1, <2>2 DEF WakeInv, BusyInv, NoLostWakeup
<1>2. CASE FinishItem(q)
  <2>1. \A p \in Queues :
          /\ p # q => qcur'[p] = qcur[p] /\ qpc'[p] = qpc[p] /\ qflags'[p] = qflags[p]
          /\ p = q => qpc'[p] = "loop" /\ qcur'[p] = NULL
    BY <1>0, <1>2 DEF QueueTypeOK, FinishItem
  <2>2. notifyq' = notifyq /\ pending' = pending
    BY <1>2 DEF FinishItem
  <2> QED BY <2>1, <2>2 DEF WakeInv, BusyInv, NoLostWakeup
<1>3. CASE Drained(q) \/ Stopped(q) \/ Sleep(q)
  <2>1. UNCHANGED <<pending, qcur, notifyq>> /\ pending[q] = <<>> /\ qcur[q] = NULL
    BY <1>3, ThreadFacts DEF Drained, Stopped, Sleep, Idle, wqVars
  <2>2. \A p \in Queues : p # q => qpc'[p] = qpc[p] /\ qflags'[p] = qflags[p]
    BY <1>0, <1>3 DEF QueueTypeOK, Drained, Stopped, Sleep
  <2>3. "DRAIN" \notin qflags'[q]
    BY <1>0, <1>3 DEF QueueTypeOK, Drained, Stopped, Sleep
  <2> QED BY <2>1, <2>2, <2>3, WakeKept
<1>4. CASE Wake(q)
  <2>1. \A p \in Queues : /\ p # q => qpc'[p] = qpc[p] /\ notifyq'[p] = notifyq[p]
                          /\ p = q => qpc'[p] = "loop"
    BY <1>0, <1>4 DEF QueueTypeOK, Wake
  <2>2. UNCHANGED <<pending, qcur, qflags>>
    BY <1>4 DEF Wake
  <2> QED BY <2>1, <2>2, WakeKept
<1> QED BY <1>1, <1>2, <1>3, <1>4 DEF work_queue_main

LEMMA WakeAlways == Spec => []WakeInv
<1>1. Init => WakeInv
  BY DEF Init, WakeInv, BusyInv, NoLostWakeup
<1>2. IInv /\ WaitInv /\ WakeInv /\ [Next]_vars => WakeInv'
  <2> SUFFICES ASSUME IInv, WaitInv, WakeInv, [Next]_vars PROVE WakeInv'
    OBVIOUS
  <2>1. CASE UNCHANGED vars
    BY <2>1 DEF vars, wqVars, queueVars, WakeInv, BusyInv, NoLostWakeup
  <2>2. CASE Next
    BY <2>2, WorkCallSection, DelayableCallSection, TimerSection, SectionWake, QueueCallWake,
       ReturnWake, MainWake DEF Next
  <2> QED BY <2>1, <2>2
<1> QED BY <1>1, <1>2, Invariance, WaitsAlways, PTL DEF Spec

(* No queue thread, whoever submits, flushes or drains, sleeps on what     *)
(* arrived after it last looked.                                           *)
THEOREM WakesUp == Spec => []NoLostWakeup
<1>1. WakeInv => NoLostWakeup
  BY DEF WakeInv
<1> QED BY <1>1, WakeAlways, PTL

-----------------------------------------------------------------------------
(* One owner.  The queues are drained and stopped by one thread, as their  *)
(* one drainq semaphore and one STOP flag per queue require.               *)
LifeOps == {"drain", "plug", "stop", "stop_nowait"}

Owns(c) == \E x \in LifeOps : <<c, x>> \in Calls

OneOwner == \A t, u \in Clients : Owns(t) /\ Owns(u) => t = u

Drains(c, q) == pc[c] = "drain" /\ arg[c] = q
Stops(c, q)  == pc[c] \in {"join", "unstop"} /\ arg[c] = q

(* A token in drainq, a DRAIN flag and a STOP flag each have their caller  *)
(* waiting, and when the token is there nothing is left to wait for.       *)
OwnersOnly == \A c \in Clients : pc[c] \in {"drain", "join", "unstop"} => Owns(c)

QueueOwned(q) ==
  /\ drainq[q] = 1 => /\ "DRAIN" \notin qflags[q]
                      /\ \E c \in Clients : Drains(c, q)
                      /\ \A c \in Clients : Drains(c, q) => owedQueued[c] = {} /\ owedRunning[c] = {}
  /\ "DRAIN" \in qflags[q] => \E c \in Clients : Drains(c, q)
  /\ "STOP" \in qflags[q] => "STARTED" \in qflags[q] /\ \E c \in Clients : Stops(c, q)
  /\ qpc[q] = "sleep" /\ "STOP" \in qflags[q] => notifyq[q] = 1

OwnerInv == OwnersOnly /\ \A q \in Queues : QueueOwned(q)

(* While the owner is elsewhere no queue drains or stops.                  *)
LEMMA OwnerElsewhere ==
  ASSUME OneOwner, OwnerInv, NEW c \in Clients, Owns(c), NEW q \in Queues
  PROVE  /\ ~Drains(c, q) => drainq[q] # 1 /\ "DRAIN" \notin qflags[q]
         /\ ~Stops(c, q) => "STOP" \notin qflags[q]
<1>1. \A d \in Clients : Drains(d, q) \/ Stops(d, q) => d = c
  BY DEF OneOwner, OwnerInv, OwnersOnly, Drains, Stops
<1> QED BY <1>1 DEF OwnerInv, QueueOwned

LEMMA SectionOwner ==
  ASSUME OwnerInv, LockedSection
  PROVE  OwnerInv'
<1>1. UNCHANGED <<qflags, drainq, qpc>>
  BY DEF LockedSection, queueVars
<1>2. \A c \in Clients :
        pc[c] \in {"drain", "join", "unstop"} \/ pc'[c] \in {"drain", "join", "unstop"} =>
          /\ pc'[c] = pc[c] /\ arg'[c] = arg[c]
          /\ owedQueued[c] = {} => owedQueued'[c] = {}
          /\ owedRunning'[c] = owedRunning[c]
  BY DEF LockedSection
<1>3. OwnersOnly'
  BY <1>2 DEF OwnerInv, OwnersOnly, Owns
<1>4. ASSUME NEW q \in Queues PROVE QueueOwned(q)'
  <2>1. \A c \in Clients : /\ Drains(c, q)' <=> Drains(c, q)
                           /\ Stops(c, q)' <=> Stops(c, q)
    BY <1>2 DEF Drains, Stops
  <2>2. \A c \in Clients : Drains(c, q) /\ owedQueued[c] = {} /\ owedRunning[c] = {}
                             => owedQueued'[c] = {} /\ owedRunning'[c] = {}
    BY <1>2 DEF Drains
  <2>3. notifyq'[q] = 1 \/ notifyq'[q] = notifyq[q]
    BY DEF LockedSection, Told, Locked
  <2> QED BY <1>1, <2>1, <2>2, <2>3 DEF OwnerInv, QueueOwned
<1> QED BY <1>3, <1>4 DEF OwnerInv

(* A step of a queue thread that changes nobody's wait but shortens it.    *)
LEMMA ThreadOwner ==
  ASSUME OwnerInv, UNCHANGED <<pc, arg>>, NEW q \in Queues,
         \A c \in Clients : owedQueued[c] = {} /\ owedRunning[c] = {}
                              => owedQueued'[c] = {} /\ owedRunning'[c] = {},
         \A p \in Queues : p # q => /\ qflags'[p] = qflags[p] /\ drainq'[p] = drainq[p]
                                    /\ qpc'[p] = qpc[p] /\ notifyq'[p] = notifyq[p],
         QueueOwned(q)'
  PROVE  OwnerInv'
<1>1. \A c \in Clients, p \in Queues : /\ Drains(c, p)' <=> Drains(c, p)
                                       /\ Stops(c, p)' <=> Stops(c, p)
  BY DEF Drains, Stops
<1>2. ASSUME NEW p \in Queues, p # q PROVE QueueOwned(p)'
  BY <1>1, <1>2 DEF OwnerInv, QueueOwned
<1> QED BY <1>2 DEF OwnerInv, OwnersOnly, Owns

LEMMA MainOwner ==
  ASSUME OneOwner, IInv, WaitInv, OwnerInv, NEW q \in Queues, work_queue_main(q)
  PROVE  OwnerInv'
<1>0. /\ notifyq \in [Queues -> {0, 1}] /\ pending \in [Queues -> Seq(Item)] /\ QueueTypeOK
      /\ QueueOwned(q)
  BY DEF IInv, Consistent, Locked, LockedStates, OwnerInv
<1>1. CASE TakeItem(q) \/ FinishItem(q)
  <2>1. UNCHANGED <<pc, arg, drainq, notifyq>>
    BY <1>1 DEF TakeItem, FinishItem, syncVars
  <2>2. \A c \in Clients : owedQueued[c] = {} /\ owedRunning[c] = {}
                             => owedQueued'[c] = {} /\ owedRunning'[c] = {}
    BY <1>1 DEF TakeItem, FinishItem
  <2>3. \A p \in Queues : /\ p # q => qflags'[p] = qflags[p] /\ qpc'[p] = qpc[p]
                          /\ p = q => /\ qflags'[p] \ {"BUSY"} = qflags[p] \ {"BUSY"}
                                      /\ qpc'[p] # "sleep"
    BY <1>0, <1>1 DEF TakeItem, FinishItem, QueueTypeOK
  <2>4. /\ "DRAIN" \in qflags'[q] <=> "DRAIN" \in qflags[q]
        /\ "STOP" \in qflags'[q] <=> "STOP" \in qflags[q]
        /\ "STARTED" \in qflags'[q] <=> "STARTED" \in qflags[q]
    BY <2>3
  <2>5. \A c \in Clients : /\ Drains(c, q)' <=> Drains(c, q)
                           /\ Stops(c, q)' <=> Stops(c, q)
    BY <2>1 DEF Drains, Stops
  <2>6. QueueOwned(q)'
    BY <1>0, <2>1, <2>2, <2>3, <2>4, <2>5 DEF QueueOwned
  <2> QED BY <2>1, <2>2, <2>3, <2>6, ThreadOwner
<1>2. CASE Drained(q) \/ Stopped(q) \/ Sleep(q) \/ Wake(q)
  <2>1. UNCHANGED <<pc, arg, owedQueued, owedRunning>>
    BY <1>2 DEF Drained, Stopped, Sleep, Wake, syncVars, owedVars
  <2>2. \A p \in Queues : p # q => /\ qflags'[p] = qflags[p] /\ drainq'[p] = drainq[p]
                                   /\ qpc'[p] = qpc[p] /\ notifyq'[p] = notifyq[p]
    BY <1>0, <1>2 DEF Drained, Stopped, Sleep, Wake, wqVars, QueueTypeOK
  <2>3. \A c \in Clients : /\ Drains(c, q)' <=> Drains(c, q)
                           /\ Stops(c, q)' <=> Stops(c, q)
    BY <2>1 DEF Drains, Stops
  <2>4. CASE Drained(q)
    <3>1. /\ qflags'[q] = qflags[q] \ {"DRAIN"} /\ "DRAIN" \in qflags[q]
          /\ pending[q] = <<>> /\ qcur[q] = NULL
      BY <1>0, <2>4, ThreadFacts DEF Drained, Idle, QueueTypeOK
    <3>2. PICK c \in Clients : Drains(c, q)
      BY <1>0, <3>1 DEF QueueOwned
    <3>3. "STOP" \notin qflags[q]
      <4>1. Owns(c) /\ ~Stops(c, q)
        BY <3>2 DEF OwnerInv, OwnersOnly, Drains, Stops
      <4> QED BY <4>1, OwnerElsewhere
    <3>4. ASSUME NEW d \in Clients, Drains(d, q) PROVE owedQueued[d] = {} /\ owedRunning[d] = {}
      <4>1. /\ owedRunning[d] \subseteq {NULL} /\ owedRunning[d] \subseteq Works
            /\ \A w \in owedQueued[d] : Has(<<>>, w)
        BY <3>1, <3>4 DEF Drains, WaitInv, Waits, Owes
      <4>2. NULL \notin Works /\ \A x : ~Has(<<>>, x)
        BY ConstantsAssumption DEF Has
      <4> QED BY <4>1, <4>2
    <3>5. QueueOwned(q)'
      BY <2>1, <2>3, <3>1, <3>2, <3>3, <3>4 DEF QueueOwned
    <3> QED BY <2>1, <2>2, <3>5, ThreadOwner
  <2>5. CASE Stopped(q)
    <3>1. qflags'[q] = {} /\ drainq' = drainq
      BY <1>0, <2>5 DEF Stopped, QueueTypeOK
    <3>2. QueueOwned(q)'
      BY <1>0, <2>1, <2>3, <3>1 DEF QueueOwned
    <3> QED BY <2>1, <2>2, <3>2, ThreadOwner
  <2>6. CASE Sleep(q) \/ Wake(q)
    <3>1. /\ qflags' = qflags /\ drainq' = drainq
          /\ "STOP" \in qflags[q] => qpc'[q] # "sleep"
      BY <1>0, <2>6 DEF Sleep, Wake, QueueTypeOK
    <3>2. QueueOwned(q)'
      BY <1>0, <2>1, <2>3, <3>1 DEF QueueOwned
    <3> QED BY <2>1, <2>2, <3>2, ThreadOwner
  <2> QED BY <1>2, <2>4, <2>5, <2>6
<1> QED BY <1>1, <1>2 DEF work_queue_main

LEMMA QueueCallOwner ==
  ASSUME OneOwner, IInv, OwnerInv, NEW t \in Clients \cup Queues, QueueCall(t)
  PROVE  OwnerInv'
<1>0. notifyq \in [Queues -> {0, 1}] /\ QueueTypeOK /\ SyncTypeOK
  BY DEF IInv, Consistent, Locked, LockedStates
<1>1. ASSUME NEW q \in Queues, bt_work_queue_start(t, q) PROVE OwnerInv'
  <2>1. UNCHANGED <<pc, arg, owedQueued, owedRunning>>
    BY <1>1 DEF bt_work_queue_start, syncVars, owedVars
  <2>2. \A p \in Queues : /\ p # q => /\ qflags'[p] = qflags[p] /\ drainq'[p] = drainq[p]
                                      /\ qpc'[p] = qpc[p] /\ notifyq'[p] = notifyq[p]
                          /\ p = q => qflags'[p] = {"STARTED"} /\ drainq'[p] = 0
    BY <1>0, <1>1 DEF bt_work_queue_start, QueueTypeOK
  <2>3. QueueOwned(q)'
    BY <2>2 DEF QueueOwned
  <2> QED BY <2>1, <2>2, <2>3, ThreadOwner
<1>2. ASSUME NEW q \in Queues, NEW plug \in BOOLEAN, bt_work_queue_drain(t, q, plug) PROVE OwnerInv'
  <2>1. t \in Clients /\ pc[t] = "idle" /\ Owns(t)
    BY <1>2, ConstantsAssumption DEF bt_work_queue_drain, MayBlock, MayCall, Owns, LifeOps
  <2>2. \A p \in Queues : drainq[p] # 1 /\ "DRAIN" \notin qflags[p] /\ "STOP" \notin qflags[p]
    BY <2>1, OwnerElsewhere DEF Drains, Stops
  <2>3. /\ \A d \in Clients : d # t => pc'[d] = pc[d]
        /\ pc'[t] = "drain" /\ arg'[t] = q /\ drainq' = drainq
    BY <1>0, <1>2, <2>1 DEF bt_work_queue_drain, Wait, SyncTypeOK
  <2>4. \A p \in Queues : /\ p # q => qflags'[p] = qflags[p]
                          /\ "STOP" \notin qflags'[p]
    BY <1>0, <1>2, <2>2 DEF bt_work_queue_drain, QueueTypeOK, DrainFlags, If
  <2>5. ASSUME NEW p \in Queues PROVE QueueOwned(p)'
    <3>1. Drains(t, q)'
      BY <2>3 DEF Drains
    <3> QED BY <2>1, <2>2, <2>3, <2>4, <3>1 DEF QueueOwned
  <2>6. OwnersOnly'
    BY <2>1, <2>3 DEF OwnerInv, OwnersOnly, Owns
  <2> QED BY <2>5, <2>6 DEF OwnerInv
<1>3. ASSUME NEW q \in Queues, bt_work_queue_unplug(t, q) PROVE OwnerInv'
  <2>1. UNCHANGED <<pc, arg, owedQueued, owedRunning, drainq, qpc, notifyq>>
    BY <1>3 DEF bt_work_queue_unplug, syncVars, owedVars, wqVars
  <2>2. \A p \in Queues : p # q => qflags'[p] = qflags[p]
    BY <1>0, <1>3 DEF bt_work_queue_unplug, QueueTypeOK
  <2>3. qflags'[q] = qflags[q] \ {"PLUGGED"}
    BY <1>0, <1>3 DEF bt_work_queue_unplug, QueueTypeOK
  <2>4. \A c \in Clients : /\ Drains(c, q)' <=> Drains(c, q)
                           /\ Stops(c, q)' <=> Stops(c, q)
    BY <2>1 DEF Drains, Stops
  <2>5. QueueOwned(q)'
    BY <2>1, <2>3, <2>4 DEF OwnerInv, QueueOwned
  <2> QED BY <2>1, <2>2, <2>5, ThreadOwner
<1>4. ASSUME NEW q \in Queues, NEW nowait \in BOOLEAN, bt_work_queue_stop(t, q, nowait)
      PROVE  OwnerInv'
  <2>1. t \in Clients /\ pc[t] = "idle" /\ Owns(t)
    BY <1>4, ConstantsAssumption DEF bt_work_queue_stop, MayBlock, MayCall, Owns, LifeOps
  <2>2. \A p \in Queues : drainq[p] # 1 /\ "DRAIN" \notin qflags[p] /\ "STOP" \notin qflags[p]
    BY <2>1, OwnerElsewhere DEF Drains, Stops
  <2>3. /\ \A d \in Clients : d # t => pc'[d] = pc[d]
        /\ pc'[t] \in {"join", "unstop"} /\ arg'[t] = q /\ drainq' = drainq
    BY <1>0, <1>4, <2>1 DEF bt_work_queue_stop, Wait, SyncTypeOK
  <2>4. \A p \in Queues : /\ p # q => qflags'[p] = qflags[p]
                          /\ p = q => "STARTED" \in qflags'[p] /\ notifyq'[p] = 1
                          /\ "DRAIN" \notin qflags'[p]
    BY <1>0, <1>4, <2>2 DEF bt_work_queue_stop, QueueTypeOK, notify_queue_locked
  <2>5. ASSUME NEW p \in Queues PROVE QueueOwned(p)'
    <3>1. Stops(t, q)'
      BY <2>3 DEF Stops
    <3> QED BY <2>1, <2>2, <2>3, <2>4, <3>1 DEF QueueOwned
  <2>6. OwnersOnly'
    BY <2>1, <2>3 DEF OwnerInv, OwnersOnly, Owns
  <2> QED BY <2>5, <2>6 DEF OwnerInv
<1> QED BY <1>1, <1>2, <1>3, <1>4 DEF QueueCall

LEMMA ReturnOwner ==
  ASSUME OneOwner, IInv, OwnerInv, NEW c \in Clients, CallReturns(c)
  PROVE  OwnerInv'
<1>0. QueueTypeOK /\ SyncTypeOK
  BY DEF IInv
<1>1. /\ \A d \in Clients : d # c => /\ pc'[d] = pc[d] /\ arg'[d] = arg[d]
                                     /\ owedQueued'[d] = owedQueued[d]
                                     /\ owedRunning'[d] = owedRunning[d]
      /\ pc'[c] = "idle" /\ UNCHANGED <<qpc, notifyq>>
  <2>1. Return(c) /\ UNCHANGED <<qpc, notifyq>>
    BY DEF CallReturns, ReturnFromSync, ReturnFromDrain, ReturnFromJoin, StopTimedOut, queueVars, wqVars
  <2> QED BY <2>1, ReturnPoints
<1>2. OwnersOnly'
  BY <1>1 DEF OwnerInv, OwnersOnly, Owns
<1>3. CASE ReturnFromSync(c)
  <2>1. pc[c] \in {"flush", "cancel"} /\ UNCHANGED <<qflags, drainq>>
    BY <1>3 DEF ReturnFromSync, queueVars
  <2>2. ASSUME NEW q \in Queues PROVE QueueOwned(q)'
    <3>1. \A d \in Clients : /\ Drains(d, q)' <=> Drains(d, q)
                             /\ Stops(d, q)' <=> Stops(d, q)
                             /\ Drains(d, q) => owedQueued'[d] = owedQueued[d]
                                                /\ owedRunning'[d] = owedRunning[d]
      BY <1>1, <2>1 DEF Drains, Stops
    <3> QED BY <1>1, <2>1, <3>1 DEF OwnerInv, QueueOwned
  <2> QED BY <1>2, <2>2 DEF OwnerInv
<1>4. CASE ReturnFromDrain(c) \/ ReturnFromJoin(c) \/ StopTimedOut(c)
  <2>1. pc[c] \in {"drain", "join", "unstop"} /\ Owns(c)
    BY <1>4 DEF ReturnFromDrain, ReturnFromJoin, StopTimedOut, OwnerInv, OwnersOnly
  <2>2. ASSUME NEW q \in Queues PROVE drainq'[q] # 1 /\ "DRAIN" \notin qflags'[q] /\ "STOP" \notin qflags'[q]
    <3>1. /\ ~Drains(c, q) => drainq[q] # 1 /\ "DRAIN" \notin qflags[q]
          /\ ~Stops(c, q) => "STOP" \notin qflags[q]
      BY <2>1, OwnerElsewhere
    <3>2. CASE ReturnFromDrain(c)
      BY <1>0, <3>1, <3>2 DEF ReturnFromDrain, Drains, Stops, QueueTypeOK, OwnerInv, QueueOwned
    <3>3. CASE ReturnFromJoin(c)
      <4>1. Stops(c, q) => "STARTED" \notin qflags[q]
        BY <3>3, ThreadFacts DEF ReturnFromJoin, Stops
      <4> QED BY <3>1, <3>3, <4>1 DEF ReturnFromJoin, Drains, queueVars, OwnerInv, QueueOwned
    <3>4. CASE StopTimedOut(c)
      BY <1>0, <3>1, <3>4 DEF StopTimedOut, Drains, Stops, QueueTypeOK
    <3> QED BY <1>4, <3>2, <3>3, <3>4
  <2>3. ASSUME NEW q \in Queues PROVE QueueOwned(q)'
    BY <2>2 DEF QueueOwned
  <2> QED BY <1>2, <2>3 DEF OwnerInv
<1> QED BY <1>3, <1>4 DEF CallReturns

LEMMA OwnerAlways ==
  ASSUME OneOwner
  PROVE  Spec => []OwnerInv
<1>1. Init => OwnerInv
  BY DEF Init, OwnerInv, OwnersOnly, QueueOwned
<1>2. IInv /\ WaitInv /\ OwnerInv /\ [Next]_vars => OwnerInv'
  <2> SUFFICES ASSUME IInv, WaitInv, OwnerInv, [Next]_vars PROVE OwnerInv'
    OBVIOUS
  <2>1. CASE UNCHANGED vars
    <3>1. /\ UNCHANGED <<qflags, drainq, qpc, notifyq, pc, arg, owedQueued, owedRunning>>
      BY <2>1 DEF vars, wqVars, queueVars, syncVars, owedVars
    <3> QED BY <3>1 DEF OwnerInv, OwnersOnly, QueueOwned, Drains, Stops, Owns
  <2>2. CASE Next
    BY <2>2, WorkCallSection, DelayableCallSection, TimerSection, SectionOwner, QueueCallOwner,
       ReturnOwner, MainOwner DEF Next
  <2> QED BY <2>1, <2>2
<1> QED BY <1>1, <1>2, Invariance, WaitsAlways, PTL DEF Spec

(* With one thread that drains and stops the queues, no queue thread ever  *)
(* sleeps on an item, a flusher, a drain or a request to stop it has not   *)
(* seen.                                                                   *)
THEOREM NothingStaysUnseen ==
  ASSUME OneOwner
  PROVE  Spec => []NothingUnseen
<1>1. OwnerInv => NoLostStop
  BY DEF OwnerInv, QueueOwned, NoLostStop
<1>2. NoLostWakeup /\ NoLostStop => NothingUnseen
  BY DEF NothingUnseen
<1> QED BY <1>1, <1>2, OwnerAlways, WakesUp, PTL

(* With one such thread, a drain that waits returns when everything it saw *)
(* pending or running is done; one that does not wait found nothing; and a *)
(* thread that exits leaves nothing on its queue.                          *)
THEOREM DrainKeepsItsWord ==
  ASSUME OneOwner
  PROVE  Spec => []DrainExact
<1>1. OwnerInv /\ WaitInv => DrainWaitsForAll
  BY DEF OwnerInv, QueueOwned, Drains, WaitInv, Waits, Owes, DrainWaitsForAll
<1>2. WakeInv => DrainSkipsOnlyIdle
  BY DEF WakeInv, BusyInv, DrainSkipsOnlyIdle, drain_needed
<1>3. IInv => StopLosesNothing
  <2> SUFFICES ASSUME IInv, NEW q \in Queues, qpc[q] = "off"
               PROVE  /\ pending[q] = <<>>
                      /\ \A w \in Works : workQueue[w] = q => flags[w] \cap {"QUEUED", "RUNNING"} = {}
    BY DEF StopLosesNothing
  <2>1. pending[q] = <<>> /\ qcur[q] = NULL
    BY ThreadFacts
  <2>2. ASSUME NEW w \in Works, workQueue[w] = q PROVE "QUEUED" \notin flags[w] /\ "RUNNING" \notin flags[w]
    <3>1. ~Has(<<>>, w) /\ w # NULL
      BY ConstantsAssumption DEF Has
    <3>2. /\ Has(pending[q], w) <=> "QUEUED" \in flags[w]
          /\ qcur[q] = w <=> "RUNNING" \in flags[w]
      BY <2>2 DEF IInv, Consistent, Locked, ListedIsQueued, TakenIsRunning
    <3> QED BY <2>1, <3>1, <3>2
  <2> QED BY <2>1, <2>2
<1>4. DrainWaitsForAll /\ DrainSkipsOnlyIdle /\ StopLosesNothing => DrainExact
  BY DEF DrainExact
<1> QED BY <1>1, <1>2, <1>3, <1>4, OwnerAlways, WaitsAlways, WakeAlways, Invariance, PTL

-----------------------------------------------------------------------------
(* Cancelling.  Where nobody reschedules, an item being cancelled is       *)
(* running and nothing else; and only a delayable item is delayed.         *)
Quiet(f) ==
  \A w \in Works : /\ "CANCELING" \in f[w] => f[w] = {"CANCELING", "RUNNING"}
                   /\ "DELAYED" \in f[w] => w \in Delayables

NeverRescheduled == \A t \in Clients \cup Queues : <<t, "reschedule">> \notin Calls

(* The locked operations change the flags of one item.                     *)
LEMMA OneItemQuiet ==
  ASSUME NEW f \in [Works -> SUBSET WorkFlag], Quiet(f), NEW w \in Works, NEW g,
         "CANCELING" \in g => g = {"CANCELING", "RUNNING"},
         "DELAYED" \in g => w \in Delayables
  PROVE  Quiet([f EXCEPT ![w] = g])
BY DEF Quiet

LEMMA FlagsQuiet ==
  ASSUME NEW s \in LockedStates, Quiet(s.flags), NEW w \in Works, NEW g,
         "CANCELING" \in g => g = {"CANCELING", "RUNNING"},
         "DELAYED" \in g => w \in Delayables
  PROVE  Quiet(WithFlags(s, w, g).flags)
<1>1. s.flags \in [Works -> SUBSET WorkFlag] /\ WithFlags(s, w, g).flags = [s.flags EXCEPT ![w] = g]
  BY DEF LockedStates, WithFlags
<1> QED BY <1>1, OneItemQuiet

LEMMA SubmitQuiet ==
  ASSUME NEW s \in LockedStates, Quiet(s.flags), NEW w \in Works, NEW q, NEW caller
  PROVE  Quiet(submit_to_queue_locked(s, w, q, caller).flags)
<1> DEFINE r == submit_to_queue_locked(s, w, q, caller)
<1>1. r = s \/ (submittable(s, w) /\ r.flags = [s.flags EXCEPT ![w] = @ \cup {"QUEUED"}])
  BY DEF submit_to_queue_locked
<1> HIDE DEF r
<1>2. CASE submittable(s, w) /\ r.flags = [s.flags EXCEPT ![w] = @ \cup {"QUEUED"}]
  <2> DEFINE g == s.flags[w] \cup {"QUEUED"}
  <2>1. /\ "CANCELING" \notin g /\ ("DELAYED" \in g => w \in Delayables)
        /\ s.flags \in [Works -> SUBSET WorkFlag] /\ r.flags = [s.flags EXCEPT ![w] = g]
    BY <1>2 DEF submittable, Quiet, LockedStates
  <2> HIDE DEF g
  <2>2. Quiet(r.flags)
    BY <2>1, OneItemQuiet
  <2> QED BY <2>2 DEF r
<1> QED BY <1>1, <1>2 DEF r

LEMMA CancelQuiet ==
  ASSUME NEW s \in LockedStates, Quiet(s.flags), NEW w \in Works, "DELAYED" \notin s.flags[w]
  PROVE  Quiet(cancel_async_locked(s, w).flags)
<1>0. s.flags \in [Works -> SUBSET WorkFlag]
  BY DEF LockedStates
<1> DEFINE g == IF "CANCELING" \in s.flags[w] THEN s.flags[w] ELSE s.flags[w] \ {"QUEUED"}
           h == IF g = {} THEN g ELSE g \cup {"CANCELING"}
           t == cancel_async_locked(s, w)
<1>1. t.flags = [s.flags EXCEPT ![w] = h]
  <2> DEFINE r == IF "CANCELING" \in s.flags[w] THEN s ELSE queue_remove_locked(s, w)
  <2>1. r.flags = [s.flags EXCEPT ![w] = g] /\ r \in [flags : {r.flags}, queue : {r.queue},
                                                    pending : {r.pending}, notifyq : {r.notifyq}]
    <3>1. CASE "CANCELING" \in s.flags[w]
      BY <1>0, <3>1 DEF LockedStates
    <3>2. CASE "CANCELING" \notin s.flags[w] /\ "QUEUED" \in s.flags[w]
      BY <1>0, <3>2 DEF LockedStates, queue_remove_locked, WithFlags
    <3>3. CASE "CANCELING" \notin s.flags[w] /\ "QUEUED" \notin s.flags[w]
      <4>1. r = s /\ g = s.flags[w]
        BY <3>3 DEF queue_remove_locked
      <4> QED BY <1>0, <4>1 DEF LockedStates
    <3> QED BY <3>1, <3>2, <3>3
  <2>2. t = IF r.flags[w] = {} THEN r ELSE WithFlags(r, w, r.flags[w] \cup {"CANCELING"})
    BY DEF cancel_async_locked
  <2> HIDE DEF r, g
  <2>3. r.flags[w] = g
    BY <1>0, <2>1
  <2>4. CASE g = {}
    BY <2>1, <2>2, <2>3, <2>4
  <2>5. CASE g # {}
    <3>1. t = WithFlags(r, w, g \cup {"CANCELING"}) /\ h = g \cup {"CANCELING"}
      BY <2>2, <2>3, <2>5
    <3> HIDE DEF t, h
    <3>2. t.flags = [r.flags EXCEPT ![w] = h]
      BY <2>1, <3>1 DEF WithFlags
    <3> QED BY <1>0, <2>1, <3>2
  <2> QED BY <2>4, <2>5
<1>2. "CANCELING" \in h => h = {"CANCELING", "RUNNING"}
  <2>1. CASE "CANCELING" \in s.flags[w]
    BY <2>1 DEF Quiet
  <2>2. CASE "CANCELING" \notin s.flags[w]
    <3>1. g \subseteq {"RUNNING"}
      BY <1>0, <2>2 DEF WorkFlag
    <3> QED BY <3>1
  <2> QED BY <2>1, <2>2
<1>3. "DELAYED" \notin h
  OBVIOUS
<1> HIDE DEF h, t
<1>4. Quiet(t.flags)
  BY <1>0, <1>1, <1>2, <1>3, OneItemQuiet
<1> QED BY <1>4 DEF t

LEMMA UnscheduleQuiet ==
  ASSUME NEW s \in LockedStates, Quiet(s.flags), NEW d \in Works
  PROVE  /\ Quiet(unscheduled(s, d).flags) /\ "DELAYED" \notin unscheduled(s, d).flags[d]
<1>1. unscheduled(s, d).flags[d] = s.flags[d] \ {"DELAYED"}
  BY DEF unscheduled, WithFlags, LockedStates
<1>2. LET g == s.flags[d] \ {"DELAYED"}
      IN  "CANCELING" \in g => g = {"CANCELING", "RUNNING"}
  BY DEF Quiet
<1>3. Quiet(unscheduled(s, d).flags)
  BY <1>2, FlagsQuiet DEF unscheduled
<1> QED BY <1>1, <1>3

LEMMA QuietStep ==
  ASSUME NeverRescheduled, IInv, Quiet(flags), [Next]_vars
  PROVE  Quiet(flags')
<1>0. /\ Locked \in LockedStates /\ Locked.flags = flags /\ Delayables \subseteq Works
      /\ flags \in [Works -> SUBSET WorkFlag]
  BY ConstantsAssumption DEF IInv, Consistent, Locked, LockedStates
<1>1. ASSUME NEW d \in Delayables
      PROVE  /\ unscheduled(Locked, d) \in LockedStates
             /\ Quiet(unscheduled(Locked, d).flags) /\ "DELAYED" \notin unscheduled(Locked, d).flags[d]
  BY <1>0, UnscheduleQuiet, UnscheduleConsistent DEF IInv, Consistent
<1>2. ASSUME NEW t \in Clients \cup Queues, WorkCall(t) PROVE Quiet(flags')
  <2>1. ASSUME NEW w \in Works, NEW q \in Queues \cup {NULL}, bt_work_submit_to_queue(t, w, q)
        PROVE  Quiet(flags')
    BY <1>0, <2>1, SubmitQuiet DEF bt_work_submit_to_queue, Unlock
  <2>2. ASSUME NEW w \in Works, bt_work_flush(t, w) PROVE Quiet(flags')
    <3>1. work_flush_locked(Locked, w, t).flags = flags
      BY <1>0 DEF work_flush_locked, LockedStates
    <3> QED BY <2>2, <3>1 DEF bt_work_flush, WaitForFlusher, Unlock
  <2>3. ASSUME NEW w \in Works, w \notin Delayables, bt_work_cancel(t, w) \/ bt_work_cancel_sync(t, w)
        PROVE  Quiet(flags')
    <3>1. flags' = flags \/ flags' = cancel_async_locked(Locked, w).flags
      BY <2>3 DEF bt_work_cancel, bt_work_cancel_sync, Cancel, CancelAndWait, Unlock, wqVars
    <3>2. "DELAYED" \notin flags[w]
      BY <2>3 DEF Quiet
    <3> QED BY <1>0, <3>1, <3>2, CancelQuiet
  <2> QED BY <1>2, <2>1, <2>2, <2>3 DEF WorkCall
<1>3. ASSUME NEW t \in Clients \cup Queues, DelayableCall(t) PROVE Quiet(flags')
  <2>1. ASSUME NEW d \in Delayables, NEW q \in Queues, NEW now \in BOOLEAN,
               bt_work_schedule_for_queue(t, d, q, now)
        PROVE  Quiet(flags')
    <3>1. flags[d] \subseteq {"RUNNING"}
      BY <2>1 DEF bt_work_schedule_for_queue, schedulable
    <3>2. \/ flags' = submit_to_queue_locked(Locked, d, q, t).flags
          \/ flags' = WithFlags(Locked, d, Locked.flags[d] \cup {"DELAYED"}).flags
      BY <2>1 DEF bt_work_schedule_for_queue, ScheduleNow, ScheduleLater, Unlock
    <3>3. Quiet(WithFlags(Locked, d, Locked.flags[d] \cup {"DELAYED"}).flags)
      BY <1>0, <3>1, FlagsQuiet
    <3> QED BY <1>0, <3>2, <3>3, SubmitQuiet
  <2>2. ASSUME NEW d \in Delayables, NEW q \in Queues, NEW now \in BOOLEAN,
               bt_work_reschedule_for_queue(t, d, q, now)
        PROVE  Quiet(flags')
    BY <2>2 DEF bt_work_reschedule_for_queue, MayCall, NeverRescheduled
  <2>3. ASSUME NEW d \in Delayables, bt_work_cancel_delayable(t, d) \/ bt_work_cancel_delayable_sync(t, d)
        PROVE  Quiet(flags')
    <3>1. flags' = flags \/ flags' = cancel_async_locked(unscheduled(Locked, d), d).flags
      BY <2>3 DEF bt_work_cancel_delayable, bt_work_cancel_delayable_sync, Cancel, CancelAndWait,
                  Unlock, wqVars
    <3> QED BY <1>0, <1>1, <3>1, CancelQuiet
  <2>4. ASSUME NEW d \in Delayables, bt_work_flush_delayable(t, d) PROVE Quiet(flags')
    <3> DEFINE u == unscheduled(Locked, d)
               s == IF "DELAYED" \in flags[d]
                    THEN submit_to_queue_locked(u, d, delayQueue[d], t)
                    ELSE u
    <3>1. flags' = work_flush_locked(s, d, t).flags /\ t \in Clients
      BY <2>4 DEF bt_work_flush_delayable, WaitForFlusher, Unlock, MayBlock
    <3>2. /\ Consistent(u, qcur, qflags) /\ Quiet(u.flags)
          /\ delayQueue[d] \in Queues \cup {NULL} /\ d \in Works
      BY <1>0, <1>1, UnscheduleConsistent DEF IInv, TimerTypeOK
    <3> HIDE DEF u
    <3>3. s \in LockedStates /\ Quiet(s.flags)
      BY <3>2, SubmitConsistent, SubmitQuiet DEF Consistent
    <3> HIDE DEF s
    <3>4. work_flush_locked(s, d, t).flags = s.flags
      BY <3>3 DEF work_flush_locked, LockedStates
    <3> QED BY <3>1, <3>3, <3>4
  <2> QED BY <1>3, <2>1, <2>2, <2>3, <2>4 DEF DelayableCall
<1>4. ASSUME NEW d \in Delayables, TimerExpires(d) \/ work_timeout(d) PROVE Quiet(flags')
  <2>1. \/ flags' = flags
        \/ flags' = submit_to_queue_locked(unscheduled(Locked, d), d, delayQueue[d], NULL).flags
    BY <1>4 DEF TimerExpires, work_timeout, SubmitDelayed, Unlock, wqVars
  <2> QED BY <1>0, <1>1, <2>1, SubmitQuiet
<1>5. ASSUME NEW q \in Queues, work_queue_main(q) PROVE Quiet(flags')
  <2>1. CASE TakeItem(q)
    <3> DEFINE item == Head(pending[q])
    <3>1. /\ flags' = [w \in Works |-> IF w = item THEN (flags[w] \cup {"RUNNING"}) \ {"QUEUED"}
                                       ELSE flags[w]]
          /\ pending[q] # <<>>
      BY <2>1 DEF TakeItem
    <3>2. item \in Works => "QUEUED" \in flags[item]
      <4>1. Len(pending[q]) \in Nat \ {0} /\ item = pending[q][1]
        BY <3>1, ThreadFacts, EmptySeq
      <4>2. Has(pending[q], item)
        BY <4>1 DEF Has
      <4> QED BY <4>2 DEF IInv, Consistent, Locked, ListedIsQueued
    <3> HIDE DEF item
    <3>3. item \in Works => "CANCELING" \notin flags[item]
      BY <3>2 DEF Quiet
    <3> QED BY <3>1, <3>3 DEF Quiet
  <2>2. CASE FinishItem(q)
    <3> DEFINE item == qcur[q]
    <3>1. flags' = [w \in Works |-> IF w = item THEN flags[w] \ {"RUNNING", "CANCELING"}
                                    ELSE flags[w]]
      BY <2>2 DEF FinishItem
    <3> HIDE DEF item
    <3> QED BY <3>1 DEF Quiet
  <2>3. CASE Drained(q) \/ Stopped(q) \/ Sleep(q) \/ Wake(q)
    BY <2>3 DEF Drained, Stopped, Sleep, Wake, wqVars
  <2> QED BY <1>5, <2>1, <2>2, <2>3 DEF work_queue_main
<1>6. ASSUME NEW t \in Clients \cup Queues, QueueCall(t) PROVE Quiet(flags')
  BY <1>6 DEF QueueCall, bt_work_queue_start, bt_work_queue_drain, bt_work_queue_unplug,
              bt_work_queue_stop, wqVars
<1>7. ASSUME NEW c \in Clients, CallReturns(c) PROVE Quiet(flags')
  BY <1>7 DEF CallReturns, ReturnFromSync, ReturnFromDrain, ReturnFromJoin, StopTimedOut, wqVars
<1>8. CASE UNCHANGED vars
  BY <1>8 DEF vars, wqVars
<1> QED BY <1>2, <1>3, <1>4, <1>5, <1>6, <1>7, <1>8 DEF Next

(* Where nobody calls bt_work_reschedule, a caller that is back from a     *)
(* flush or a synchronous cancel may rely on it: the invocation it saw is  *)
(* over, and while an item is being cancelled nothing queues or arms it.   *)
THEOREM SyncIsExact ==
  ASSUME NeverRescheduled
  PROVE  Spec => []SyncExact
<1> DEFINE Q == Quiet(flags)
<1>1. Init => Q
  BY DEF Init, Quiet
<1>2. IInv /\ Q /\ [Next]_vars => Q'
  BY QuietStep
<1>3. Q /\ SyncWaitsForInvocation => SyncExact
  BY DEF Quiet, CancelQuiesces, SyncExact
<1> QED BY <1>1, <1>2, <1>3, Invariance, SyncWaits, PTL DEF Spec
=============================================================================
