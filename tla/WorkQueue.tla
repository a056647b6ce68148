------------------------------ MODULE WorkQueue ------------------------------
(***************************************************************************)
(* base/bt_work.c: work items, delayable work items and the threads that   *)
(* run them.                                                               *)
(*                                                                         *)
(* Every public function takes the module's one mutex, changes the state   *)
(* and releases it, so one locked section is one step.  What happens       *)
(* outside the mutex is a step of its own: a work handler runs between the *)
(* step that takes its item and the step that finishes it, a thread that   *)
(* waits on a semaphore continues in a later step, and a timer that has    *)
(* expired runs its callback in a thread of its own at a later time.       *)
(*                                                                         *)
(* The C functions named *_locked are operators from a locked state to a   *)
(* locked state, the record [flags, queue, pending, notifyq].              *)
(*                                                                         *)
(* Just before some operators stand faulty versions of them, with the same *)
(* parameters.  Nothing uses them here: put in the operator's place, each  *)
(* must make a run fail.                                                   *)
(***************************************************************************)
EXTENDS Integers, Sequences, SequencesExt

CONSTANTS
  Queues,       (* struct bt_work_q, each with its thread                  *)
  Works,        (* struct bt_work                                          *)
  Delayables,   (* the Works that live in a struct bt_work_delayable       *)
  Clients,      (* the threads that call the API from outside a handler    *)
  Calls,        (* the <<thread, operation>> pairs of this use of the API; *)
                (* a queue stands for its thread while it runs a handler   *)
  MaxCallbacks, (* bound on the timer callbacks in flight per delayable    *)
  NULL

Op == {"start", "drain", "plug", "unplug", "stop", "stop_nowait",
       "submit", "flush", "cancel", "cancel_sync",
       "schedule", "reschedule", "cancel_delayable", "cancel_delayable_sync",
       "flush_delayable"}

ASSUME ConstantsAssumption ==
  /\ Delayables \subseteq Works
  /\ Calls \subseteq (Clients \cup Queues) \X Op
  /\ MaxCallbacks \in Nat
  /\ NULL \notin Queues \cup Works \cup Clients
  /\ Queues \cap Works = {} /\ Queues \cap Clients = {} /\ Works \cap Clients = {}

VARIABLES
  flags,       (* work->flags, the BT_WORK_MASK bits                        *)
  workQueue,   (* work->queue: where the item was last submitted            *)
  delayQueue,  (* dwork->queue: where the timer will submit it              *)
  armed,       (* is dwork->timeout running?                                *)
  freshCb,     (* callback threads of the current arming, not yet locked    *)
  staleCb,     (* callback threads of an arming stopped or replaced since   *)
  qflags,      (* queue->flags                                              *)
  pending,     (* queue->pending: work items, and clients for their flusher *)
  notifyq,     (* value of the semaphore queue->notifyq                     *)
  drainq,      (* value of the semaphore queue->drainq                      *)
  qpc,         (* where the queue thread is in work_queue_main              *)
  qcur,        (* the item the queue thread has taken                       *)
  pc,          (* the blocking call a client is in                          *)
  arg,         (* the work item or queue that call is about                 *)
  sem,         (* value of the semaphore in the client's bt_work_sync       *)
  cancels,     (* pending_cancels: the clients whose canceller is listed    *)
  owedQueued,  (* history: the items a waiting client saw queued...         *)
  owedRunning  (* ...and running, whose invocation is not over yet          *)

wqVars    == <<flags, workQueue, pending, notifyq>>
timerVars == <<delayQueue, armed, freshCb, staleCb>>
queueVars == <<qflags, drainq, qpc, qcur>>
syncVars  == <<pc, arg, sem, cancels>>
owedVars  == <<owedQueued, owedRunning>>
vars      == <<wqVars, timerVars, queueVars, syncVars, owedVars>>

WorkFlag  == {"RUNNING", "CANCELING", "QUEUED", "DELAYED"}
QueueFlag == {"STARTED", "BUSY", "DRAIN", "PLUGGED", "STOP"}
Item      == Works \cup Clients

(* Every variable stays in its range; the semaphores stay within their     *)
(* limit of one and the lists hold only items and flushers.                *)
TypeOK ==
  /\ flags \in [Works -> SUBSET WorkFlag]
  /\ workQueue \in [Works -> Queues \cup {NULL}]
  /\ delayQueue \in [Delayables -> Queues \cup {NULL}]
  /\ armed \in [Delayables -> BOOLEAN]
  /\ freshCb \in [Delayables -> Nat]
  /\ staleCb \in [Delayables -> Nat]
  /\ qflags \in [Queues -> SUBSET QueueFlag]
  /\ pending \in [Queues -> Seq(Item)]
  /\ notifyq \in [Queues -> {0, 1}]
  /\ drainq \in [Queues -> {0, 1}]
  /\ qpc \in [Queues -> {"off", "loop", "sleep", "handler"}]
  /\ qcur \in [Queues -> Item \cup {NULL}]
  /\ pc \in [Clients -> {"idle", "flush", "cancel", "drain", "join", "unstop"}]
  /\ arg \in [Clients -> Works \cup Queues \cup {NULL}]
  /\ sem \in [Clients -> {0, 1}]
  /\ cancels \in Seq(Clients)
  /\ owedQueued \in [Clients -> SUBSET Works]
  /\ owedRunning \in [Clients -> SUBSET Works]

Init ==
  /\ flags = [w \in Works |-> {}]
  /\ workQueue = [w \in Works |-> NULL]
  /\ delayQueue = [d \in Delayables |-> NULL]
  /\ armed = [d \in Delayables |-> FALSE]
  /\ freshCb = [d \in Delayables |-> 0]
  /\ staleCb = [d \in Delayables |-> 0]
  /\ qflags = [q \in Queues |-> {}]
  /\ pending = [q \in Queues |-> <<>>]
  /\ notifyq = [q \in Queues |-> 0]
  /\ drainq = [q \in Queues |-> 0]
  /\ qpc = [q \in Queues |-> "off"]
  /\ qcur = [q \in Queues |-> NULL]
  /\ pc = [c \in Clients |-> "idle"]
  /\ arg = [c \in Clients |-> NULL]
  /\ sem = [c \in Clients |-> 0]
  /\ cancels = <<>>
  /\ owedQueued = [c \in Clients |-> {}]
  /\ owedRunning = [c \in Clients |-> {}]

-----------------------------------------------------------------------------
(* The operations on the locked state.                                     *)

Locked == [flags |-> flags, queue |-> workQueue, pending |-> pending,
           notifyq |-> notifyq]

Unlock(s) ==
  /\ flags' = s.flags
  /\ workQueue' = s.queue
  /\ pending' = s.pending
  /\ notifyq' = s.notifyq

(* A list node is on its list at most once.                                *)
IndexOf(list, x) == CHOOSE i \in DOMAIN list : list[i] = x

WithFlags(s, w, f) == [s EXCEPT !.flags = [@ EXCEPT ![w] = f]]

(* notify_queue_locked gives queue->notifyq, a semaphore of limit 1.        *)
NotifyNobody(tokens, q) == tokens
notify_queue_locked(tokens, q) == [tokens EXCEPT ![q] = 1]

(* queue_submit_locked: -ENODEV unless started, -EBUSY when draining except *)
(* from the queue's own thread, -EBUSY when plugged and not draining.       *)
queue_accepts(q, caller) ==
  /\ q # NULL
  /\ "STARTED" \in qflags[q]
  /\ "DRAIN" \in qflags[q] => caller = q
  /\ "PLUGGED" \in qflags[q] => "DRAIN" \in qflags[q]

(* An item that is running goes back to the queue it is running on, and    *)
(* one submitted to no queue to its last one.                              *)
TargetAsked(s, w, q) == IF q = NULL THEN s.queue[w] ELSE q
submit_target(s, w, q) ==
  IF q = NULL \/ "RUNNING" \in s.flags[w] THEN s.queue[w] ELSE q

(* An item being cancelled is refused, one already queued is left alone.   *)
SubmittableQueued(s, w) == "CANCELING" \notin s.flags[w]
submittable(s, w) == s.flags[w] \cap {"CANCELING", "QUEUED"} = {}

submit_to_queue_locked(s, w, q, caller) ==
  LET target == submit_target(s, w, q)
  IN  IF submittable(s, w) /\ queue_accepts(target, caller)
      THEN [flags   |-> [s.flags EXCEPT ![w] = @ \cup {"QUEUED"}],
            queue   |-> [s.queue EXCEPT ![w] = target],
            pending |-> [s.pending EXCEPT ![target] = Append(@, w)],
            notifyq |-> notify_queue_locked(s.notifyq, target)]
      ELSE s

needs_flush(s, w) == s.flags[w] \cap {"QUEUED", "RUNNING"} # {}

(* The flusher goes right behind the item if it is queued, else in front.  *)
FlusherInFront(list, w, c, queued) == Cons(c, list)
queue_flusher_locked(list, w, c, queued) ==
  IF queued THEN InsertAt(list, IndexOf(list, w) + 1, c) ELSE Cons(c, list)

work_flush_locked(s, w, c) ==
  LET q    == s.queue[w]
      list == queue_flusher_locked(s.pending[q], w, c, "QUEUED" \in s.flags[w])
  IN  IF needs_flush(s, w)
      THEN [s EXCEPT !.pending = [@ EXCEPT ![q] = list],
                     !.notifyq = notify_queue_locked(@, q)]
      ELSE s

queue_remove_locked(s, w) ==
  LET q    == s.queue[w]
      list == RemoveAt(s.pending[q], IndexOf(s.pending[q], w))
  IN  IF "QUEUED" \in s.flags[w]
      THEN [WithFlags(s, w, s.flags[w] \ {"QUEUED"})
              EXCEPT !.pending = [@ EXCEPT ![q] = list]]
      ELSE s

cancel_async_locked(s, w) ==
  LET r == IF "CANCELING" \in s.flags[w] THEN s ELSE queue_remove_locked(s, w)
  IN  IF r.flags[w] = {} THEN r
      ELSE WithFlags(r, w, r.flags[w] \cup {"CANCELING"})

(* os_timer_stop and os_timer_start set or clear the timer.  Both return 0 *)
(* whether or not the timer had expired: a callback thread already started *)
(* is not recalled.                                                        *)
TimerSet(d, on) ==
  /\ armed' = [armed EXCEPT ![d] = on]
  /\ staleCb' = [staleCb EXCEPT ![d] = @ + freshCb[d]]
  /\ freshCb' = [freshCb EXCEPT ![d] = 0]

(* unschedule_locked clears the flag and stops the timer if it was set.    *)
StillScheduled(s, d) == s
unscheduled(s, d) == WithFlags(s, d, s.flags[d] \ {"DELAYED"})

StopTimerIfDelayed(d) ==
  IF "DELAYED" \in flags[d] THEN TimerSet(d, FALSE)
  ELSE UNCHANGED <<armed, freshCb, staleCb>>

-----------------------------------------------------------------------------
(* Who calls, and how a client waits.                                      *)

MayCall(t, op) ==
  /\ <<t, op>> \in Calls
  /\ \/ t \in Clients /\ pc[t] = "idle"
     \/ t \in Queues /\ qpc[t] = "handler" /\ qcur[t] \in Works

MayBlock(c, op) == c \in Clients /\ MayCall(c, op)

(* The client waits in call k about x for the invocations it saw queued    *)
(* and running.                                                            *)
Wait(c, k, x, queued, running) ==
  /\ pc' = [pc EXCEPT ![c] = k]
  /\ arg' = [arg EXCEPT ![c] = x]
  /\ owedQueued' = [owedQueued EXCEPT ![c] = queued]
  /\ owedRunning' = [owedRunning EXCEPT ![c] = running]

Return(c) ==
  /\ pc' = [pc EXCEPT ![c] = "idle"]
  /\ arg' = [arg EXCEPT ![c] = NULL]
  /\ owedQueued' = [owedQueued EXCEPT ![c] = {}]
  /\ owedRunning' = [owedRunning EXCEPT ![c] = {}]

If(condition, x) == IF condition THEN {x} ELSE {}

-----------------------------------------------------------------------------
(* Plain work items.                                                       *)

bt_work_submit_to_queue(t, w, q) ==
  /\ MayCall(t, "submit")
  /\ Unlock(submit_to_queue_locked(Locked, w, q, t))
  /\ UNCHANGED <<timerVars, queueVars, syncVars, owedVars>>

(* The wait of a flush, on the locked state s it leaves behind.            *)
WaitForFlusher(c, w, s) ==
  /\ Unlock(work_flush_locked(s, w, c))
  /\ IF needs_flush(s, w)
     THEN Wait(c, "flush", w, If("QUEUED" \in s.flags[w], w),
               If("QUEUED" \notin s.flags[w], w))
     ELSE UNCHANGED <<pc, arg, owedVars>>
  /\ UNCHANGED <<sem, cancels>>

bt_work_flush(c, w) ==
  /\ MayBlock(c, "flush")
  /\ WaitForFlusher(c, w, Locked)
  /\ UNCHANGED <<timerVars, queueVars>>

(* A cancelled item that was queued owes nobody an invocation any more.    *)
ForgetQueued(w) ==
  IF "CANCELING" \in flags[w] THEN owedQueued
  ELSE [c \in Clients |-> owedQueued[c] \ {w}]

Cancel(s, w) ==
  /\ Unlock(cancel_async_locked(s, w))
  /\ owedQueued' = ForgetQueued(w)
  /\ UNCHANGED <<owedRunning, syncVars>>

bt_work_cancel(t, w) ==
  /\ MayCall(t, "cancel")
  /\ Cancel(Locked, w)
  /\ UNCHANGED <<timerVars, queueVars>>

(* cancel_sync_locked lists the caller's canceller if the item is still    *)
(* being cancelled, that is, running.                                      *)
CancelAndWait(c, s, w) ==
  LET r == cancel_async_locked(s, w)
  IN  /\ Unlock(r)
      /\ IF "CANCELING" \in r.flags[w]
         THEN /\ cancels' = Append(cancels, c)
              /\ pc' = [pc EXCEPT ![c] = "cancel"]
              /\ arg' = [arg EXCEPT ![c] = w]
              /\ owedRunning' = [owedRunning EXCEPT ![c] = {w}]
         ELSE UNCHANGED <<cancels, pc, arg, owedRunning>>
      /\ owedQueued' = ForgetQueued(w)
      /\ UNCHANGED sem

bt_work_cancel_sync(c, w) ==
  /\ MayBlock(c, "cancel_sync")
  /\ IF flags[w] # {}
     THEN CancelAndWait(c, Locked, w)
     ELSE UNCHANGED <<wqVars, syncVars, owedVars>>
  /\ UNCHANGED <<timerVars, queueVars>>

-----------------------------------------------------------------------------
(* Delayable work items.                                                   *)

(* schedule_for_queue_locked on the state s: submit at once, or arm the    *)
(* timer.  "now" is OS_TIMEOUT_NO_WAIT.                                    *)
ScheduleNow(t, s, d, q) ==
  /\ Unlock(submit_to_queue_locked(s, d, q, t))
  /\ UNCHANGED delayQueue

ScheduleLater(s, d, q) ==
  /\ Unlock(WithFlags(s, d, s.flags[d] \cup {"DELAYED"}))
  /\ delayQueue' = [delayQueue EXCEPT ![d] = q]
  /\ TimerSet(d, TRUE)

(* Only an item that is idle or running is scheduled.                      *)
schedulable(d) == flags[d] \subseteq {"RUNNING"}

bt_work_schedule_for_queue(t, d, q, now) ==
  /\ MayCall(t, "schedule")
  /\ schedulable(d)
  /\ IF now
     THEN ScheduleNow(t, Locked, d, q) /\ UNCHANGED <<armed, freshCb, staleCb>>
     ELSE ScheduleLater(Locked, d, q)
  /\ UNCHANGED <<queueVars, syncVars, owedVars>>

bt_work_reschedule_for_queue(t, d, q, now) ==
  /\ MayCall(t, "reschedule")
  /\ IF now
     THEN /\ ScheduleNow(t, unscheduled(Locked, d), d, q)
          /\ StopTimerIfDelayed(d)
     ELSE ScheduleLater(unscheduled(Locked, d), d, q)
  /\ UNCHANGED <<queueVars, syncVars, owedVars>>

bt_work_cancel_delayable(t, d) ==
  /\ MayCall(t, "cancel_delayable")
  /\ Cancel(unscheduled(Locked, d), d)
  /\ StopTimerIfDelayed(d)
  /\ UNCHANGED <<delayQueue, queueVars>>

bt_work_cancel_delayable_sync(c, d) ==
  /\ MayBlock(c, "cancel_delayable_sync")
  /\ IF flags[d] # {}
     THEN /\ CancelAndWait(c, unscheduled(Locked, d), d)
          /\ StopTimerIfDelayed(d)
     ELSE UNCHANGED <<wqVars, syncVars, owedVars, armed, freshCb, staleCb>>
  /\ UNCHANGED <<delayQueue, queueVars>>

(* A delayed item is submitted at once before it is flushed.               *)
bt_work_flush_delayable(c, d) ==
  /\ MayBlock(c, "flush_delayable")
  /\ flags[d] # {}
  /\ LET u == unscheduled(Locked, d)
         s == IF "DELAYED" \in flags[d]
              THEN submit_to_queue_locked(u, d, delayQueue[d], c)
              ELSE u
     IN  WaitForFlusher(c, d, s)
  /\ StopTimerIfDelayed(d)
  /\ UNCHANGED <<delayQueue, queueVars>>

(* The timer expires and starts a thread for work_timeout.                 *)
TimerExpires(d) ==
  /\ armed[d]
  /\ freshCb[d] + staleCb[d] < MaxCallbacks
  /\ armed' = [armed EXCEPT ![d] = FALSE]
  /\ freshCb' = [freshCb EXCEPT ![d] = @ + 1]
  /\ UNCHANGED <<delayQueue, staleCb, wqVars, queueVars, syncVars, owedVars>>

(* The callback submits the item if it is still marked delayed.            *)
SubmitDelayed(d) ==
  IF "DELAYED" \in flags[d]
  THEN Unlock(submit_to_queue_locked(unscheduled(Locked, d), d, delayQueue[d], NULL))
  ELSE UNCHANGED wqVars

work_timeout(d) ==
  /\ \/ /\ freshCb[d] > 0
        /\ freshCb' = [freshCb EXCEPT ![d] = @ - 1]
        /\ UNCHANGED staleCb
     \/ /\ staleCb[d] > 0
        /\ staleCb' = [staleCb EXCEPT ![d] = @ - 1]
        /\ UNCHANGED freshCb
  /\ SubmitDelayed(d)
  /\ UNCHANGED <<delayQueue, armed, queueVars, syncVars, owedVars>>

-----------------------------------------------------------------------------
(* Work queues.                                                            *)

(* Initialising the semaphores of a queue somebody waits on is undefined,  *)
(* so a queue is started again only when no call on it is in progress.     *)
bt_work_queue_start(c, q) ==
  /\ MayBlock(c, "start")
  /\ "STARTED" \notin qflags[q]
  /\ \A b \in Clients : arg[b] # q
  /\ qflags' = [qflags EXCEPT ![q] = {"STARTED"}]
  /\ pending' = [pending EXCEPT ![q] = <<>>]
  /\ notifyq' = [notifyq EXCEPT ![q] = 0]
  /\ drainq' = [drainq EXCEPT ![q] = 0]
  /\ qpc' = [qpc EXCEPT ![q] = "loop"]
  /\ UNCHANGED <<flags, workQueue, qcur, timerVars, syncVars, owedVars>>

drain_needed(q, plug) ==
  \/ qflags[q] \cap {"BUSY", "DRAIN"} # {}
  \/ plug
  \/ pending[q] # <<>>

DrainFlags(plug) == {"DRAIN"} \cup If(plug, "PLUGGED")

(* A queue that needs no draining is left alone.                           *)
bt_work_queue_drain(c, q, plug) ==
  /\ MayBlock(c, IF plug THEN "plug" ELSE "drain")
  /\ drain_needed(q, plug)
  /\ qflags' = [qflags EXCEPT ![q] = @ \cup DrainFlags(plug)]
  /\ notifyq' = notify_queue_locked(notifyq, q)
  /\ Wait(c, "drain", q, ToSet(pending[q]) \cap Works, {qcur[q]} \cap Works)
  /\ UNCHANGED <<flags, workQueue, pending, drainq, qpc, qcur, sem, cancels, timerVars>>

bt_work_queue_unplug(c, q) ==
  /\ MayBlock(c, "unplug")
  /\ qflags' = [qflags EXCEPT ![q] = @ \ {"PLUGGED"}]
  /\ UNCHANGED <<drainq, qpc, qcur, wqVars, timerVars, syncVars, owedVars>>

(* Only a started and plugged queue is stopped.  os_thread_join blocks     *)
(* whatever the timeout, unless it is OS_TIMEOUT_NO_WAIT.                  *)
bt_work_queue_stop(c, q, nowait) ==
  /\ MayBlock(c, IF nowait THEN "stop_nowait" ELSE "stop")
  /\ {"STARTED", "PLUGGED"} \subseteq qflags[q]
  /\ qflags' = [qflags EXCEPT ![q] = @ \cup {"STOP"}]
  /\ notifyq' = notify_queue_locked(notifyq, q)
  /\ Wait(c, IF nowait THEN "unstop" ELSE "join", q, {}, {})
  /\ UNCHANGED <<flags, workQueue, pending, drainq, qpc, qcur, sem, cancels, timerVars>>

(* The join did not wait: the request to stop is withdrawn.                *)
StopTimedOut(c) ==
  /\ pc[c] = "unstop"
  /\ qflags' = [qflags EXCEPT ![arg[c]] = @ \ {"STOP"}]
  /\ Return(c)
  /\ UNCHANGED <<drainq, qpc, qcur, sem, cancels, wqVars, timerVars>>

(* A client continues when the semaphore it waits on has been given, or    *)
(* the thread it joins has exited.                                         *)
ReturnFromSync(c) ==
  /\ pc[c] \in {"flush", "cancel"}
  /\ sem[c] = 1
  /\ sem' = [sem EXCEPT ![c] = 0]
  /\ Return(c)
  /\ UNCHANGED <<cancels, wqVars, timerVars, queueVars>>

ReturnFromDrain(c) ==
  /\ pc[c] = "drain"
  /\ drainq[arg[c]] = 1
  /\ drainq' = [drainq EXCEPT ![arg[c]] = 0]
  /\ Return(c)
  /\ UNCHANGED <<qflags, qpc, qcur, sem, cancels, wqVars, timerVars>>

ReturnFromJoin(c) ==
  /\ pc[c] = "join"
  /\ qpc[arg[c]] = "off"
  /\ Return(c)
  /\ UNCHANGED <<sem, cancels, wqVars, timerVars, queueVars>>

-----------------------------------------------------------------------------
(* work_queue_main, the thread of queue q.                                 *)

IdleWithPending(q) == qpc[q] = "loop"
Idle(q) == qpc[q] = "loop" /\ pending[q] = <<>>

TakeItem(q) ==
  LET item == Head(pending[q])
  IN  /\ qpc[q] = "loop"
      /\ pending[q] # <<>>
      /\ pending' = [pending EXCEPT ![q] = Tail(@)]
      /\ qcur' = [qcur EXCEPT ![q] = item]
      /\ qpc' = [qpc EXCEPT ![q] = "handler"]
      /\ qflags' = [qflags EXCEPT ![q] = @ \cup {"BUSY"}]
      /\ flags' = [w \in Works |->
                     IF w = item THEN (flags[w] \cup {"RUNNING"}) \ {"QUEUED"}
                     ELSE flags[w]]
      /\ owedRunning' = [c \in Clients |->
                           owedRunning[c] \cup (owedQueued[c] \cap {item})]
      /\ owedQueued' = [c \in Clients |-> owedQueued[c] \ {item}]
      /\ UNCHANGED <<workQueue, notifyq, drainq, timerVars, syncVars>>

(* finalize_cancel_locked releases the first canceller listed for the item. *)
CancellersOf(w) == {i \in DOMAIN cancels : arg[cancels[i]] = w}

FirstOf(S) == CHOOSE i \in S : \A j \in S : i <= j

CancellerForgotten(w) == UNCHANGED <<sem, cancels>>
finalize_cancel_locked(w) ==
  IF CancellersOf(w) # {}
  THEN LET i == FirstOf(CancellersOf(w))
       IN  /\ sem' = [sem EXCEPT ![cancels[i]] = 1]
           /\ cancels' = RemoveAt(cancels, i)
  ELSE UNCHANGED <<sem, cancels>>

finalize_flush_locked(c) ==
  /\ sem' = [sem EXCEPT ![c] = 1]
  /\ UNCHANGED cancels

Finalize(item) ==
  IF item \in Clients THEN finalize_flush_locked(item)
  ELSE IF "CANCELING" \in flags[item] THEN finalize_cancel_locked(item)
  ELSE UNCHANGED <<sem, cancels>>

(* The handler returns and the thread goes round its loop.                 *)
FinishItem(q) ==
  LET item == qcur[q]
  IN  /\ qpc[q] = "handler"
      /\ flags' = [w \in Works |->
                     IF w = item THEN flags[w] \ {"RUNNING", "CANCELING"}
                     ELSE flags[w]]
      /\ Finalize(item)
      /\ qcur' = [qcur EXCEPT ![q] = NULL]
      /\ qpc' = [qpc EXCEPT ![q] = "loop"]
      /\ qflags' = [qflags EXCEPT ![q] = @ \ {"BUSY"}]
      /\ owedRunning' = [c \in Clients |-> owedRunning[c] \ {item}]
      /\ UNCHANGED <<owedQueued, workQueue, pending, notifyq, drainq, pc, arg, timerVars>>

(* Nothing pending and draining: give drainq, then sleep.                  *)
Drained(q) ==
  /\ Idle(q)
  /\ "DRAIN" \in qflags[q]
  /\ qflags' = [qflags EXCEPT ![q] = @ \ {"DRAIN"}]
  /\ drainq' = [drainq EXCEPT ![q] = 1]
  /\ qpc' = [qpc EXCEPT ![q] = "sleep"]
  /\ UNCHANGED <<qcur, wqVars, timerVars, syncVars, owedVars>>

Stopped(q) ==
  /\ Idle(q)
  /\ "DRAIN" \notin qflags[q]
  /\ "STOP" \in qflags[q]
  /\ qflags' = [qflags EXCEPT ![q] = {}]
  /\ qpc' = [qpc EXCEPT ![q] = "off"]
  /\ UNCHANGED <<qcur, drainq, wqVars, timerVars, syncVars, owedVars>>

Sleep(q) ==
  /\ Idle(q)
  /\ qflags[q] \cap {"DRAIN", "STOP"} = {}
  /\ qpc' = [qpc EXCEPT ![q] = "sleep"]
  /\ UNCHANGED <<qcur, qflags, drainq, wqVars, timerVars, syncVars, owedVars>>

Wake(q) ==
  /\ qpc[q] = "sleep"
  /\ notifyq[q] = 1
  /\ notifyq' = [notifyq EXCEPT ![q] = 0]
  /\ qpc' = [qpc EXCEPT ![q] = "loop"]
  /\ UNCHANGED <<qcur, qflags, drainq, flags, workQueue, pending, timerVars, syncVars, owedVars>>

work_queue_main(q) ==
  \/ TakeItem(q)
  \/ FinishItem(q)
  \/ Drained(q)
  \/ Stopped(q)
  \/ Sleep(q)
  \/ Wake(q)

-----------------------------------------------------------------------------
WorkCall(t) ==
  \E w \in Works :
    \/ \E q \in Queues \cup {NULL} : bt_work_submit_to_queue(t, w, q)
    \/ /\ w \notin Delayables
       /\ \/ bt_work_flush(t, w)
          \/ bt_work_cancel(t, w)
          \/ bt_work_cancel_sync(t, w)

DelayableCall(t) ==
  \E d \in Delayables :
    \/ \E q \in Queues, now \in BOOLEAN :
          \/ bt_work_schedule_for_queue(t, d, q, now)
          \/ bt_work_reschedule_for_queue(t, d, q, now)
    \/ bt_work_cancel_delayable(t, d)
    \/ bt_work_cancel_delayable_sync(t, d)
    \/ bt_work_flush_delayable(t, d)

QueueCall(t) ==
  \E q \in Queues :
    \/ bt_work_queue_start(t, q)
    \/ \E plug \in BOOLEAN : bt_work_queue_drain(t, q, plug)
    \/ bt_work_queue_unplug(t, q)
    \/ \E nowait \in BOOLEAN : bt_work_queue_stop(t, q, nowait)

CallReturns(c) ==
  \/ ReturnFromSync(c)
  \/ ReturnFromDrain(c)
  \/ ReturnFromJoin(c)
  \/ StopTimedOut(c)

Next ==
  \/ \E t \in Clients \cup Queues : WorkCall(t) \/ DelayableCall(t) \/ QueueCall(t)
  \/ \E c \in Clients : CallReturns(c)
  \/ \E q \in Queues : work_queue_main(q)
  \/ \E d \in Delayables : TimerExpires(d) \/ work_timeout(d)

Spec == Init /\ [][Next]_vars

(* The threads that exist run: queue threads and released callers are      *)
(* scheduled, handlers return, timers expire.  Nobody has to make a call.  *)
Fairness ==
  /\ \A q \in Queues : WF_vars(work_queue_main(q))
  /\ \A c \in Clients : WF_vars(CallReturns(c))
  /\ \A d \in Delayables : WF_vars(TimerExpires(d)) /\ WF_vars(work_timeout(d))

FairSpec == Spec /\ Fairness

-----------------------------------------------------------------------------
(* Safety.                                                                 *)

(* No item's handler runs in two queue threads at once: an item submitted  *)
(* while it runs goes back to the queue it runs on.                        *)
NoReentrancy ==
  \A p, q \in Queues : p # q /\ qcur[p] \in Works => qcur[p] # qcur[q]

(* The RUNNING flag is set exactly while the thread of the item's own      *)
(* queue has the item: the flag submit_to_queue_locked trusts is true.     *)
RunningIsCurrent ==
  \A w \in Works, q \in Queues :
    qcur[q] = w <=> "RUNNING" \in flags[w] /\ workQueue[w] = q

(* The QUEUED flag is set exactly while the item is on the list of its own *)
(* queue, and it is there once: no submission is lost and none is doubled. *)
QueuedOnce ==
  \A w \in Works, q \in Queues :
    /\ w \in ToSet(pending[q]) <=> "QUEUED" \in flags[w] /\ workQueue[w] = q
    /\ \A i, j \in DOMAIN pending[q] :
         pending[q][i] = w /\ pending[q][j] = w => i = j

(* The flags by which submit, flush and cancel decide tell the truth: each *)
(* item is where its RUNNING and QUEUED flags say, and nowhere else.       *)
FlagsTruthful == RunningIsCurrent /\ QueuedOnce

(* A flush or a synchronous cancel is released only when the invocation it *)
(* waits for, the one queued or running at the call, is over or cancelled. *)
SyncWaitsForInvocation ==
  \A c \in Clients :
    pc[c] \in {"flush", "cancel"} /\ sem[c] = 1
      => owedQueued[c] = {} /\ owedRunning[c] = {}

(* With one thread draining a queue at a time, the drain is released only  *)
(* when every item pending or running at the call is done.                 *)
DrainWaitsForAll ==
  \A c \in Clients :
    pc[c] = "drain" /\ drainq[arg[c]] = 1
      => owedQueued[c] = {} /\ owedRunning[c] = {}

(* bt_work_queue_drain returns without waiting only from a queue with      *)
(* nothing pending whose thread runs no handler.                           *)
DrainSkipsOnlyIdle ==
  \A q \in Queues :
    ~drain_needed(q, FALSE) => pending[q] = <<>> /\ qcur[q] = NULL

(* A queue thread never sleeps on an unseen submission, flusher or drain:  *)
(* whatever arrived after it looked has left a token in notifyq.           *)
NoLostWakeup ==
  \A q \in Queues :
    qpc[q] = "sleep" /\ (pending[q] # <<>> \/ "DRAIN" \in qflags[q]) => notifyq[q] = 1

(* The same of a request to stop.  The comment at the thread's sleep says  *)
(* that it "didn't find work nor got asked to stop".                       *)
NoLostStop ==
  \A q \in Queues :
    qpc[q] = "sleep" /\ "STOP" \in qflags[q] => notifyq[q] = 1

(* A thread that stops leaves no item behind on its queue and none marked  *)
(* queued or running there.                                                *)
StopLosesNothing ==
  \A q \in Queues :
    qpc[q] = "off" =>
      /\ pending[q] = <<>>
      /\ \A w \in Works : workQueue[w] = q => flags[w] \cap {"QUEUED", "RUNNING"} = {}

(* Whatever a sleeping queue thread has to see has left a token for it, be *)
(* it an item, a flusher, a drain or a request to stop.                    *)
NothingUnseen == NoLostWakeup /\ NoLostStop

(* A drain and a stop keep their word: a drain, waiting or not, returns    *)
(* when all it saw is done, and a thread that stops has dropped nothing.   *)
DrainExact == DrainWaitsForAll /\ DrainSkipsOnlyIdle /\ StopLosesNothing

(* While an item is being cancelled it is neither queued nor delayed, so   *)
(* when the cancel is over it is idle.  Holds where nobody calls           *)
(* bt_work_reschedule, which arms the timer of an item being cancelled.    *)
CancelQuiesces ==
  \A w \in Works :
    "CANCELING" \in flags[w] => flags[w] = {"CANCELING", "RUNNING"}

(* What a caller of flush or cancel may rely on when it is back: the       *)
(* invocation it saw is over, and nothing has slipped in to start another. *)
SyncExact == SyncWaitsForInvocation /\ CancelQuiesces

(* A callback of a timer that was stopped or restarted since it expired    *)
(* finds the item not delayed, and so submits nothing: the item is not     *)
(* submitted before its own delay is over.                                 *)
StaleCallbackHarmless ==
  \A d \in Delayables : staleCb[d] > 0 => "DELAYED" \notin flags[d]

-----------------------------------------------------------------------------
(* Liveness.                                                               *)

(* A submitted item is run or cancelled.                                   *)
QueuedRuns == \A w \in Works : "QUEUED" \in flags[w] ~> "QUEUED" \notin flags[w]

(* A delayed item is submitted or cancelled, if it is not rescheduled for  *)
(* ever before its delay has passed.                                       *)
DelayExpires == \A d \in Delayables : "DELAYED" \in flags[d] ~> "DELAYED" \notin flags[d]

(* No item waits for ever: a delay ends in a submission, a submission in a *)
(* run, unless the item is cancelled on the way.                           *)
WorkEnds == DelayExpires /\ QueuedRuns

(* Every flush returns.                                                    *)
FlushReturns == \A c \in Clients : pc[c] = "flush" ~> pc[c] # "flush"

(* Every synchronous cancel returns: the finishing item deals "with any    *)
(* cancellation and flushing issued while it was running".                 *)
CancelReturns == \A c \in Clients : pc[c] = "cancel" ~> pc[c] # "cancel"

(* No caller that waits for an item is forgotten.                          *)
SyncReturns == FlushReturns /\ CancelReturns

(* Every drain of a running queue returns: an idle draining queue moves    *)
(* "threads waiting for drain to ready state".                             *)
DrainReturns ==
  \A c \in Clients, q \in Queues :
    pc[c] = "drain" /\ arg[c] = q /\ "STARTED" \in qflags[q] ~> pc[c] # "drain"
=============================================================================
