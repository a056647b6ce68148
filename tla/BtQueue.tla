------------------------------- MODULE BtQueue -------------------------------
(***************************************************************************)
(* base/queue/bt_queue.c: the blocking queue, a list under a mutex and a   *)
(* condition variable.                                                     *)
(*                                                                         *)
(* What a function does between os_mutex_lock and os_mutex_unlock is one   *)
(* step.  A thread in bt_queue_get that finds the list empty gives up the  *)
(* mutex in os_cond_wait; from there it goes on when a signal has woken    *)
(* it, when the wait has timed out or, as POSIX allows, for no reason.     *)
(* The list is the sequence that module Slist shows the pointers to spell  *)
(* out.  A thread adds only nodes that are in no list, unless it asks for  *)
(* bt_queue_unique_append.                                                 *)
(*                                                                         *)
(* Time passes in ticks, only while no thread can run; a wait times out    *)
(* after Timeout ticks.                                                    *)
(***************************************************************************)
EXTENDS Integers, Sequences, FiniteSets, SequencesExt

CONSTANTS
  Nodes,     (* the nodes that pass through the queue                       *)
  Threads,
  Calls,     (* the <<thread, operation>> pairs of this use of the queue    *)
  Spurious,  (* does the condition variable wake threads for no reason?     *)
  Timeout,   (* the timeout of a timed get, in ticks                        *)
  NULL

Op == {"append", "prepend", "unique_append", "cancel_wait", "remove",
       "get_nowait", "get_forever", "get_timed"}

ConstantsOK ==
  /\ NULL \notin Nodes
  /\ IsFiniteSet(Threads)
  /\ Calls \subseteq Threads \X Op
  /\ Spurious \in BOOLEAN
  /\ Timeout \in Nat \ {0}

VARIABLES
  list,      (* queue->list                                                 *)
  where,     (* a thread is idle, blocked on the condition variable, or     *)
             (* about to return from os_cond_wait, woken or timed out       *)
  mode,      (* the timeout of the get a thread is in                       *)
  waited,    (* ticks since a timed get last called os_cond_wait            *)
  elapsed,   (* ticks since a timed get was called; stops at Timeout + 1    *)
  cancelled, (* history: the threads still in the get that cancel_wait saw  *)
  got        (* history: what each thread's last get returned               *)

vars == <<list, where, mode, waited, elapsed, cancelled, got>>

(* Every variable stays in its range.                                      *)
TypeOK ==
  /\ list \in Seq(Nodes)
  /\ where \in [Threads -> {"idle", "blocked", "woken", "timedout"}]
  /\ mode \in [Threads -> {"forever", "timed"}]
  /\ waited \in [Threads -> 0..Timeout]
  /\ elapsed \in [Threads -> 0..(Timeout + 1)]
  /\ cancelled \subseteq Threads
  /\ got \in [Threads -> Nodes \cup {NULL}]

Init ==
  /\ list = <<>>
  /\ where = [t \in Threads |-> "idle"]
  /\ mode = [t \in Threads |-> "forever"]
  /\ waited = [t \in Threads |-> 0]
  /\ elapsed = [t \in Threads |-> 0]
  /\ cancelled = {}
  /\ got = [t \in Threads |-> NULL]

At(place) == {t \in Threads : where[t] = place}
Returning == At("woken") \cup At("timedout")
Listed(n) == \E i \in 1..Len(list) : list[i] = n

Call(t, op) == where[t] = "idle" /\ <<t, op>> \in Calls

-----------------------------------------------------------------------------
(* os_cond_signal wakes one blocked thread, if there is one.               *)

SignalNobody == UNCHANGED where

os_cond_signal ==
  IF At("blocked") = {}
    THEN UNCHANGED where
    ELSE \E t \in At("blocked") : where' = [where EXCEPT ![t] = "woken"]

timingVars == <<mode, waited, elapsed>>

bt_queue_append(t, n) ==
  /\ Call(t, "append") /\ ~Listed(n)
  /\ list' = Append(list, n)
  /\ os_cond_signal
  /\ UNCHANGED <<timingVars, cancelled, got>>

bt_queue_prepend(t, n) ==
  /\ Call(t, "prepend") /\ ~Listed(n)
  /\ list' = Cons(n, list)
  /\ os_cond_signal
  /\ UNCHANGED <<timingVars, cancelled, got>>

(* A node that is in the list already is left alone, and false returned.   *)
bt_queue_unique_append(t, n) ==
  /\ Call(t, "unique_append")
  /\ ~Listed(n)
  /\ list' = Append(list, n)
  /\ os_cond_signal
  /\ UNCHANGED <<timingVars, cancelled, got>>

bt_queue_cancel_wait(t) ==
  /\ Call(t, "cancel_wait")
  /\ os_cond_signal
  /\ cancelled' = cancelled \cup {u \in Threads : where[u] # "idle"}
  /\ UNCHANGED <<list, timingVars, got>>

bt_queue_remove(t, n) ==
  /\ Call(t, "remove")
  /\ \E i \in 1..Len(list) : list[i] = n /\ list' = RemoveAt(list, i)
  /\ UNCHANGED <<where, timingVars, cancelled, got>>

(* pop_head_unlocked and return: the head, or NULL when there is none.     *)
Return(t) ==
  /\ IF list = <<>>
       THEN got' = [got EXCEPT ![t] = NULL] /\ UNCHANGED list
       ELSE got' = [got EXCEPT ![t] = Head(list)] /\ list' = Tail(list)
  /\ where' = [where EXCEPT ![t] = "idle"]
  /\ cancelled' = cancelled \ {t}
  /\ waited' = [waited EXCEPT ![t] = 0]
  /\ elapsed' = [elapsed EXCEPT ![t] = 0]
  /\ UNCHANGED mode

(* os_cond_wait: a relative timeout, so a timed wait starts from zero.     *)
os_cond_wait(t) ==
  /\ where' = [where EXCEPT ![t] = "blocked"]
  /\ waited' = [waited EXCEPT ![t] = 0]
  /\ UNCHANGED <<list, got, cancelled>>

get_call(how) == CASE how = "nowait"  -> "get_nowait"
                   [] how = "forever" -> "get_forever"
                   [] how = "timed"   -> "get_timed"

bt_queue_get(t, how) ==
  /\ Call(t, get_call(how))
  /\ \/ /\ list # <<>> \/ how = "nowait"
        /\ Return(t)
     \/ /\ list = <<>> /\ how # "nowait"
        /\ os_cond_wait(t)
        /\ mode' = [mode EXCEPT ![t] = how]
        /\ UNCHANGED elapsed

(* The thread has the mutex again and looks at the list.                   *)
Resume(t) ==
  /\ where[t] = "woken"
  /\ \/ list # <<>> /\ Return(t)
     \/ list = <<>> /\ os_cond_wait(t) /\ UNCHANGED <<mode, elapsed>>

(* The thread returns NULL without one more look.                          *)
TimedOutIsEmpty(t) ==
  /\ where[t] = "timedout"
  /\ got' = [got EXCEPT ![t] = NULL]
  /\ where' = [where EXCEPT ![t] = "idle"]
  /\ cancelled' = cancelled \ {t}
  /\ waited' = [waited EXCEPT ![t] = 0]
  /\ elapsed' = [elapsed EXCEPT ![t] = 0]
  /\ UNCHANGED <<list, mode>>

(* The wait failed with ETIMEDOUT: one more look, and return.              *)
ResumeTimedOut(t) ==
  /\ where[t] = "timedout"
  /\ Return(t)

Expire(t) ==
  /\ where[t] = "blocked" /\ mode[t] = "timed" /\ waited[t] = Timeout
  /\ where' = [where EXCEPT ![t] = "timedout"]
  /\ UNCHANGED <<list, timingVars, cancelled, got>>

SpuriousWakeup(t) ==
  /\ Spurious
  /\ where[t] = "blocked"
  /\ where' = [where EXCEPT ![t] = "woken"]
  /\ UNCHANGED <<list, timingVars, cancelled, got>>

Sleepers == {t \in At("blocked") : mode[t] = "timed"}

Tick ==
  /\ Returning = {}
  /\ Sleepers # {} /\ \A t \in Sleepers : waited[t] < Timeout
  /\ waited' = [t \in Threads |-> IF t \in Sleepers THEN waited[t] + 1 ELSE waited[t]]
  /\ elapsed' = [t \in Threads |-> IF t \in Sleepers /\ elapsed[t] <= Timeout
                                     THEN elapsed[t] + 1 ELSE elapsed[t]]
  /\ UNCHANGED <<list, where, mode, cancelled, got>>

Next ==
  \/ \E t \in Threads :
       \/ \E n \in Nodes : \/ bt_queue_append(t, n)
                           \/ bt_queue_prepend(t, n)
                           \/ bt_queue_unique_append(t, n)
                           \/ bt_queue_remove(t, n)
       \/ bt_queue_cancel_wait(t)
       \/ \E how \in {"nowait", "forever", "timed"} : bt_queue_get(t, how)
       \/ Resume(t)
       \/ ResumeTimedOut(t)
       \/ Expire(t)
       \/ SpuriousWakeup(t)
  \/ Tick

(* A thread that has been woken gets the mutex and goes on; time passes.   *)
Fairness ==
  /\ \A t \in Threads : WF_vars(Resume(t)) /\ WF_vars(ResumeTimedOut(t)) /\ WF_vars(Expire(t))
  /\ WF_vars(Tick)

Spec == Init /\ [][Next]_vars /\ Fairness

-----------------------------------------------------------------------------
(* Properties.                                                             *)

(* A node in the queue never waits behind sleeping threads: while a thread *)
(* is blocked, there is a thread on its way back for every node.  One      *)
(* signal for each added node is enough, although threads that were not    *)
(* waiting, or whose wait timed out, take nodes too.                       *)
NoStrandedWaiter ==
  At("blocked") # {} => Len(list) <= Cardinality(Returning)

(* A node is in the queue at most once, also when bt_queue_unique_append   *)
(* is asked to add a node that may be there: the list holds its links.     *)
NodeOnce == \A i, j \in 1..Len(list) : list[i] = list[j] => i = j

(* How the threads in bt_queue_get wait, as the abstract queue sees them.  *)
Inside == [t \in Threads |-> IF where[t] = "idle" THEN "out" ELSE mode[t]]
Fifo == INSTANCE BlockingFifo WITH items <- list, inside <- Inside

(* The queue is the one its header promises: FIFO between append and get,  *)
(* a get returns the head, waits only while there is none, returns NULL    *)
(* only when there is none and never if it waits forever.                  *)
FifoSafe == Fifo!Safe

(* And a node that threads wait for is delivered.                          *)
FifoSpec == Fifo!Spec

(* bt_queue_get "blocks up to timeout if empty" (bt_queue.h).              *)
TimedGetBounded == \A t \in Threads : elapsed[t] <= Timeout

(* bt_queue_cancel_wait ends the waits it finds.                           *)
CancelEndsWait == \A t \in Threads : (t \in cancelled) ~> (t \notin cancelled)
=============================================================================
