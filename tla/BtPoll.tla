-------------------------------- MODULE BtPoll --------------------------------
(***************************************************************************)
(* base/bt_poll.c: a thread waits for one of several objects, each a       *)
(* signal or a queue.                                                      *)
(*                                                                         *)
(* bt_poll takes the module's mutex for each event it looks at, once more  *)
(* to decide, and keeps it while it waits on the semaphore of its poller   *)
(* and while it clears its registrations.  A section is a step, the wait   *)
(* and each round of the clearing one too; bt_poll_signal_raise is one.    *)
(* The events, and the poller, live on the stack of the caller of bt_poll, *)
(* who initializes them for each call: event i of thread p is <<p, i>>.    *)
(* bt_poll_handle_obj_events has no caller: bt_queue.c does not tell       *)
(* pollers of new data.                                                    *)
(***************************************************************************)
EXTENDS Integers, Sequences, SequencesExt

CONSTANTS
  Pollers,   (* the threads that call bt_poll                               *)
  Raisers,   (* the threads that raise signals                              *)
  Signals,
  Queues,
  EventsOf,  (* the objects of each poller's events, in order               *)
  Timeouts,  (* the timeouts pollers pass: "nowait", "timed", "forever"     *)
  NULL

VARIABLES
  signaled,   (* the signals whose field signaled is set                    *)
  data,       (* the queues that are not empty                              *)
  events,     (* poll_events of each object                                 *)
  attached,   (* the events whose field poller is set                       *)
  ready,      (* the events whose state is not NOT_READY                    *)
  lock,       (* the poller that has the mutex between two steps, or NULL   *)
  pc,         (* where a poller is in bt_poll                               *)
  timeout,    (* the timeout of its call                                    *)
  ii,         (* the next event to register, or to clear                    *)
  registered, (* events_registered                                          *)
  isPolling,  (* poller->is_polling                                         *)
  sem,        (* value of poller->sem                                       *)
  ret,        (* what the last bt_poll returned: "ok", "timeout" or NULL    *)
  raising,    (* the signal a raiser is about to raise, or NULL             *)
  unseen      (* history: the signals raised since a bt_poll reported them  *)

pollVars == <<timeout, ii, registered, isPolling, sem, ret>>
objVars  == <<signaled, data, events, attached, ready>>
vars     == <<objVars, lock, pc, pollVars, raising, unseen>>

Objects == Signals \cup Queues

Init ==
  /\ signaled = {} /\ data = {}
  /\ events = [o \in Objects |-> <<>>]
  /\ attached = {} /\ ready = {}
  /\ lock = NULL
  /\ pc = [p \in Pollers |-> "idle"]
  /\ timeout = [p \in Pollers |-> "nowait"]
  /\ ii = [p \in Pollers |-> 1]
  /\ registered = [p \in Pollers |-> 0]
  /\ isPolling = [p \in Pollers |-> FALSE]
  /\ sem = [p \in Pollers |-> 0]
  /\ ret = [p \in Pollers |-> NULL]
  /\ raising = [r \in Raisers |-> NULL]
  /\ unseen = {}

NumEvents(p) == Len(EventsOf[p])
Events(p)    == {<<p, i>> : i \in 1..NumEvents(p)}

-----------------------------------------------------------------------------
(* A new call, with fresh events and a fresh poller.                       *)
CallPoll(p, how) ==
  /\ pc[p] = "idle" /\ how \in Timeouts
  /\ pc' = [pc EXCEPT ![p] = "register"]
  /\ timeout' = [timeout EXCEPT ![p] = how]
  /\ ii' = [ii EXCEPT ![p] = 1]
  /\ registered' = [registered EXCEPT ![p] = 0]
  /\ isPolling' = [isPolling EXCEPT ![p] = TRUE]
  /\ sem' = [sem EXCEPT ![p] = 0]
  /\ ret' = [ret EXCEPT ![p] = NULL]
  /\ ready' = ready \ Events(p)
  /\ attached' = attached \ Events(p)
  /\ UNCHANGED <<signaled, data, events, lock, raising, unseen>>

is_condition_met(obj) == obj \in data \/ obj \in signaled

(* set_event_ready: the event has no poller any more, is ready, and its    *)
(* signal is reset.                                                        *)
set_event_ready(e, obj) ==
  /\ attached' = attached \ {e}
  /\ ready' = ready \cup {e}
  /\ signaled' = signaled \ {obj}

(* One round of the loop of register_events.                               *)
register_events(p) ==
  /\ pc[p] = "register" /\ lock = NULL /\ ii[p] <= NumEvents(p)
  /\ LET obj == EventsOf[p][ii[p]]
         e == <<p, ii[p]>>
     IN \/ /\ is_condition_met(obj)
           /\ set_event_ready(e, obj)
           /\ isPolling' = [isPolling EXCEPT ![p] = FALSE]
           /\ UNCHANGED <<events, registered>>
        \/ /\ ~is_condition_met(obj) /\ timeout[p] # "nowait" /\ isPolling[p]
           /\ events' = [events EXCEPT ![obj] = Append(@, e)]
           /\ attached' = attached \cup {e}
           /\ registered' = [registered EXCEPT ![p] = @ + 1]
           /\ UNCHANGED <<signaled, ready, isPolling>>
        \/ /\ ~is_condition_met(obj) /\ ~(timeout[p] # "nowait" /\ isPolling[p])
           /\ UNCHANGED <<signaled, events, attached, ready, isPolling, registered>>
  /\ ii' = [ii EXCEPT ![p] = @ + 1]
  /\ UNCHANGED <<data, lock, pc, timeout, sem, ret, raising, unseen>>

(* The last registered event is forgotten.                                 *)
ClearAllButLast(p) ==
  /\ lock' = p
  /\ pc' = [pc EXCEPT ![p] = "clear"]
  /\ ii' = [ii EXCEPT ![p] = registered[p] - 1]

(* The loop of clear_event_registrations, with the mutex: from the event   *)
(* registered last down to the first.                                      *)
clear_event_registrations(p) ==
  /\ lock' = p
  /\ pc' = [pc EXCEPT ![p] = "clear"]
  /\ ii' = [ii EXCEPT ![p] = registered[p]]

clear_event_registration(p) ==
  /\ pc[p] = "clear" /\ ii[p] > 0
  /\ LET e == <<p, ii[p]>>
         obj == EventsOf[p][ii[p]]
     IN /\ attached' = attached \ {e}
        /\ \/ (\A k \in 1..Len(events[obj]) : events[obj][k] # e) /\ UNCHANGED events
           \/ \E k \in 1..Len(events[obj]) :
                events[obj][k] = e /\ events' = [events EXCEPT ![obj] = RemoveAt(@, k)]
  /\ ii' = [ii EXCEPT ![p] = @ - 1]
  /\ UNCHANGED <<signaled, data, ready, lock, pc, timeout, registered, isPolling, sem, ret,
                 raising, unseen>>

(* bt_poll returns; a caller that is told "ok" looks at its ready events.  *)
Return(p, r) ==
  /\ pc' = [pc EXCEPT ![p] = "idle"]
  /\ ret' = [ret EXCEPT ![p] = r]
  /\ unseen' = IF r = "ok" THEN unseen \ {EventsOf[p][e[2]] : e \in ready \cap Events(p)}
                           ELSE unseen

(* The loop ends, the mutex is released.                                   *)
Cleared(p) ==
  /\ pc[p] = "clear" /\ ii[p] = 0
  /\ lock' = NULL
  /\ Return(p, ret[p])
  /\ UNCHANGED <<objVars, timeout, ii, registered, isPolling, sem, raising>>

(* After registration: return if an event is ready, or do not wait, or     *)
(* wait with the mutex.                                                    *)
Decide(p) ==
  /\ pc[p] = "register" /\ lock = NULL /\ ii[p] > NumEvents(p)
  /\ \/ /\ ~isPolling[p]
        /\ clear_event_registrations(p)
        /\ ret' = [ret EXCEPT ![p] = "ok"]
        /\ UNCHANGED <<isPolling, unseen>>
     \/ /\ isPolling[p] /\ timeout[p] = "nowait"
        /\ Return(p, "ok")
        /\ isPolling' = [isPolling EXCEPT ![p] = FALSE]
        /\ UNCHANGED <<lock, ii>>
     \/ /\ isPolling[p] /\ timeout[p] # "nowait"
        /\ isPolling' = [isPolling EXCEPT ![p] = FALSE]
        /\ lock' = p
        /\ pc' = [pc EXCEPT ![p] = "wait"]
        /\ UNCHANGED <<ii, ret, unseen>>
  /\ UNCHANGED <<objVars, timeout, registered, sem, raising>>

(* os_sem_take returns and the mutex is released.                          *)
Waited(p) ==
  /\ pc[p] = "wait" /\ (sem[p] = 1 \/ timeout[p] = "timed")
  /\ ret' = [ret EXCEPT ![p] = IF sem[p] = 1 THEN "ok" ELSE "timeout"]
  /\ sem' = [sem EXCEPT ![p] = 0]
  /\ lock' = NULL
  /\ pc' = [pc EXCEPT ![p] = "waited"]
  /\ UNCHANGED <<objVars, timeout, ii, registered, isPolling, raising, unseen>>

Clear(p) ==
  /\ pc[p] = "waited" /\ lock = NULL
  /\ clear_event_registrations(p)
  /\ UNCHANGED <<objVars, timeout, registered, isPolling, sem, ret, raising, unseen>>

-----------------------------------------------------------------------------
CallRaise(r, s) ==
  /\ raising[r] = NULL
  /\ raising' = [raising EXCEPT ![r] = s]
  /\ UNCHANGED <<objVars, lock, pc, pollVars, unseen>>

(* signal_poll_event for an event taken off the list of the signal.        *)
signal_poll_event(e, s) ==
  IF e \in attached
    THEN /\ set_event_ready(e, s)
         /\ sem' = [sem EXCEPT ![e[1]] = 1]
         /\ isPolling' = [isPolling EXCEPT ![e[1]] = FALSE]
    ELSE /\ signaled' = signaled \cup {s}
         /\ UNCHANGED <<attached, ready, sem, isPolling>>

bt_poll_signal_raise(r) ==
  /\ raising[r] # NULL /\ lock = NULL
  /\ LET s == raising[r] IN
       /\ unseen' = unseen \cup {s}
       /\ \/ /\ events[s] = <<>>
             /\ signaled' = signaled \cup {s}
             /\ UNCHANGED <<events, attached, ready, sem, isPolling>>
          \/ /\ events[s] # <<>>
             /\ events' = [events EXCEPT ![s] = Tail(@)]
             /\ signal_poll_event(Head(events[s]), s)
  /\ raising' = [raising EXCEPT ![r] = NULL]
  /\ UNCHANGED <<data, lock, pc, timeout, ii, registered, ret>>

(* Others fill and empty the queues; bt_queue.c has its own mutex.         *)
QueueChanges(q) ==
  /\ data' \in {data \cup {q}, data \ {q}}
  /\ UNCHANGED <<signaled, events, attached, ready, lock, pc, pollVars, raising, unseen>>

Next ==
  \/ \E p \in Pollers : \/ \E how \in Timeouts : CallPoll(p, how)
                        \/ register_events(p)
                        \/ Decide(p)
                        \/ Waited(p)
                        \/ Clear(p)
                        \/ clear_event_registration(p)
                        \/ Cleared(p)
  \/ \E r \in Raisers : (\E s \in Signals : CallRaise(r, s)) \/ bt_poll_signal_raise(r)
  \/ \E q \in Queues : QueueChanges(q)

(* Threads run, waits time out, and no thread is kept from a mutex that is *)
(* released again and again.                                               *)
Fairness ==
  /\ \A p \in Pollers : /\ SF_vars(register_events(p)) /\ SF_vars(Decide(p))
                        /\ SF_vars(Clear(p)) /\ WF_vars(Waited(p))
                        /\ WF_vars(clear_event_registration(p)) /\ WF_vars(Cleared(p))
  /\ \A r \in Raisers : SF_vars(bt_poll_signal_raise(r))

Spec == Init /\ [][Next]_vars /\ Fairness

-----------------------------------------------------------------------------
(* Properties.                                                             *)

(* The list of an object never holds an event of a call that has returned, *)
(* which lived on its caller's stack: an event on a list belongs to a call *)
(* in progress, that has registered it, once, and points to its poller.    *)
NoStaleEvent ==
  \A o \in Objects : \A k \in 1..Len(events[o]) :
    LET e == events[o][k] IN
      /\ pc[e[1]] # "idle"
      /\ e[2] <= registered[e[1]] /\ EventsOf[e[1]][e[2]] = o
      /\ e \in attached
      /\ \A j \in 1..Len(events[o]) : events[o][j] = e => j = k

(* A bt_poll that may wait and returns 0 has an event for its caller.      *)
OkMeansReady ==
  \A p \in Pollers :
    pc[p] = "idle" /\ ret[p] = "ok" /\ timeout[p] # "nowait" => ready \cap Events(p) # {}

(* A poll leaves nothing behind and returns success for a reason.          *)
PollExact == NoStaleEvent /\ OkMeansReady

(* A raised signal stays raised until a caller of bt_poll has been told of *)
(* it: when no call is in progress, what nobody has seen is still there.   *)
NoLostSignal ==
  (\A p \in Pollers : pc[p] = "idle") => unseen \subseteq signaled

(* bt_poll_signal_raise returns.                                           *)
RaiseReturns == \A r \in Raisers : (raising[r] # NULL) ~> (raising[r] = NULL)

(* A bt_poll that waits returns when a queue it polls has data.            *)
PollSeesData ==
  \A p \in Pollers, q \in Queues :
    (pc[p] = "wait" /\ q \in data /\ \E i \in 1..NumEvents(p) : EventsOf[p][i] = q)
      ~> (pc[p] # "wait" \/ q \notin data)
=============================================================================
