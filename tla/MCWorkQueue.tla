----------------------------- MODULE MCWorkQueue -----------------------------
(* Instances of WorkQueue: who makes which calls.                           *)
EXTENDS WorkQueue, TLC

CONSTANTS c1, c2

(* A delayable item; one of the two threads cancels and waits.              *)
DelayCalls ==
  ({c1} \X {"start", "schedule", "reschedule", "flush_delayable", "cancel_delayable_sync"})
    \cup ({c2} \X {"submit", "schedule", "reschedule", "flush_delayable"})
    \cup (Queues \X {"reschedule", "cancel_delayable"})

(* Two threads use plain items on two queues, whose life one of them owns;  *)
(* handlers submit and cancel.                                              *)
AllCalls ==
  (Clients \X {"submit", "flush", "cancel", "cancel_sync"})
    \cup ({c1} \X {"start", "drain", "plug", "unplug", "stop", "stop_nowait"})
    \cup (Queues \X {"submit", "cancel"})

(* Two threads drain, cancel, or stop and drain, the same object.           *)
DrainCalls == (Clients \X {"drain", "submit"}) \cup ({c1} \X {"start"})

CancelCalls == (Clients \X {"cancel_sync"}) \cup ({c1} \X {"start", "submit"})

TwoOwnersCalls == ({c1} \X {"start", "plug", "stop"}) \cup ({c2} \X {"submit", "drain"})

QueueSymmetry == Permutations(Queues) \cup Permutations(Works)
=============================================================================
