------------------------------ MODULE BaseQueue ------------------------------
(* The blocking queue of base/ with state and constants of its own, so that *)
(* it can stand beside the parts of module Base.                            *)
CONSTANTS QueueNodes, Threads, Calls, Spurious, Timeout, NoNode

VARIABLES queue, where, mode, waited, elapsed, cancelled, got

Queue == INSTANCE BtQueue WITH Nodes <- QueueNodes, NULL <- NoNode, list <- queue

(* Finitely many threads make the calls they may make, NULL is no node and  *)
(* a timeout is at least a tick.                                            *)
ASSUME QueueAssumption == Queue!ConstantsOK

QueueSpec == Queue!Spec

(* While a thread is blocked in bt_queue_get another one is on its way back *)
(* for every node in the queue: no signal is lost or stolen for good.       *)
NoStrandedWaiter == Queue!NoStrandedWaiter

(* bt_queue.c implements BlockingFifo: FIFO order, NULL only from an empty  *)
(* queue and never from a get that waits forever; first without and then    *)
(* with the delivery of nodes that threads wait for.                        *)
FifoSafe == Queue!FifoSafe
FifoSpec == Queue!FifoSpec

(* bt_queue_get "blocks up to timeout if empty" (bt_queue.h).               *)
TimedGetBounded == Queue!TimedGetBounded

(* bt_queue_cancel_wait ends the waits it finds.                            *)
CancelEndsWait == Queue!CancelEndsWait
=============================================================================
