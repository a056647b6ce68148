------------------------------ MODULE MCBtQueue ------------------------------
(* Instances of BaseQueue: who makes which calls.                          *)
EXTENDS BaseQueue, TLC

CONSTANTS t1, t2, t3

(* Every thread may make every call.                                       *)
AllCalls == Threads \X {"append", "prepend", "unique_append", "cancel_wait", "remove",
                        "get_nowait", "get_forever", "get_timed"}

(* Two consumers, one of them timed.                                       *)
TwoConsumersCalls == ({t1} \X {"append", "get_nowait"}) \cup ({t2} \X {"get_timed"})

CancelCalls == ({t1} \X {"append", "cancel_wait"}) \cup ({t2} \X {"get_forever"})
=============================================================================
