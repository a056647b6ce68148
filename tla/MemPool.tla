------------------------------- MODULE MemPool -------------------------------
(***************************************************************************)
(* base/bt_mem_pool.c: pools of equal blocks.  A pool keeps its free       *)
(* blocks on a list, last freed first, and a semaphore of limit one that a *)
(* thread waits on when the list is empty.  One mutex guards all pools,    *)
(* and bt_mem_pool_alloc keeps it while it waits.                          *)
(*                                                                         *)
(* A failed assertion ends the process: no step follows it.                *)
(***************************************************************************)
EXTENDS Integers, Sequences, FiniteSets, SequencesExt

CONSTANTS
  Pools,
  NumBlocks,  (* info.num_blocks of every pool                              *)
  Threads,
  Timeouts,   (* the timeouts threads pass: "nowait", "timed", "forever"    *)
  NULL

VARIABLES
  freeList,  (* mpool->free_list                                            *)
  numUsed,   (* mpool->info.num_used                                        *)
  wait,      (* value of the semaphore mpool->wait                          *)
  lock,      (* the thread that keeps the mutex while it waits, or NULL     *)
  pc,        (* "idle", or at the mutex of alloc or free, or at os_sem_take *)
  arg,       (* the pool and timeout of an alloc, the block of a free       *)
  held       (* the blocks each thread has been given                       *)

vars == <<freeList, numUsed, wait, lock, pc, arg, held>>

Block      == Pools \X (1..NumBlocks)
PoolOf(b)  == b[1]

(* create_mem_pool_list links the blocks in the order of their addresses.  *)
Init ==
  /\ freeList = [p \in Pools |-> [i \in 1..NumBlocks |-> <<p, i>>]]
  /\ numUsed = [p \in Pools |-> 0]
  /\ wait = [p \in Pools |-> 0]
  /\ lock = NULL
  /\ pc = [t \in Threads |-> "idle"]
  /\ arg = [t \in Threads |-> NULL]
  /\ held = [t \in Threads |-> {}]

Alive == \A t \in Threads : pc[t] # "abort"

Return(t) ==
  /\ pc' = [pc EXCEPT ![t] = "idle"]
  /\ arg' = [arg EXCEPT ![t] = NULL]

(* A free block is taken off the list.                                     *)
TakeBlock(t, p) ==
  /\ held' = [held EXCEPT ![t] = @ \cup {Head(freeList[p])}]
  /\ freeList' = [freeList EXCEPT ![p] = Tail(@)]
  /\ numUsed' = [numUsed EXCEPT ![p] = @ + 1]
  /\ Return(t)

CallAlloc(t, p, timeout) ==
  /\ Alive /\ pc[t] = "idle" /\ timeout \in Timeouts
  /\ pc' = [pc EXCEPT ![t] = "alloc"]
  /\ arg' = [arg EXCEPT ![t] = <<p, timeout>>]
  /\ UNCHANGED <<freeList, numUsed, wait, lock, held>>

bt_mem_pool_alloc(t) ==
  /\ Alive /\ pc[t] = "alloc" /\ lock = NULL
  /\ LET p == arg[t][1] IN
       \/ /\ freeList[p] # <<>>
          /\ TakeBlock(t, p)
          /\ UNCHANGED <<wait, lock>>
       \/ /\ freeList[p] = <<>> /\ arg[t][2] = "nowait"
          /\ Return(t)
          /\ UNCHANGED <<freeList, numUsed, wait, lock, held>>
       \/ /\ freeList[p] = <<>> /\ arg[t][2] # "nowait"
          /\ pc' = [pc EXCEPT ![t] = "take"]
          /\ lock' = t
          /\ UNCHANGED <<freeList, numUsed, wait, arg, held>>

(* os_sem_take succeeds: the assertion, the block, the mutex.              *)
SemTaken(t) ==
  /\ Alive /\ pc[t] = "take" /\ wait[arg[t][1]] > 0
  /\ LET p == arg[t][1] IN
       /\ wait' = [wait EXCEPT ![p] = @ - 1]
       /\ \/ /\ freeList[p] # <<>>
             /\ TakeBlock(t, p)
             /\ lock' = NULL
          \/ /\ freeList[p] = <<>>
             /\ pc' = [pc EXCEPT ![t] = "abort"]
             /\ UNCHANGED <<freeList, numUsed, lock, arg, held>>

(* os_sem_take fails with ETIMEDOUT.                                       *)
SemTimedOut(t) ==
  /\ Alive /\ pc[t] = "take" /\ arg[t][2] = "timed" /\ wait[arg[t][1]] = 0
  /\ lock' = NULL
  /\ Return(t)
  /\ UNCHANGED <<freeList, numUsed, wait, held>>

CallFree(t, b) ==
  /\ Alive /\ pc[t] = "idle" /\ b \in held[t]
  /\ held' = [held EXCEPT ![t] = @ \ {b}]
  /\ pc' = [pc EXCEPT ![t] = "free"]
  /\ arg' = [arg EXCEPT ![t] = b]
  /\ UNCHANGED <<freeList, numUsed, wait, lock>>

(* The block is put back and not counted.                                  *)
FreeNotCounted(t) ==
  /\ Alive /\ pc[t] = "free" /\ lock = NULL
  /\ LET p == PoolOf(arg[t]) IN
       /\ freeList' = [freeList EXCEPT ![p] = Cons(arg[t], @)]
       /\ wait' = [wait EXCEPT ![p] = 1]
  /\ Return(t)
  /\ UNCHANGED <<numUsed, lock, held>>

(* The token is given whether or not a thread waits.                       *)
bt_mem_pool_free(t) ==
  /\ Alive /\ pc[t] = "free" /\ lock = NULL
  /\ LET p == PoolOf(arg[t]) IN
       /\ freeList' = [freeList EXCEPT ![p] = Cons(arg[t], @)]
       /\ numUsed' = [numUsed EXCEPT ![p] = @ - 1]
       /\ wait' = [wait EXCEPT ![p] = 1]
  /\ Return(t)
  /\ UNCHANGED <<lock, held>>

Next == \E t \in Threads :
  \/ \E p \in Pools, timeout \in Timeouts : CallAlloc(t, p, timeout)
  \/ bt_mem_pool_alloc(t)
  \/ SemTaken(t)
  \/ SemTimedOut(t)
  \/ \E b \in Block : CallFree(t, b)
  \/ bt_mem_pool_free(t)

(* A thread at the mutex gets it if it is released again and again, and a  *)
(* semaphore with a token, or a timeout, lets its thread go on.            *)
Fairness == \A t \in Threads :
  /\ SF_vars(bt_mem_pool_alloc(t)) /\ SF_vars(bt_mem_pool_free(t))
  /\ WF_vars(SemTaken(t)) /\ WF_vars(SemTimedOut(t))

Spec == Init /\ [][Next]_vars /\ Fairness

-----------------------------------------------------------------------------
(* Properties.                                                             *)

(* Every block is in exactly one place: once on the list of its own pool,  *)
(* in the hands of one thread, or on its way back; and num_used counts the *)
(* blocks of the pool that are not on its list.                            *)
PoolConserved ==
  /\ \A b \in Block :
       Cardinality({i \in 1..Len(freeList[PoolOf(b)]) : freeList[PoolOf(b)][i] = b})
         + Cardinality({t \in Threads : b \in held[t]})
         + Cardinality({t \in Threads : pc[t] = "free" /\ arg[t] = b}) = 1
  /\ \A p \in Pools :
       /\ \A i \in 1..Len(freeList[p]) : PoolOf(freeList[p][i]) = p
       /\ numUsed[p] = NumBlocks - Len(freeList[p])

(* A thread that has taken the token of the semaphore finds a free block:  *)
(* the assertion of bt_mem_pool_alloc.                                     *)
TokenMeansBlock == Alive

(* A block that a thread gives back reaches its pool.                      *)
FreeReturns == \A t \in Threads : (pc[t] = "free") ~> (pc[t] # "free")
=============================================================================
