---------------------------- MODULE BlockingFifo -----------------------------
(***************************************************************************)
(* What base/queue/bt_queue.h promises its users: a list of nodes that     *)
(* threads add to at either end, withdraw from and take the head of, and a *)
(* wait that ends with the head as soon as there is one.  There is no      *)
(* condition variable and no wakeup in it.                                 *)
(***************************************************************************)
EXTENDS Sequences, SequencesExt

CONSTANTS Nodes, Threads, NULL

VARIABLES
  items,   (* the nodes in the queue                                        *)
  inside,  (* "out", or how a thread in bt_queue_get waits                  *)
  got      (* what each thread's last bt_queue_get returned                 *)

vars == <<items, inside, got>>

Init ==
  /\ items = <<>>
  /\ inside = [t \in Threads |-> "out"]
  /\ got = [t \in Threads |-> NULL]

(* Append and prepend.                                                     *)
Add(n) ==
  /\ \A i \in 1..Len(items) : items[i] # n
  /\ items' \in {Append(items, n), Cons(n, items)}
  /\ UNCHANGED <<inside, got>>

Withdraw(i) ==
  /\ items' = RemoveAt(items, i)
  /\ UNCHANGED <<inside, got>>

(* A get, waiting or not, returns the head.                                *)
Take(t) ==
  /\ items # <<>>
  /\ items' = Tail(items)
  /\ got' = [got EXCEPT ![t] = Head(items)]
  /\ inside' = [inside EXCEPT ![t] = "out"]

(* A get waits only while there is nothing to take...                      *)
Wait(t, how) ==
  /\ items = <<>>
  /\ inside[t] = "out"
  /\ inside' = [inside EXCEPT ![t] = how]
  /\ UNCHANGED <<items, got>>

(* ...and returns NULL only then, and never if it waits forever.           *)
GiveUp(t) ==
  /\ items = <<>>
  /\ inside[t] # "forever"
  /\ got' = [got EXCEPT ![t] = NULL]
  /\ inside' = [inside EXCEPT ![t] = "out"]
  /\ UNCHANGED items

Next ==
  \/ \E n \in Nodes : Add(n)
  \/ \E i \in 1..Len(items) : Withdraw(i)
  \/ \E t \in Threads : \/ Take(t)
                        \/ \E how \in {"forever", "timed"} : Wait(t, how)
                        \/ GiveUp(t)

(* Some waiting thread takes a node that stays in the queue.               *)
Served == \E t \in Threads : inside[t] # "out" /\ Take(t)

Safe == Init /\ [][Next]_vars

Spec == Safe /\ WF_vars(Served)
=============================================================================
