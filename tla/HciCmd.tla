-------------------------------- MODULE HciCmd --------------------------------
(***************************************************************************)
(* The path of HCI commands through bluetooth/host/hci_core.c: threads     *)
(* queue commands and may wait for the answer; tx_processor, on the main   *)
(* work queue, sends one when the controller allows it; the receive thread *)
(* of the driver matches the answer with sent_cmd, wakes the waiting       *)
(* thread and takes the permission to send the next one.                   *)
(*                                                                         *)
(* A handler of the main work queue may send a command and wait, too: it   *)
(* then sends what is queued itself.  The work item tx_work is one flag    *)
(* here, as WorkQueue shows.  bt_buf_unref loads the count and stores it   *)
(* without a lock, and a command has up to three threads that release it   *)
(* at about the same time: the driver's writer, the receive thread and the *)
(* thread it wakes.  The controller is external: it answers in order and   *)
(* never allows more commands than it has slots for.                       *)
(***************************************************************************)
EXTENDS Integers, Sequences, FiniteSets

CONSTANTS
  Callers,   (* threads that send commands                                  *)
  WQ,        (* the thread of main_work_q                                   *)
  Bufs,      (* hci_cmd_pool                                                *)
  Opcodes,
  Slots,     (* commands the controller can hold                            *)
  Strays,    (* opcodes of commands nobody sends and the controller answers *)
  WqSends,   (* do handlers of the main work queue send commands and wait?  *)
  Envs,      (* sets of what may happen: the driver fails ("fail"), strays  *)
             (* are answered ("stray"), threads do not wait ("async")       *)
  MaxEvents, (* bound on the events on their way to the host                *)
  NULL

ASSUME ConstantsAssumption ==
  /\ Slots \in Nat \ {0} /\ MaxEvents \in Nat \ {0}
  /\ WqSends \in BOOLEAN /\ Envs \subseteq SUBSET {"fail", "stray", "async"}
  /\ WQ \notin Callers /\ (Callers \cup {WQ}) \cap {"rx", "tx"} = {}
  /\ Strays \cap Opcodes = {}
  /\ NULL \notin Bufs \cup Opcodes \cup Strays \cup Callers \cup {WQ, "rx", "tx"}

VARIABLES
  env,      (* what may happen; never changes                               *)
  ref,      (* the references of each command buffer, 0 if it is free       *)
  old,      (* the count a thread has loaded in bt_buf_unref, or 0          *)
  opcode,   (* cmd(buf)->opcode                                             *)
  sync,     (* the thread whose semaphore cmd(buf)->sync is, or NULL        *)
  queue,    (* bt_dev.cmd_tx_queue                                          *)
  sent,     (* bt_dev.sent_cmd                                              *)
  ncmd,     (* value of bt_dev.ncmd_sem                                     *)
  txQueued, (* is tx_work queued?                                           *)
  pc,       (* where a thread is in bt_hci_cmd_send or ..._send_sync        *)
  want,     (* the opcode it sends, and whether it waits for the answer     *)
  buf,      (* its command                                                  *)
  given,    (* the threads whose semaphore has been given                   *)
  tx,       (* where the main work queue is in process_pending_cmd          *)
  cur,      (* the command it sends                                         *)
  rx,       (* where the receive thread is with its event                   *)
  evt,      (* that event                                                   *)
  done,     (* where each of the two is in hci_cmd_done, and its command    *)
  ctl,      (* the commands the controller works on                         *)
  allowed,  (* commands it has allowed and not yet received                 *)
  evts      (* the events on their way                                      *)

hostVars == <<env, ref, old, opcode, sync, queue, sent, ncmd, txQueued>>
callVars == <<pc, want, buf, given>>
txVars   == <<tx, cur>>
rxVars   == <<rx, evt>>
ctlVars  == <<ctl, allowed, evts>>
vars     == <<hostVars, callVars, txVars, rxVars, done, ctlVars>>

Threads == Callers \cup {WQ}
Actors  == {"rx", "tx"}
Users   == Threads \cup Actors
NotDone == [at |-> "no", op |-> NULL, buf |-> NULL]
NoWant  == [op |-> NULL, wait |-> FALSE]
NoEvent == [op |-> NULL, ncmd |-> 0]

(* bt_enable: one command is allowed, or none before the first event.      *)
Init ==
  /\ env \in Envs
  /\ ref = [b \in Bufs |-> 0]
  /\ old = [u \in Users |-> 0]
  /\ opcode = [b \in Bufs |-> NULL]
  /\ sync = [b \in Bufs |-> NULL]
  /\ queue = <<>> /\ sent = NULL
  /\ ncmd \in {0, 1} /\ allowed = ncmd
  /\ txQueued = FALSE
  /\ pc = [t \in Threads |-> "idle"]
  /\ want = [t \in Threads |-> NoWant]
  /\ buf = [t \in Threads |-> NULL]
  /\ given = {}
  /\ tx = "off" /\ cur = NULL
  /\ rx = "idle" /\ evt = NoEvent
  /\ done = [a \in Actors |-> NotDone]
  /\ ctl = <<>> /\ evts = <<>>

-----------------------------------------------------------------------------
(* A thread, or a handler of the main work queue, sends a command.         *)
CallSend(t, op, wait) ==
  /\ pc[t] = "idle"
  /\ wait \/ "async" \in env
  /\ t = WQ => WqSends /\ wait /\ tx = "off"
  /\ pc' = [pc EXCEPT ![t] = "alloc"]
  /\ want' = [want EXCEPT ![t] = [op |-> op, wait |-> wait]]
  /\ UNCHANGED <<hostVars, buf, given, txVars, rxVars, done, ctlVars>>

(* bt_hci_cmd_send and bt_hci_cmd_send_sync up to bt_fifo_put: a buffer is *)
(* waited for; a thread that wants the answer keeps a reference.           *)
bt_hci_cmd_send(t, b) ==
  LET wait == want[t].wait IN
  /\ pc[t] = "alloc" /\ ref[b] = 0
  /\ ref' = [ref EXCEPT ![b] = IF wait THEN 2 ELSE 1]
  /\ opcode' = [opcode EXCEPT ![b] = want[t].op]
  /\ sync' = [sync EXCEPT ![b] = IF wait THEN t ELSE NULL]
  /\ queue' = Append(queue, b)
  /\ pc' = [pc EXCEPT ![t] = "raise"]
  /\ buf' = [buf EXCEPT ![t] = IF wait THEN b ELSE NULL]
  /\ UNCHANGED <<env, old, sent, ncmd, txQueued, want, given, txVars, rxVars, done, ctlVars>>

(* bt_tx_irq_raise; the main work queue goes on to send what is queued.    *)
RaiseTx(t) ==
  /\ pc[t] = "raise"
  /\ txQueued' = TRUE
  /\ pc' = [pc EXCEPT ![t] = IF ~want[t].wait THEN "idle"
                             ELSE IF t = WQ THEN "drain" ELSE "wait"]
  /\ want' = [want EXCEPT ![t] = NoWant]
  /\ UNCHANGED <<env, ref, old, opcode, sync, queue, sent, ncmd, buf, given, txVars, rxVars, done, ctlVars>>

(* The command a thread has come to release: the caller after the answer,  *)
(* hci_cmd_done, and the driver or hci_core_send_cmd after bt_send.        *)
Releasing(u) ==
  IF u \in Threads THEN IF pc[u] = "wait" /\ u \in given THEN buf[u] ELSE NULL
  ELSE IF done[u].at = "unref" THEN done[u].buf
  ELSE IF u = "tx" /\ (tx = "unref" \/ (tx = "failed" /\ done["tx"].at = "no")) THEN cur
  ELSE NULL

(* bt_buf_unref loads the count; the steps that release the command store  *)
(* one less, whatever the count is by then.                                *)
LoadRef(u) ==
  /\ old[u] = 0 /\ Releasing(u) # NULL
  /\ old' = [old EXCEPT ![u] = ref[Releasing(u)]]
  /\ UNCHANGED <<env, ref, opcode, sync, queue, sent, ncmd, txQueued, callVars, txVars,
                 rxVars, done, ctlVars>>

StoreRef(u, b) == [ref EXCEPT ![b] = old[u] - 1]

(* The semaphore is given: the caller looks at the answer and releases it. *)
TakeAnswer(t) ==
  /\ pc[t] = "wait" /\ t \in given /\ old[t] > 0
  /\ given' = given \ {t}
  /\ ref' = StoreRef(t, buf[t])
  /\ old' = [old EXCEPT ![t] = 0]
  /\ pc' = [pc EXCEPT ![t] = "idle"]
  /\ buf' = [buf EXCEPT ![t] = NULL]
  /\ UNCHANGED <<env, opcode, sync, queue, sent, ncmd, txQueued, want, txVars, rxVars, done,
                 ctlVars>>

-----------------------------------------------------------------------------
(* The main work queue.                                                    *)
tx_processor ==
  /\ pc[WQ] = "idle" /\ tx = "off" /\ txQueued
  /\ txQueued' = FALSE
  /\ tx' = "check"
  /\ UNCHANGED <<env, ref, old, opcode, sync, queue, sent, ncmd, callVars, cur, rxVars, done, ctlVars>>

(* The loop of bt_hci_cmd_send_sync on the main work queue.                *)
Drain ==
  /\ pc[WQ] = "drain" /\ tx = "off"
  /\ IF cur = buf[WQ]
       THEN pc' = [pc EXCEPT ![WQ] = "wait"] /\ cur' = NULL /\ UNCHANGED tx
       ELSE tx' = "check" /\ UNCHANGED <<pc, cur>>
  /\ UNCHANGED <<hostVars, want, buf, given, rxVars, done, ctlVars>>

(* process_pending_cmd takes the permission and the first command; without *)
(* a command or, in tx_processor, without permission it returns.           *)
process_pending_cmd ==
  /\ tx = "check"
  /\ \/ /\ queue # <<>> /\ ncmd = 1
        /\ ncmd' = 0
        /\ cur' = Head(queue)
        /\ queue' = Tail(queue)
        /\ tx' = "clear"
     \/ /\ queue = <<>> \/ ncmd = 0
        /\ pc[WQ] = "idle"
        /\ tx' = "off"
        /\ UNCHANGED <<ncmd, cur, queue>>
  /\ UNCHANGED <<env, ref, old, opcode, sync, sent, txQueued, callVars, rxVars, done, ctlVars>>

(* hci_core_send_cmd: an answer that is still expected is forgotten,       *)
ClearSent ==
  /\ tx = "clear"
  /\ ref' = IF sent # NULL THEN [ref EXCEPT ![sent] = @ - 1] ELSE ref
  /\ sent' = NULL
  /\ tx' = "set"
  /\ UNCHANGED <<env, old, opcode, sync, queue, ncmd, txQueued, callVars, cur, rxVars, done, ctlVars>>

(* Without a reference of its own,                                         *)
SetUncounted ==
  /\ tx = "set"
  /\ sent' = cur
  /\ tx' = "write"
  /\ UNCHANGED <<env, ref, old, opcode, sync, queue, ncmd, txQueued, callVars, cur, rxVars, done, ctlVars>>

(* the command becomes the one whose answer is expected,                   *)
SetSent ==
  /\ tx = "set"
  /\ sent' = cur
  /\ ref' = [ref EXCEPT ![cur] = @ + 1]
  /\ tx' = "write"
  /\ UNCHANGED <<env, old, opcode, sync, queue, ncmd, txQueued, callVars, cur, rxVars, done, ctlVars>>

(* and is given to the driver; if that fails it is done with an error.     *)
bt_send ==
  /\ tx = "write"
  /\ \/ /\ ctl' = Append(ctl, cur)
        /\ allowed' = allowed - 1
        /\ tx' = "unref"
        /\ UNCHANGED <<ncmd, done>>
     \/ /\ "fail" \in env
        /\ ncmd' = 1
        /\ done' = [done EXCEPT !["tx"] = [at |-> "take", op |-> opcode[cur], buf |-> NULL]]
        /\ tx' = "failed"
        /\ UNCHANGED <<ctl, allowed>>
  /\ UNCHANGED <<env, ref, old, opcode, sync, queue, sent, txQueued, callVars, cur, rxVars, evts>>

(* The driver, or hci_core_send_cmd after an error, releases the command,  *)
(* and tx_processor, or hci_core_send_cmd after an error, submits tx_work. *)
CommandSent ==
  /\ tx = "unref" \/ (tx = "failed" /\ done["tx"].at = "no")
  /\ old["tx"] > 0
  /\ ref' = StoreRef("tx", cur)
  /\ old' = [old EXCEPT !["tx"] = 0]
  /\ txQueued' = (txQueued \/ tx = "failed" \/ pc[WQ] = "idle")
  /\ cur' = IF pc[WQ] = "idle" THEN NULL ELSE cur
  /\ tx' = "off"
  /\ UNCHANGED <<env, opcode, sync, queue, sent, ncmd, callVars, rxVars, done, ctlVars>>

-----------------------------------------------------------------------------
(* hci_cmd_done, in the receive thread or, after an error, in the main     *)
(* work queue: it takes the expected command,                              *)
TakeSent(a) ==
  /\ done[a].at = "take"
  /\ done' = [done EXCEPT ![a] = IF sent = NULL THEN NotDone
                                 ELSE [at |-> "match", op |-> done[a].op, buf |-> sent]]
  /\ sent' = NULL
  /\ UNCHANGED <<env, ref, old, opcode, sync, queue, ncmd, txQueued, callVars, txVars, rxVars, ctlVars>>

(* Any answer is good enough.                                              *)
AnyAnswer(a) ==
  /\ done[a].at = "match"
  /\ given' = given \cup ({sync[done[a].buf]} \ {NULL})
  /\ done' = [done EXCEPT ![a].at = "unref"]
  /\ UNCHANGED <<hostVars, pc, want, buf, txVars, rxVars, ctlVars>>

(* puts it back if the answer is for another one,                          *)
PutBack(a) ==
  /\ done[a].at = "match" /\ opcode[done[a].buf] # done[a].op
  /\ sent' = done[a].buf
  /\ done' = [done EXCEPT ![a] = IF sent = NULL THEN NotDone ELSE [@ EXCEPT !.at = "abort"]]
  /\ UNCHANGED <<env, ref, old, opcode, sync, queue, ncmd, txQueued, callVars, txVars, rxVars, ctlVars>>

(* or gives the answer to the thread that waits,                           *)
WakeCaller(a) ==
  /\ done[a].at = "match" /\ opcode[done[a].buf] = done[a].op
  /\ given' = given \cup ({sync[done[a].buf]} \ {NULL})
  /\ done' = [done EXCEPT ![a].at = "unref"]
  /\ UNCHANGED <<hostVars, pc, want, buf, txVars, rxVars, ctlVars>>

(* and releases it.                                                        *)
ReleaseSent(a) ==
  /\ done[a].at = "unref" /\ old[a] > 0
  /\ ref' = StoreRef(a, done[a].buf)
  /\ old' = [old EXCEPT ![a] = 0]
  /\ done' = [done EXCEPT ![a] = NotDone]
  /\ UNCHANGED <<env, opcode, sync, queue, sent, ncmd, txQueued, callVars, txVars, rxVars, ctlVars>>

(* hci_cmd_complete and hci_cmd_status: an event without an opcode only    *)
(* allows commands.                                                        *)
hci_cmd_complete ==
  /\ rx = "idle" /\ evts # <<>>
  /\ evt' = Head(evts)
  /\ evts' = Tail(evts)
  /\ rx' = "done"
  /\ done' = [done EXCEPT !["rx"] = IF Head(evts).op = NULL THEN NotDone
                 ELSE [at |-> "take", op |-> Head(evts).op, buf |-> NULL]]
  /\ UNCHANGED <<hostVars, callVars, txVars, ctl, allowed>>

(* After hci_cmd_done the permission is given,                             *)
AllowNext ==
  /\ rx = "done" /\ done["rx"].at = "no"
  /\ IF evt.ncmd = 1 THEN ncmd' = 1 /\ rx' = "raise" /\ UNCHANGED evt
                     ELSE rx' = "idle" /\ evt' = NoEvent /\ UNCHANGED ncmd
  /\ UNCHANGED <<env, ref, old, opcode, sync, queue, sent, txQueued, callVars, txVars, done, ctlVars>>

(* The transmitter is not told of the permission.                          *)
NotRaised ==
  /\ rx = "raise"
  /\ rx' = "idle" /\ evt' = NoEvent
  /\ UNCHANGED <<hostVars, callVars, txVars, done, ctlVars>>

(* and tx_work is submitted.                                               *)
RaiseRx ==
  /\ rx = "raise"
  /\ txQueued' = TRUE
  /\ rx' = "idle" /\ evt' = NoEvent
  /\ UNCHANGED <<env, ref, old, opcode, sync, queue, sent, ncmd, callVars, txVars, done, ctlVars>>

-----------------------------------------------------------------------------
(* The controller answers its first command and allows another one, or     *)
(* allows one later.                                                       *)
Answer(n) ==
  /\ ctl # <<>> /\ Len(evts) < MaxEvents
  /\ n = 1 => allowed = 0 /\ Len(ctl) <= Slots
  /\ evts' = Append(evts, [op |-> opcode[Head(ctl)], ncmd |-> n])
  /\ ctl' = Tail(ctl)
  /\ allowed' = allowed + n
  /\ UNCHANGED <<hostVars, callVars, txVars, rxVars, done>>

Allow ==
  /\ allowed = 0 /\ Len(ctl) < Slots /\ Len(evts) < MaxEvents
  /\ evts' = Append(evts, [op |-> NULL, ncmd |-> 1])
  /\ allowed' = 1
  /\ UNCHANGED <<hostVars, callVars, txVars, rxVars, done, ctl>>

(* It answers a command that was not sent.                                 *)
Stray(op) ==
  /\ "stray" \in env /\ Len(evts) < MaxEvents
  /\ evts' = Append(evts, [op |-> op, ncmd |-> 0])
  /\ UNCHANGED <<hostVars, callVars, txVars, rxVars, done, ctl, allowed>>

Next ==
  \/ \E t \in Threads :
       \/ \E op \in Opcodes, wait \in BOOLEAN : CallSend(t, op, wait)
       \/ \E b \in Bufs : bt_hci_cmd_send(t, b)
       \/ RaiseTx(t) \/ TakeAnswer(t)
  \/ \E u \in Users : LoadRef(u)
  \/ tx_processor \/ Drain \/ process_pending_cmd
  \/ ClearSent \/ SetSent \/ bt_send \/ CommandSent
  \/ \E a \in Actors : TakeSent(a) \/ PutBack(a) \/ WakeCaller(a) \/ ReleaseSent(a)
  \/ hci_cmd_complete \/ AllowNext \/ RaiseRx
  \/ \E n \in {0, 1} : Answer(n)
  \/ Allow
  \/ \E op \in Strays : Stray(op)

(* The threads run, the free buffers do not always go to the same one, and *)
(* the controller answers and allows commands.                             *)
Fairness ==
  /\ \A t \in Threads : /\ SF_vars(\E b \in Bufs : bt_hci_cmd_send(t, b))
                        /\ WF_vars(RaiseTx(t)) /\ WF_vars(TakeAnswer(t))
  /\ \A u \in Users : WF_vars(LoadRef(u))
  /\ WF_vars(tx_processor) /\ WF_vars(Drain) /\ WF_vars(process_pending_cmd)
  /\ WF_vars(ClearSent) /\ WF_vars(SetSent) /\ WF_vars(bt_send) /\ WF_vars(CommandSent)
  /\ \A a \in Actors : /\ WF_vars(TakeSent(a)) /\ WF_vars(PutBack(a))
                       /\ WF_vars(WakeCaller(a)) /\ WF_vars(ReleaseSent(a))
  /\ WF_vars(hci_cmd_complete) /\ WF_vars(AllowNext) /\ WF_vars(RaiseRx)
  /\ WF_vars(\E n \in {0, 1} : Answer(n)) /\ WF_vars(Allow)

Spec == Init /\ [][Next]_vars /\ Fairness

-----------------------------------------------------------------------------
(* Properties.                                                             *)

Sending == tx \in {"clear", "set", "write", "unref", "failed"}

(* One command at a time is with the controller: tx_processor never finds  *)
(* sent_cmd still set, and what the controller works on is expected, also  *)
(* while the receive thread holds it to compare.                           *)
OneExpected ==
  /\ tx \in {"clear", "set"} => sent = NULL /\ ctl = <<>>
  /\ Len(ctl) <= 1
  /\ \A i \in 1..Len(ctl) : ctl[i] = sent \/ done["rx"].buf = ctl[i]
  /\ \A a \in Actors : done[a].at # "abort"

(* Those who refer to a command buffer: the queue, the transmitter and the *)
(* driver, sent_cmd or who has taken it from there, and the thread that    *)
(* waits, until each has stored the count.                                 *)
Holders(b) == Cardinality({i \in 1..Len(queue) : queue[i] = b})
              + (IF Sending /\ cur = b THEN 1 ELSE 0)
              + (IF sent = b THEN 1 ELSE 0)
              + Cardinality({a \in Actors : done[a].buf = b})
              + Cardinality({t \in Threads : buf[t] = b})

(* Although threads lose each other's updates of the count, no command is  *)
(* freed, or given to the next caller, while the queue, the transmitter,   *)
(* sent_cmd, hci_cmd_done or a waiting thread refers to it.                *)
RefsCover == \A b \in Bufs : ref[b] >= Holders(b)

(* The count is the number of those who refer to the buffer: none is kept  *)
(* for ever (bt_buf.c, 355).                                               *)
RefsExact == \A b \in Bufs : ref[b] = Holders(b)

(* A thread is woken by the answer to its own command: when its semaphore  *)
(* is given, the command has left the queue and the controller, and nobody *)
(* expects an answer to it any more.                                       *)
OwnAnswer ==
  \A t \in given :
    /\ pc[t] \in {"raise", "drain", "wait"}
    /\ \A i \in 1..Len(queue) : queue[i] # buf[t]
    /\ \A i \in 1..Len(ctl) : ctl[i] # buf[t]
    /\ sent # buf[t]
    /\ tx \in {"clear", "set", "write"} => cur # buf[t]

(* A thread that waits is not forgotten: its command is queued, is being   *)
(* sent, or is the one whose answer is expected.                           *)
NotForgotten ==
  \A t \in Threads :
    pc[t] = "wait" /\ t \notin given =>
      \/ \E i \in 1..Len(queue) : queue[i] = buf[t]
      \/ tx \in {"clear", "set"} /\ cur = buf[t]
      \/ sent = buf[t]
      \/ \E a \in Actors : done[a].buf = buf[t]

(* Answers reach who asked: one is expected at a time, it wakes the thread *)
(* whose command it answers, and no thread waits for one that cannot come. *)
AnswersMatch == OneExpected /\ OwnAnswer /\ NotForgotten

(* A command that may be sent is not forgotten: tx_work is queued or runs, *)
(* or somebody is about to submit it.                                      *)
NoLostKick ==
  queue # <<>> /\ ncmd = 1 =>
    txQueued \/ tx # "off" \/ rx = "raise" \/ \E t \in Threads : pc[t] \in {"raise", "drain"}

(* The loop on the main work queue finds its command before the queue is   *)
(* empty, so that its assertion holds.                                     *)
DrainFindsCommand == ~(tx = "check" /\ pc[WQ] = "drain" /\ queue = <<>>)

(* The command queue moves: a command that may go has somebody to send it, *)
(* and the loop that sends the commands of others finds its own.           *)
QueueMoves == NoLostKick /\ DrainFindsCommand

(* bt_hci_cmd_send and bt_hci_cmd_send_sync return, also if the driver     *)
(* fails, for threads that wait for their answers (others may take every   *)
(* buffer) and until a lost update has cost the pool a buffer.             *)
SendReturns ==
  \A t \in Threads :
    (pc[t] # "idle" /\ env \subseteq {"fail"}) ~> (pc[t] = "idle" \/ ~RefsExact)

(* They return whatever other threads do.                                  *)
CallsReturn == \A t \in Threads : pc[t] # "idle" ~> pc[t] = "idle"
=============================================================================
