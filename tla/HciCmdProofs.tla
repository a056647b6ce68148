----------------------------- MODULE HciCmdProofs -----------------------------
(***************************************************************************)
(* Proofs about HciCmd: a command that may be sent is never forgotten, no  *)
(* command buffer is freed while it is in use, and an answer reaches the   *)
(* thread whose command it answers.                                        *)
(*                                                                         *)
(* The first holds for every controller.  The others need one that holds   *)
(* one command (Slots = 1), and that the driver does not fail to send if   *)
(* the controller answers commands nobody sent.                            *)
(***************************************************************************)
EXTENDS HciCmd, ListLemmas, FiniteSetTheorems

Rx == done["rx"]
Tx == done["tx"]

-----------------------------------------------------------------------------
(* The command queue.                                                      *)

(* tx_work is queued while the main work queue waits, and the loop of      *)
(* bt_hci_cmd_send_sync has its own command ahead of it or in its hand.    *)
KickTypes ==
  /\ queue \in Seq(Bufs) /\ ncmd \in {0, 1} /\ cur \in Bufs \cup {NULL}
  /\ buf \in [Threads -> Bufs \cup {NULL}]
  /\ want \in [Threads -> [op : Opcodes \cup {NULL}, wait : BOOLEAN]]
  /\ pc \in [Threads -> {"idle", "alloc", "raise", "drain", "wait"}]

Kicked ==
  /\ pc[WQ] \in {"alloc", "raise"} => want[WQ].wait /\ tx = "off"
  /\ pc[WQ] \in {"idle", "alloc", "raise", "wait"} /\ tx \in {"off", "check"} => cur = NULL
  /\ pc[WQ] \in {"drain", "wait"} => txQueued
  /\ pc[WQ] = "raise" => buf[WQ] \in Bufs /\ Has(queue, buf[WQ])
  /\ pc[WQ] = "drain" => /\ buf[WQ] \in Bufs
                         /\ Has(queue, buf[WQ]) \/ (tx # "check" /\ cur = buf[WQ])
  /\ pc[WQ] = "wait" => tx = "off"

KickInv == KickTypes /\ Kicked /\ NoLostKick

-----------------------------------------------------------------------------
(* Permissions.  The controller has given one at most, allowed; it is in   *)
(* an event, in ncmd_sem, or with the command that is being sent.          *)
Dones  == [at : {"no", "take", "match", "unref"}, op : Opcodes \cup Strays \cup {NULL},
           buf : Bufs \cup {NULL}]
Events == [op : Opcodes \cup Strays \cup {NULL}, ncmd : {0, 1}]

MatchTypes ==
  /\ opcode \in [Bufs -> Opcodes \cup {NULL}] /\ sent \in Bufs \cup {NULL}
  /\ ncmd \in {0, 1}
  /\ tx \in {"off", "check", "clear", "set", "write", "unref", "failed"}
  /\ Sending => cur \in Bufs
  /\ rx \in {"idle", "done", "raise"} /\ evt \in Events
  /\ done \in [Actors -> Dones]
  /\ \A a \in Actors : /\ done[a].buf = NULL <=> done[a].at \in {"no", "take"}
                       /\ done[a].at = "no" <=> done[a].op = NULL
  /\ ctl \in Seq(Bufs) /\ allowed \in {0, 1} /\ evts \in Seq(Events)
  /\ Rx.at # "no" => rx = "done"
  /\ Tx.at # "no" => tx = "failed"

TokenRx == rx = "done" /\ evt.ncmd = 1
TokenTx == tx \in {"clear", "set", "write"}
TokenAt(es, i) == es[i].ncmd = 1

Tokens ==
  /\ Len(ctl) + allowed <= 1
  /\ allowed = 0 => ncmd = 0 /\ ~TokenRx /\ ~TokenTx /\ \A i \in 1..Len(evts) : ~TokenAt(evts, i)
  /\ ncmd = 1 => ~TokenRx /\ ~TokenTx /\ \A i \in 1..Len(evts) : ~TokenAt(evts, i)
  /\ TokenRx => ~TokenTx /\ \A i \in 1..Len(evts) : ~TokenAt(evts, i)
  /\ TokenTx => \A i \in 1..Len(evts) : ~TokenAt(evts, i)
  /\ \A i, j \in 1..Len(evts) : TokenAt(evts, i) /\ TokenAt(evts, j) => i = j

(* The command whose answer is expected: sent_cmd, or what was taken from  *)
(* there to compare.                                                       *)
Expected == IF sent # NULL THEN sent
            ELSE IF Rx.at = "match" THEN Rx.buf
            ELSE IF Tx.at = "match" THEN Tx.buf ELSE NULL

(* Where its answer is: not sent yet, at the controller, on its way, with  *)
(* the receive thread, or an error of the driver.  In one of them only,    *)
(* and before the next permission.                                         *)
AnswerAt(es, i) == es[i].op \in Opcodes
AnswerRx == Rx.at \in {"take", "match"} /\ Rx.op \in Opcodes
AnswerTx == Tx.at \in {"take", "match"}

Sources ==
  /\ tx \in {"clear", "set"} => Expected = NULL
  /\ tx = "write" => /\ Expected = cur
                     /\ ctl = <<>> /\ ~AnswerRx /\ \A i \in 1..Len(evts) : ~AnswerAt(evts, i)
  /\ ctl # <<>> => /\ Expected = ctl[1]
                   /\ ~AnswerRx /\ ~AnswerTx /\ \A i \in 1..Len(evts) : ~AnswerAt(evts, i)
  /\ \A i \in 1..Len(evts) : AnswerAt(evts, i) =>
       /\ Expected # NULL /\ opcode[Expected] = evts[i].op
       /\ ~AnswerRx /\ ~AnswerTx
       /\ ncmd = 0 /\ ~TokenRx
       /\ \A j \in 1..Len(evts) : /\ j < i => ~TokenAt(evts, j)
                                  /\ AnswerAt(evts, j) => j = i
  /\ AnswerRx => /\ Expected # NULL /\ opcode[Expected] = Rx.op
                 /\ ~AnswerTx /\ ncmd = 0
  /\ AnswerTx => /\ Expected = cur /\ Tx.op = opcode[cur] /\ ncmd = 1
  /\ Expected # NULL => \/ tx = "write" \/ ctl # <<>> \/ AnswerRx \/ AnswerTx
                        \/ \E i \in 1..Len(evts) : AnswerAt(evts, i)
  /\ sent # NULL => Rx.at # "match" /\ Tx.at # "match"
  /\ ~(Rx.at = "match" /\ Tx.at = "match")
  /\ Expected # NULL => opcode[Expected] \in Opcodes

MatchInv == MatchTypes /\ Tokens /\ Sources

-----------------------------------------------------------------------------
(* Buffers.                                                                *)
One(p) == IF p THEN 1 ELSE 0
Kept(b) == \E t \in Threads : buf[t] = b
Count(b) == One(Has(queue, b)) + One(Sending /\ cur = b) + One(sent = b)
            + One(Rx.buf = b) + One(Tx.buf = b) + One(Kept(b))

(* A command whose answer has not come.                                    *)
Live(b) == Has(queue, b) \/ (tx \in {"clear", "set"} /\ cur = b) \/ Expected = b

HoldTypes ==
  /\ ref \in [Bufs -> Nat] /\ sync \in [Bufs -> Threads \cup {NULL}]
  /\ given \subseteq Threads

(* A thread that keeps its command waits for it, and has been woken        *)
(* exactly when the answer has come.                                       *)
Waiting ==
  /\ \A t \in Threads : /\ buf[t] # NULL => /\ sync[buf[t]] = t
                                            /\ pc[t] \in {"raise", "drain", "wait"}
                                            /\ t \in given <=> ~Live(buf[t])
                        /\ pc[t] \in {"drain", "wait"} => buf[t] # NULL
                        /\ pc[t] = "alloc" => want[t].op \in Opcodes
                        /\ pc[t] = "raise" /\ want[t].wait => buf[t] # NULL
                        /\ pc[t] = "raise" /\ ~want[t].wait => buf[t] = NULL
                        /\ t \in given => buf[t] # NULL
  /\ \A b \in Bufs : Live(b) => /\ opcode[b] \in Opcodes
                                /\ sync[b] # NULL => buf[sync[b]] = b

Counted == Once(queue, Bufs) /\ \A b \in Bufs : ref[b] >= Count(b)

(* A command that is being sent or answered has left the queue.            *)
Apart == /\ Sending => ~Has(queue, cur)
         /\ Expected # NULL => ~Has(queue, Expected)

HoldInv == HoldTypes /\ Waiting /\ Counted /\ Apart

(* A count that was loaded covers those who still refer to the buffer, the *)
(* thread that has loaded it among them, and who is in hci_cmd_done has    *)
(* the last word about a command.                                          *)
Loads == /\ old \in [Users -> Nat]
         /\ \A u \in Users : old[u] > 0 => /\ Releasing(u) \in Bufs
                                           /\ old[u] >= Count(Releasing(u))
Fresh == \A a \in Actors : done[a].at = "unref" => ~Live(done[a].buf)

LoadInv == Loads /\ Fresh

(* One command at the controller; if it may answer what nobody sent, the   *)
(* driver does not fail.                                                   *)
OneFault == Slots = 1 /\ \A s \in Envs : ~({"fail", "stray"} \subseteq s)

Single == /\ Slots = 1 /\ env \in Envs
          /\ Tx.at # "no" => "fail" \in env
          /\ "fail" \in env => Rx.op \notin Strays /\ \A i \in 1..Len(evts) : evts[i].op \notin Strays

IInv == KickInv /\ MatchInv /\ HoldInv /\ LoadInv /\ Single

-----------------------------------------------------------------------------
(* The command queue: a command that may go has somebody to send it.       *)

LEMMA ThreadsFact == WQ \in Threads /\ NULL \notin Threads /\ \A t \in Callers : t # WQ
BY ConstantsAssumption DEF Threads

LEMMA UserFacts ==
  /\ \A a \in Actors : a \in Users /\ a \notin Threads /\ (a = "rx" \/ a = "tx")
  /\ \A t \in Threads : t \in Users /\ t \notin Actors /\ t # "tx" /\ t # "rx"
  /\ "tx" \in Actors /\ "rx" \in Actors /\ NULL \notin Users
BY ConstantsAssumption DEF Threads, Users, Actors

(* The first of a queue that has an element is that element or before it.  *)
LEMMA TailKeeps ==
  ASSUME NEW S, NEW list \in Seq(S), list # <<>>
  PROVE  /\ Head(list) \in S /\ Head(list) = list[1] /\ Tail(list) \in Seq(S)
         /\ Len(list) \in Nat \ {0} /\ Len(Tail(list)) = Len(list) - 1
         /\ \A i \in 1..Len(Tail(list)) : Tail(list)[i] = list[i + 1] /\ i + 1 \in 1..Len(list)
         /\ \A x : Has(list, x) => x = Head(list) \/ Has(Tail(list), x)
<1>1. /\ Head(list) \in S /\ Head(list) = list[1] /\ Tail(list) \in Seq(S)
      /\ Len(list) \in Nat \ {0} /\ Len(Tail(list)) = Len(list) - 1
      /\ \A i \in 1..Len(Tail(list)) : Tail(list)[i] = list[i + 1]
  BY HeadTailProperties, LenProperties, EmptySeq
<1>2. ASSUME NEW x, Has(list, x), x # Head(list)
      PROVE  Has(Tail(list), x)
  <2>1. PICK i \in 1..Len(list) : list[i] = x
    BY <1>2 DEF Has
  <2>2. i - 1 \in 1..Len(Tail(list)) /\ Tail(list)[i - 1] = x
    BY <1>1, <1>2, <2>1
  <2> QED
    BY <2>2 DEF Has
<1> QED
  BY <1>1, <1>2

LEMMA AppendKeeps ==
  ASSUME NEW S, NEW list \in Seq(S), NEW e \in S
  PROVE  /\ Append(list, e) \in Seq(S) /\ Append(list, e) # <<>>
         /\ \A x : Has(Append(list, e), x) <=> Has(list, x) \/ x = e
<1>1. /\ Append(list, e) \in Seq(S) /\ Len(list) \in Nat
      /\ Len(Append(list, e)) = Len(list) + 1
      /\ \A j \in 1..(Len(list) + 1) :
           Append(list, e)[j] = IF j <= Len(list) THEN list[j] ELSE e
  BY AppendFacts
<1>2. /\ \A j \in 1..Len(list) : Append(list, e)[j] = list[j] /\ j \in 1..(Len(list) + 1)
      /\ Append(list, e)[Len(list) + 1] = e /\ Len(list) + 1 \in 1..(Len(list) + 1)
      /\ \A j \in 1..(Len(list) + 1) : j \in 1..Len(list) \/ j = Len(list) + 1
  BY <1>1
<1>3. Append(list, e) # <<>>
  BY <1>1
<1>4. ASSUME NEW x PROVE Has(Append(list, e), x) <=> Has(list, x) \/ x = e
  <2>1. ASSUME Has(Append(list, e), x) PROVE Has(list, x) \/ x = e
    <3>1. PICK j \in 1..(Len(list) + 1) : Append(list, e)[j] = x
      BY <1>1, <2>1 DEF Has
    <3> QED
      BY <1>2, <3>1 DEF Has
  <2>2. ASSUME Has(list, x) \/ x = e PROVE Has(Append(list, e), x)
    <3>1. \E j \in 1..(Len(list) + 1) : Append(list, e)[j] = x
      BY <1>2, <2>2 DEF Has
    <3> QED
      BY <1>1, <3>1 DEF Has
  <2> QED
    BY <2>1, <2>2
<1> QED
  BY <1>1, <1>3, <1>4

LEMMA KickInit == Init => KickInv
BY ThreadsFact DEF Init, KickInv, KickTypes, Kicked, NoLostKick, NoWant

(* The steps that the command queue does not see.                          *)
KickSame == UNCHANGED <<queue, ncmd, cur, buf, want, pc, tx>>

LEMMA KickUnseen ==
  ASSUME KickInv, KickSame, txQueued => txQueued', rx = "raise" => rx' = "raise" \/ txQueued'
  PROVE  KickInv'
BY DEF KickInv, KickSame, KickTypes, Kicked, NoLostKick

LEMMA KickThreads ==
  ASSUME KickInv, NEW t \in Threads,
         \/ \E op \in Opcodes, wait \in BOOLEAN : CallSend(t, op, wait)
         \/ \E b \in Bufs : bt_hci_cmd_send(t, b)
         \/ RaiseTx(t) \/ TakeAnswer(t)
  PROVE  KickInv'
<1>1. ASSUME NEW op \in Opcodes, NEW wait \in BOOLEAN, CallSend(t, op, wait)
      PROVE  KickInv'
  <2>1. KickTypes'
    BY <1>1 DEF KickInv, KickTypes, CallSend, hostVars, txVars
  <2>2. Kicked'
    BY <1>1, ThreadsFact DEF KickInv, KickTypes, Kicked, CallSend, hostVars, txVars
  <2>3. NoLostKick'
    BY <1>1 DEF KickInv, KickTypes, NoLostKick, CallSend, hostVars, txVars, rxVars
  <2> QED
    BY <2>1, <2>2, <2>3 DEF KickInv
<1>2. ASSUME NEW b \in Bufs, bt_hci_cmd_send(t, b)
      PROVE  KickInv'
  <2>0. /\ Append(queue, b) \in Seq(Bufs) /\ Append(queue, b) # <<>>
        /\ \A x : Has(Append(queue, b), x) <=> Has(queue, x) \/ x = b
    BY AppendKeeps DEF KickInv, KickTypes
  <2>1. KickTypes'
    BY <1>2, <2>0 DEF KickInv, KickTypes, bt_hci_cmd_send, txVars
  <2>2. Kicked'
    BY <1>2, <2>0, ThreadsFact DEF KickInv, KickTypes, Kicked, bt_hci_cmd_send, txVars
  <2>3. NoLostKick'
    <3>1. pc'[t] = "raise"
      BY <1>2 DEF KickInv, KickTypes, bt_hci_cmd_send
    <3> QED
      BY <3>1 DEF NoLostKick
  <2> QED
    BY <2>1, <2>2, <2>3 DEF KickInv
<1>3. ASSUME RaiseTx(t) PROVE KickInv'
  <2>1. KickTypes'
    BY <1>3 DEF KickInv, KickTypes, RaiseTx, NoWant, txVars
  <2>2. Kicked'
    BY <1>3, ThreadsFact DEF KickInv, KickTypes, Kicked, RaiseTx, NoWant, txVars
  <2>3. NoLostKick'
    BY <1>3 DEF RaiseTx, NoLostKick
  <2> QED
    BY <2>1, <2>2, <2>3 DEF KickInv
<1>4. ASSUME TakeAnswer(t) PROVE KickInv'
  <2>1. KickTypes'
    BY <1>4 DEF KickInv, KickTypes, TakeAnswer, txVars
  <2>2. Kicked'
    BY <1>4, ThreadsFact DEF KickInv, KickTypes, Kicked, TakeAnswer, txVars
  <2>3. NoLostKick'
    BY <1>4 DEF KickInv, KickTypes, NoLostKick, TakeAnswer, txVars, rxVars
  <2> QED
    BY <2>1, <2>2, <2>3 DEF KickInv
<1> QED
  BY <1>1, <1>2, <1>3, <1>4

LEMMA KickTx ==
  ASSUME KickInv,
         \/ tx_processor \/ Drain \/ process_pending_cmd
         \/ ClearSent \/ SetSent \/ bt_send \/ CommandSent
  PROVE  KickInv'
<1>1. CASE tx_processor
  BY <1>1 DEF tx_processor, callVars, rxVars, KickInv, KickTypes, Kicked, NoLostKick
<1>2. CASE Drain
  <2>1. KickTypes'
    BY <1>2, ThreadsFact DEF KickInv, KickTypes, Drain, hostVars
  <2>2. Kicked'
    BY <1>2, ThreadsFact DEF KickInv, KickTypes, Kicked, Drain, hostVars
  <2>3. NoLostKick'
    BY <1>2 DEF KickInv, Kicked, NoLostKick, Drain, hostVars, rxVars
  <2> QED
    BY <2>1, <2>2, <2>3 DEF KickInv
<1>3. CASE process_pending_cmd
  <2>0. queue # <<>> => /\ Head(queue) \in Bufs /\ Tail(queue) \in Seq(Bufs)
                        /\ \A x : Has(queue, x) => x = Head(queue) \/ Has(Tail(queue), x)
    BY TailKeeps DEF KickInv, KickTypes
  <2>1. KickTypes'
    BY <1>3, <2>0 DEF KickInv, KickTypes, process_pending_cmd, callVars
  <2>2. Kicked'
    BY <1>3, <2>0 DEF KickInv, KickTypes, Kicked, process_pending_cmd, callVars
  <2>3. NoLostKick'
    BY <1>3 DEF KickInv, KickTypes, NoLostKick, process_pending_cmd, callVars, rxVars
  <2> QED
    BY <2>1, <2>2, <2>3 DEF KickInv
<1>4. CASE ClearSent \/ SetSent
  BY <1>4 DEF ClearSent, SetSent, callVars, rxVars, KickInv, KickTypes, Kicked, NoLostKick
<1>5. CASE bt_send
  BY <1>5 DEF bt_send, callVars, rxVars, KickInv, KickTypes, Kicked, NoLostKick
<1>6. CASE CommandSent
  BY <1>6, ThreadsFact DEF CommandSent, callVars, rxVars, KickInv, KickTypes, Kicked, NoLostKick
<1> QED
  BY <1>1, <1>2, <1>3, <1>4, <1>5, <1>6

LEMMA KickRest ==
  ASSUME KickInv,
         \/ \E u \in Users : LoadRef(u)
         \/ \E a \in Actors : TakeSent(a) \/ PutBack(a) \/ WakeCaller(a) \/ ReleaseSent(a)
         \/ hci_cmd_complete \/ AllowNext \/ RaiseRx
         \/ \E n \in {0, 1} : Answer(n)
         \/ Allow
         \/ \E op \in Strays : Stray(op)
  PROVE  KickInv'
<1>1. CASE \/ \E u \in Users : LoadRef(u)
           \/ \E a \in Actors : TakeSent(a) \/ PutBack(a) \/ WakeCaller(a) \/ ReleaseSent(a)
  <2>1. KickSame /\ UNCHANGED <<txQueued, rx>>
    BY <1>1 DEF LoadRef, TakeSent, PutBack, WakeCaller, ReleaseSent, hostVars, callVars, txVars, rxVars,
      KickSame
  <2> QED
    BY <2>1, KickUnseen
<1>2. CASE AllowNext
  BY <1>2 DEF AllowNext, callVars, txVars, KickInv, KickTypes, Kicked, NoLostKick
<1>3. CASE RaiseRx \/ hci_cmd_complete
  BY <1>3, KickUnseen DEF RaiseRx, hci_cmd_complete, hostVars, callVars, txVars, KickSame
<1>4. CASE (\E n \in {0, 1} : Answer(n)) \/ Allow \/ \E op \in Strays : Stray(op)
  <2>1. KickSame /\ UNCHANGED <<txQueued, rx>>
    BY <1>4 DEF Answer, Allow, Stray, hostVars, callVars, txVars, rxVars, KickSame
  <2> QED
    BY <2>1, KickUnseen
<1> QED
  BY <1>1, <1>2, <1>3, <1>4

LEMMA KickNext ==
  ASSUME KickInv, [Next]_vars
  PROVE  KickInv'
<1>1. CASE UNCHANGED vars
  BY <1>1, KickUnseen DEF vars, hostVars, callVars, txVars, rxVars, KickSame
<1> QED
  BY <1>1, KickThreads, KickTx, KickRest DEF Next

LEMMA KickInvariance == Spec => []KickInv
<1>1. KickInv /\ [Next]_vars => KickInv'
  BY KickNext
<1> QED
  BY <1>1, KickInit, PTL DEF Spec

(* bt_hci_cmd_send, process_pending_cmd and hci_cmd_complete: for every     *)
(* controller and driver, a command that may go has somebody to send it,   *)
(* and the loop of bt_hci_cmd_send_sync finds its command.                 *)
THEOREM CommandsMove == Spec => []QueueMoves
<1>1. ASSUME KickInv PROVE QueueMoves
  <2>1. DrainFindsCommand
    <3>1. pc[WQ] = "drain" /\ tx = "check" => Has(queue, buf[WQ])
      BY <1>1 DEF KickInv, Kicked
    <3> QED
      BY <1>1, <3>1, EmptyHas DEF KickInv, KickTypes, DrainFindsCommand
  <2> QED
    BY <1>1, <2>1 DEF KickInv, QueueMoves
<1> QED
  BY <1>1, KickInvariance, PTL

-----------------------------------------------------------------------------
(* Permissions and answers.                                                *)

LEMMA MatchInit == Init => MatchInv
BY ConstantsAssumption DEF Init, MatchInv, MatchTypes, Tokens, Sources, Expected, Rx, Tx, AnswerRx,
  AnswerTx, TokenRx, TokenTx, Actors, Dones, Events, NotDone, NoEvent, Sending

LEMMA DoneFields ==
  ASSUME MatchTypes
  PROVE  /\ done \in [Actors -> Dones] /\ Rx \in Dones /\ Tx \in Dones
         /\ done["rx"] = Rx /\ done["tx"] = Tx
         /\ "rx" \in Actors /\ "tx" \in Actors
         /\ Rx.buf = NULL <=> Rx.at \in {"no", "take"}
         /\ Tx.buf = NULL <=> Tx.at \in {"no", "take"}
         /\ Rx.at = "no" <=> Rx.op = NULL
         /\ Tx.at = "no" <=> Tx.op = NULL
BY DEF MatchTypes, Rx, Tx, Actors

(* While the transmitter has a permission, no answer is expected.          *)
LEMMA NoneExpected ==
  ASSUME MatchInv, ncmd = 1 \/ (TokenRx /\ ~AnswerRx), tx # "failed"
  PROVE  Expected = NULL
<1>1. ctl \in Seq(Bufs) /\ Len(ctl) \in Nat /\ allowed \in {0, 1} /\ Tx.at = "no"
  BY LenProperties DEF MatchInv, MatchTypes
<1>2. ctl = <<>>
  <2>1. allowed = 1
    BY <1>1 DEF MatchInv, Tokens
  <2>2. Len(ctl) + allowed <= 1
    BY DEF MatchInv, Tokens
  <2>3. Len(ctl) = 0
    BY <1>1, <2>1, <2>2
  <2> QED
    BY <1>1, <2>3, EmptySeq
<1>3. tx # "write" /\ ~AnswerTx
  BY <1>1 DEF MatchInv, Tokens, TokenTx, AnswerTx
<1>4. ~AnswerRx
  BY DEF MatchInv, Sources
<1>5. \A i \in 1..Len(evts) : ~AnswerAt(evts, i)
  BY DEF MatchInv, Sources
<1> QED
  BY <1>2, <1>3, <1>4, <1>5 DEF MatchInv, Sources

(* A step of a thread, or of the transmitter outside hci_core_send_cmd.    *)
MatchSame == UNCHANGED <<sent, ncmd, rx, evt, done, ctl, allowed, evts>>

LEMMA MatchUnseen ==
  ASSUME MatchInv, MatchSame, UNCHANGED <<tx, cur>>,
         opcode' \in [Bufs -> Opcodes \cup {NULL}],
         Expected # NULL => opcode'[Expected] = opcode[Expected]
  PROVE  MatchInv'
<1>1. Expected' = Expected /\ AnswerRx' = AnswerRx /\ AnswerTx' = AnswerTx /\ Rx' = Rx /\ Tx' = Tx
  BY DEF MatchSame, Expected, AnswerRx, AnswerTx, Rx, Tx
<1>2. MatchTypes' /\ Tokens'
  BY <1>1 DEF MatchSame, MatchInv, MatchTypes, Tokens, Sending, TokenRx, TokenTx, TokenAt
<1>3. AnswerTx => opcode'[cur] = opcode[cur]
  <2>1. AnswerTx => Expected = cur /\ tx = "failed"
    BY DEF MatchInv, MatchTypes, Sources, AnswerTx
  <2>2. tx = "failed" => cur # NULL
    BY ConstantsAssumption DEF MatchInv, MatchTypes, Sending
  <2> QED
    BY <2>1, <2>2
<1>4. Sources'
  BY <1>1, <1>3 DEF MatchSame, MatchInv, Sources, TokenRx, TokenAt, AnswerAt
<1> QED
  BY <1>2, <1>4 DEF MatchInv

LEMMA MatchIdleTx ==
  ASSUME MatchInv, MatchSame, UNCHANGED opcode,
         tx \in {"off", "check", "unref", "failed"}, tx' \in {"off", "check"}, Tx.at = "no"
  PROVE  MatchInv'
<1>1. Expected' = Expected /\ AnswerRx' = AnswerRx /\ ~AnswerTx /\ ~AnswerTx' /\ Rx' = Rx /\ Tx' = Tx
  BY DEF MatchSame, Expected, AnswerRx, AnswerTx, Rx, Tx
<1>2. MatchTypes' /\ Tokens'
  BY <1>1 DEF MatchSame, MatchInv, MatchTypes, Tokens, Sending, TokenRx, TokenTx, TokenAt
<1>3. Sources'
  BY <1>1 DEF MatchSame, MatchInv, Sources, TokenRx, TokenAt, AnswerAt
<1> QED
  BY <1>2, <1>3 DEF MatchInv

(* process_pending_cmd takes the permission.                               *)
LEMMA MatchTake ==
  ASSUME MatchInv, KickTypes, process_pending_cmd
  PROVE  MatchInv'
<1>0. tx # "failed" /\ Tx.at = "no"
  BY DEF process_pending_cmd, MatchInv, MatchTypes
<1>1. CASE tx' = "off"
  <2>1. MatchSame /\ UNCHANGED opcode /\ tx = "check"
    BY <1>1 DEF process_pending_cmd, rxVars, ctlVars, MatchSame
  <2> QED
    BY <1>0, <1>1, <2>1, MatchIdleTx
<1>2. CASE tx' # "off"
  <2>1. /\ tx = "check" /\ queue # <<>> /\ ncmd = 1 /\ ncmd' = 0 /\ cur' = Head(queue) /\ tx' = "clear"
        /\ UNCHANGED <<opcode, sent, rx, evt, done, ctl, allowed, evts>>
    BY <1>2 DEF process_pending_cmd, rxVars, ctlVars
  <2>2. Head(queue) \in Bufs
    BY <2>1, TailKeeps DEF KickTypes
  <2>3. Expected = NULL
    BY <1>0, <2>1, NoneExpected
  <2>4. Expected' = Expected /\ AnswerRx' = AnswerRx /\ ~AnswerTx /\ ~AnswerTx' /\ Rx' = Rx /\ Tx' = Tx
    BY <1>0, <2>1 DEF Expected, AnswerRx, AnswerTx, Rx, Tx
  <2>5. MatchTypes'
    BY <1>0, <2>1, <2>2, <2>4 DEF MatchInv, MatchTypes
  <2>6. Tokens'
    BY <2>1 DEF MatchInv, Tokens, TokenRx, TokenTx, TokenAt
  <2>7. Sources'
    BY <2>1, <2>3, <2>4 DEF MatchInv, Sources, TokenRx, TokenAt, AnswerAt
  <2> QED
    BY <2>5, <2>6, <2>7 DEF MatchInv
<1> QED
  BY <1>1, <1>2

(* hci_core_send_cmd: there is nothing to forget.                          *)
LEMMA MatchClear ==
  ASSUME MatchInv, ClearSent
  PROVE  MatchInv' /\ sent = NULL /\ Expected = NULL /\ Expected' = NULL
<1>1. tx = "clear" /\ tx' = "set" /\ sent' = NULL
      /\ UNCHANGED <<opcode, ncmd, cur, rx, evt, done, ctl, allowed, evts>>
  BY DEF ClearSent, rxVars, ctlVars
<1>2. Expected = NULL /\ sent = NULL
  BY <1>1 DEF MatchInv, Sources, Expected
<1>3. Expected' = NULL /\ AnswerRx' = AnswerRx /\ AnswerTx' = AnswerTx /\ Rx' = Rx /\ Tx' = Tx
  BY <1>1, <1>2 DEF Expected, AnswerRx, AnswerTx, Rx, Tx
<1>4. MatchTypes' /\ Tokens'
  BY <1>1, <1>3 DEF MatchInv, MatchTypes, Tokens, Sending, TokenRx, TokenTx, TokenAt
<1>5. Sources'
  BY <1>1, <1>2, <1>3 DEF MatchInv, Sources, TokenRx, TokenAt, AnswerAt
<1> QED
  BY <1>2, <1>3, <1>4, <1>5 DEF MatchInv

(* The command becomes the expected one.                                   *)
LEMMA MatchSet ==
  ASSUME MatchInv, SetSent, opcode[cur] \in Opcodes
  PROVE  MatchInv' /\ Expected = NULL /\ Expected' = cur /\ sent = NULL
<1>1. tx = "set" /\ tx' = "write" /\ sent' = cur
      /\ UNCHANGED <<opcode, ncmd, cur, rx, evt, done, ctl, allowed, evts>>
  BY DEF SetSent, rxVars, ctlVars
<1>2. Expected = NULL /\ sent = NULL /\ cur \in Bufs /\ cur # NULL
  BY <1>1, ConstantsAssumption DEF MatchInv, MatchTypes, Sources, Expected, Sending
<1>3. /\ Expected' = cur /\ AnswerRx' = AnswerRx /\ AnswerTx' = AnswerTx /\ Rx' = Rx /\ Tx' = Tx
      /\ Tx.at = "no" /\ ~AnswerTx
  BY <1>1, <1>2 DEF Expected, AnswerRx, AnswerTx, Rx, Tx, MatchInv, MatchTypes
<1>4. MatchTypes' /\ Tokens'
  BY <1>1, <1>2, <1>3 DEF MatchInv, MatchTypes, Tokens, Sending, TokenRx, TokenTx, TokenAt
<1>5. Rx.at # "match"
  <2>1. Rx.at = "match" => Rx.buf = NULL
    BY <1>2 DEF Expected
  <2> QED
    BY <2>1, DoneFields DEF MatchInv
<1>6. ctl = <<>> /\ ~AnswerRx /\ \A i \in 1..Len(evts) : ~AnswerAt(evts, i)
  <2>1. ctl = <<>>
    <3>1. ctl \in Seq(Bufs) /\ Len(ctl) \in Nat /\ allowed \in {0, 1}
      BY LenProperties DEF MatchInv, MatchTypes
    <3>2. allowed # 0 /\ Len(ctl) + allowed <= 1
      BY <1>1 DEF MatchInv, Tokens, TokenTx
    <3>3. Len(ctl) = 0
      BY <3>1, <3>2
    <3> QED
      BY <3>1, <3>3, EmptySeq
  <2> QED
    BY <1>2, <2>1 DEF MatchInv, Sources
<1>7. Sources'
  BY <1>1, <1>2, <1>3, <1>5, <1>6 DEF MatchInv, Sources, TokenRx, TokenAt, AnswerAt
<1> QED
  BY <1>2, <1>3, <1>4, <1>7 DEF MatchInv

(* The driver takes the command, or fails.                                 *)
LEMMA MatchSend ==
  ASSUME MatchInv, Single, bt_send
  PROVE  MatchInv' /\ Expected' = Expected
<1>0. /\ tx = "write" /\ UNCHANGED <<opcode, sent, cur, rx, evt, evts>>
      /\ cur \in Bufs /\ cur # NULL /\ Expected = cur /\ Tx.at = "no" /\ ~AnswerTx
      /\ ctl = <<>> /\ ~AnswerRx /\ \A i \in 1..Len(evts) : ~AnswerAt(evts, i)
      /\ opcode[cur] \in Opcodes
      /\ ncmd = 0 /\ allowed = 1 /\ ~TokenRx /\ \A i \in 1..Len(evts) : ~TokenAt(evts, i)
  <2>1. /\ tx = "write" /\ UNCHANGED <<opcode, sent, cur, rx, evt, evts>>
    BY DEF bt_send, rxVars
  <2>2. cur \in Bufs /\ cur # NULL /\ Tx.at = "no" /\ ncmd \in {0, 1}
    BY <2>1, ConstantsAssumption DEF MatchInv, MatchTypes, Sending, Tokens, TokenTx
  <2> QED
    BY <2>1, <2>2 DEF MatchInv, MatchTypes, Sources, Tokens, TokenTx, AnswerTx
<1>1. CASE tx' = "unref"
  <2>1. ctl' = Append(ctl, cur) /\ allowed' = 0 /\ UNCHANGED <<ncmd, done>>
    BY <1>0, <1>1 DEF bt_send
  <2>2. ctl' = <<cur>> /\ ctl' \in Seq(Bufs) /\ Len(ctl') = 1 /\ ctl'[1] = cur /\ ctl' # <<>>
    BY <1>0, <2>1
  <2>3. /\ Expected' = Expected /\ AnswerRx' = AnswerRx /\ AnswerTx' = AnswerTx /\ Rx' = Rx
        /\ Tx' = Tx
    BY <1>0, <2>1 DEF Expected, AnswerRx, AnswerTx, Rx, Tx
  <2>4. MatchTypes'
    BY <1>0, <1>1, <2>1, <2>2, <2>3 DEF MatchInv, MatchTypes, Sending
  <2>5. Tokens'
    BY <1>0, <1>1, <2>1, <2>2 DEF MatchInv, Tokens, TokenRx, TokenTx, TokenAt
  <2>6. Sources'
    BY <1>0, <1>1, <2>1, <2>2, <2>3 DEF MatchInv, Sources, TokenRx, TokenAt, AnswerAt
  <2> QED
    BY <2>3, <2>4, <2>5, <2>6 DEF MatchInv
<1>2. CASE tx' # "unref"
  <2>1. /\ "fail" \in env /\ ncmd' = 1 /\ tx' = "failed" /\ UNCHANGED <<ctl, allowed>>
        /\ done' = [done EXCEPT !["tx"] = [at |-> "take", op |-> opcode[cur], buf |-> NULL]]
    BY <1>2 DEF bt_send
  <2>2. /\ Rx' = Rx /\ Tx' = [at |-> "take", op |-> opcode[cur], buf |-> NULL]
        /\ Tx'.at = "take" /\ Tx'.op = opcode[cur] /\ Tx'.buf = NULL
        /\ done' \in [Actors -> Dones]
        /\ \A a \in Actors : /\ done'[a].buf = NULL <=> done'[a].at \in {"no", "take"}
                             /\ done'[a].at = "no" <=> done'[a].op = NULL
    <3>1. [at |-> "take", op |-> opcode[cur], buf |-> NULL] \in Dones
      BY <1>0 DEF Dones
    <3> QED
      BY <1>0, <2>1, <3>1, DoneFields, ConstantsAssumption DEF MatchInv, MatchTypes, Rx, Tx, Actors
  <2>3. Rx.at # "match"
    <3>1. Rx.op \notin Strays
      BY <2>1 DEF Single
    <3>2. Rx.at = "match" => Rx.op = NULL
      BY <1>0, <3>1, DoneFields DEF AnswerRx, Dones, MatchInv
    <3> QED
      BY <3>1, <3>2, DoneFields DEF MatchInv
  <2>4. Expected' = Expected /\ AnswerRx' = AnswerRx /\ AnswerTx'
    BY <1>0, <2>1, <2>2, <2>3 DEF Expected, AnswerRx, AnswerTx
  <2>5. MatchTypes'
    BY <1>0, <2>1, <2>2 DEF MatchInv, MatchTypes, Sending
  <2>6. Tokens'
    BY <1>0, <2>1 DEF MatchInv, Tokens, TokenRx, TokenTx, TokenAt
  <2>7. Sources'
    BY <1>0, <2>1, <2>2, <2>3, <2>4 DEF MatchInv, Sources, TokenRx, TokenAt, AnswerAt
  <2> QED
    BY <2>4, <2>5, <2>6, <2>7 DEF MatchInv
<1> QED
  BY <1>1, <1>2

(* What one of the two does in hci_cmd_done leaves the other alone.        *)
LEMMA DoneStep ==
  ASSUME MatchTypes, NEW a \in Actors, NEW d \in Dones, done' = [done EXCEPT ![a] = d],
         d.buf = NULL <=> d.at \in {"no", "take"}, d.at = "no" <=> d.op = NULL
  PROVE  /\ done' \in [Actors -> Dones]
         /\ \A x \in Actors : /\ done'[x].buf = NULL <=> done'[x].at \in {"no", "take"}
                              /\ done'[x].at = "no" <=> done'[x].op = NULL
         /\ a = "rx" => Rx' = d /\ Tx' = Tx
         /\ a = "tx" => Tx' = d /\ Rx' = Rx
         /\ a = "rx" \/ a = "tx"
BY DEF MatchTypes, Rx, Tx, Actors

LEMMA NotDoneFields ==
  /\ NotDone \in Dones /\ NotDone.at = "no" /\ NotDone.op = NULL /\ NotDone.buf = NULL
BY DEF NotDone, Dones

(* The step of hci_cmd_done leaves permissions and events alone.           *)
HandSame == UNCHANGED <<opcode, ncmd, tx, cur, rx, evt, ctl, allowed, evts>>
Handed(a, d) == /\ a \in Actors /\ d \in Dones /\ done' = [done EXCEPT ![a] = d]
                /\ done[a].at # "no"
                /\ d.at = "no" <=> d.op = NULL
                /\ d.buf = NULL <=> d.at \in {"no", "take"}

LEMMA MatchDone ==
  ASSUME MatchInv, HandSame, sent' \in Bufs \cup {NULL}, NEW a, NEW d, Handed(a, d)
  PROVE  /\ MatchTypes' /\ Tokens'
         /\ a = "rx" => Rx' = d /\ Tx' = Tx /\ Rx = done[a]
         /\ a = "tx" => Tx' = d /\ Rx' = Rx /\ Tx = done[a]
         /\ a = "rx" \/ a = "tx"
<1>1. /\ done' \in [Actors -> Dones]
      /\ \A x \in Actors : /\ done'[x].buf = NULL <=> done'[x].at \in {"no", "take"}
                           /\ done'[x].at = "no" <=> done'[x].op = NULL
      /\ a = "rx" => Rx' = d /\ Tx' = Tx
      /\ a = "tx" => Tx' = d /\ Rx' = Rx
      /\ a = "rx" \/ a = "tx"
  <2>1. /\ MatchTypes /\ a \in Actors /\ d \in Dones /\ done' = [done EXCEPT ![a] = d]
        /\ d.at = "no" <=> d.op = NULL
        /\ d.buf = NULL <=> d.at \in {"no", "take"}
    BY DEF MatchInv, Handed
  <2> QED
    BY <2>1, DoneStep
<1>2. MatchTypes'
  <2>1. (Rx'.at # "no" => rx = "done") /\ (Tx'.at # "no" => tx = "failed")
    BY <1>1 DEF MatchInv, MatchTypes, Rx, Tx, Handed
  <2> QED
    BY <1>1, <2>1 DEF MatchInv, MatchTypes, Sending, HandSame
<1>3. Tokens'
  BY DEF MatchInv, Tokens, TokenRx, TokenTx, TokenAt, HandSame
<1> QED
  BY <1>1, <1>2, <1>3 DEF Rx, Tx

(* hci_cmd_done takes the expected command.                                *)
Taken(a) == IF sent = NULL THEN NotDone ELSE [at |-> "match", op |-> done[a].op, buf |-> sent]

LEMMA TakenHanded ==
  ASSUME MatchInv, NEW a \in Actors, TakeSent(a)
  PROVE  /\ Handed(a, Taken(a)) /\ HandSame /\ sent' = NULL /\ sent \in Bufs \cup {NULL}
         /\ done[a].at = "take" /\ done[a].buf = NULL
         /\ Taken(a).buf = sent
         /\ sent # NULL => Taken(a).at = "match" /\ Taken(a).op = done[a].op
         /\ sent = NULL => Taken(a) = NotDone
<1>0. /\ done[a].at = "take" /\ sent' = NULL /\ sent \in Bufs \cup {NULL}
      /\ done[a] \in Dones /\ done[a].buf = NULL /\ done[a].op # NULL /\ HandSame
  BY DEF TakeSent, txVars, rxVars, ctlVars, MatchInv, MatchTypes, HandSame
<1>2. done' = [done EXCEPT ![a] = Taken(a)]
  BY DEF TakeSent, Taken
<1>3. /\ Taken(a) \in Dones /\ Taken(a).buf = sent
      /\ Taken(a).buf = NULL <=> Taken(a).at \in {"no", "take"}
      /\ Taken(a).at = "no" <=> Taken(a).op = NULL
      /\ sent # NULL => Taken(a).at = "match" /\ Taken(a).op = done[a].op
      /\ sent = NULL => Taken(a) = NotDone
  BY <1>0, NotDoneFields DEF Dones, Taken
<1> QED
  BY <1>0, <1>2, <1>3 DEF Handed

LEMMA MatchTakeSent ==
  ASSUME MatchInv, Single, NEW a \in Actors, TakeSent(a)
  PROVE  MatchInv' /\ Expected' = Expected
<1>0. /\ Handed(a, Taken(a)) /\ HandSame /\ sent' = NULL /\ sent \in Bufs \cup {NULL}
      /\ done[a].at = "take" /\ done[a].buf = NULL
      /\ Taken(a).buf = sent
      /\ sent # NULL => Taken(a).at = "match" /\ Taken(a).op = done[a].op
      /\ sent = NULL => Taken(a).at = "no"
  BY TakenHanded, NotDoneFields
<1>1. /\ MatchTypes' /\ Tokens'
      /\ a = "rx" => Rx' = Taken(a) /\ Tx' = Tx /\ Rx = done[a]
      /\ a = "tx" => Tx' = Taken(a) /\ Rx' = Rx /\ Tx = done[a]
      /\ a = "rx" \/ a = "tx"
  BY <1>0, MatchDone
<1>2. /\ sent # NULL => Rx.at # "match" /\ Tx.at # "match"
  BY DEF MatchInv, Sources
<1>3. Expected' = Expected
  BY <1>0, <1>1, <1>2 DEF Expected
<1>4. a = "tx" => sent # NULL
  <2> SUFFICES ASSUME a = "tx", sent = NULL PROVE FALSE
    OBVIOUS
  <2>1. AnswerTx /\ Tx.at = "take" /\ tx = "failed"
    BY <1>0, <1>1 DEF AnswerTx, MatchInv, MatchTypes
  <2>2. "fail" \in env /\ Expected = cur /\ cur # NULL
    BY <2>1, ConstantsAssumption DEF MatchInv, MatchTypes, Sources, Sending, Single
  <2>3. Rx.at = "match"
    BY <2>1, <2>2 DEF Expected
  <2>4. Rx.op \in Opcodes
    BY <2>2, <2>3, DoneFields DEF Single, MatchInv, Dones
  <2> QED
    BY <2>1, <2>3, <2>4 DEF MatchInv, Sources, AnswerRx
<1>5. a = "rx" /\ sent = NULL => ~AnswerRx
  <2> SUFFICES ASSUME a = "rx", sent = NULL, AnswerRx PROVE FALSE
    OBVIOUS
  <2>1. Rx.at = "take" /\ Expected # NULL /\ ~AnswerTx
    BY <1>0, <1>1 DEF MatchInv, Sources
  <2> QED
    BY <2>1 DEF Expected, AnswerTx
<1>6. AnswerRx' = AnswerRx /\ AnswerTx' = AnswerTx /\ (AnswerRx => Rx'.op = Rx.op) /\ (AnswerTx => Tx'.op = Tx.op)
  BY <1>0, <1>1, <1>4, <1>5 DEF AnswerRx, AnswerTx
<1>7. /\ sent' # NULL => Rx'.at # "match" /\ Tx'.at # "match"
      /\ ~(Rx'.at = "match" /\ Tx'.at = "match")
  BY <1>0, <1>1, <1>2 DEF MatchInv, Sources
<1>8. Sources'
  BY <1>0, <1>3, <1>6, <1>7 DEF MatchInv, Sources, TokenRx, TokenAt, AnswerAt, HandSame
<1> QED
  BY <1>1, <1>3, <1>8 DEF MatchInv

(* It puts it back: only the receive thread does, with an answer to what   *)
(* nobody sent.                                                            *)
LEMMA MatchPutBack ==
  ASSUME MatchInv, Single, NEW a \in Actors, PutBack(a)
  PROVE  /\ MatchInv' /\ Expected' = Expected /\ a = "rx" /\ sent = NULL
         /\ Rx.buf # NULL /\ sent' = Rx.buf /\ Rx'.buf = NULL /\ Tx' = Tx
<1>0. /\ done[a].at = "match" /\ opcode[done[a].buf] # done[a].op /\ sent' = done[a].buf
      /\ done[a] \in Dones /\ done[a].buf \in Bufs /\ done[a].buf # NULL /\ done[a].op # NULL
      /\ HandSame
  <2>1. done[a] \in Dones /\ done[a].at = "match" /\ HandSame
    BY DEF PutBack, txVars, rxVars, ctlVars, HandSame, MatchInv, MatchTypes
  <2> QED
    BY <2>1 DEF PutBack, Dones, MatchInv, MatchTypes
<1>1. (a = "rx" \/ a = "tx") /\ sent = NULL /\ done[a].buf = Expected
  BY <1>0 DEF Actors, Rx, Tx, MatchInv, Sources, Expected
<1>2. done' = [done EXCEPT ![a] = NotDone]
  BY <1>1 DEF PutBack
<1>3. Handed(a, NotDone)
  BY <1>0, <1>2, NotDoneFields DEF Handed
<1>4. /\ MatchTypes' /\ Tokens'
      /\ a = "rx" => Rx' = NotDone /\ Tx' = Tx /\ Rx = done[a]
      /\ a = "tx" => Tx' = NotDone /\ Rx' = Rx /\ Tx = done[a]
  BY <1>0, <1>3, MatchDone
<1>5. a = "rx"
  <2>1. a = "tx" => AnswerTx
    BY <1>0, <1>4 DEF AnswerTx
  <2> QED
    BY <1>0, <1>1, <1>4, <2>1 DEF MatchInv, Sources
<1>6. ~AnswerRx /\ ~AnswerRx' /\ AnswerTx' = AnswerTx
  BY <1>0, <1>1, <1>4, <1>5, NotDoneFields DEF MatchInv, Sources, AnswerRx, AnswerTx
<1>7. Expected' = Expected
  BY <1>0, <1>1 DEF Expected
<1>8. Rx'.at # "match" /\ Tx'.at # "match"
  BY <1>0, <1>4, <1>5, NotDoneFields DEF MatchInv, Sources
<1>9. Sources'
  BY <1>0, <1>4, <1>5, <1>6, <1>7, <1>8 DEF MatchInv, Sources, TokenRx, TokenAt, AnswerAt, HandSame
<1> QED
  BY <1>0, <1>1, <1>4, <1>5, <1>7, <1>9, NotDoneFields DEF MatchInv

(* The answer is given to the thread that waits.                           *)
LEMMA MatchWake ==
  ASSUME MatchInv, Single, NEW a \in Actors, WakeCaller(a)
  PROVE  /\ MatchInv' /\ Expected = done[a].buf /\ Expected # NULL /\ Expected' = NULL
         /\ Rx'.buf = Rx.buf /\ Tx'.buf = Tx.buf
<1> DEFINE d == [at |-> "unref", op |-> done[a].op, buf |-> done[a].buf]
<1>0. /\ done[a].at = "match" /\ opcode[done[a].buf] = done[a].op /\ sent' = sent
      /\ done[a] \in Dones /\ done[a].buf \in Bufs /\ done[a].buf # NULL /\ done[a].op # NULL
      /\ HandSame
  <2>1. done[a] \in Dones /\ done[a].at = "match" /\ HandSame
    BY DEF WakeCaller, hostVars, txVars, rxVars, ctlVars, HandSame, MatchInv, MatchTypes
  <2> QED
    BY <2>1 DEF WakeCaller, hostVars, Dones, MatchInv, MatchTypes
<1>1. (a = "rx" \/ a = "tx") /\ sent = NULL /\ done[a].buf = Expected /\ Expected # NULL
  BY <1>0 DEF Actors, Rx, Tx, MatchInv, Sources, Expected
<1>2. done' = [done EXCEPT ![a] = d]
  <2>1. done' = [done EXCEPT ![a] = [done[a] EXCEPT !.at = "unref"]]
    BY DEF WakeCaller, MatchInv, MatchTypes
  <2>2. [done[a] EXCEPT !.at = "unref"] = d
    BY <1>0 DEF Dones
  <2> QED
    BY <2>1, <2>2
<1>3. d \in Dones /\ d.at = "unref" /\ d.buf = done[a].buf /\ d.op = done[a].op
  BY <1>0 DEF Dones
<1> HIDE DEF d
<1>4. Handed(a, d)
  BY <1>0, <1>2, <1>3 DEF Handed
<1>5. /\ MatchTypes' /\ Tokens'
      /\ a = "rx" => Rx' = d /\ Tx' = Tx /\ Rx = done[a]
      /\ a = "tx" => Tx' = d /\ Rx' = Rx /\ Tx = done[a]
  BY <1>0, <1>1, <1>4, MatchDone
<1>6. Rx'.at # "match" /\ Tx'.at # "match" /\ Expected' = NULL
  BY <1>0, <1>1, <1>3, <1>5 DEF MatchInv, Sources, Expected
<1>7. /\ a = "rx" => AnswerRx
      /\ a = "tx" => AnswerTx
  <2>1. opcode[Expected] \in Opcodes
    BY <1>1 DEF MatchInv, Sources
  <2> QED
    BY <1>0, <1>1, <1>5, <2>1 DEF AnswerRx, AnswerTx
<1>8. ~AnswerRx' /\ ~AnswerTx' /\ tx # "write" /\ ctl = <<>> /\ \A i \in 1..Len(evts) : ~AnswerAt(evts, i)
  <2>1. ~AnswerRx' /\ ~AnswerTx'
    BY <1>1, <1>3, <1>5, <1>7 DEF MatchInv, Sources, AnswerRx, AnswerTx
  <2>2. tx # "write"
    BY <1>1, <1>7 DEF MatchInv, MatchTypes, Sources, AnswerTx
  <2> QED
    BY <1>1, <1>7, <2>1, <2>2 DEF MatchInv, Sources
<1>9. Sources'
  BY <1>0, <1>6, <1>8 DEF MatchInv, Sources, TokenRx, TokenAt, AnswerAt, HandSame
<1> QED
  BY <1>1, <1>3, <1>5, <1>6, <1>9 DEF MatchInv

LEMMA MatchRelease ==
  ASSUME MatchInv, NEW a \in Actors, ReleaseSent(a)
  PROVE  MatchInv' /\ Expected' = Expected
<1>0. /\ done[a].at = "unref" /\ sent' = sent /\ HandSame /\ done' = [done EXCEPT ![a] = NotDone]
      /\ sent' \in Bufs \cup {NULL}
  BY DEF ReleaseSent, txVars, rxVars, ctlVars, HandSame, MatchInv, MatchTypes
<1>3. Handed(a, NotDone)
  BY <1>0, NotDoneFields DEF Handed
<1>4. /\ MatchTypes' /\ Tokens'
      /\ a = "rx" => Rx' = NotDone /\ Tx' = Tx /\ Rx = done[a]
      /\ a = "tx" => Tx' = NotDone /\ Rx' = Rx /\ Tx = done[a]
      /\ a = "rx" \/ a = "tx"
  BY <1>0, <1>3, MatchDone
<1>5. /\ Rx'.at = "match" <=> Rx.at = "match"
      /\ Tx'.at = "match" <=> Tx.at = "match"
      /\ Rx.at = "match" => Rx' = Rx
      /\ Tx.at = "match" => Tx' = Tx
  BY <1>0, <1>4, NotDoneFields
<1>6. Expected' = Expected
  BY <1>0, <1>5 DEF Expected
<1>7. /\ AnswerRx' = AnswerRx /\ AnswerTx' = AnswerTx
      /\ AnswerRx => Rx' = Rx
      /\ AnswerTx => Tx' = Tx
  BY <1>0, <1>4, NotDoneFields DEF AnswerRx, AnswerTx
<1>8. Sources'
  BY <1>0, <1>5, <1>6, <1>7 DEF MatchInv, Sources, TokenRx, TokenAt, AnswerAt, HandSame
<1> QED
  BY <1>4, <1>6, <1>8 DEF MatchInv

(* The receive thread gets the next event.                                 *)
LEMMA MatchComplete ==
  ASSUME MatchInv, hci_cmd_complete
  PROVE  MatchInv' /\ Expected' = Expected /\ Rx'.buf = Rx.buf /\ Tx' = Tx
<1> DEFINE e == Head(evts)
           d == IF e.op = NULL THEN NotDone ELSE [at |-> "take", op |-> e.op, buf |-> NULL]
<1>0. /\ rx = "idle" /\ evts # <<>> /\ evt' = e /\ evts' = Tail(evts) /\ rx' = "done"
      /\ done' = [done EXCEPT !["rx"] = d]
      /\ UNCHANGED <<opcode, sent, ncmd, tx, cur, ctl, allowed>>
  BY DEF hci_cmd_complete, hostVars, txVars
<1>1. /\ e \in Events /\ e = evts[1] /\ Tail(evts) \in Seq(Events)
      /\ Len(evts) \in Nat \ {0} /\ Len(Tail(evts)) = Len(evts) - 1
      /\ \A i \in 1..Len(Tail(evts)) : Tail(evts)[i] = evts[i + 1] /\ i + 1 \in 1..Len(evts)
  BY <1>0, TailKeeps DEF MatchInv, MatchTypes
<1>2. /\ d \in Dones /\ d.buf = NULL /\ d.at \in {"no", "take"}
      /\ d.at = "no" <=> d.op = NULL
      /\ d.op = e.op
      /\ e.op # NULL => d.at = "take"
  BY <1>1, NotDoneFields DEF Dones, Events
<1> HIDE DEF d, e
<1>3. /\ done' \in [Actors -> Dones]
      /\ \A x \in Actors : /\ done'[x].buf = NULL <=> done'[x].at \in {"no", "take"}
                           /\ done'[x].at = "no" <=> done'[x].op = NULL
      /\ Rx' = d /\ Tx' = Tx
  BY <1>0, <1>2, DoneStep, DoneFields DEF MatchInv
<1>4. Rx.at = "no" /\ Rx.buf = NULL
  BY <1>0, DoneFields DEF MatchInv, MatchTypes
<1>5. Expected' = Expected
  BY <1>0, <1>2, <1>3, <1>4 DEF Expected
<1>6. MatchTypes'
  BY <1>0, <1>1, <1>3 DEF MatchInv, MatchTypes, Sending
<1>7. ASSUME NEW i \in 1..Len(Tail(evts))
      PROVE  /\ i + 1 \in 1..Len(evts) /\ 1 \in 1..Len(evts) /\ 1 < i + 1 /\ i \in Int
             /\ TokenAt(evts', i) <=> TokenAt(evts, i + 1)
             /\ AnswerAt(evts', i) <=> AnswerAt(evts, i + 1)
             /\ evts'[i] = evts[i + 1]
  BY <1>0, <1>1 DEF TokenAt, AnswerAt
<1>8. /\ TokenRx' <=> TokenAt(evts, 1)
      /\ ~TokenRx /\ 1 \in 1..Len(evts)
      /\ AnswerRx' <=> AnswerAt(evts, 1)
      /\ ~AnswerRx
  BY <1>0, <1>1, <1>2, <1>3, <1>4, ConstantsAssumption DEF TokenRx, TokenAt, AnswerRx, AnswerAt
<1>9. Tokens'
  <2>1. ASSUME NEW i \in 1..Len(Tail(evts)), NEW j \in 1..Len(Tail(evts)), TokenAt(evts', i), TokenAt(evts', j)
        PROVE  i = j
    <3>1. TokenAt(evts, i + 1) /\ TokenAt(evts, j + 1) /\ i \in Int /\ j \in Int
          /\ i + 1 \in 1..Len(evts) /\ j + 1 \in 1..Len(evts)
      BY <1>7, <2>1
    <3>2. i + 1 = j + 1
      BY <3>1 DEF MatchInv, Tokens
    <3> QED
      BY <3>1, <3>2
  <2>2. ASSUME NEW i \in 1..Len(Tail(evts)), TokenAt(evts', i)
        PROVE  ~TokenRx' /\ allowed # 0 /\ ncmd # 1 /\ ~TokenTx
    <3>1. TokenAt(evts, i + 1) /\ i + 1 # 1 /\ i + 1 \in 1..Len(evts)
      BY <1>7, <2>2
    <3> QED
      BY <1>8, <3>1 DEF MatchInv, Tokens
  <2>3. TokenRx' => allowed # 0 /\ ncmd # 1 /\ ~TokenTx
    BY <1>8 DEF MatchInv, Tokens
  <2>4. TokenTx' = TokenTx /\ Len(ctl') + allowed' <= 1
    BY <1>0 DEF TokenTx, MatchInv, Tokens
  <2>5. allowed = 0 => ncmd = 0 /\ ~TokenTx
    BY DEF MatchInv, Tokens
  <2>6. ncmd = 1 => ~TokenTx
    BY DEF MatchInv, Tokens
  <2> QED
    BY <1>0, <2>1, <2>2, <2>3, <2>4, <2>5, <2>6 DEF Tokens
<1>10. Sources'
  <2>1. AnswerTx' = AnswerTx
    BY <1>3 DEF AnswerTx
  <2>2. ASSUME NEW i \in 1..Len(evts'), AnswerAt(evts', i)
        PROVE  /\ Expected # NULL /\ opcode[Expected] = evts'[i].op
               /\ ~AnswerRx' /\ ~AnswerTx /\ ncmd = 0 /\ ~TokenRx' /\ tx # "write" /\ ctl = <<>>
               /\ \A j \in 1..Len(evts') : /\ j < i => ~TokenAt(evts', j)
                                           /\ AnswerAt(evts', j) => j = i
    <3>1. AnswerAt(evts, i + 1) /\ i + 1 \in 1..Len(evts) /\ i + 1 # 1 /\ 1 < i + 1 /\ 1 \in 1..Len(evts)
      BY <1>0, <1>7, <2>2
    <3>2. /\ Expected # NULL /\ opcode[Expected] = evts[i + 1].op
          /\ ~AnswerTx /\ ncmd = 0 /\ ~AnswerAt(evts, 1) /\ ~TokenAt(evts, 1)
          /\ \A j \in 1..Len(evts) : /\ j < i + 1 => ~TokenAt(evts, j)
                                     /\ AnswerAt(evts, j) => j = i + 1
      BY <3>1 DEF MatchInv, Sources
    <3>3. tx # "write" /\ ctl = <<>>
      BY <3>1 DEF MatchInv, Sources
    <3>4. ASSUME NEW j \in 1..Len(evts')
          PROVE  /\ j < i => ~TokenAt(evts', j)
                 /\ AnswerAt(evts', j) => j = i
      <4>1. /\ j + 1 \in 1..Len(evts) /\ i \in Int /\ j \in Int
            /\ TokenAt(evts', j) <=> TokenAt(evts, j + 1)
            /\ AnswerAt(evts', j) <=> AnswerAt(evts, j + 1)
        BY <1>0, <1>7
      <4>2. j < i => j + 1 < i + 1
        BY <4>1
      <4>3. j + 1 = i + 1 => j = i
        BY <4>1
      <4> QED
        BY <3>2, <4>1, <4>2, <4>3
    <3> QED
      BY <1>0, <1>7, <1>8, <3>2, <3>3, <3>4
  <2>3. AnswerRx' => /\ Expected # NULL /\ opcode[Expected] = Rx'.op /\ ~AnswerTx /\ ncmd = 0
                     /\ tx # "write" /\ ctl = <<>>
    BY <1>1, <1>2, <1>3, <1>8 DEF MatchInv, Sources
  <2>4. Expected # NULL => \/ tx = "write" \/ ctl # <<>> \/ AnswerRx' \/ AnswerTx
                           \/ \E i \in 1..Len(evts') : AnswerAt(evts', i)
    <3>1. ASSUME NEW i \in 1..Len(evts), AnswerAt(evts, i), i # 1
          PROVE  \E k \in 1..Len(evts') : AnswerAt(evts', k)
      <4>1. i - 1 \in 1..Len(Tail(evts)) /\ (i - 1) + 1 = i
        BY <1>1, <3>1
      <4>2. AnswerAt(evts', i - 1)
        BY <1>7, <3>1, <4>1
      <4> QED
        BY <1>0, <4>1, <4>2
    <3> QED
      BY <1>8, <3>1 DEF MatchInv, Sources
  <2>5. /\ tx \in {"clear", "set"} => Expected = NULL
        /\ tx = "write" => Expected = cur /\ ctl = <<>>
        /\ ctl # <<>> => Expected = ctl[1] /\ ~AnswerTx
        /\ AnswerTx => Expected = cur /\ Tx.op = opcode[cur] /\ ncmd = 1
        /\ sent # NULL => Tx.at # "match"
        /\ Expected # NULL => opcode[Expected] \in Opcodes
    BY DEF MatchInv, Sources
  <2>6. Rx'.at # "match"
    BY <1>2, <1>3
  <2> QED
    BY <1>0, <1>3, <1>5, <2>1, <2>2, <2>3, <2>4, <2>5, <2>6 DEF Sources
<1> QED
  BY <1>2, <1>3, <1>4, <1>5, <1>6, <1>9, <1>10 DEF MatchInv

(* The permission that came with the event is given, or there was none.    *)
LEMMA MatchAllow ==
  ASSUME MatchInv, AllowNext \/ RaiseRx
  PROVE  MatchInv' /\ Expected' = Expected
<1>0. /\ UNCHANGED <<opcode, sent, tx, cur, done, ctl, allowed, evts>> /\ Rx.at = "no"
      /\ \/ TokenRx /\ ncmd' = 1 /\ rx' = "raise" /\ evt' = evt
         \/ ~TokenRx /\ ncmd' = ncmd /\ rx' = "idle" /\ evt' = NoEvent
  <2>1. CASE AllowNext
    BY <2>1 DEF AllowNext, TokenRx, txVars, ctlVars, Rx, MatchInv, MatchTypes
  <2>2. CASE RaiseRx
    BY <2>2 DEF RaiseRx, TokenRx, txVars, ctlVars, MatchInv, MatchTypes
  <2> QED
    BY <2>1, <2>2
<1>1. /\ Expected' = Expected /\ ~AnswerRx /\ ~AnswerRx' /\ AnswerTx' = AnswerTx /\ Rx' = Rx
      /\ Tx' = Tx /\ ~TokenRx'
  BY <1>0 DEF Expected, AnswerRx, AnswerTx, Rx, Tx, TokenRx
<1>2. MatchTypes'
  BY <1>0, <1>1 DEF MatchInv, MatchTypes, Sending, NoEvent, Events
<1>3. Tokens'
  BY <1>0, <1>1 DEF MatchInv, Tokens, TokenTx, TokenAt
<1>4. Sources'
  <2>1. \A i \in 1..Len(evts) : AnswerAt(evts, i) => ~TokenRx
    BY DEF MatchInv, Sources
  <2> QED
    BY <1>0, <1>1, <2>1 DEF MatchInv, Sources, TokenAt, AnswerAt
<1> QED
  BY <1>1, <1>2, <1>3, <1>4 DEF MatchInv

(* The controller sends an event: an answer to its command, a permission   *)
(* when it has given none, or both.                                        *)
Event(e) ==
  /\ e \in Events /\ evts' = Append(evts, e) /\ ctl' \in Seq(Bufs)
  /\ UNCHANGED <<opcode, sent, ncmd, tx, cur, rx, evt, done>>
  /\ e.ncmd = 1 => allowed = 0 /\ allowed' = 1 /\ ctl' = <<>>
  /\ e.ncmd = 0 => allowed' = allowed
  /\ e.op \in Opcodes => ctl # <<>> /\ e.op = opcode[ctl[1]] /\ ctl' = <<>>
  /\ e.op \notin Opcodes => ctl' = ctl

LEMMA MatchEvent ==
  ASSUME MatchInv, NEW e, Event(e)
  PROVE  MatchInv' /\ Expected' = Expected
<1> DEFINE n == Len(evts)
<1>0. /\ e \in Events /\ evts' = Append(evts, e)
      /\ UNCHANGED <<opcode, sent, ncmd, tx, cur, rx, evt, done>>
      /\ e.ncmd \in {0, 1} /\ ctl \in Seq(Bufs) /\ Len(ctl) \in Nat /\ allowed \in {0, 1}
      /\ evts \in Seq(Events)
  BY LenProperties DEF Event, MatchInv, MatchTypes, Events
<1>1. /\ evts' \in Seq(Events) /\ n \in Nat /\ Len(evts') = n + 1
      /\ \A j \in 1..n : evts'[j] = evts[j] /\ j \in 1..(n + 1) /\ j < n + 1 /\ j # n + 1
      /\ evts'[n + 1] = e /\ n + 1 \in 1..(n + 1)
      /\ \A j \in 1..(n + 1) : j \in 1..n \/ j = n + 1
  BY <1>0, AppendFacts
<1> HIDE DEF n
<1>2. /\ \A j \in 1..n : (TokenAt(evts', j) <=> TokenAt(evts, j)) /\ (AnswerAt(evts', j) <=> AnswerAt(evts, j))
      /\ TokenAt(evts', n + 1) <=> e.ncmd = 1
      /\ AnswerAt(evts', n + 1) <=> e.op \in Opcodes
  BY <1>1 DEF TokenAt, AnswerAt
<1>3. /\ Expected' = Expected /\ AnswerRx' = AnswerRx /\ AnswerTx' = AnswerTx /\ Rx' = Rx
      /\ Tx' = Tx /\ TokenRx' = TokenRx /\ TokenTx' = TokenTx
  BY <1>0 DEF Expected, AnswerRx, AnswerTx, Rx, Tx, TokenRx, TokenTx
<1>4. MatchTypes'
  BY <1>0, <1>1, <1>3 DEF MatchInv, MatchTypes, Sending, Event
<1>5. e.ncmd = 1 => /\ ncmd = 0 /\ ~TokenRx /\ ~TokenTx /\ \A i \in 1..n : ~TokenAt(evts, i)
  BY DEF Event, MatchInv, Tokens, n
<1>6. Tokens'
  <2>1. Len(ctl') + allowed' <= 1
    <3>1. Len(<<>>) = 0 /\ Len(ctl) + allowed <= 1
      BY DEF MatchInv, Tokens
    <3>2. /\ allowed' \in {0, 1}
          /\ ctl' = <<>> \/ ctl' = ctl
          /\ allowed' = allowed \/ ctl' = <<>>
      BY <1>0 DEF Event
    <3> QED
      BY <1>0, <3>1, <3>2
  <2>2. ASSUME NEW i \in 1..(n + 1), TokenAt(evts', i)
        PROVE  allowed' # 0 /\ ncmd # 1 /\ ~TokenRx /\ ~TokenTx
    <3>1. CASE i = n + 1
      BY <1>2, <1>5, <2>2, <3>1 DEF Event
    <3>2. CASE i \in 1..n
      <4>1. TokenAt(evts, i)
        BY <1>2, <2>2, <3>2
      <4> QED
        BY <1>0, <4>1, <3>2 DEF MatchInv, Tokens, Event, n
    <3> QED
      BY <1>1, <3>1, <3>2
  <2>3. ASSUME NEW i \in 1..(n + 1), NEW j \in 1..(n + 1), TokenAt(evts', i), TokenAt(evts', j)
        PROVE  i = j
    <3>1. CASE e.ncmd = 1
      BY <1>1, <1>2, <1>5, <2>3, <3>1
    <3>2. CASE e.ncmd # 1
      <4>1. i \in 1..n /\ j \in 1..n /\ TokenAt(evts, i) /\ TokenAt(evts, j)
        BY <1>1, <1>2, <2>3, <3>2
      <4> QED
        BY <4>1 DEF MatchInv, Tokens, n
    <3> QED
      BY <3>1, <3>2
  <2>4. allowed' = 0 => ncmd = 0 /\ ~TokenRx /\ ~TokenTx
    BY <1>0 DEF MatchInv, Tokens, Event
  <2>5. /\ ncmd = 1 => ~TokenRx /\ ~TokenTx
        /\ TokenRx => ~TokenTx
    BY DEF MatchInv, Tokens
  <2> QED
    BY <1>0, <1>1, <1>3, <2>1, <2>2, <2>3, <2>4, <2>5 DEF Tokens
<1>7. Sources'
  <2>1. ASSUME e.op \in Opcodes
        PROVE  /\ Expected = ctl[1] /\ Expected # NULL /\ e.op = opcode[Expected]
               /\ ~AnswerRx /\ ~AnswerTx /\ \A i \in 1..n : ~AnswerAt(evts, i)
               /\ ncmd = 0 /\ ~TokenRx /\ ~TokenTx /\ \A i \in 1..n : ~TokenAt(evts, i)
    <3>1. ctl # <<>> /\ e.op = opcode[ctl[1]] /\ Len(ctl) # 0
      BY <1>0, <2>1, EmptySeq DEF Event
    <3>2. allowed = 0 /\ ctl[1] \in Bufs
      <4>1. Len(ctl) + allowed <= 1
        BY DEF MatchInv, Tokens
      <4>2. allowed = 0 /\ 1 \in 1..Len(ctl)
        BY <1>0, <3>1, <4>1
      <4> QED
        BY <1>0, <4>2, ElementOfSeq
    <3> QED
      BY <3>1, <3>2, ConstantsAssumption DEF MatchInv, Sources, Tokens, n
  <2>2. ASSUME NEW i \in 1..(n + 1), AnswerAt(evts', i)
        PROVE  /\ Expected # NULL /\ opcode[Expected] = evts'[i].op
               /\ ~AnswerRx /\ ~AnswerTx /\ ncmd = 0 /\ ~TokenRx /\ tx # "write" /\ ctl' = <<>>
               /\ \A j \in 1..(n + 1) : /\ j < i => ~TokenAt(evts', j)
                                        /\ AnswerAt(evts', j) => j = i
    <3>1. CASE i = n + 1
      <4>1. e.op \in Opcodes /\ evts'[i] = e
        BY <1>1, <1>2, <2>2, <3>1
      <4>2. ASSUME NEW j \in 1..(n + 1), j < i
            PROVE  j \in 1..n
        BY <1>1, <3>1, <4>2
      <4>3. tx # "write" /\ ctl' = <<>>
        BY <2>1, <4>1 DEF TokenTx, Event
      <4> QED
        BY <1>1, <1>2, <2>1, <3>1, <4>1, <4>2, <4>3
    <3>2. CASE i \in 1..n
      <4>1. AnswerAt(evts, i) /\ evts'[i] = evts[i] /\ i < n + 1 /\ i # n + 1
        BY <1>1, <1>2, <2>2, <3>2
      <4>2. e.op \notin Opcodes
        BY <2>1, <3>2, <4>1
      <4>3. /\ Expected # NULL /\ opcode[Expected] = evts[i].op
            /\ ~AnswerRx /\ ~AnswerTx /\ ncmd = 0 /\ ~TokenRx /\ tx # "write" /\ ctl = <<>>
            /\ \A j \in 1..n : /\ j < i => ~TokenAt(evts, j)
                               /\ AnswerAt(evts, j) => j = i
        BY <3>2, <4>1 DEF MatchInv, Sources, n
      <4>4. ctl' = <<>>
        BY <4>2, <4>3 DEF Event
      <4>5. ASSUME NEW j \in 1..(n + 1), j < i
            PROVE  j \in 1..n
        BY <1>1, <3>2, <4>5
      <4> QED
        BY <1>1, <1>2, <4>1, <4>2, <4>3, <4>4, <4>5
    <3> QED
      BY <1>1, <3>1, <3>2
  <2>3. tx = "write" => Expected = cur /\ ctl' = <<>> /\ ~AnswerRx
    BY <2>1 DEF MatchInv, Sources, Event, TokenTx
  <2>4. ctl' # <<>> => Expected = ctl'[1] /\ ~AnswerRx /\ ~AnswerTx
    BY DEF MatchInv, Sources, Event
  <2>5. AnswerRx => Expected # NULL /\ opcode[Expected] = Rx.op /\ ~AnswerTx /\ ncmd = 0
    BY DEF MatchInv, Sources
  <2>6. Expected # NULL => \/ tx = "write" \/ ctl' # <<>> \/ AnswerRx \/ AnswerTx
                           \/ \E i \in 1..(n + 1) : AnswerAt(evts', i)
    <3>1. CASE e.op \in Opcodes
      BY <1>1, <1>2, <3>1
    <3>2. CASE e.op \notin Opcodes
      <4>1. ctl' = ctl
        BY <3>2 DEF Event
      <4> QED
        BY <1>1, <1>2, <4>1 DEF MatchInv, Sources, n
    <3> QED
      BY <3>1, <3>2
  <2>7. /\ tx \in {"clear", "set"} => Expected = NULL
        /\ AnswerTx => Expected = cur /\ Tx.op = opcode[cur] /\ ncmd = 1
        /\ sent # NULL => Rx.at # "match" /\ Tx.at # "match"
        /\ ~(Rx.at = "match" /\ Tx.at = "match")
        /\ Expected # NULL => opcode[Expected] \in Opcodes
    BY DEF MatchInv, Sources
  <2> QED
    BY <1>0, <1>1, <1>3, <2>2, <2>3, <2>4, <2>5, <2>6, <2>7 DEF Sources
<1> QED
  BY <1>3, <1>4, <1>6, <1>7 DEF MatchInv

(* The controller.                                                         *)
LEMMA MatchController ==
  ASSUME MatchInv, Single,
         (\E n \in {0, 1} : Answer(n)) \/ Allow \/ \E op \in Strays : Stray(op)
  PROVE  MatchInv' /\ Expected' = Expected
<1>0. /\ UNCHANGED <<opcode, sent, ncmd, tx, cur, rx, evt, done>>
      /\ ctl \in Seq(Bufs) /\ Len(ctl) \in Nat /\ allowed \in {0, 1} /\ Len(ctl) + allowed <= 1
  BY LenProperties DEF Answer, Allow, Stray, hostVars, txVars, rxVars, MatchInv, MatchTypes, Tokens
<1>1. ASSUME NEW n \in {0, 1}, Answer(n)
      PROVE  \E e : Event(e)
  <2> DEFINE e == [op |-> opcode[Head(ctl)], ncmd |-> n]
  <2>1. ctl # <<>> /\ evts' = Append(evts, e) /\ ctl' = Tail(ctl) /\ allowed' = allowed + n
    BY <1>1 DEF Answer
  <2>2. Head(ctl) = ctl[1] /\ Len(ctl) # 0 /\ Len(Tail(ctl)) = Len(ctl) - 1 /\ Tail(ctl) \in Seq(Bufs)
        /\ Head(ctl) \in Bufs
    BY <1>0, <2>1, TailKeeps
  <2>3. allowed = 0 /\ Len(Tail(ctl)) = 0
    BY <1>0, <2>2
  <2>4. Tail(ctl) = <<>>
    BY <2>2, <2>3, EmptySeq
  <2>5. opcode[Head(ctl)] \in Opcodes
    BY <2>1, <2>2, ConstantsAssumption DEF MatchInv, Sources
  <2>6. e \in Events /\ e.op = opcode[Head(ctl)] /\ e.ncmd = n
    BY <2>5 DEF Events
  <2>8. allowed' = n /\ (n = 0 => allowed' = allowed) /\ (n = 1 => allowed' = 1)
    BY <2>1, <2>3
  <2>9. evts' = Append(evts, e) /\ ctl' = <<>> /\ <<>> \in Seq(Bufs) /\ allowed = 0 /\ ctl # <<>>
    BY <2>1, <2>3, <2>4
  <2> HIDE DEF e
  <2>7. Event(e)
    BY <1>0, <2>2, <2>5, <2>6, <2>8, <2>9 DEF Event
  <2> QED
    BY <2>7
<1>2. ASSUME Allow PROVE \E e : Event(e)
  <2> DEFINE e == [op |-> NULL, ncmd |-> 1]
  <2>1. allowed = 0 /\ allowed' = 1 /\ evts' = Append(evts, e) /\ ctl' = ctl /\ Len(ctl) < 1
    BY <1>2 DEF Allow, Single
  <2>2. ctl = <<>>
    BY <1>0, <2>1, EmptySeq
  <2>3. e \in Events /\ e.op = NULL /\ e.ncmd = 1
    BY DEF Events
  <2> HIDE DEF e
  <2>4. Event(e)
    BY <1>0, <2>1, <2>2, <2>3, ConstantsAssumption DEF Event
  <2> QED
    BY <2>4
<1>3. ASSUME NEW op \in Strays, Stray(op) PROVE \E e : Event(e)
  <2> DEFINE e == [op |-> op, ncmd |-> 0]
  <2>1. evts' = Append(evts, e) /\ ctl' = ctl /\ allowed' = allowed
    BY <1>3 DEF Stray
  <2>2. e \in Events /\ e.op = op /\ e.ncmd = 0 /\ op \notin Opcodes
    BY <1>3, ConstantsAssumption DEF Events
  <2> HIDE DEF e
  <2>3. Event(e)
    BY <1>0, <2>1, <2>2 DEF Event
  <2> QED
    BY <2>3
<1> QED
  BY <1>1, <1>2, <1>3, MatchEvent

-----------------------------------------------------------------------------
(* References and waiting threads.                                         *)

LEMMA HoldInit == Init => HoldInv
<1> SUFFICES ASSUME Init PROVE HoldInv
  OBVIOUS
<1>1. /\ queue = <<>> /\ sent = NULL /\ cur = NULL /\ tx = "off" /\ Rx = NotDone /\ Tx = NotDone
      /\ \A t \in Threads : buf[t] = NULL /\ pc[t] = "idle"
  BY DEF Init, Rx, Tx, Actors
<1>2. Expected = NULL /\ \A x : ~Has(queue, x)
  BY <1>1 DEF Expected, NotDone, Has
<1>3. Once(queue, Bufs)
  BY <1>1 DEF Once
<1>4. \A b \in Bufs : ~Live(b) /\ Count(b) = 0
  BY <1>1, <1>2, NotDoneFields, ConstantsAssumption DEF Live, Count, One, Kept, Sending
<1> QED
  BY <1>1, <1>2, <1>3, <1>4 DEF Init, HoldInv, HoldTypes, Waiting, Counted, Apart

(* What a buffer's references are, for a step that moves one of them.      *)
LEMMA CountNat == \A b : Count(b) \in Nat
BY DEF Count, One

(* No buffer gets a reference, and no command waits for another answer.    *)
Settled == \A b \in Bufs : Count(b)' <= Count(b) /\ (Live(b)' => Live(b))

(* A step that leaves the threads and what they wait for alone.            *)
LEMMA HoldSame ==
  ASSUME HoldInv, UNCHANGED <<sync, opcode, pc, want, buf, given>>, Once(queue', Bufs),
         ref' \in [Bufs -> Nat], Apart',
         \A b \in Bufs : Live(b)' = Live(b) /\ ref'[b] >= Count(b)',
         buf \in [Threads -> Bufs \cup {NULL}]
  PROVE  HoldInv'
BY DEF HoldInv, HoldTypes, Waiting, Counted

LEMMA SameCovers ==
  ASSUME HoldInv, UNCHANGED ref, \A b \in Bufs : Live(b)' = Live(b) /\ Count(b)' = Count(b)
  PROVE  (\A b \in Bufs : Live(b)' = Live(b) /\ ref'[b] >= Count(b)') /\ Settled
<1>1. \A b \in Bufs : ref[b] >= Count(b) /\ Count(b) \in Nat
  BY CountNat DEF HoldInv, Counted
<1> HIDE DEF Count
<1> QED
  BY <1>1 DEF Settled

(* The steps that touch no reference.                                      *)
LEMMA HoldRest ==
  ASSUME HoldInv, KickTypes, UNCHANGED <<ref, sync, opcode, pc, want, buf, given, queue, sent>>,
         Expected' = Expected, Rx'.buf = Rx.buf, Tx'.buf = Tx.buf, Sending' = Sending,
         Sending => cur' = cur, tx' \in {"clear", "set"} <=> tx \in {"clear", "set"}
  PROVE  HoldInv' /\ Settled
<1>1. ASSUME NEW b \in Bufs PROVE Live(b)' = Live(b) /\ Count(b)' = Count(b)
  BY DEF Live, Count, One, Kept, Sending
<1>2. Apart'
  BY DEF HoldInv, Apart
<1>3. (\A b \in Bufs : Live(b)' = Live(b) /\ ref'[b] >= Count(b)') /\ Settled
  BY <1>1, SameCovers
<1> QED
  BY <1>2, <1>3, HoldSame DEF HoldInv, HoldTypes, Counted, KickTypes

LEMMA HoldPop ==
  ASSUME HoldInv, KickTypes, MatchInv, process_pending_cmd
  PROVE  HoldInv' /\ Settled
<1>1. CASE tx' = "off"
  <2>1. /\ UNCHANGED <<ref, sync, opcode, pc, want, buf, given, queue, sent, done>> /\ tx = "check"
    BY <1>1 DEF process_pending_cmd, callVars
  <2>2. /\ Expected' = Expected /\ Rx'.buf = Rx.buf /\ Tx'.buf = Tx.buf /\ ~Sending
        /\ Sending' = Sending
        /\ tx' \in {"clear", "set"} <=> tx \in {"clear", "set"}
    BY <1>1, <2>1 DEF Expected, Rx, Tx, Sending
  <2> QED
    BY <1>1, <2>1, <2>2, HoldRest
<1>2. CASE tx' # "off"
  <2>1. /\ tx = "check" /\ queue # <<>> /\ cur' = Head(queue) /\ queue' = Tail(queue)
        /\ tx' = "clear" /\ UNCHANGED <<ref, sync, opcode, pc, want, buf, given, sent, done>>
    BY <1>2 DEF process_pending_cmd, callVars
  <2>2. queue \in Seq(Bufs) /\ Once(queue, Bufs)
    BY DEF KickTypes, HoldInv, Counted
  <2>3. /\ Once(Tail(queue), Bufs) /\ Head(queue) \in Bufs
        /\ \A x : Has(queue, x) <=> x = Head(queue) \/ Has(Tail(queue), x)
        /\ ~Has(Tail(queue), Head(queue))
    <3>1. /\ Head(queue) \in Bufs /\ Head(queue) = queue[1] /\ Tail(queue) \in Seq(Bufs)
          /\ Len(queue) \in Nat \ {0} /\ Len(Tail(queue)) = Len(queue) - 1
          /\ \A i \in 1..Len(Tail(queue)) : Tail(queue)[i] = queue[i + 1] /\ i + 1 \in 1..Len(queue)
          /\ \A x : Has(queue, x) => x = Head(queue) \/ Has(Tail(queue), x)
      BY <2>1, <2>2, TailKeeps
    <3>2. Once(Tail(queue), Bufs)
      BY <2>1, <2>2, TailHas
    <3>3. ASSUME NEW x, Has(Tail(queue), x) PROVE Has(queue, x) /\ x # Head(queue)
      <4>1. PICK i \in 1..Len(Tail(queue)) : Tail(queue)[i] = x
        BY <3>3 DEF Has
      <4>2. i + 1 \in 1..Len(queue) /\ queue[i + 1] = x /\ i + 1 # 1 /\ 1 \in 1..Len(queue)
        BY <3>1, <4>1
      <4> QED
        BY <2>2, <3>1, <4>2 DEF Has, Once
    <3>4. Has(queue, Head(queue))
      BY <3>1 DEF Has
    <3> QED
      BY <3>1, <3>2, <3>3, <3>4
  <2>4. Expected' = Expected /\ Rx' = Rx /\ Tx' = Tx /\ ~Sending /\ Sending'
    BY <2>1 DEF Expected, Rx, Tx, Sending
  <2>5. ASSUME NEW b \in Bufs PROVE Live(b)' = Live(b) /\ Count(b)' = Count(b)
    <3>1. Has(queue, b) <=> b = cur' \/ Has(queue', b)
      BY <2>1, <2>3
    <3>2. ~(b = cur' /\ Has(queue', b))
      BY <2>1, <2>3
    <3>3. Kept(b)' = Kept(b)
      BY <2>1 DEF Kept
    <3> QED
      BY <2>1, <2>4, <3>1, <3>2, <3>3 DEF Live, Count, One
  <2>6. Apart'
    BY <2>1, <2>3, <2>4 DEF HoldInv, Apart
  <2>7. (\A b \in Bufs : Live(b)' = Live(b) /\ ref'[b] >= Count(b)') /\ Settled
    BY <2>1, <2>5, SameCovers
  <2> QED
    BY <2>1, <2>3, <2>6, <2>7, HoldSame DEF HoldInv, HoldTypes, Counted, KickTypes
<1> QED
  BY <1>1, <1>2

LEMMA HoldClear ==
  ASSUME HoldInv, KickTypes, MatchInv, ClearSent
  PROVE  HoldInv' /\ Settled
<1>1. sent = NULL /\ Expected = NULL /\ Expected' = NULL
  BY MatchClear
<1>2. /\ UNCHANGED <<ref, sync, opcode, pc, want, buf, given, queue, sent, cur, done>>
      /\ tx = "clear" /\ tx' = "set"
  BY <1>1 DEF ClearSent, callVars
<1>3. Rx'.buf = Rx.buf /\ Tx'.buf = Tx.buf /\ Sending /\ Sending'
  BY <1>2 DEF Rx, Tx, Sending
<1> QED
  BY <1>1, <1>2, <1>3, HoldRest

LEMMA HoldSet ==
  ASSUME HoldInv, KickTypes, MatchInv, SetSent
  PROVE  /\ HoldInv' /\ MatchInv' /\ cur \in Bufs /\ Live(cur)
         /\ \A b \in Bufs : b # cur => Count(b)' <= Count(b) /\ (Live(b)' => Live(b))
<1>1. /\ UNCHANGED <<sync, opcode, pc, want, buf, given, queue, cur, done>> /\ sent' = cur
      /\ tx = "set" /\ tx' = "write" /\ ref' = [ref EXCEPT ![cur] = @ + 1]
  BY DEF SetSent, callVars
<1>2. cur \in Bufs /\ opcode[cur] \in Opcodes /\ ref \in [Bufs -> Nat] /\ Live(cur)
  <2>1. cur \in Bufs /\ Live(cur)
    BY <1>1 DEF MatchInv, MatchTypes, Sending, Live
  <2> QED
    BY <2>1 DEF HoldInv, Waiting, HoldTypes
<1>3. MatchInv' /\ Expected = NULL /\ Expected' = cur /\ sent = NULL
  BY <1>2, MatchSet
<1>4. Rx' = Rx /\ Tx' = Tx /\ Sending /\ Sending'
  BY <1>1 DEF Rx, Tx, Sending
<1>5. ASSUME NEW b \in Bufs 
      PROVE  Live(b)' = Live(b) /\ ref'[b] >= Count(b)' /\ (b # cur => Count(b)' <= Count(b))
  <2>1. Kept(b)' = Kept(b) /\ b # NULL
    BY <1>1, ConstantsAssumption DEF Kept
  <2>2. Count(b)' = IF b = cur THEN Count(b) + 1 ELSE Count(b)
    BY <1>1, <1>3, <1>4, <2>1 DEF Count, One
  <2>3. ref'[b] = IF b = cur THEN ref[b] + 1 ELSE ref[b]
    BY <1>1, <1>2
  <2>4. Live(b)' = Live(b)
    BY <1>1, <1>3, <2>1 DEF Live
  <2>5. ref[b] >= Count(b) /\ Count(b) \in Nat /\ ref[b] \in Nat
    BY <1>2, CountNat DEF HoldInv, Counted
  <2> HIDE DEF Count
  <2> QED
    BY <2>2, <2>3, <2>4, <2>5
<1>6. ref' \in [Bufs -> Nat]
  BY <1>1, <1>2
<1>7. Apart'
  BY <1>1, <1>3, <1>4 DEF HoldInv, Apart
<1> QED
  BY <1>1, <1>2, <1>3, <1>5, <1>6, <1>7, HoldSame DEF HoldInv, Counted, KickTypes

LEMMA HoldSent ==
  ASSUME HoldInv, KickTypes, MatchInv, LoadInv, CommandSent
  PROVE  HoldInv' /\ MatchInv' /\ Settled
<1>1. /\ UNCHANGED <<sync, opcode, pc, want, buf, given, queue, done, sent, ncmd, rx, evt, ctl,
                     allowed, evts>>
      /\ tx \in {"unref", "failed"} /\ tx' = "off" /\ ref' = [ref EXCEPT ![cur] = old["tx"] - 1]
      /\ Tx.at = "no" /\ old["tx"] > 0
  BY DEF CommandSent, callVars, rxVars, ctlVars, Tx, MatchInv, MatchTypes, StoreRef
<1>2. cur \in Bufs /\ ref \in [Bufs -> Nat]
  BY <1>1 DEF MatchInv, MatchTypes, Sending, HoldInv, HoldTypes
<1>3. MatchInv'
  BY <1>1, MatchIdleTx DEF MatchSame
<1>4. Rx' = Rx /\ Tx' = Tx /\ Sending /\ ~Sending' /\ Expected' = Expected
  BY <1>1 DEF Rx, Tx, Sending, Expected
<1>0. old["tx"] \in Nat /\ old["tx"] >= Count(cur)
  <2>1. "tx" \in Users /\ "tx" \notin Threads /\ Releasing("tx") = cur
    BY <1>1, UserFacts DEF Releasing, CommandSent, Tx
  <2> QED
    BY <1>1, <2>1 DEF LoadInv, Loads
<1>5. ASSUME NEW b \in Bufs
      PROVE  Live(b)' = Live(b) /\ ref'[b] >= Count(b)' /\ Count(b)' <= Count(b)
  <2>1. Kept(b)' = Kept(b)
    BY <1>1 DEF Kept
  <2>2. Count(b) = IF b = cur THEN Count(b)' + 1 ELSE Count(b)'
    BY <1>1, <1>4, <2>1 DEF Count, One
  <2>3. ref'[b] = IF b = cur THEN old["tx"] - 1 ELSE ref[b]
    BY <1>1, <1>2
  <2>4. Live(b)' = Live(b)
    BY <1>1, <1>4 DEF Live
  <2>5. Count(b)' \in Nat /\ ref[b] >= Count(b) /\ ref[b] \in Nat
    BY <1>2 DEF Count, One, HoldInv, Counted
  <2> HIDE DEF Count
  <2> QED
    BY <1>0, <2>2, <2>3, <2>4, <2>5
<1>6. ref' \in [Bufs -> Nat] /\ Settled
  <2>1. old["tx"] - 1 \in Nat
    BY <1>0, <1>1
  <2> QED
    BY <1>1, <1>2, <1>5, <2>1 DEF Settled
<1>7. Apart'
  BY <1>1, <1>3, <1>4 DEF HoldInv, Apart
<1> QED
  BY <1>1, <1>3, <1>5, <1>6, <1>7, HoldSame DEF HoldInv, Counted, KickTypes

(* hci_cmd_done moves the reference of sent_cmd to its own hand,           *)
LEMMA HoldTakeSent ==
  ASSUME HoldInv, KickTypes, MatchInv, Single, NEW a \in Actors, TakeSent(a)
  PROVE  HoldInv' /\ Settled
<1>1. Expected' = Expected
  BY MatchTakeSent
<1>2. /\ Handed(a, Taken(a)) /\ HandSame /\ sent' = NULL /\ sent \in Bufs \cup {NULL}
      /\ done[a].buf = NULL /\ Taken(a).buf = sent
  BY TakenHanded
<1>3. /\ a = "rx" => Rx' = Taken(a) /\ Tx' = Tx /\ Rx = done[a]
      /\ a = "tx" => Tx' = Taken(a) /\ Rx' = Rx /\ Tx = done[a]
      /\ a = "rx" \/ a = "tx"
  BY <1>2, MatchDone
<1>4. UNCHANGED <<ref, sync, opcode, pc, want, buf, given, queue, tx, cur>>
  BY DEF TakeSent, callVars, txVars
<1>5. ASSUME NEW b \in Bufs PROVE Live(b)' = Live(b) /\ Count(b)' = Count(b)
  <2>1. b # NULL /\ Kept(b)' = Kept(b) /\ Sending' = Sending /\ cur' = cur
    BY <1>4, ConstantsAssumption DEF Kept, Sending
  <2>2. Live(b)' = Live(b)
    BY <1>1, <1>4 DEF Live
  <2>3. CASE a = "rx"
    BY <1>2, <1>3, <1>4, <2>1, <2>2, <2>3 DEF Count, One
  <2>4. CASE a = "tx"
    BY <1>2, <1>3, <1>4, <2>1, <2>2, <2>4 DEF Count, One
  <2> QED
    BY <1>3, <2>3, <2>4
<1>6. Apart'
  BY <1>1, <1>4 DEF HoldInv, Apart, Sending
<1>7. (\A b \in Bufs : Live(b)' = Live(b) /\ ref'[b] >= Count(b)') /\ Settled
  BY <1>4, <1>5, SameCovers
<1> QED
  BY <1>4, <1>6, <1>7, HoldSame DEF HoldInv, HoldTypes, Counted, KickTypes

(* and back.                                                               *)
LEMMA HoldPutBack ==
  ASSUME HoldInv, KickTypes, MatchInv, Single, NEW a \in Actors, PutBack(a)
  PROVE  HoldInv' /\ Settled
<1>1. /\ Expected' = Expected /\ a = "rx" /\ sent = NULL
      /\ Rx.buf # NULL /\ sent' = Rx.buf /\ Rx'.buf = NULL /\ Tx' = Tx
  BY MatchPutBack
<1>4. UNCHANGED <<ref, sync, opcode, pc, want, buf, given, queue, tx, cur>>
  BY DEF PutBack, callVars, txVars
<1>5. ASSUME NEW b \in Bufs PROVE Live(b)' = Live(b) /\ Count(b)' = Count(b)
  <2>1. b # NULL /\ Kept(b)' = Kept(b) /\ Sending' = Sending /\ cur' = cur
    BY <1>4, ConstantsAssumption DEF Kept, Sending
  <2>2. Live(b)' = Live(b)
    BY <1>1, <1>4 DEF Live
  <2> QED
    BY <1>1, <1>4, <2>1, <2>2 DEF Count, One
<1>6. Apart'
  BY <1>1, <1>4 DEF HoldInv, Apart, Sending
<1>7. (\A b \in Bufs : Live(b)' = Live(b) /\ ref'[b] >= Count(b)') /\ Settled
  BY <1>4, <1>5, SameCovers
<1> QED
  BY <1>4, <1>6, <1>7, HoldSame DEF HoldInv, HoldTypes, Counted, KickTypes

(* The thread that waits is woken: the command is answered.                *)
LEMMA HoldWake ==
  ASSUME HoldInv, KickTypes, MatchInv, Single, NEW a \in Actors, WakeCaller(a)
  PROVE  HoldInv' /\ Settled
<1>1. /\ Expected = done[a].buf /\ Expected # NULL /\ Expected' = NULL
      /\ Rx'.buf = Rx.buf /\ Tx'.buf = Tx.buf
  BY MatchWake
<1>3. PICK e \in Bufs : e = done[a].buf /\ e # NULL
  <2>1. done[a] \in Dones
    BY DEF MatchInv, MatchTypes
  <2> QED
    BY <1>1, <2>1 DEF Dones
<1>2. /\ UNCHANGED <<ref, sync, opcode, pc, want, buf, queue, tx, cur, sent>>
      /\ given' = given \cup ({sync[e]} \ {NULL}) /\ done[a].at = "match"
  BY <1>3 DEF WakeCaller, hostVars, txVars
<1>4. ~Live(e)' /\ Live(e)
  <2>1. tx \notin {"clear", "set"} /\ ~Has(queue, e)
    BY <1>1, <1>3 DEF MatchInv, Sources, HoldInv, Apart
  <2> QED
    BY <1>1, <1>2, <1>3, <2>1 DEF Live
<1>5. ASSUME NEW b \in Bufs
      PROVE  /\ Count(b)' = Count(b)
             /\ b # e => Live(b)' = Live(b)
  <2>1. Kept(b)' = Kept(b) /\ Sending' = Sending
    BY <1>2 DEF Kept, Sending
  <2>2. Count(b)' = Count(b)
    BY <1>1, <1>2, <2>1 DEF Count
  <2>3. b # e => Live(b)' = Live(b)
    BY <1>1, <1>2, <1>3, ConstantsAssumption DEF Live
  <2> QED
    BY <2>2, <2>3
<1>6. /\ sync[e] # NULL => sync[e] \in Threads /\ buf[sync[e]] = e
      /\ \A t \in Threads : buf[t] = e => t = sync[e] /\ sync[e] # NULL
  BY <1>3, <1>4, ThreadsFact DEF HoldInv, HoldTypes, Waiting
<1>7. Waiting'
  <2>1. ASSUME NEW t \in Threads, buf[t] # NULL
        PROVE  t \in given' <=> ~Live(buf[t])'
    <3>1. buf[t] \in Bufs /\ (t \in given <=> ~Live(buf[t]))
      BY <2>1 DEF KickTypes, HoldInv, Waiting
    <3>2. CASE buf[t] = e
      <4>1. t \in given'
        BY <1>2, <1>6, <3>2, ThreadsFact
      <4> QED
        BY <1>2, <1>4, <3>2, <4>1
    <3>3. CASE buf[t] # e
      <4>1. t # sync[e] \/ sync[e] = NULL
        BY <1>6, <3>3
      <4>2. t \in given' <=> t \in given
        BY <1>2, <4>1, ThreadsFact
      <4> QED
        BY <1>2, <1>5, <3>1, <3>3, <4>2
    <3> QED
      BY <3>2, <3>3
  <2>2. ASSUME NEW t \in Threads
        PROVE  /\ buf[t] # NULL => sync[buf[t]] = t /\ pc[t] \in {"raise", "drain", "wait"}
               /\ pc[t] \in {"drain", "wait"} => buf[t] # NULL
               /\ pc[t] = "alloc" => want[t].op \in Opcodes
               /\ pc[t] = "raise" /\ want[t].wait => buf[t] # NULL
               /\ pc[t] = "raise" /\ ~want[t].wait => buf[t] = NULL
               /\ t \in given' => buf[t] # NULL
    <3>1. t \in given' => t \in given \/ (t = sync[e] /\ sync[e] # NULL)
      BY <1>2
    <3> QED
      BY <1>3, <1>6, <3>1 DEF HoldInv, Waiting
  <2>3. ASSUME NEW b \in Bufs, Live(b)'
        PROVE  opcode[b] \in Opcodes /\ (sync[b] # NULL => buf[sync[b]] = b)
    BY <1>4, <1>5, <2>3 DEF HoldInv, Waiting
  <2> QED
    BY <1>2, <2>1, <2>2, <2>3 DEF Waiting
<1>8. Apart'
  BY <1>1, <1>2 DEF HoldInv, Apart, Sending
<1>9. HoldTypes' /\ Counted' /\ Settled
  <2>1. \A b \in Bufs : Count(b)' = Count(b) /\ Count(b) \in Nat /\ ref[b] >= Count(b)
    BY <1>5, CountNat DEF HoldInv, Counted
  <2>2. \A b \in Bufs : Live(b)' => Live(b)
    BY <1>4, <1>5
  <2>3. \A b \in Bufs : ref'[b] >= Count(b)' /\ Count(b)' <= Count(b)
    BY <1>2, <2>1
  <2> QED
    BY <1>2, <1>3, <2>2, <2>3 DEF HoldInv, HoldTypes, Counted, Settled
<1> QED
  BY <1>7, <1>8, <1>9 DEF HoldInv

(* The reference that hci_cmd_done took is released.                       *)
LEMMA HoldRelease ==
  ASSUME HoldInv, KickTypes, MatchInv, LoadInv, NEW a \in Actors, ReleaseSent(a)
  PROVE  HoldInv' /\ Settled
<1>1. Expected' = Expected
  BY MatchRelease
<1>2. /\ done[a].at = "unref" /\ done' = [done EXCEPT ![a] = NotDone]
      /\ ref' = [ref EXCEPT ![done[a].buf] = old[a] - 1] /\ old[a] > 0
      /\ UNCHANGED <<sync, opcode, pc, want, buf, given, queue, tx, cur, sent>> /\ HandSame
      /\ sent' \in Bufs \cup {NULL}
  BY DEF ReleaseSent, StoreRef, callVars, txVars, rxVars, ctlVars, HandSame, MatchInv, MatchTypes
<1>3. PICK e \in Bufs : e = done[a].buf /\ e # NULL
  <2>1. done[a] \in Dones /\ done[a].buf # NULL
    BY <1>2 DEF MatchInv, MatchTypes
  <2> QED
    BY <2>1 DEF Dones
<1>4. /\ a = "rx" => Rx' = NotDone /\ Tx' = Tx /\ Rx = done[a]
      /\ a = "tx" => Tx' = NotDone /\ Rx' = Rx /\ Tx = done[a]
      /\ a = "rx" \/ a = "tx"
  <2>1. Handed(a, NotDone)
    BY <1>2, NotDoneFields DEF Handed
  <2> QED
    BY <1>2, <2>1, MatchDone
<1>0. old[a] \in Nat /\ old[a] >= Count(e)
  <2>1. a \in Users /\ a \notin Threads /\ Releasing(a) = e
    BY <1>2, <1>3, UserFacts DEF Releasing
  <2> QED
    BY <1>2, <2>1 DEF LoadInv, Loads
<1>5. ASSUME NEW b \in Bufs
      PROVE  Live(b)' = Live(b) /\ ref'[b] >= Count(b)' /\ Count(b)' <= Count(b)
  <2>1. b # NULL /\ Kept(b)' = Kept(b) /\ Sending' = Sending /\ NotDone.buf = NULL
    BY <1>2, ConstantsAssumption, NotDoneFields DEF Kept, Sending
  <2>2. Live(b)' = Live(b)
    BY <1>1, <1>2 DEF Live
  <2>3. Count(b) = IF b = e THEN Count(b)' + 1 ELSE Count(b)'
    <3>1. CASE a = "rx"
      BY <1>2, <1>3, <1>4, <2>1, <3>1 DEF Count, One
    <3>2. CASE a = "tx"
      BY <1>2, <1>3, <1>4, <2>1, <3>2 DEF Count, One
    <3> QED
      BY <1>4, <3>1, <3>2
  <2>4. ref'[b] = IF b = e THEN old[a] - 1 ELSE ref[b]
    BY <1>2, <1>3 DEF HoldInv, HoldTypes
  <2>5. Count(b)' \in Nat /\ ref[b] >= Count(b) /\ ref[b] \in Nat
    BY DEF Count, One, HoldInv, HoldTypes, Counted
  <2> HIDE DEF Count
  <2> QED
    BY <1>0, <2>2, <2>3, <2>4, <2>5
<1>6. ref' \in [Bufs -> Nat] /\ Settled
  <2>1. old[a] - 1 \in Nat /\ ref \in [Bufs -> Nat]
    BY <1>0, <1>2 DEF HoldInv, HoldTypes
  <2> QED
    BY <1>2, <1>3, <1>5, <2>1 DEF Settled
<1>7. Apart'
  BY <1>1, <1>2 DEF HoldInv, Apart, Sending
<1> QED
  BY <1>2, <1>5, <1>6, <1>7, HoldSame DEF HoldInv, Counted, KickTypes

(* A thread begins a call, or goes on to wait.                             *)
LEMMA HoldCall ==
  ASSUME HoldInv, KickInv, MatchInv, NEW t \in Threads,
         (\E op \in Opcodes, wait \in BOOLEAN : CallSend(t, op, wait)) \/ RaiseTx(t)
  PROVE  HoldInv' /\ MatchInv' /\ Settled
<1>1. /\ UNCHANGED <<ref, sync, opcode, buf, given, queue, tx, cur, sent, done>> /\ MatchSame
      /\ \/ /\ pc[t] = "idle" /\ pc' = [pc EXCEPT ![t] = "alloc"]
            /\ \E op \in Opcodes, wait \in BOOLEAN : want' = [want EXCEPT ![t] = [op |-> op, wait |-> wait]]
         \/ /\ pc[t] = "raise" /\ want' = [want EXCEPT ![t] = NoWant]
            /\ pc' = [pc EXCEPT ![t] = IF ~want[t].wait THEN "idle"
                                       ELSE IF t = WQ THEN "drain" ELSE "wait"]
  BY DEF CallSend, RaiseTx, MatchSame, hostVars, txVars, rxVars, ctlVars
<1>2. MatchInv' /\ Expected' = Expected /\ Sending' = Sending /\ Rx' = Rx /\ Tx' = Tx
  BY <1>1, MatchUnseen DEF MatchInv, MatchTypes, Expected, MatchSame, Sending, Rx, Tx
<1>3. ASSUME NEW b \in Bufs PROVE Live(b)' = Live(b) /\ Count(b)' = Count(b)
  BY <1>1, <1>2 DEF Live, Count, Kept
<1>4. pc \in [Threads -> {"idle", "alloc", "raise", "drain", "wait"}] /\ want[t].wait \in BOOLEAN
      /\ want \in [Threads -> [op : Opcodes \cup {NULL}, wait : BOOLEAN]]
      /\ buf \in [Threads -> Bufs \cup {NULL}]
  BY DEF KickInv, KickTypes
<1>5. ASSUME NEW u \in Threads
      PROVE  /\ buf[u] # NULL => pc'[u] \in {"raise", "drain", "wait"}
             /\ pc'[u] \in {"drain", "wait"} => buf[u] # NULL
             /\ pc'[u] = "alloc" => want'[u].op \in Opcodes
             /\ pc'[u] = "raise" /\ want'[u].wait => buf[u] # NULL
             /\ pc'[u] = "raise" /\ ~want'[u].wait => buf[u] = NULL
  <2>0. /\ buf[u] # NULL => pc[u] \in {"raise", "drain", "wait"}
        /\ pc[u] \in {"drain", "wait"} => buf[u] # NULL
        /\ pc[u] = "alloc" => want[u].op \in Opcodes
        /\ pc[u] = "raise" /\ want[u].wait => buf[u] # NULL
        /\ pc[u] = "raise" /\ ~want[u].wait => buf[u] = NULL
    BY DEF HoldInv, Waiting
  <2>1. CASE u # t
    BY <1>1, <1>4, <2>0, <2>1
  <2>2. CASE u = t /\ pc[t] = "idle"
    BY <1>1, <1>4, <2>0, <2>2
  <2>3. CASE u = t /\ pc[t] = "raise"
    BY <1>1, <1>4, <2>0, <2>3
  <2> QED
    BY <1>1, <2>1, <2>2, <2>3
<1>6. ASSUME NEW u \in Threads
      PROVE  /\ buf[u] # NULL => sync[buf[u]] = u /\ (u \in given <=> ~Live(buf[u]))
             /\ u \in given => buf[u] # NULL
  BY DEF HoldInv, Waiting
<1>7. ASSUME NEW u \in Threads, buf[u] # NULL
      PROVE  Live(buf[u])' = Live(buf[u])
  BY <1>1, <1>3, <1>4, <1>7
<1>8. Waiting'
  <2>1. \A b \in Bufs : Live(b) => opcode[b] \in Opcodes /\ (sync[b] # NULL => buf[sync[b]] = b)
    BY DEF HoldInv, Waiting
  <2> QED
    BY <1>1, <1>3, <1>5, <1>6, <1>7, <2>1 DEF Waiting
<1>9. HoldTypes' /\ Counted' /\ Apart' /\ Settled
  <2>1. (\A b \in Bufs : ref'[b] >= Count(b)') /\ Settled
    BY <1>1, <1>3, SameCovers
  <2> QED
    BY <1>1, <1>2, <2>1 DEF HoldInv, HoldTypes, Counted, Apart
<1> QED
  BY <1>2, <1>8, <1>9 DEF HoldInv

(* The thread takes its answer: it was the only one to keep the command.   *)
LEMMA HoldAnswer ==
  ASSUME HoldInv, KickTypes, MatchInv, LoadInv, NEW t \in Threads, TakeAnswer(t)
  PROVE  HoldInv' /\ MatchInv' /\ Settled
<1>1. /\ UNCHANGED <<sync, opcode, want, queue, tx, cur, sent, done>> /\ MatchSame
      /\ pc[t] = "wait" /\ t \in given /\ given' = given \ {t}
      /\ ref' = [ref EXCEPT ![buf[t]] = old[t] - 1] /\ old[t] > 0
      /\ pc' = [pc EXCEPT ![t] = "idle"] /\ buf' = [buf EXCEPT ![t] = NULL]
  BY DEF TakeAnswer, StoreRef, MatchSame, txVars, rxVars, ctlVars
<1>2. MatchInv' /\ Expected' = Expected /\ Sending' = Sending /\ Rx' = Rx /\ Tx' = Tx
  BY <1>1, MatchUnseen DEF MatchInv, MatchTypes, Expected, MatchSame, Sending, Rx, Tx
<1>3. PICK e \in Bufs : e = buf[t] /\ e # NULL
  BY <1>1 DEF KickTypes, HoldInv, Waiting
<1>4. /\ buf \in [Threads -> Bufs \cup {NULL}] /\ ref \in [Bufs -> Nat]
      /\ pc \in [Threads -> {"idle", "alloc", "raise", "drain", "wait"}]
  BY DEF KickTypes, HoldInv, HoldTypes
<1>5. /\ sync[e] = t /\ ~Live(e)
      /\ \A u \in Threads : buf[u] = e => u = t
  BY <1>1, <1>3 DEF HoldInv, Waiting
<1>0. old[t] \in Nat /\ old[t] >= Count(e)
  <2>1. t \in Users /\ Releasing(t) = e
    BY <1>1, <1>3 DEF Releasing, Users
  <2> QED
    BY <1>1, <2>1 DEF LoadInv, Loads
<1>6. ASSUME NEW b \in Bufs
      PROVE  Live(b)' = Live(b) /\ ref'[b] >= Count(b)' /\ Count(b)' <= Count(b)
  <2>1. Live(b)' = Live(b)
    BY <1>1, <1>2 DEF Live
  <2>2. b = e => Kept(b) /\ ~Kept(b)'
    BY <1>1, <1>3, <1>4, <1>5 DEF Kept
  <2>3. b # e => Kept(b)' = Kept(b)
    <3>1. \A u \in Threads : b # e => (buf[u] = b <=> buf'[u] = b)
      BY <1>1, <1>3, <1>4, ConstantsAssumption
    <3> QED
      BY <3>1 DEF Kept
  <2>4. Count(b) = IF b = e THEN Count(b)' + 1 ELSE Count(b)'
    BY <1>1, <1>2, <2>2, <2>3 DEF Count, One
  <2>5. ref'[b] = IF b = e THEN old[t] - 1 ELSE ref[b]
    BY <1>1, <1>3, <1>4
  <2>6. Count(b)' \in Nat /\ ref[b] >= Count(b) /\ ref[b] \in Nat
    BY <1>4 DEF Count, One, HoldInv, Counted
  <2> HIDE DEF Count
  <2> QED
    BY <1>0, <2>1, <2>4, <2>5, <2>6
<1>7. Waiting'
  <2>1. ASSUME NEW u \in Threads, buf'[u] # NULL
        PROVE  /\ u # t /\ buf'[u] = buf[u] /\ sync[buf[u]] = u
               /\ pc'[u] \in {"raise", "drain", "wait"} /\ buf[u] \in Bufs
               /\ u \in given' <=> ~Live(buf[u])
    BY <1>1, <1>4, <2>1 DEF HoldInv, Waiting
  <2>2. ASSUME NEW u \in Threads, buf'[u] # NULL
        PROVE  u \in given' <=> ~Live(buf[u])'
    <3>1. PICK b \in Bufs : b = buf[u] /\ b = buf'[u]
      BY <2>1, <2>2
    <3>2. u \in given' <=> ~Live(b)'
      BY <1>6, <2>1, <2>2, <3>1
    <3> QED
      BY <3>1, <3>2
  <2>3. ASSUME NEW u \in Threads
        PROVE  /\ pc'[u] \in {"drain", "wait"} => buf'[u] # NULL
               /\ pc'[u] = "alloc" => want[u].op \in Opcodes
               /\ pc'[u] = "raise" /\ want[u].wait => buf'[u] # NULL
               /\ pc'[u] = "raise" /\ ~want[u].wait => buf'[u] = NULL
               /\ u \in given' => buf'[u] # NULL
    <3>0. /\ pc[u] \in {"drain", "wait"} => buf[u] # NULL
          /\ pc[u] = "alloc" => want[u].op \in Opcodes
          /\ pc[u] = "raise" /\ want[u].wait => buf[u] # NULL
          /\ pc[u] = "raise" /\ ~want[u].wait => buf[u] = NULL
          /\ u \in given => buf[u] # NULL
      BY DEF HoldInv, Waiting
    <3> QED
      BY <1>1, <1>4, <3>0
  <2>4. ASSUME NEW b \in Bufs, Live(b)'
        PROVE  opcode[b] \in Opcodes /\ (sync[b] # NULL => buf'[sync[b]] = b)
    <3>1. b # e /\ opcode[b] \in Opcodes /\ (sync[b] # NULL => buf[sync[b]] = b)
          /\ sync[b] \in Threads \cup {NULL}
      BY <1>5, <1>6, <2>4 DEF HoldInv, HoldTypes, Waiting
    <3> QED
      BY <1>1, <1>3, <1>4, <3>1
  <2> QED
    BY <1>1, <2>1, <2>2, <2>3, <2>4 DEF Waiting
<1>8. HoldTypes' /\ Counted' /\ Apart' /\ Settled
  <2>1. old[t] - 1 \in Nat
    BY <1>0, <1>1
  <2>2. ref' \in [Bufs -> Nat] /\ Settled
    BY <1>1, <1>3, <1>4, <1>6, <2>1 DEF Settled
  <2> QED
    BY <1>1, <1>2, <1>3, <1>4, <1>6, <2>2 DEF HoldInv, HoldTypes, Counted, Apart
<1> QED
  BY <1>2, <1>7, <1>8 DEF HoldInv

(* bt_hci_cmd_send: nobody refers to a free buffer.                        *)
LEMMA HoldAlloc ==
  ASSUME HoldInv, KickTypes, MatchInv, NEW t \in Threads, NEW e \in Bufs, bt_hci_cmd_send(t, e)
  PROVE  /\ HoldInv' /\ MatchInv'
         /\ ~(Sending /\ cur = e) /\ Rx.buf # e /\ Tx.buf # e /\ ~Kept(e)
         /\ \A b \in Bufs : b # e => Count(b)' <= Count(b) /\ (Live(b)' => Live(b))
<1> DEFINE wait == want[t].wait
<1>1. /\ UNCHANGED <<tx, cur, sent, done, given, want>> /\ MatchSame
      /\ pc[t] = "alloc" /\ ref[e] = 0
      /\ ref' = [ref EXCEPT ![e] = IF wait THEN 2 ELSE 1]
      /\ opcode' = [opcode EXCEPT ![e] = want[t].op]
      /\ sync' = [sync EXCEPT ![e] = IF wait THEN t ELSE NULL]
      /\ queue' = Append(queue, e)
      /\ pc' = [pc EXCEPT ![t] = "raise"]
      /\ buf' = [buf EXCEPT ![t] = IF wait THEN e ELSE NULL]
  BY DEF bt_hci_cmd_send, MatchSame, txVars, rxVars, ctlVars
<1>2. /\ buf \in [Threads -> Bufs \cup {NULL}] /\ ref \in [Bufs -> Nat]
      /\ pc \in [Threads -> {"idle", "alloc", "raise", "drain", "wait"}] /\ wait \in BOOLEAN
      /\ sync \in [Bufs -> Threads \cup {NULL}] /\ queue \in Seq(Bufs) /\ Once(queue, Bufs)
      /\ opcode \in [Bufs -> Opcodes \cup {NULL}] /\ e # NULL
  BY ConstantsAssumption DEF KickTypes, HoldInv, HoldTypes, MatchInv, MatchTypes, Counted
<1>3. /\ ~Has(queue, e) /\ ~(Sending /\ cur = e) /\ sent # e /\ Rx.buf # e /\ Tx.buf # e /\ ~Kept(e)
  <2>1. Count(e) = 0
    <3>1. Count(e) \in Nat /\ ref[e] >= Count(e)
      BY CountNat DEF HoldInv, Counted
    <3> HIDE DEF Count
    <3> QED
      BY <1>1, <3>1
  <2> QED
    BY <2>1 DEF Count, One
<1>4. Expected # e /\ ~Live(e)
  BY <1>2, <1>3 DEF Expected, Live, Sending
<1>5. want[t].op \in Opcodes /\ buf[t] = NULL /\ t \notin given
  BY <1>1 DEF HoldInv, Waiting
<1> HIDE DEF wait
<1>6. MatchInv'
  <2>1. Expected # NULL => opcode'[Expected] = opcode[Expected]
    <3>1. Expected \in Bufs \cup {NULL}
      BY DEF Expected, MatchInv, MatchTypes, Rx, Tx, Dones, Actors
    <3> QED
      BY <1>1, <1>2, <1>4, <3>1
  <2>2. opcode' \in [Bufs -> Opcodes \cup {NULL}]
    BY <1>1, <1>2, <1>5
  <2> QED
    BY <1>1, <2>1, <2>2, MatchUnseen
<1>7. Expected' = Expected /\ Sending' = Sending /\ Rx' = Rx /\ Tx' = Tx
  BY <1>1 DEF Expected, Sending, Rx, Tx
<1>8. Once(queue', Bufs) /\ \A x : Has(queue', x) <=> Has(queue, x) \/ x = e
  BY <1>1, <1>2, <1>3, AppendHas
<1>9. Live(e)' /\ Count(e)' = IF wait THEN 2 ELSE 1
  <2>1. Live(e)' /\ Has(queue', e)
    BY <1>8 DEF Live
  <2>2. Kept(e)' <=> wait
    BY <1>1, <1>2, <1>3 DEF Kept
  <2> QED
    BY <1>1, <1>3, <1>7, <2>1, <2>2 DEF Count, One
<1>10. ASSUME NEW b \in Bufs, b # e
       PROVE  Live(b)' = Live(b) /\ Count(b)' = Count(b)
  <2>1. Has(queue', b) <=> Has(queue, b)
    BY <1>8, <1>10
  <2>2. \A u \in Threads : buf'[u] = b <=> buf[u] = b
    BY <1>1, <1>2, <1>5, <1>10, ConstantsAssumption
  <2>3. Kept(b)' <=> Kept(b)
    BY <2>2 DEF Kept
  <2>4. Live(b)' = Live(b)
    BY <1>1, <1>7, <2>1 DEF Live
  <2> QED
    BY <1>1, <1>7, <2>1, <2>3, <2>4 DEF Count, One
<1>11. Waiting'
  <2>1. ASSUME NEW u \in Threads, u # t
        PROVE  buf'[u] = buf[u] /\ buf[u] # e /\ pc'[u] = pc[u]
               /\ (buf[u] # NULL => sync'[buf[u]] = sync[buf[u]])
    BY <1>1, <1>2, <1>3, <2>1 DEF Kept
  <2>2. ASSUME NEW u \in Threads, buf'[u] # NULL
        PROVE  /\ sync'[buf'[u]] = u /\ pc'[u] \in {"raise", "drain", "wait"}
               /\ u \in given <=> ~Live(buf[u])'
    <3>1. CASE u = t
      <4>1. wait /\ buf'[u] = e
        BY <1>1, <1>2, <2>2, <3>1
      <4>2. u \in given <=> ~Live(buf[u])'
        BY <1>5, <1>9, <3>1, <4>1
      <4> QED
        BY <1>1, <1>2, <3>1, <4>1, <4>2
    <3>2. CASE u # t
      <4>1. PICK b \in Bufs : b = buf[u] /\ b = buf'[u] /\ b # e
        BY <1>2, <2>1, <2>2, <3>2
      <4>2. /\ sync[b] = u /\ pc[u] \in {"raise", "drain", "wait"} /\ (u \in given <=> ~Live(b))
        BY <2>1, <2>2, <3>2, <4>1 DEF HoldInv, Waiting
      <4>3. u \in given <=> ~Live(b)'
        BY <1>10, <4>1, <4>2
      <4>4. u \in given <=> ~Live(buf[u])'
        BY <4>1, <4>3
      <4>5. sync'[buf'[u]] = u /\ pc'[u] = pc[u]
        BY <2>1, <2>2, <3>2, <4>1, <4>2
      <4> QED
        BY <4>2, <4>4, <4>5
    <3> QED
      BY <3>1, <3>2
  <2>3. ASSUME NEW u \in Threads
        PROVE  /\ pc'[u] \in {"drain", "wait"} => buf'[u] # NULL
               /\ pc'[u] = "alloc" => want[u].op \in Opcodes
               /\ pc'[u] = "raise" /\ want[u].wait => buf'[u] # NULL
               /\ pc'[u] = "raise" /\ ~want[u].wait => buf'[u] = NULL
               /\ u \in given => buf'[u] # NULL
    <3>1. CASE u = t
      BY <1>1, <1>2, <1>5, <3>1 DEF wait
    <3>2. CASE u # t
      BY <2>1, <3>2 DEF HoldInv, Waiting
    <3> QED
      BY <3>1, <3>2
  <2>4. ASSUME NEW b \in Bufs, Live(b)'
        PROVE  opcode'[b] \in Opcodes /\ (sync'[b] # NULL => buf'[sync'[b]] = b)
    <3>1. CASE b = e
      BY <1>1, <1>2, <1>5, <3>1
    <3>2. CASE b # e
      <4>1. opcode[b] \in Opcodes /\ (sync[b] # NULL => buf[sync[b]] = b)
            /\ sync[b] \in Threads \cup {NULL} /\ b # NULL
        BY <1>10, <2>4, <3>2, ConstantsAssumption DEF HoldInv, HoldTypes, Waiting
      <4>2. opcode'[b] = opcode[b] /\ sync'[b] = sync[b] /\ sync[b] # t
        BY <1>1, <1>2, <1>5, <3>2, <4>1, ThreadsFact
      <4> QED
        BY <2>1, <4>1, <4>2
    <3> QED
      BY <3>1, <3>2
  <2> QED
    BY <1>1, <2>2, <2>3, <2>4 DEF Waiting
<1>12. HoldTypes'
  BY <1>1, <1>2 DEF HoldInv, HoldTypes
<1>13. Counted'
  <2>1. ASSUME NEW b \in Bufs PROVE ref'[b] >= Count(b)'
    <3>1. CASE b = e
      BY <1>1, <1>2, <1>9, <3>1
    <3>2. CASE b # e
      <4>1. ref'[b] = ref[b] /\ ref[b] >= Count(b)
        BY <1>1, <1>2, <3>2 DEF HoldInv, Counted
      <4> QED
        BY <1>10, <3>2, <4>1
    <3> QED
      BY <3>1, <3>2
  <2> QED
    BY <1>8, <2>1 DEF Counted
<1>14. Apart'
  BY <1>1, <1>3, <1>4, <1>7, <1>8 DEF HoldInv, Apart
<1>15. \A b \in Bufs : b # e => Count(b)' <= Count(b) /\ (Live(b)' => Live(b))
  <2>1. ASSUME NEW b \in Bufs, b # e PROVE Count(b)' <= Count(b) /\ (Live(b)' => Live(b))
    <3>1. Count(b)' = Count(b) /\ Live(b)' = Live(b) /\ Count(b) \in Nat
      BY <1>10, <2>1, CountNat
    <3> HIDE DEF Count
    <3> QED
      BY <3>1
  <2> QED
    BY <2>1
<1> QED
  BY <1>3, <1>6, <1>11, <1>12, <1>13, <1>14, <1>15 DEF HoldInv

(* The steps of the rest.                                                  *)
LEMMA HoldOthers ==
  ASSUME HoldInv, KickTypes, MatchInv, Single,
         \/ tx_processor \/ Drain \/ bt_send
         \/ hci_cmd_complete \/ AllowNext \/ RaiseRx
         \/ (\E n \in {0, 1} : Answer(n)) \/ Allow \/ \E op \in Strays : Stray(op)
  PROVE  HoldInv' /\ MatchInv' /\ Settled
<1>1. CASE tx_processor
  <2>1. /\ MatchSame /\ tx = "off" /\ tx' = "check"
        /\ UNCHANGED <<ref, sync, opcode, pc, want, buf, given, queue, sent, done>>
    BY <1>1 DEF tx_processor, MatchSame, callVars, rxVars, ctlVars
  <2>2. Tx.at = "no" /\ Expected' = Expected /\ Rx' = Rx /\ Tx' = Tx /\ ~Sending /\ ~Sending'
    BY <2>1 DEF MatchInv, MatchTypes, Expected, Rx, Tx, Sending
  <2>3. MatchInv'
    BY <2>1, <2>2, MatchIdleTx
  <2>4. Sending' = Sending /\ tx \notin {"clear", "set"} /\ tx' \notin {"clear", "set"}
    BY <2>1 DEF Sending
  <2> QED
    BY <2>1, <2>2, <2>3, <2>4, HoldRest
<1>2. CASE Drain
  <2>1. /\ MatchSame /\ tx = "off" /\ tx' \in {"off", "check"} /\ pc[WQ] = "drain"
        /\ UNCHANGED <<ref, sync, opcode, want, buf, given, queue, sent, done>>
        /\ \/ pc' = [pc EXCEPT ![WQ] = "wait"]
           \/ pc' = pc
    BY <1>2 DEF Drain, MatchSame, hostVars, rxVars, ctlVars
  <2>2. Tx.at = "no" /\ Expected' = Expected /\ Rx' = Rx /\ Tx' = Tx /\ ~Sending /\ ~Sending'
    BY <2>1 DEF MatchInv, MatchTypes, Expected, Rx, Tx, Sending
  <2>3. MatchInv'
    BY <2>1, <2>2, MatchIdleTx
  <2>4. ASSUME NEW b \in Bufs PROVE Live(b)' = Live(b) /\ Count(b)' = Count(b)
    BY <2>1, <2>2 DEF Live, Count, Kept, One
  <2>5. \A u \in Threads : /\ pc'[u] = pc[u] \/ (pc[u] = "drain" /\ pc'[u] = "wait")
                           /\ buf[u] \in Bufs \cup {NULL}
    BY <2>1 DEF KickTypes
  <2>6. ASSUME NEW u \in Threads, buf[u] # NULL
        PROVE  Live(buf[u])' = Live(buf[u])
    BY <2>1, <2>4, <2>5, <2>6
  <2>7. Waiting'
    BY <2>1, <2>4, <2>5, <2>6 DEF HoldInv, Waiting
  <2>8. HoldTypes' /\ Counted' /\ Apart' /\ Settled
    <3>1. (\A b \in Bufs : ref'[b] >= Count(b)') /\ Settled
      BY <2>1, <2>4, SameCovers
    <3> QED
      BY <2>1, <2>2, <3>1 DEF HoldInv, HoldTypes, Counted, Apart
  <2> QED
    BY <2>3, <2>7, <2>8 DEF HoldInv
<1>3. CASE bt_send
  <2>1. MatchInv' /\ Expected' = Expected
    BY <1>3, MatchSend
  <2>2. /\ tx = "write" /\ tx' \in {"unref", "failed"}
        /\ UNCHANGED <<ref, sync, opcode, pc, want, buf, given, queue, sent, cur>>
        /\ \/ done' = done
           \/ done' = [done EXCEPT !["tx"] = [at |-> "take", op |-> opcode[cur], buf |-> NULL]]
    BY <1>3 DEF bt_send, callVars
  <2>3. Rx'.buf = Rx.buf /\ Tx'.buf = Tx.buf /\ Sending /\ Sending'
    <3>1. Tx.at = "no" /\ Tx.buf = NULL /\ done \in [Actors -> Dones]
      BY <2>2 DEF MatchInv, MatchTypes, Tx, Actors
    <3> QED
      BY <2>2, <3>1 DEF Rx, Tx, Sending, Actors
  <2> QED
    BY <2>1, <2>2, <2>3, HoldRest
<1>4. CASE hci_cmd_complete
  <2>1. MatchInv' /\ Expected' = Expected /\ Rx'.buf = Rx.buf /\ Tx' = Tx
    BY <1>4, MatchComplete
  <2>2. UNCHANGED <<ref, sync, opcode, pc, want, buf, given, queue, sent, cur, tx>>
    BY <1>4 DEF hci_cmd_complete, hostVars, callVars, txVars
  <2> QED
    BY <2>1, <2>2, HoldRest DEF Sending
<1>5. CASE AllowNext \/ RaiseRx
  <2>1. MatchInv' /\ Expected' = Expected
    BY <1>5, MatchAllow
  <2>2. UNCHANGED <<ref, sync, opcode, pc, want, buf, given, queue, sent, cur, tx, done>>
    BY <1>5 DEF AllowNext, RaiseRx, callVars, txVars
  <2> QED
    BY <2>1, <2>2, HoldRest DEF Sending, Rx, Tx
<1>6. CASE (\E n \in {0, 1} : Answer(n)) \/ Allow \/ \E op \in Strays : Stray(op)
  <2>1. MatchInv' /\ Expected' = Expected
    BY <1>6, MatchController
  <2>2. UNCHANGED <<ref, sync, opcode, pc, want, buf, given, queue, sent, cur, tx, done>>
    BY <1>6 DEF Answer, Allow, Stray, hostVars, callVars, txVars
  <2> QED
    BY <2>1, <2>2, HoldRest DEF Sending, Rx, Tx
<1> QED
  BY <1>1, <1>2, <1>3, <1>4, <1>5, <1>6

-----------------------------------------------------------------------------
(* Counts that were loaded.                                                *)

(* A step of v, or of nobody who loads counts, lets the others release     *)
(* what they were about to release.                                        *)
Steady(v) ==
  /\ old' \in [Users -> Nat]
  /\ v \in Users => old'[v] = 0
  /\ \A u \in Users : u # v => old'[u] = old[u]
  /\ \A t \in Threads : t # v /\ pc[t] = "wait" /\ t \in given =>
       pc'[t] = "wait" /\ t \in given' /\ buf'[t] = buf[t]
  /\ \A a \in Actors : a # v /\ done[a].at = "unref" => done'[a] = done[a]
  /\ v # "tx" /\ (tx = "unref" \/ (tx = "failed" /\ Tx.at = "no")) =>
       tx' = tx /\ cur' = cur /\ done'["tx"] = done["tx"]

(* Nobody else comes to a command that hci_cmd_done has answered.          *)
Answered == \A a \in Actors : done'[a].at = "unref" =>
              (done[a].at = "unref" /\ done'[a].buf = done[a].buf) \/ ~Live(done[a].buf)'

LEMMA ReleasedTypes ==
  ASSUME KickTypes, MatchInv, HoldInv, NEW u \in Users, Releasing(u) # NULL
  PROVE  Releasing(u) \in Bufs
<1>1. CASE u \in Threads
  BY <1>1 DEF Releasing, KickTypes
<1>2. CASE u \in Actors
  <2>1. done[u] \in Dones /\ u \notin Threads /\ (u = "rx" \/ u = "tx")
    BY <1>2, UserFacts DEF MatchInv, MatchTypes
  <2>2. CASE done[u].at = "unref"
    BY <2>1, <2>2 DEF Releasing, Dones
  <2>3. CASE done[u].at # "unref"
    BY <2>1, <2>3 DEF Releasing, MatchInv, MatchTypes, Sending
  <2> QED
    BY <2>2, <2>3
<1> QED
  BY <1>1, <1>2 DEF Users

(* A step that gives a reference to e only, which nobody releases.         *)
LEMMA LoadKept ==
  ASSUME LoadInv, MatchInv, MatchInv', NEW v, NEW e, Steady(v), Answered,
         \A b \in Bufs : b # e => Count(b)' <= Count(b) /\ (Live(b)' => Live(b)),
         e # NULL => \A u \in Users : Releasing(u) # e
  PROVE  LoadInv'
<1>1. ASSUME NEW u \in Users, old'[u] > 0
      PROVE  old'[u] = old[u] /\ Releasing(u) \in Bufs /\ Releasing(u)' = Releasing(u)
  <2>1. u # v /\ old'[u] = old[u] /\ old[u] > 0
    BY <1>1 DEF Steady
  <2>2. Releasing(u) \in Bufs /\ Releasing(u) # NULL
    BY <2>1, ConstantsAssumption DEF LoadInv, Loads
  <2>3. CASE u \in Threads
    <3>1. pc[u] = "wait" /\ u \in given /\ Releasing(u) = buf[u]
      BY <2>2, <2>3 DEF Releasing
    <3>2. pc'[u] = "wait" /\ u \in given' /\ buf'[u] = buf[u]
      BY <2>1, <2>3, <3>1 DEF Steady
    <3>3. Releasing(u)' = buf'[u]
      BY <2>3, <3>2 DEF Releasing
    <3> QED
      BY <2>1, <2>2, <3>1, <3>2, <3>3
  <2>4. CASE u \in Actors
    <3>0. u \notin Threads /\ (u = "rx" \/ u = "tx")
      BY <2>4, UserFacts
    <3>1. CASE done[u].at = "unref"
      <4>1. done'[u] = done[u]
        BY <2>1, <2>4, <3>1 DEF Steady
      <4>2. Releasing(u)' = done'[u].buf /\ Releasing(u) = done[u].buf
        BY <3>0, <3>1, <4>1 DEF Releasing
      <4> QED
        BY <2>1, <2>2, <4>1, <4>2
    <3>2. CASE done[u].at # "unref"
      <4>1. u = "tx" /\ (tx = "unref" \/ (tx = "failed" /\ Tx.at = "no")) /\ Releasing(u) = cur
        BY <2>2, <3>0, <3>2 DEF Releasing, Tx
      <4>2. tx' = tx /\ cur' = cur /\ done'["tx"] = done["tx"]
        BY <2>1, <4>1 DEF Steady
      <4>3. Releasing(u)' = cur'
        BY <3>0, <3>2, <4>1, <4>2 DEF Releasing, Tx
      <4> QED
        BY <2>1, <2>2, <4>1, <4>2, <4>3
    <3> QED
      BY <3>1, <3>2
  <2> QED
    BY <2>3, <2>4 DEF Users
<1>2. Loads'
  <2>1. ASSUME NEW u \in Users, old'[u] > 0
        PROVE  Releasing(u)' \in Bufs /\ old'[u] >= Count(Releasing(u))'
    <3>1. PICK b \in Bufs : b = Releasing(u) /\ b = Releasing(u)'
      BY <1>1, <2>1
    <3>2. b # e
      BY <3>1, ConstantsAssumption
    <3>3. old'[u] = old[u] /\ old[u] \in Nat /\ old[u] >= Count(b)
      BY <1>1, <2>1, <3>1 DEF LoadInv, Loads
    <3>4. Count(b)' <= Count(b) /\ Count(b) \in Nat /\ Count(b)' \in Nat
      <4>1. Count(b)' \in Nat
        BY DEF Count, One
      <4> QED
        BY <3>2, <4>1, CountNat
    <3>5. Count(Releasing(u))' = Count(b)'
      BY <3>1 DEF Count
    <3> HIDE DEF Count
    <3> QED
      BY <3>1, <3>3, <3>4, <3>5
  <2> QED
    BY <2>1 DEF Loads, Steady
<1>3. Fresh'
  <2>1. ASSUME NEW a \in Actors, done'[a].at = "unref", done[a].at = "unref",
               done'[a].buf = done[a].buf
        PROVE  ~Live(done[a].buf)'
    <3>1. PICK b \in Bufs : b = done[a].buf
      <4>1. done[a] \in Dones /\ done[a].buf # NULL
        BY <2>1 DEF MatchInv, MatchTypes
      <4> QED
        BY <4>1 DEF Dones
    <3>2. ~Live(b)
      BY <2>1, <3>1 DEF LoadInv, Fresh
    <3>3. b # e
      <4>1. Releasing(a) = b /\ a \in Users
        BY <2>1, <3>1, UserFacts DEF Releasing
      <4> QED
        BY <4>1, ConstantsAssumption
    <3>4. ~Live(b)'
      BY <3>2, <3>3
    <3> QED
      BY <2>1, <3>1, <3>4
  <2> QED
    BY <2>1 DEF Fresh, Answered
<1> QED
  BY <1>2, <1>3 DEF LoadInv

LEMMA LoadSettled ==
  ASSUME LoadInv, MatchInv, MatchInv', NEW v, Steady(v), Answered, Settled
  PROVE  LoadInv'
<1>1. \A b \in Bufs : b # NULL => Count(b)' <= Count(b) /\ (Live(b)' => Live(b))
  BY DEF Settled
<1> HIDE DEF Count, Live
<1> QED
  BY <1>1, LoadKept

(* The steps that release a command,                                       *)
LEMMA LoadReleases ==
  ASSUME LoadInv, MatchInv, MatchInv', Settled,
         NEW v \in Users, (v \in Threads /\ TakeAnswer(v)) \/ (v = "tx" /\ CommandSent)
                          \/ (v \in Actors /\ ReleaseSent(v))
  PROVE  LoadInv'
<1>0. old \in [Users -> Nat] /\ done \in [Actors -> Dones]
  BY DEF LoadInv, Loads, MatchInv, MatchTypes
<1>1. CASE v \in Threads /\ TakeAnswer(v)
  <2>1. Steady(v)
    BY <1>0, <1>1, UserFacts DEF Steady, TakeAnswer, txVars, MatchInv, MatchTypes
  <2>2. Answered
    BY <1>1 DEF Answered, TakeAnswer
  <2> QED
    BY <2>1, <2>2, LoadSettled
<1>2. CASE v = "tx" /\ CommandSent
  <2>1. Steady("tx")
    BY <1>0, <1>2, UserFacts DEF Steady, CommandSent, callVars
  <2>2. Answered
    BY <1>2 DEF Answered, CommandSent
  <2> QED
    BY <2>1, <2>2, LoadSettled
<1>3. CASE v \in Actors /\ ReleaseSent(v)
  <2>1. Steady(v)
    BY <1>0, <1>3, UserFacts DEF Steady, ReleaseSent, callVars, txVars, Tx
  <2>2. Answered
    BY <1>0, <1>3, NotDoneFields DEF Answered, ReleaseSent
  <2> QED
    BY <2>1, <2>2, LoadSettled
<1> QED
  BY <1>1, <1>2, <1>3

(* those of hci_cmd_done before that, which has answered a command when it *)
(* wakes the thread,                                                       *)
LEMMA LoadDone ==
  ASSUME LoadInv, MatchInv, MatchInv', Settled, HoldInv, Single, NEW a \in Actors,
         TakeSent(a) \/ PutBack(a) \/ WakeCaller(a)
  PROVE  LoadInv'
<1>0. /\ old \in [Users -> Nat] /\ done \in [Actors -> Dones] /\ NULL \notin Users
      /\ Tx.at # "no" => tx = "failed"
  BY UserFacts DEF LoadInv, Loads, MatchInv, MatchTypes
<1>1. /\ UNCHANGED <<old, pc, buf, tx, cur>> /\ given \subseteq given' /\ done[a].at \in {"take", "match"}
      /\ \A c \in Actors : c # a => done'[c] = done[c]
  BY <1>0 DEF TakeSent, PutBack, WakeCaller, callVars, hostVars, txVars
<1>2. Steady(NULL)
  BY <1>0, <1>1, UserFacts DEF Steady, Tx
<1>3. Answered
  <2>1. CASE TakeSent(a) \/ PutBack(a)
    <3>1. done'[a].at # "unref"
      <4>1. CASE TakeSent(a)
        BY <1>0, <4>1, NotDoneFields DEF TakeSent
      <4>2. CASE PutBack(a)
        BY <1>0, <4>2, NotDoneFields DEF PutBack, Dones
      <4> QED
        BY <2>1, <4>1, <4>2
    <3> QED
      BY <1>1, <3>1 DEF Answered
  <2>2. CASE WakeCaller(a)
    <3>1. /\ Expected = done[a].buf /\ Expected # NULL /\ Expected' = NULL /\ done'[a].buf = done[a].buf
      <4>1. done'[a].buf = done[a].buf
        BY <1>0, <2>2 DEF WakeCaller, Dones
      <4> QED
        BY <2>2, <4>1, MatchWake
    <3>2. tx \notin {"clear", "set"} /\ ~Has(queue, done[a].buf) /\ UNCHANGED <<tx, queue>>
      BY <2>2, <3>1 DEF MatchInv, Sources, HoldInv, Apart, WakeCaller, hostVars, txVars
    <3>3. ~Live(done[a].buf)'
      BY <3>1, <3>2 DEF Live
    <3> QED
      BY <1>1, <3>3 DEF Answered
  <2> QED
    BY <2>1, <2>2
<1> QED
  BY <1>2, <1>3, LoadSettled

(* and those of the rest.                                                  *)
LEMMA LoadRest ==
  ASSUME LoadInv, KickTypes, MatchInv, MatchInv', Settled,
         \/ \E t \in Threads : (\E op \in Opcodes, wait \in BOOLEAN : CallSend(t, op, wait)) \/ RaiseTx(t)
         \/ tx_processor \/ Drain \/ process_pending_cmd \/ ClearSent \/ bt_send
         \/ hci_cmd_complete \/ AllowNext \/ RaiseRx
         \/ (\E n \in {0, 1} : Answer(n)) \/ Allow \/ (\E op \in Strays : Stray(op))
         \/ UNCHANGED vars
  PROVE  LoadInv'
<1>0. /\ old \in [Users -> Nat] /\ done \in [Actors -> Dones] /\ NULL \notin Users
      /\ Tx.at # "no" => tx = "failed"
      /\ Rx.at # "no" => rx = "done"
  BY UserFacts DEF LoadInv, Loads, MatchInv, MatchTypes
<1>1. CASE \E t \in Threads : (\E op \in Opcodes, wait \in BOOLEAN : CallSend(t, op, wait)) \/ RaiseTx(t)
  <2>1. /\ UNCHANGED <<old, buf, given, tx, cur, done>>
        /\ \A u \in Threads : pc[u] = "wait" => pc'[u] = "wait"
    BY <1>1 DEF CallSend, RaiseTx, hostVars, txVars, KickTypes
  <2>2. Steady(NULL) /\ Answered
    BY <1>0, <2>1 DEF Steady, Answered
  <2> QED
    BY <2>2, LoadSettled
<1>2. CASE tx_processor \/ Drain \/ process_pending_cmd \/ ClearSent
  <2>1. /\ UNCHANGED <<old, buf, given, done>> /\ tx \notin {"unref", "failed"}
        /\ \A u \in Threads : pc[u] = "wait" => pc'[u] = "wait"
    BY <1>2 DEF tx_processor, Drain, process_pending_cmd, ClearSent, hostVars, callVars, KickTypes
  <2>2. Steady(NULL) /\ Answered
    BY <1>0, <2>1 DEF Steady, Answered
  <2> QED
    BY <2>2, LoadSettled
<1>3. CASE bt_send
  <2>1. /\ UNCHANGED <<old, pc, buf, given>> /\ tx = "write" /\ Tx.at = "no"
        /\ done'["rx"] = done["rx"] /\ done'["tx"].at # "unref"
    BY <1>0, <1>3 DEF bt_send, callVars, Tx, Actors
  <2>2. Steady(NULL) /\ Answered
    BY <1>0, <2>1, UserFacts DEF Steady, Answered, Tx
  <2> QED
    BY <2>2, LoadSettled
<1>4. CASE hci_cmd_complete
  <2>1. /\ UNCHANGED <<old, pc, buf, given, tx, cur>> /\ rx = "idle" /\ Rx.at = "no"
        /\ done'["tx"] = done["tx"] /\ done'["rx"].at # "unref"
    BY <1>0, <1>4, NotDoneFields DEF hci_cmd_complete, hostVars, callVars, txVars, Actors
  <2>2. Steady(NULL) /\ Answered
    BY <1>0, <2>1, UserFacts DEF Steady, Answered, Rx
  <2> QED
    BY <2>2, LoadSettled
<1>5. CASE \/ AllowNext \/ RaiseRx \/ (\E n \in {0, 1} : Answer(n)) \/ Allow
           \/ (\E op \in Strays : Stray(op)) \/ UNCHANGED vars
  <2>1. UNCHANGED <<old, pc, buf, given, tx, cur, done>>
    BY <1>5 DEF AllowNext, RaiseRx, Answer, Allow, Stray, vars, hostVars, callVars, txVars
  <2>2. Steady(NULL) /\ Answered
    BY <1>0, <2>1 DEF Steady, Answered
  <2> QED
    BY <2>2, LoadSettled
<1> QED
  BY <1>1, <1>2, <1>3, <1>4, <1>5

(* A command that becomes the expected one is released by nobody yet,      *)
LEMMA LoadSet ==
  ASSUME LoadInv, KickTypes, MatchInv, HoldInv, SetSent
  PROVE  LoadInv'
<1>1. /\ MatchInv' /\ cur \in Bufs /\ Live(cur) /\ cur # NULL
      /\ \A b \in Bufs : b # cur => Count(b)' <= Count(b) /\ (Live(b)' => Live(b))
  BY HoldSet, ConstantsAssumption
<1>2. /\ UNCHANGED <<old, pc, buf, given, done>> /\ tx = "set"
  BY DEF SetSent, callVars
<1>3. Steady(NULL) /\ Answered
  BY <1>2, UserFacts DEF Steady, Answered, LoadInv, Loads
<1>4. ASSUME NEW u \in Users PROVE Releasing(u) # cur
  <2>1. CASE u \in Threads
    BY <1>1, <2>1 DEF Releasing, HoldInv, Waiting
  <2>2. CASE u \in Actors
    <3>1. done[u].at = "unref" => done[u].buf # cur
      BY <1>1, <2>2 DEF LoadInv, Fresh
    <3> QED
      BY <1>1, <1>2, <2>2, <3>1, UserFacts DEF Releasing
  <2> QED
    BY <2>1, <2>2 DEF Users
<1> HIDE DEF Count, Live
<1> QED
  BY <1>1, <1>3, <1>4, LoadKept

(* nor is a free buffer.                                                   *)
LEMMA LoadAlloc ==
  ASSUME LoadInv, KickTypes, MatchInv, HoldInv, NEW t \in Threads, NEW e \in Bufs,
         bt_hci_cmd_send(t, e)
  PROVE  LoadInv'
<1>1. /\ MatchInv' /\ ~(Sending /\ cur = e) /\ Rx.buf # e /\ Tx.buf # e /\ ~Kept(e) /\ e # NULL
      /\ \A b \in Bufs : b # e => Count(b)' <= Count(b) /\ (Live(b)' => Live(b))
  BY HoldAlloc, ConstantsAssumption
<1>2. /\ UNCHANGED <<old, given, tx, cur, done>> /\ pc[t] = "alloc"
      /\ \A u \in Threads : u # t => pc'[u] = pc[u] /\ buf'[u] = buf[u]
  BY DEF bt_hci_cmd_send, txVars, KickTypes
<1>3. Steady(NULL) /\ Answered
  BY <1>2, UserFacts DEF Steady, Answered, LoadInv, Loads
<1>4. ASSUME NEW u \in Users PROVE Releasing(u) # e
  <2>1. CASE u \in Threads
    BY <1>1, <2>1 DEF Releasing, Kept
  <2>2. CASE u \in Actors
    BY <1>1, <2>2, UserFacts DEF Releasing, Sending, Rx, Tx
  <2> QED
    BY <2>1, <2>2 DEF Users
<1> HIDE DEF Count, Live
<1> QED
  BY <1>1, <1>3, <1>4, LoadKept

(* bt_buf_unref loads the count.                                           *)
LEMMA LoadLoads ==
  ASSUME LoadInv, KickTypes, MatchInv, HoldInv, NEW u \in Users, LoadRef(u)
  PROVE  LoadInv' /\ MatchInv' /\ HoldInv'
<1>1. /\ UNCHANGED <<ref, sync, opcode, pc, want, buf, given, queue, sent, cur, tx, done>>
      /\ MatchSame /\ Releasing(u) # NULL /\ old' = [old EXCEPT ![u] = ref[Releasing(u)]]
  BY DEF LoadRef, callVars, txVars, rxVars, ctlVars, MatchSame
<1>2. Expected' = Expected /\ Rx' = Rx /\ Tx' = Tx /\ Sending' = Sending
  BY <1>1 DEF Expected, Rx, Tx, Sending
<1>3. MatchInv' /\ HoldInv'
  <2>1. opcode' \in [Bufs -> Opcodes \cup {NULL}]
    BY <1>1 DEF MatchInv, MatchTypes
  <2> QED
    BY <1>1, <1>2, <2>1, MatchUnseen, HoldRest
<1>4. Fresh'
  BY <1>1, <1>2 DEF LoadInv, Fresh, Live
<1>5. Loads'
  <2>1. old \in [Users -> Nat] /\ Releasing(u) \in Bufs /\ ref \in [Bufs -> Nat]
    BY <1>1, ReleasedTypes DEF LoadInv, Loads, HoldInv, HoldTypes
  <2>2. ASSUME NEW w \in Users, old'[w] > 0
        PROVE  Releasing(w)' \in Bufs /\ old'[w] >= Count(Releasing(w))'
    <3>1. Releasing(w)' = Releasing(w)
      BY <1>1 DEF Releasing
    <3>2. Count(Releasing(w))' = Count(Releasing(w))
      BY <1>1, <1>2, <3>1 DEF Count, Kept
    <3>3. CASE w = u
      <4>1. old'[w] = ref[Releasing(u)] /\ ref[Releasing(u)] >= Count(Releasing(u))
        BY <1>1, <2>1, <3>3 DEF HoldInv, Counted
      <4> QED
        BY <2>1, <3>1, <3>2, <3>3, <4>1
    <3>4. CASE w # u
      <4>1. old'[w] = old[w] /\ old[w] >= Count(Releasing(w)) /\ Releasing(w) \in Bufs
        BY <1>1, <2>1, <2>2, <3>4 DEF LoadInv, Loads
      <4> QED
        BY <3>1, <3>2, <4>1
    <3> QED
      BY <3>3, <3>4
  <2>3. old' \in [Users -> Nat]
    BY <1>1, <2>1
  <2> QED
    BY <2>2, <2>3 DEF Loads
<1> QED
  BY <1>3, <1>4, <1>5 DEF LoadInv

LEMMA LoadInit == Init => LoadInv
<1> SUFFICES ASSUME Init PROVE LoadInv
  OBVIOUS
<1>1. old = [u \in Users |-> 0] /\ \A a \in Actors : done[a].at = "no"
  BY NotDoneFields DEF Init
<1> QED
  BY <1>1 DEF LoadInv, Loads, Fresh

-----------------------------------------------------------------------------
(* The environment: an answer nobody asked for comes only if the driver    *)
(* does not fail.                                                          *)

LEMMA SingleInit ==
  ASSUME OneFault
  PROVE  Init => Single
BY NotDoneFields, ConstantsAssumption DEF OneFault, Init, Single, Rx, Tx, Actors

LEMMA SingleNext ==
  ASSUME OneFault, Single, MatchInv, [Next]_vars
  PROVE  Single'
<1>0. /\ done \in [Actors -> Dones] /\ evts \in Seq(Events) /\ ctl \in Seq(Bufs)
      /\ opcode \in [Bufs -> Opcodes \cup {NULL}] /\ (Sending => cur \in Bufs)
      /\ Opcodes \cap Strays = {} /\ NULL \notin Strays
      /\ "rx" \in Actors /\ "tx" \in Actors
  BY ConstantsAssumption DEF MatchInv, MatchTypes, Actors
<1>1. env' = env
  BY DEF Next, vars, hostVars, CallSend, bt_hci_cmd_send, RaiseTx, TakeAnswer, LoadRef, tx_processor,
    Drain, process_pending_cmd, ClearSent, SetSent, bt_send, CommandSent, TakeSent, PutBack,
    WakeCaller, ReleaseSent, hci_cmd_complete, AllowNext, RaiseRx, Answer, Allow, Stray
<1>2. CASE UNCHANGED <<done, evts>>
  BY <1>1, <1>2 DEF Single, Rx, Tx
<1>3. CASE bt_send
  <2>1. evts' = evts /\ done'["rx"] = done["rx"] /\ (done' = done \/ "fail" \in env)
    BY <1>0, <1>3 DEF bt_send
  <2> QED
    BY <1>1, <2>1 DEF Single, Rx, Tx
<1>4. ASSUME NEW a \in Actors, TakeSent(a) \/ PutBack(a) \/ WakeCaller(a) \/ ReleaseSent(a)
      PROVE  Single'
  <2>1. /\ evts' = evts /\ done[a].at # "no"
        /\ \A c \in Actors : done'[c] = done[c] \/ (c = a /\ done'[c].op \in {done[c].op, NULL})
    <3>1. CASE TakeSent(a)
      BY <1>0, <3>1, NotDoneFields DEF TakeSent, ctlVars
    <3>2. CASE PutBack(a)
      BY <1>0, <3>2, NotDoneFields DEF PutBack, ctlVars, Dones
    <3>3. CASE WakeCaller(a)
      BY <1>0, <3>3 DEF WakeCaller, ctlVars, Dones
    <3>4. CASE ReleaseSent(a)
      BY <1>0, <3>4, NotDoneFields DEF ReleaseSent, ctlVars
    <3> QED
      BY <1>4, <3>1, <3>2, <3>3, <3>4
  <2> QED
    BY <1>0, <1>1, <1>4, <2>1 DEF Single, Rx, Tx
<1>5. CASE hci_cmd_complete
  <2>1. /\ Head(evts) = evts[1] /\ 1 \in 1..Len(evts) /\ evts' = Tail(evts)
        /\ \A i \in 1..Len(Tail(evts)) : Tail(evts)[i] = evts[i + 1] /\ i + 1 \in 1..Len(evts)
    BY <1>0, <1>5, TailKeeps DEF hci_cmd_complete
  <2>2. done'["tx"] = done["tx"] /\ done'["rx"].op \in {NULL, evts[1].op}
    BY <1>0, <1>5, <2>1, NotDoneFields DEF hci_cmd_complete
  <2> QED
    BY <1>0, <1>1, <2>1, <2>2 DEF Single, Rx, Tx
<1>6. ASSUME NEW e \in Events, evts' = Append(evts, e), done' = done,
             "fail" \in env => e.op \notin Strays
      PROVE  Single'
  <2>1. /\ Len(evts) \in Nat /\ Len(Append(evts, e)) = Len(evts) + 1
        /\ \A j \in 1..(Len(evts) + 1) : Append(evts, e)[j] = IF j <= Len(evts) THEN evts[j] ELSE e
    BY <1>0, AppendFacts
  <2>2. ASSUME NEW i \in 1..Len(evts'), "fail" \in env PROVE evts'[i].op \notin Strays
    <3>1. i \in 1..Len(evts) \/ evts'[i] = e
      BY <1>6, <2>1
    <3>2. i \in 1..Len(evts) => evts'[i] = evts[i]
      BY <1>6, <2>1
    <3> QED
      BY <1>6, <2>2, <3>1, <3>2 DEF Single
  <2> QED
    BY <1>1, <1>6, <2>2 DEF Single, Rx, Tx
<1>7. ASSUME NEW n \in {0, 1}, Answer(n)
      PROVE  Single'
  <2>1. Head(ctl) \in Bufs
    BY <1>0, <1>7, TailKeeps DEF Answer
  <2>2. [op |-> opcode[Head(ctl)], ncmd |-> n] \in Events /\ opcode[Head(ctl)] \notin Strays
    BY <1>0, <2>1 DEF Events
  <2> QED
    BY <1>6, <1>7, <2>2 DEF Answer
<1>8. CASE Allow
  <2>1. [op |-> NULL, ncmd |-> 1] \in Events
    BY DEF Events
  <2> QED
    BY <1>0, <1>6, <1>8, <2>1 DEF Allow
<1>9. ASSUME NEW op \in Strays, Stray(op)
      PROVE  Single'
  <2>1. [op |-> op, ncmd |-> 0] \in Events /\ "fail" \notin env
    BY <1>9 DEF Events, Stray, Single, OneFault
  <2> QED
    BY <1>6, <1>9, <2>1 DEF Stray
<1>10. CASE \/ \E t \in Threads : \/ \E op \in Opcodes, wait \in BOOLEAN : CallSend(t, op, wait)
                                  \/ \E b \in Bufs : bt_hci_cmd_send(t, b)
                                  \/ RaiseTx(t) \/ TakeAnswer(t)
            \/ \E u \in Users : LoadRef(u)
            \/ tx_processor \/ Drain \/ process_pending_cmd \/ ClearSent \/ SetSent \/ CommandSent
            \/ AllowNext \/ RaiseRx \/ UNCHANGED vars
  <2>1. UNCHANGED <<done, evts>>
    BY <1>10 DEF vars, ctlVars, CallSend, bt_hci_cmd_send, RaiseTx, TakeAnswer, LoadRef, tx_processor,
      Drain, process_pending_cmd, ClearSent, SetSent, CommandSent, AllowNext, RaiseRx
  <2> QED
    BY <1>2, <2>1
<1> QED
  BY <1>3, <1>4, <1>5, <1>7, <1>8, <1>9, <1>10 DEF Next

-----------------------------------------------------------------------------
LEMMA NextInv ==
  ASSUME OneFault, IInv, [Next]_vars
  PROVE  IInv'
<1>0. KickInv' /\ KickTypes /\ KickInv /\ MatchInv /\ HoldInv /\ LoadInv /\ Single
  BY KickNext DEF IInv, KickInv
<1>a. Single'
  BY <1>0, SingleNext
<1> SUFFICES MatchInv' /\ HoldInv' /\ LoadInv'
  BY <1>0, <1>a DEF IInv
<1>1. ASSUME NEW t \in Threads,
             (\E op \in Opcodes, wait \in BOOLEAN : CallSend(t, op, wait)) \/ RaiseTx(t)
      PROVE  MatchInv' /\ HoldInv' /\ LoadInv'
  <2>1. MatchInv' /\ HoldInv' /\ Settled
    BY <1>0, <1>1, HoldCall
  <2> QED
    BY <1>0, <1>1, <2>1, LoadRest
<1>2. ASSUME NEW t \in Threads, NEW b \in Bufs, bt_hci_cmd_send(t, b)
      PROVE  MatchInv' /\ HoldInv' /\ LoadInv'
  BY <1>0, <1>2, HoldAlloc, LoadAlloc
<1>3. ASSUME NEW t \in Threads, TakeAnswer(t)
      PROVE  MatchInv' /\ HoldInv' /\ LoadInv'
  <2>1. MatchInv' /\ HoldInv' /\ Settled /\ t \in Users
    BY <1>0, <1>3, HoldAnswer, UserFacts
  <2> QED
    BY <1>0, <1>3, <2>1, LoadReleases
<1>4. ASSUME NEW u \in Users, LoadRef(u)
      PROVE  MatchInv' /\ HoldInv' /\ LoadInv'
  BY <1>0, <1>4, LoadLoads
<1>5. CASE process_pending_cmd
  <2>1. MatchInv' /\ HoldInv' /\ Settled
    BY <1>0, <1>5, MatchTake, HoldPop
  <2> QED
    BY <1>0, <1>5, <2>1, LoadRest
<1>6. CASE ClearSent
  <2>1. MatchInv' /\ HoldInv' /\ Settled
    BY <1>0, <1>6, MatchClear, HoldClear
  <2> QED
    BY <1>0, <1>6, <2>1, LoadRest
<1>7. CASE SetSent
  BY <1>0, <1>7, HoldSet, LoadSet
<1>8. CASE CommandSent
  <2>1. MatchInv' /\ HoldInv' /\ Settled /\ "tx" \in Users
    BY <1>0, <1>8, HoldSent, UserFacts
  <2> QED
    BY <1>0, <1>8, <2>1, LoadReleases
<1>9. ASSUME NEW a \in Actors, TakeSent(a) \/ PutBack(a) \/ WakeCaller(a)
      PROVE  MatchInv' /\ HoldInv' /\ LoadInv'
  <2>1. MatchInv' /\ HoldInv' /\ Settled
    BY <1>0, <1>9, MatchTakeSent, HoldTakeSent, MatchPutBack, HoldPutBack, MatchWake, HoldWake
  <2> QED
    BY <1>0, <1>9, <2>1, LoadDone
<1>10. ASSUME NEW a \in Actors, ReleaseSent(a)
       PROVE  MatchInv' /\ HoldInv' /\ LoadInv'
  <2>1. MatchInv' /\ HoldInv' /\ Settled /\ a \in Users
    BY <1>0, <1>10, MatchRelease, HoldRelease, UserFacts
  <2> QED
    BY <1>0, <1>10, <2>1, LoadReleases
<1>11. CASE UNCHANGED vars
  <2>1. /\ UNCHANGED <<ref, sync, opcode, pc, want, buf, given, queue, sent, cur, tx, done>>
        /\ MatchSame
    BY <1>11 DEF vars, hostVars, callVars, txVars, rxVars, ctlVars, MatchSame
  <2>2. Expected' = Expected /\ Rx' = Rx /\ Tx' = Tx /\ Sending' = Sending
    BY <2>1 DEF Expected, Rx, Tx, Sending
  <2>3. opcode' \in [Bufs -> Opcodes \cup {NULL}]
    BY <1>0, <2>1 DEF MatchInv, MatchTypes
  <2>4. MatchInv' /\ HoldInv' /\ Settled
    BY <1>0, <2>1, <2>2, <2>3, MatchUnseen, HoldRest
  <2> QED
    BY <1>0, <1>11, <2>4, LoadRest
<1>12. CASE \/ tx_processor \/ Drain \/ bt_send \/ hci_cmd_complete \/ AllowNext \/ RaiseRx
            \/ (\E n \in {0, 1} : Answer(n)) \/ Allow \/ \E op \in Strays : Stray(op)
  <2>1. MatchInv' /\ HoldInv' /\ Settled
    BY <1>0, <1>12, HoldOthers
  <2> QED
    BY <1>0, <1>12, <2>1, LoadRest
<1> QED
  BY <1>1, <1>2, <1>3, <1>4, <1>5, <1>6, <1>7, <1>8, <1>9, <1>10, <1>11, <1>12 DEF Next

LEMMA Invariance ==
  ASSUME OneFault
  PROVE  Spec => []IInv
<1>1. Init => IInv
  BY KickInit, MatchInit, HoldInit, LoadInit, SingleInit DEF IInv
<1>2. IInv /\ [Next]_vars => IInv'
  BY NextInv
<1> QED
  BY <1>1, <1>2, PTL DEF Spec

-----------------------------------------------------------------------------
(* What the invariant says.                                                *)

(* A set that has an element, and only one, or none.                       *)
LEMMA CountOne ==
  ASSUME NEW S, \A x, y \in S : x = y
  PROVE  Cardinality(S) = One(\E x : x \in S)
<1>1. CASE S = {}
  BY <1>1, FS_EmptySet DEF One
<1>2. CASE S # {}
  <2>1. PICK x : x \in S
    BY <1>2
  <2>2. S = {x}
    BY <2>1
  <2>3. Cardinality({x}) = 1
    BY FS_Singleton
  <2> QED
    BY <2>1, <2>2, <2>3 DEF One
<1> QED
  BY <1>1, <1>2

LEMMA CountActors ==
  ASSUME NEW b
  PROVE  Cardinality({a \in Actors : done[a].buf = b}) = One(Rx.buf = b) + One(Tx.buf = b)
<1> DEFINE S == {a \in Actors : done[a].buf = b}
<1>1. Cardinality({}) = 0 /\ Cardinality({"rx"}) = 1 /\ Cardinality({"tx"}) = 1
  BY FS_EmptySet, FS_Singleton
<1>2. Cardinality({"rx", "tx"}) = 2
  <2>1. IsFiniteSet({"rx"}) /\ "tx" \notin {"rx"} /\ {"rx"} \cup {"tx"} = {"rx", "tx"}
    BY FS_Singleton
  <2>2. Cardinality({"rx"} \cup {"tx"}) = Cardinality({"rx"}) + 1
    BY <2>1, FS_AddElement
  <2> QED
    BY <1>1, <2>1, <2>2
<1>3. CASE Rx.buf = b /\ Tx.buf = b
  <2>1. S = {"rx", "tx"}
    BY <1>3 DEF Actors, Rx, Tx
  <2> QED
    BY <1>2, <1>3, <2>1 DEF One
<1>4. CASE Rx.buf = b /\ Tx.buf # b
  <2>1. S = {"rx"}
    BY <1>4 DEF Actors, Rx, Tx
  <2> QED
    BY <1>1, <1>4, <2>1 DEF One
<1>5. CASE Rx.buf # b /\ Tx.buf = b
  <2>1. S = {"tx"}
    BY <1>5 DEF Actors, Rx, Tx
  <2> QED
    BY <1>1, <1>5, <2>1 DEF One
<1>6. CASE Rx.buf # b /\ Tx.buf # b
  <2>1. S = {}
    BY <1>6 DEF Actors, Rx, Tx
  <2> QED
    BY <1>1, <1>6, <2>1 DEF One
<1> QED
  BY <1>3, <1>4, <1>5, <1>6

(* hci_core_send_cmd, hci_cmd_done, bt_hci_cmd_send_sync: although         *)
(* bt_buf_unref loads and stores the count without a lock, no command      *)
(* buffer is freed while somebody refers to it, with any number of threads *)
(* and buffers.                                                            *)
THEOREM RefsConserved ==
  ASSUME OneFault
  PROVE  Spec => []RefsCover
<1>1. ASSUME IInv PROVE RefsCover
  <2>1. ASSUME NEW b \in Bufs
        PROVE  ref[b] >= Holders(b)
    <3>1. Cardinality({i \in 1..Len(queue) : queue[i] = b}) = One(Has(queue, b))
      <4> DEFINE S == {i \in 1..Len(queue) : queue[i] = b}
      <4>1. \A i, j \in S : i = j
        BY <1>1 DEF IInv, HoldInv, Counted, Once
      <4>2. (\E i : i \in S) <=> Has(queue, b)
        BY DEF Has
      <4>3. Cardinality(S) = One(\E i : i \in S)
        BY <4>1, CountOne
      <4> QED
        BY <4>2, <4>3 DEF One
    <3>2. Cardinality({t \in Threads : buf[t] = b}) = One(Kept(b))
      <4> DEFINE S == {t \in Threads : buf[t] = b}
      <4>1. \A t, u \in S : t = u
        BY <1>1, ConstantsAssumption DEF IInv, HoldInv, Waiting
      <4>2. (\E t : t \in S) <=> Kept(b)
        BY DEF Kept
      <4>3. Cardinality(S) = One(\E t : t \in S)
        BY <4>1, CountOne
      <4> QED
        BY <4>2, <4>3 DEF One
    <3>3. Cardinality({a \in Actors : done[a].buf = b}) = One(Rx.buf = b) + One(Tx.buf = b)
      BY CountActors
    <3>4. ref[b] >= Count(b)
      BY <1>1 DEF IInv, HoldInv, Counted
    <3> QED
      BY <3>1, <3>2, <3>3, <3>4 DEF Count, One, Holders
  <2> QED
    BY <2>1 DEF RefsCover
<1> QED
  BY <1>1, Invariance, PTL

(* hci_cmd_done: one answer is expected at a time, it wakes the thread      *)
(* whose command it answers, and no thread waits for one that cannot come. *)
THEOREM AnswersReach ==
  ASSUME OneFault
  PROVE  Spec => []AnswersMatch
<1>1. ASSUME IInv PROVE AnswersMatch
  <2>0. /\ ctl \in Seq(Bufs) /\ Len(ctl) \in Nat /\ allowed \in {0, 1} /\ Len(ctl) + allowed <= 1
        /\ MatchTypes /\ Tokens /\ Sources
    BY <1>1, LenProperties DEF IInv, MatchInv, MatchTypes, Tokens
  <2>1. Len(ctl) <= 1 /\ \A i \in 1..Len(ctl) : i = 1
    BY <2>0
  <2>2. tx \in {"clear", "set"} => sent = NULL /\ ctl = <<>>
    <3>1. ASSUME tx \in {"clear", "set"} PROVE sent = NULL /\ ctl = <<>>
      <4>1. allowed = 1 /\ Expected = NULL
        BY <2>0, <3>1 DEF Tokens, TokenTx, Sources
      <4>2. Len(ctl) = 0
        BY <2>0, <4>1
      <4> QED
        BY <2>0, <4>1, <4>2, EmptySeq DEF Expected
    <3> QED
      BY <3>1
  <2>3. ASSUME NEW i \in 1..Len(ctl) PROVE /\ Expected = ctl[i] /\ ~AnswerTx /\ ctl[i] \in Bufs
                                           /\ ctl[i] # NULL
    <3>1. ctl # <<>> /\ i = 1 /\ ctl[i] \in Bufs
      BY <2>0, <2>1, ElementOfSeq
    <3> QED
      BY <2>0, <3>1, ConstantsAssumption DEF Sources
  <2>4. OneExpected
    <3>1. ASSUME NEW i \in 1..Len(ctl) PROVE ctl[i] = sent \/ done["rx"].buf = ctl[i]
      BY <2>3 DEF Expected, AnswerTx, Rx
    <3>2. \A a \in Actors : done[a].at # "abort"
      BY <2>0 DEF MatchTypes, Dones
    <3> QED
      BY <2>1, <2>2, <3>1, <3>2 DEF OneExpected
  <2>5. OwnAnswer
    <3>1. ASSUME NEW t \in given
          PROVE  /\ pc[t] \in {"raise", "drain", "wait"}
                 /\ \A i \in 1..Len(queue) : queue[i] # buf[t]
                 /\ \A i \in 1..Len(ctl) : ctl[i] # buf[t]
                 /\ sent # buf[t]
                 /\ tx \in {"clear", "set", "write"} => cur # buf[t]
      <4>1. t \in Threads /\ buf[t] # NULL /\ ~Live(buf[t]) /\ pc[t] \in {"raise", "drain", "wait"}
        BY <1>1, <3>1 DEF IInv, HoldInv, HoldTypes, Waiting
      <4>2. Expected # buf[t] /\ sent # buf[t] /\ ~Has(queue, buf[t])
            /\ (tx \in {"clear", "set"} => cur # buf[t])
        BY <4>1 DEF Live, Expected
      <4>3. tx = "write" => Expected = cur
        BY <2>0 DEF Sources
      <4> QED
        BY <2>3, <4>1, <4>2, <4>3 DEF Has
    <3> QED
      BY <3>1 DEF OwnAnswer
  <2>6. NotForgotten
    <3>1. ASSUME NEW t \in Threads, pc[t] = "wait", t \notin given
          PROVE  \/ \E i \in 1..Len(queue) : queue[i] = buf[t]
                 \/ tx \in {"clear", "set"} /\ cur = buf[t]
                 \/ sent = buf[t]
                 \/ \E a \in Actors : done[a].buf = buf[t]
      <4>1. buf[t] # NULL /\ Live(buf[t])
        BY <1>1, <3>1 DEF IInv, HoldInv, Waiting
      <4> QED
        BY <4>1 DEF Live, Has, Expected, Rx, Tx, Actors
    <3> QED
      BY <3>1 DEF NotForgotten
  <2> QED
    BY <2>4, <2>5, <2>6 DEF AnswersMatch
<1> QED
  BY <1>1, Invariance, PTL
=============================================================================
