------------------------------- MODULE ConnTx -------------------------------
(***************************************************************************)
(* Sending data over ACL connections: src/bluetooth/host/conn.c with the   *)
(* part of l2cap.c that feeds it and the part of hci_core.c that returns   *)
(* the controller's buffers.                                               *)
(*                                                                         *)
(* Threads.  Application threads put PDUs in channel queues and raise the  *)
(* channel and its connection.  The main work queue runs the TX processor, *)
(* one pass per kick, and the completion work of a connection.  The        *)
(* receive thread of the driver handles Number Of Completed Packets and    *)
(* the priority half of Disconnection Complete.  The Bluetooth work queue  *)
(* gives channel credits and handles the other half of a disconnection.    *)
(*                                                                         *)
(* `preempt' says whether threads may run between the steps of a pass of   *)
(* the TX processor: the comments of conn.c (670-674) and l2cap.c          *)
(* (704-707) rely on a main work queue that is not preempted, which        *)
(* neither port of osdep/ provides.                                        *)
(*                                                                         *)
(* Locks.  bt_hci_recv keeps os_sched_lock over the whole handler of an    *)
(* event (hci_core.c, 4396), tx_notify_process takes it for tx_complete    *)
(* and a raise for the ready lists.  A pass takes it for nothing it        *)
(* removes from a ready list and not for tx_pending: where such a step     *)
(* meets one of another thread in the same list, the outcome is that of    *)
(* either order or that the pass or the raise loses what it did to the     *)
(* list.  `torn' records that this happened.  The receive thread handles   *)
(* a completed packet in the two steps a pass can tell apart: the credit   *)
(* is back, and in_ll is down.                                             *)
(*                                                                         *)
(* The driver writes a packet and frees its fragment before bt_hci_send    *)
(* returns (drivers/h4.c, drivers/userchan.c), so no PDU has a view when   *)
(* the next pass starts and fragment buffers never run out.                *)
(***************************************************************************)
EXTENDS Integers, Sequences, FiniteSets, SequencesExt

CONSTANTS Conns,        \* LE ACL connections
          Chans,        \* L2CAP channels
          Owner,        \* [Chans -> Conns]
          Dynamic,      \* the channels with credits (CID in the dynamic range)
          Pdus,         \* the PDUs and SDUs the application sends
          Route,        \* [Pdus -> Chans]
          Shape,        \* [Pdus -> non-empty Seq(Nat \ {0})]: fragments of each segment
          CtlrBufs,     \* the controller's ACL buffers (bt_dev.le.acl_pkts)
          Txs,          \* the TX contexts (conn_tx[])
          MaxInLL,      \* buffers per connection should_stop_tx aims at: 3
          MaxCredits,   \* bound: credits a peer gives to one channel
          Preempts,     \* values of preempt that are explored
          CanFail,      \* values of preempt with which the driver may refuse a packet
          CanDrop,      \* bound: the connections that may go down
          NULL

ASSUME TxAssumption == /\ Owner \in [Chans -> Conns]
                       /\ Dynamic \subseteq Chans
                       /\ Route \in [Pdus -> Chans]
                       /\ Shape \in [Pdus -> Seq(Nat \ {0}) \ {<<>>}]
                       /\ CtlrBufs \in Nat /\ IsFiniteSet(Txs)
                       /\ MaxInLL \in Nat
                       /\ MaxCredits \in Nat
                       /\ Preempts \subseteq BOOLEAN /\ CanFail \subseteq BOOLEAN
                       /\ CanDrop \subseteq Conns
                       /\ NULL \notin Pdus \cup Conns \cup Chans \cup Txs

VARIABLES preempt,     \* see above; never changes
          state,       \* conn->state
          connReady,   \* bt_dev.le.conn_ready
          chanReady,   \* conn->l2cap_data_ready
          txq,         \* le_chan->tx_queue
          raising,     \* channels some thread is about to raise
          rest,        \* segments of a PDU that have not been started
          left,        \* le_chan->_pdu_remaining, in fragments
          credits,     \* le_chan->tx.credits
          out,         \* BT_L2CAP_STATUS_OUT of the channel
          given,       \* credits the peer gave so far
          pkts,        \* the value of bt_dev.le.acl_pkts
          freeTx,      \* free_tx
          txcb,        \* tx->cb: the PDU whose callback the context holds, or NULL
          pending,     \* conn->tx_pending
          complete,    \* conn->tx_complete
          inLL,        \* conn->in_ll
          ctlr,        \* packets of the connection the controller holds (external)
          kick,        \* tx_work is queued
          notify,      \* conn->tx_complete_work is queued or running
          main,        \* where the main work queue is
          rx,          \* the connection whose completed packet is not yet taken off in_ll
          torn,        \* a list operation was lost, or a context returned twice
          sent,        \* history: PDUs the application has sent
          order,       \* history: PDUs in the order they were handed over
          told,        \* history: how often the callback of a PDU was made
          done,        \* history: the callbacks that reported success, in order
          aborted      \* an assertion failed

connVars == <<state, connReady, pending, complete, inLL, ctlr, notify>>
chanVars == <<chanReady, txq, raising, rest, left, credits, out, given>>
vars == <<preempt, connVars, chanVars, pkts, freeTx, txcb, kick, main, rx, torn,
          sent, order, told, done, aborted>>

Idle == [at |-> "idle", conn |-> NULL, chan |-> NULL, cb |-> NULL, tx |-> NULL]

Init == /\ preempt \in Preempts
        /\ state = [c \in Conns |-> "connected"]
        /\ connReady = <<>>
        /\ chanReady = [c \in Conns |-> <<>>]
        /\ txq = [h \in Chans |-> <<>>]
        /\ raising = {}
        /\ rest = Shape
        /\ left = [h \in Chans |-> 0]
        /\ credits = [h \in Chans |-> 0]
        /\ out = [h \in Chans |-> FALSE]
        /\ given = [h \in Chans |-> 0]
        /\ pkts = CtlrBufs
        /\ freeTx = Txs
        /\ txcb = [t \in Txs |-> NULL]
        /\ pending = [c \in Conns |-> <<>>]
        /\ complete = [c \in Conns |-> <<>>]
        /\ inLL = [c \in Conns |-> 0]
        /\ ctlr = [c \in Conns |-> 0]
        /\ kick = FALSE
        /\ notify = [c \in Conns |-> FALSE]
        /\ main = Idle
        /\ rx = NULL
        /\ torn = FALSE
        /\ sent = {}
        /\ order = [c \in Conns |-> <<>>]
        /\ told = [p \in Pdus |-> 0]
        /\ done = [c \in Conns |-> <<>>]
        /\ aborted = FALSE

-----------------------------------------------------------------------------
\* A thread other than the main work queue runs.
Others == ~aborted /\ (preempt \/ main.at \in {"idle", "notify"})

\* The main work queue runs.
Main == ~aborted /\ (preempt \/ rx = NULL)

\* Append unless it is there already: the critical sections of
\* raise_data_ready and bt_conn_data_ready.
AddOnce(list, x) == IF Contains(list, x) THEN list ELSE Append(list, x)

(* Mutants: a semaphore that saturates one too early, a list filled from    *)
(* the wrong end, a forgotten check, a connection that is not put back.    *)
GiveOffByOne(n) == IF pkts + n >= CtlrBufs THEN CtlrBufs - 1 ELSE pkts + n
CompletedFirst(c) == <<Head(pending[c])>> \o complete[c]
HaveAnyway == TRUE
NeverBack(c) == FALSE

\* os_sem_give(bt_conn_get_pkts(conn)), n times; the semaphore saturates.
Give(n) == IF pkts + n > CtlrBufs THEN CtlrBufs ELSE pkts + n

\* tx_free and the callback, for the contexts that leave a list.
Called(ts) ==
  [p \in Pdus |-> told[p] + Cardinality({i \in 1..Len(ts) : txcb[ts[i]] = p})]

\* hci_num_completed_packets: the head of tx_pending joins tx_complete.
Completed(c) == Append(complete[c], Head(pending[c]))

\* What get_conn_ready asks of a connection before it looks at its data:
\* a buffer of the controller (cannot_send_to_controller) and a TX context
\* (dont_have_tx_context).
HaveResources == pkts > 0 /\ freeTx # {}

ShouldStopTx(c) == \/ state[c] # "connected"
                   \/ chanReady[c] = <<>>
                   \/ inLL[c] >= MaxInLL

\* chan_has_credits: fixed channels need none.
ChanHasCredits(h) == h \in Dynamic => credits[h] > 0

\* bt_l2cap_send_pdu, bt_l2cap_dyn_chan_send: queue the PDU; the raise is
\* a step of its own.
SendPdu(p) ==
  LET h == Route[p]
  IN  /\ Others
      /\ p \notin sent
      /\ state[Owner[h]] = "connected"
      /\ sent' = sent \cup {p}
      /\ txq' = [txq EXCEPT ![h] = Append(@, p)]
      /\ raising' = raising \cup {h}
      /\ UNCHANGED <<preempt, rx, torn, connVars, chanReady, rest, left, credits, out,
                     given, pkts, freeTx, txcb, kick, main, order, told, done,
                     aborted>>

\* raise_data_ready and bt_conn_data_ready.
RaiseDataReady(h) ==
  /\ Others
  /\ h \in raising
  /\ raising' = raising \ {h}
  /\ IF state[Owner[h]] = "released"
     THEN aborted' = TRUE          \* chan->conn is NULL
          /\ UNCHANGED <<chanReady, connReady, kick>>
     ELSE /\ chanReady' = [chanReady EXCEPT ![Owner[h]] = AddOnce(@, h)]
          /\ connReady' = AddOnce(connReady, Owner[h])
          /\ kick' = TRUE
          /\ UNCHANGED aborted
  /\ UNCHANGED <<preempt, rx, torn, sent, state, pending, complete, inLL, ctlr, notify,
                 txq, rest, left, credits, out, given, pkts, freeTx, txcb, main,
                 order, told, done>>

\* The same while a pass removes the only element of one of the two lists:
\* lower_data_ready and get_conn_ready take no lock, and what is appended
\* behind that element goes with it.
RaiseTorn(h) ==
  LET c == Owner[h]
  IN  /\ ~aborted /\ preempt /\ h \in raising /\ state[c] # "released"
      /\ raising' = raising \ {h}
      /\ \/ /\ main.at \in {"pull", "nodata", "nocredit"} /\ main.conn = c
            /\ Len(chanReady[c]) = 1 /\ ~Contains(chanReady[c], h)
            /\ connReady' = AddOnce(connReady, c)
            /\ UNCHANGED chanReady
         \/ /\ main.at = "idle" /\ HaveResources
            /\ Len(connReady) = 1 /\ ~Contains(connReady, c) /\ ShouldStopTx(Head(connReady))
            /\ chanReady' = [chanReady EXCEPT ![c] = AddOnce(@, h)]
            /\ UNCHANGED connReady
      /\ kick' = TRUE
      /\ torn' = TRUE
      /\ UNCHANGED <<preempt, rx, sent, state, pending, complete, inLL, ctlr, notify,
                     txq, rest, left, credits, out, given, pkts, freeTx, txcb, main,
                     order, told, done, aborted>>

-----------------------------------------------------------------------------
(* A pass of the TX processor.                                             *)

\* A connection that stops goes to the end of the list if it has data.
BackOfQueue(c) == chanReady[c] # <<>> /\ state[c] = "connected"

\* bt_conn_tx_processor up to the state check: get_conn_ready picks the
\* first connection.  One that should stop leaves the list, or goes to its
\* end when it has data, and is served all the same.
GetConnReady ==
  LET c == Head(connReady)
  IN  /\ Main /\ main.at = "idle" /\ kick
      /\ HaveResources /\ connReady # <<>>
      /\ connReady' = IF ShouldStopTx(c)
                      THEN IF BackOfQueue(c) THEN Append(Tail(connReady), c) ELSE Tail(connReady)
                      ELSE connReady
      /\ IF state[c] = "connected"
         THEN /\ main' = [Idle EXCEPT !.at = "pull", !.conn = c]
              /\ kick' = (ShouldStopTx(c) /\ BackOfQueue(c))
         ELSE kick' = TRUE /\ UNCHANGED main
      /\ UNCHANGED <<preempt, rx, torn, sent, state, pending, complete, inLL, ctlr, notify,
                     chanVars, pkts, freeTx, txcb, order, told, done, aborted>>

\* The same with nothing to send or nothing to send it with: the kick is spent.
NothingReady ==
  /\ Main /\ main.at = "idle" /\ kick
  /\ ~HaveResources \/ connReady = <<>>
  /\ kick' = FALSE
  /\ UNCHANGED <<preempt, rx, torn, sent, connVars, chanVars, pkts, freeTx, txcb, main, order,
                 told, done, aborted>>

\* l2cap_data_pull when get_ready_chan returns NULL.
PullNone ==
  /\ ~aborted /\ main.at = "pull"
  /\ chanReady[main.conn] = <<>>
  /\ kick' = TRUE
  /\ main' = Idle
  /\ UNCHANGED <<preempt, rx, torn, sent, connVars, chanVars, pkts, freeTx, txcb, order,
                 told, done, aborted>>

\* get_ready_chan meets a channel without data, or l2cap_data_pull one
\* that has no credit for a new K-frame: the channel will be lowered.
PullRefused ==
  LET h == Head(chanReady[main.conn])
      dry == left[h] = 0 /\ ~ChanHasCredits(h)
  IN  /\ ~aborted /\ main.at = "pull"
      /\ chanReady[main.conn] # <<>>
      /\ \/ txq[h] = <<>> /\ main' = [main EXCEPT !.at = "nodata", !.chan = h]
         \/ /\ txq[h] # <<>> /\ state[main.conn] = "connected" /\ dry
            /\ main' = [main EXCEPT !.at = "nocredit", !.chan = h]
      /\ UNCHANGED <<preempt, rx, torn, sent, connVars, chanVars, pkts, freeTx, txcb, kick,
                     order, told, done, aborted>>

\* __ASSERT_NO_MSG(conn->state == BT_CONN_CONNECTED) of l2cap_data_pull.
PullAsserts ==
  LET h == Head(chanReady[main.conn])
  IN  /\ ~aborted /\ main.at = "pull"
      /\ chanReady[main.conn] # <<>>
      /\ txq[h] # <<>> /\ state[main.conn] # "connected"
      /\ aborted' = TRUE
      /\ UNCHANGED <<preempt, rx, torn, sent, connVars, chanVars, pkts, freeTx, txcb, kick,
                     main, order, told, done>>

\* lower_data_ready.  The search for a channel goes on; a pass that found
\* no credit ends, and does not kick.
LowerDataReady ==
  /\ ~aborted /\ main.at \in {"nodata", "nocredit"}
  /\ IF chanReady[main.conn] # <<>> /\ Head(chanReady[main.conn]) = main.chan
     THEN /\ chanReady' = [chanReady EXCEPT ![main.conn] = Tail(@)]
          /\ main' = IF main.at = "nodata"
                     THEN [Idle EXCEPT !.at = "pull", !.conn = main.conn]
                     ELSE Idle
          /\ UNCHANGED aborted
     ELSE /\ aborted' = TRUE      \* __ASSERT_NO_MSG(s == &le_chan->_pdu_ready)
          /\ UNCHANGED <<chanReady, main>>
  /\ UNCHANGED <<preempt, rx, torn, sent, connVars, txq, raising, rest, left, credits, out,
                 given, pkts, freeTx, txcb, kick, order, told, done>>

\* l2cap_data_pull: start a segment if none is in progress, take one
\* fragment of it; after its last fragment the channel goes to the back of
\* the list if it has more.  The PDU leaves the queue with the last
\* fragment of its last segment, and only that one carries the callback.
Pull ==
  LET c == main.conn
      h == Head(chanReady[c])
      p == Head(txq[h])
      start == left[h] = 0
      have == IF start THEN Head(rest[p]) ELSE left[h]
      rest1 == IF start THEN Tail(rest[p]) ELSE rest[p]
      lastFrag == have = 1
      lastSeg == rest1 = <<>>
      txq1 == IF lastFrag /\ lastSeg THEN Tail(txq[h]) ELSE txq[h]
      again == lastFrag /\ txq1 # <<>>
      cost == IF start /\ h \in Dynamic THEN 1 ELSE 0
  IN  /\ ~aborted /\ main.at = "pull"
      /\ chanReady[c] # <<>>
      /\ txq[h] # <<>> /\ state[c] = "connected"
      /\ start => ChanHasCredits(h)
      /\ left' = [left EXCEPT ![h] = have - 1]
      /\ rest' = [rest EXCEPT ![p] = rest1]
      /\ credits' = [credits EXCEPT ![h] = @ - cost]
      /\ out' = [out EXCEPT ![h] = @ /\ ~(cost = 1 /\ credits[h] = 1)]
      /\ txq' = [txq EXCEPT ![h] = txq1]
      /\ chanReady' = [chanReady EXCEPT ![c] =
                         IF ~lastFrag THEN @ ELSE IF again THEN Append(Tail(@), h) ELSE Tail(@)]
      /\ connReady' = IF again THEN AddOnce(connReady, c) ELSE connReady
      /\ kick' = (kick \/ again)
      /\ main' = [main EXCEPT !.at = "send", !.chan = h,
                              !.cb = IF lastFrag /\ lastSeg THEN p ELSE NULL]
      /\ UNCHANGED <<preempt, rx, torn, sent, state, pending, complete, inLL, ctlr, notify,
                     raising, given, pkts, freeTx, txcb, order, told, done, aborted>>

\* send_buf up to the append to tx_pending, before the driver has the packet.
SendBuf ==
  LET c == main.conn
      t == CHOOSE x \in freeTx : TRUE
  IN  /\ ~aborted /\ main.at = "send"
      /\ IF pkts = 0 \/ freeTx = {}
         THEN aborted' = TRUE      \* "No controller bufs", "No TX context"
              /\ UNCHANGED <<pkts, freeTx, txcb, inLL, pending, main>>
         ELSE /\ pkts' = pkts - 1
              /\ freeTx' = freeTx \ {t}
              /\ txcb' = [txcb EXCEPT ![t] = main.cb]
              /\ inLL' = [inLL EXCEPT ![c] = @ + 1]
              /\ pending' = [pending EXCEPT ![c] = Append(@, t)]
              /\ main' = [main EXCEPT !.at = "driver", !.tx = t]
              /\ UNCHANGED aborted
      /\ UNCHANGED <<preempt, rx, torn, sent, state, connReady, complete, ctlr, notify, chanVars,
                     kick, order, told, done>>

\* The receive thread is about to take the last context of tx_pending.
LastTaken(c) == /\ preempt /\ rx = NULL /\ state[c] \in {"connected", "disconnecting"}
                /\ \/ ctlr[c] > 0 /\ Len(pending[c]) = 1
                   \/ c \in CanDrop /\ pending[c] # <<>>

\* send_buf while the receive thread takes that context: the new one is
\* appended behind it and is in no list.
SendBufTorn ==
  LET c == main.conn
      t == CHOOSE x \in freeTx : TRUE
  IN  /\ ~aborted /\ main.at = "send"
      /\ HaveResources /\ LastTaken(c)
      /\ pkts' = pkts - 1
      /\ freeTx' = freeTx \ {t}
      /\ txcb' = [txcb EXCEPT ![t] = main.cb]
      /\ inLL' = [inLL EXCEPT ![c] = @ + 1]
      /\ main' = [main EXCEPT !.at = "driver", !.tx = t]
      /\ torn' = TRUE
      /\ UNCHANGED <<preempt, rx, sent, state, connReady, pending, complete, ctlr, notify,
                     chanVars, kick, order, told, done, aborted>>

\* bt_send succeeds: the controller has the packet; freeing the fragment
\* and the end of the pass kick.
DriverTakes ==
  LET c == main.conn
  IN  /\ ~aborted /\ main.at = "driver"
      /\ ctlr' = [ctlr EXCEPT ![c] = IF state[c] \in {"connected", "disconnecting"}
                                     THEN @ + 1 ELSE @]
      /\ order' = [order EXCEPT ![c] = IF main.cb = NULL THEN @ ELSE Append(@, main.cb)]
      /\ kick' = TRUE
      /\ main' = Idle
      /\ UNCHANGED <<preempt, rx, torn, sent, state, connReady, pending, complete, inLL, notify,
                     chanVars, pkts, freeTx, txcb, told, done, aborted>>

\* bt_send fails: the context and the credit come back, and
\* bt_conn_disconnect asks for the end of the connection, unless the
\* command fails too.  The context is not in tx_pending if the end of the
\* connection has returned it; it is returned again all the same.
DriverRefuses ==
  LET c == main.conn
      t == main.tx
  IN  /\ ~aborted /\ main.at = "driver" /\ preempt \in CanFail
      /\ inLL' = [inLL EXCEPT ![c] = @ - 1]
      /\ pending' = [pending EXCEPT ![c] = RemoveFirst(@, t)]
      /\ torn' = (torn \/ ~Contains(pending[c], t))
      /\ told' = Called(<<t>>)
      /\ freeTx' = freeTx \cup {t}
      /\ txcb' = [txcb EXCEPT ![t] = NULL]
      /\ pkts' = Give(1)
      /\ \/ state' = [state EXCEPT ![c] = IF @ = "connected" THEN "disconnecting" ELSE @]
         \/ UNCHANGED state
      /\ kick' = TRUE
      /\ main' = Idle
      /\ UNCHANGED <<preempt, rx, sent, connReady, complete, ctlr, notify, chanVars,
                     order, done, aborted>>

\* The same while the receive thread takes the context before it: the
\* removal is lost, and the context is free and in tx_pending.
DriverRefusesTorn ==
  LET c == main.conn
      t == main.tx
  IN  /\ ~aborted /\ main.at = "driver" /\ preempt \in CanFail
      /\ LastTaken(c) \/ (preempt /\ rx = NULL /\ ctlr[c] > 0 /\ Len(pending[c]) = 2)
      /\ Contains(pending[c], t)
      /\ inLL' = [inLL EXCEPT ![c] = @ - 1]
      /\ told' = Called(<<t>>)
      /\ freeTx' = freeTx \cup {t}
      /\ txcb' = [txcb EXCEPT ![t] = NULL]
      /\ pkts' = Give(1)
      /\ kick' = TRUE
      /\ main' = Idle
      /\ torn' = TRUE
      /\ UNCHANGED <<preempt, rx, sent, state, connReady, pending, complete, ctlr, notify,
                     chanVars, order, done, aborted>>

-----------------------------------------------------------------------------
(* The receive thread of the driver.                                       *)

HandleValid(c) == state[c] \in {"connected", "disconnecting", "complete"}

\* hci_num_completed_packets, one packet, up to the append to tx_complete.
\* The thread has os_sched_lock, so nobody takes from tx_complete yet.
NumCompleted(c) ==
  /\ Others /\ rx = NULL
  /\ ctlr[c] > 0 /\ HandleValid(c)
  /\ ctlr' = [ctlr EXCEPT ![c] = @ - 1]
  /\ IF pending[c] = <<>>
     THEN aborted' = TRUE          \* "packets count mismatch"
          /\ UNCHANGED <<pkts, pending, complete, rx>>
     ELSE /\ pkts' = Give(1)
          /\ pending' = [pending EXCEPT ![c] = Tail(@)]
          /\ complete' = [complete EXCEPT ![c] = Completed(c)]
          /\ rx' = c
          /\ UNCHANGED aborted
  /\ UNCHANGED <<preempt, torn, sent, state, connReady, inLL, notify, chanVars, freeTx,
                 txcb, kick, main, order, told, done>>

\* The rest: in_ll, which must not be zero, and bt_conn_tx_notify.
InLLAligned(c) ==
  /\ Others /\ rx = c
  /\ rx' = NULL
  /\ IF inLL[c] = 0
     THEN aborted' = TRUE /\ UNCHANGED <<inLL, notify>>
     ELSE /\ inLL' = [inLL EXCEPT ![c] = @ - 1]
          /\ notify' = [notify EXCEPT ![c] = TRUE]
          /\ UNCHANGED aborted
  /\ UNCHANGED <<preempt, torn, sent, state, connReady, pending, complete, ctlr, chanVars,
                 pkts, freeTx, txcb, kick, main, order, told, done>>

\* hci_disconn_complete_prio: bt_conn_set_state to DISCONNECT_COMPLETE and
\* process_unack_tx.
DisconnComplete(c) ==
  /\ Others /\ rx = NULL /\ c \in CanDrop
  /\ state[c] \in {"connected", "disconnecting"}
  /\ state' = [state EXCEPT ![c] = "complete"]
  /\ ctlr' = [ctlr EXCEPT ![c] = 0]
  /\ told' = Called(pending[c])
  /\ freeTx' = freeTx \cup Range(pending[c])
  /\ txcb' = [t \in Txs |-> IF Contains(pending[c], t) THEN NULL ELSE txcb[t]]
  /\ pkts' = Give(Len(pending[c]))
  /\ pending' = [pending EXCEPT ![c] = <<>>]
  /\ kick' = TRUE
  /\ UNCHANGED <<preempt, rx, torn, sent, connReady, complete, inLL, notify, chanVars, main,
                 order, done, aborted>>

-----------------------------------------------------------------------------
(* The main work queue between passes, and the Bluetooth work queue.       *)

\* tx_notify_process, one context; it waits for os_sched_lock.
TxNotify(c) ==
  /\ ~aborted /\ rx = NULL
  /\ \/ main.at = "idle" /\ notify[c]
     \/ main.at = "notify" /\ main.conn = c
  /\ IF complete[c] = <<>>
     THEN /\ main' = Idle
          /\ notify' = [notify EXCEPT ![c] = FALSE]
          /\ UNCHANGED <<complete, told, done, freeTx, txcb, kick>>
     ELSE LET t == Head(complete[c])
          IN  /\ main' = [Idle EXCEPT !.at = "notify", !.conn = c]
              /\ complete' = [complete EXCEPT ![c] = Tail(@)]
              /\ told' = Called(<<t>>)
              /\ done' = [done EXCEPT ![c] = IF txcb[t] = NULL THEN @ ELSE Append(@, txcb[t])]
              /\ freeTx' = freeTx \cup {t}
              /\ txcb' = [txcb EXCEPT ![t] = NULL]
              /\ kick' = TRUE
              /\ UNCHANGED notify
  /\ UNCHANGED <<preempt, rx, torn, sent, state, connReady, pending, inLL, ctlr, chanVars, pkts,
                 order, aborted>>

\* hci_disconn_complete: bt_conn_set_state to DISCONNECTED submits the
\* completion work, waits for it and schedules deferred_work.
Disconnected(c) ==
  /\ Others /\ state[c] = "complete"
  /\ state' = [state EXCEPT ![c] = "disconnected"]
  /\ notify' = [notify EXCEPT ![c] = TRUE]
  /\ UNCHANGED <<preempt, rx, torn, sent, connReady, pending, complete, inLL, ctlr, chanVars,
                 pkts, freeTx, txcb, kick, main, order, told, done, aborted>>

\* deferred_work: bt_l2cap_disconnected deletes the channels; what they
\* had queued is dropped without a callback.
DeferredWork(c) ==
  LET gone == {h \in Chans : Owner[h] = c}
  IN  /\ Main /\ main.at = "idle" /\ state[c] = "disconnected" /\ ~notify[c]
      /\ state' = [state EXCEPT ![c] = "released"]
      /\ chanReady' = [chanReady EXCEPT ![c] = <<>>]
      /\ txq' = [h \in Chans |-> IF h \in gone THEN <<>> ELSE txq[h]]
      /\ left' = [h \in Chans |-> IF h \in gone THEN 0 ELSE left[h]]
      /\ UNCHANGED <<preempt, rx, torn, sent, connReady, pending, complete, inLL, ctlr, notify,
                     raising, rest, credits, out, given, pkts, freeTx, txcb, kick, main,
                     order, told, done, aborted>>

\* le_credits: l2cap_chan_tx_give_credits raises a channel it unpauses.
GiveCredits(h) ==
  /\ Others /\ h \in Dynamic /\ given[h] < MaxCredits
  /\ state[Owner[h]] = "connected"
  /\ given' = [given EXCEPT ![h] = @ + 1]
  /\ credits' = [credits EXCEPT ![h] = @ + 1]
  /\ out' = [out EXCEPT ![h] = TRUE]
  /\ raising' = IF ~out[h] /\ txq[h] # <<>> THEN raising \cup {h} ELSE raising
  /\ UNCHANGED <<preempt, rx, torn, sent, connVars, chanReady, txq, rest, left, pkts, freeTx,
                 txcb, kick, main, order, told, done, aborted>>

-----------------------------------------------------------------------------
Pass == \/ GetConnReady \/ NothingReady \/ PullNone \/ PullRefused
        \/ PullAsserts \/ LowerDataReady \/ Pull \/ SendBuf \/ SendBufTorn \/ DriverTakes

Next == \/ \E p \in Pdus : SendPdu(p)
        \/ \E h \in Chans : RaiseDataReady(h) \/ RaiseTorn(h) \/ GiveCredits(h)
        \/ Pass \/ DriverRefuses \/ DriverRefusesTorn
        \/ \E c \in Conns : \/ NumCompleted(c) \/ InLLAligned(c) \/ DisconnComplete(c)
                            \/ TxNotify(c) \/ Disconnected(c) \/ DeferredWork(c)

\* Every thread goes on; the application, the driver's refusals, the end of
\* a connection and the peer's credits are not forced.
Spec == Init /\ [][Next]_vars
FairSpec == /\ Spec
            /\ WF_vars(Pass)
            /\ \A h \in Chans : WF_vars(RaiseDataReady(h))
            /\ \A c \in Conns : /\ WF_vars(NumCompleted(c)) /\ WF_vars(InLLAligned(c))
                               /\ SF_vars(TxNotify(c))

-----------------------------------------------------------------------------
(* Properties.                                                             *)

TypeOK ==
  /\ preempt \in BOOLEAN /\ kick \in BOOLEAN /\ aborted \in BOOLEAN /\ torn \in BOOLEAN
  /\ rx \in Conns \cup {NULL}
  /\ state \in [Conns -> {"connected", "disconnecting", "complete", "disconnected", "released"}]
  /\ connReady \in Seq(Conns) /\ chanReady \in [Conns -> Seq(Chans)]
  /\ txq \in [Chans -> Seq(Pdus)] /\ raising \subseteq Chans
  /\ rest \in [Pdus -> Seq(Nat \ {0})] /\ left \in [Chans -> Nat]
  /\ credits \in [Chans -> 0..MaxCredits] /\ given \in [Chans -> 0..MaxCredits]
  /\ out \in [Chans -> BOOLEAN] /\ notify \in [Conns -> BOOLEAN]
  /\ pkts \in 0..CtlrBufs /\ freeTx \subseteq Txs /\ txcb \in [Txs -> Pdus \cup {NULL}]
  /\ pending \in [Conns -> Seq(Txs)] /\ complete \in [Conns -> Seq(Txs)]
  /\ inLL \in [Conns -> Int] /\ ctlr \in [Conns -> Nat]
  /\ main \in [at : {"idle", "pull", "nodata", "nocredit", "send", "driver", "notify"},
               conn : Conns \cup {NULL}, chan : Chans \cup {NULL}, cb : Pdus \cup {NULL},
               tx : Txs \cup {NULL}]
  /\ sent \subseteq Pdus /\ told \in [Pdus -> Nat]
  /\ order \in [Conns -> Seq(Pdus)] /\ done \in [Conns -> Seq(Pdus)]

\* No buffer of the controller and no TX context is lost or returned twice,
\* whatever order completions, refusals and disconnections come in, until
\* two threads meet in a list: every credit is in the semaphore or stands
\* for a context in some tx_pending, a context is in one list at most, and
\* while a connection is up in_ll counts its tx_pending.
CreditsExact ==
  LET lists == [c \in Conns |-> pending[c] \o complete[c]]
  IN  ~torn =>
      /\ pkts + Cardinality(UNION {Range(pending[c]) : c \in Conns}) = CtlrBufs
      /\ \A c, d \in Conns : \A i \in 1..Len(lists[c]), j \in 1..Len(lists[d]) :
           lists[c][i] = lists[d][j] => c = d /\ i = j
      /\ freeTx = Txs \ UNION {Range(lists[c]) : c \in Conns}
      /\ \A c \in Conns : state[c] = "connected" =>
           inLL[c] = Len(pending[c]) + (IF rx = c THEN 1 ELSE 0)

\* Nobody's callback is made twice, and the callbacks that report success
\* come in the order the packets were handed to the controller, although
\* they pass from the driver's thread to the main work queue, until two
\* threads meet in a list.
CallbacksInOrder ==
  ~torn =>
  /\ \A p \in Pdus : told[p] <= 1
  /\ \A c \in Conns : /\ Len(done[c]) <= Len(order[c])
                      /\ \A i \in 1..Len(done[c]) : done[c][i] = order[c][i]

\* As long as every connection is up and no two threads have met in a list
\* no assertion fails: what get_conn_ready saw (a credit, a context, a
\* channel with data) is still there when send_buf and lower_data_ready
\* need it, and each completed packet has its context in tx_pending.
AssertsHold == aborted => torn \/ \E c \in Conns : state[c] # "connected"

\* The comment of send_buf (728-735) and the assertion of
\* hci_num_completed_packets (638-640): the context is appended before the
\* packet is sent, so its completion finds it; no assertion fails while
\* every connection is up.
CompletionsFound == aborted => \E c \in Conns : state[c] # "connected"

Down(h) == state[Owner[h]] # "connected" \/ aborted
Starving == \E h \in Dynamic : txq[h] # <<>> /\ credits[h] = 0

\* A channel that is raised has somebody to look at it, also if threads
\* preempt a pass: its connection is on the list or being served, and the
\* next pass is due now, or when the buffers, contexts or credits it lacks
\* come back.  Kicks may merge, be spent on a pass that finds no buffer or
\* no context, or come before these are back, but never so that raised data
\* stays behind.  Not so while some channel with data is out of credits
\* (see OthersNotStarved), or once two threads met in a list.
PassDue == \/ kick \/ main.at # "idle" \/ rx # NULL \/ raising # {}
           \/ \E c \in Conns : notify[c] \/ (ctlr[c] > 0 /\ ~HaveResources)
RaisedSeen ==
  ~torn /\ ~aborted /\ ~Starving =>
    \A h \in Chans : LET c == Owner[h] IN
      Contains(chanReady[c], h) /\ txq[h] # <<>> /\ state[c] = "connected" =>
        /\ Contains(connReady, c) \/ main.conn = c
        /\ PassDue

\* What bt_conn_tx_processor says of a pull that returns nothing (1048-1053):
\* the TX processor is triggered again, so a channel without credits does
\* not hold up the others.
Answered(p) == told[p] > 0
OthersNotStarved ==
  ~preempt => []<>(\A p \in sent : Route[p] \in Dynamic \/ Answered(p) \/ Down(Route[p]))

\* The same for threads that do preempt a pass: no PDU stays behind.
PduSentPreempted ==
  []<>(\A p \in sent : Answered(p) \/ Down(Route[p]) \/ Starving \/ torn)

\* The assertions, with connections that go down.
NoAssert == ~aborted

\* "Queue only 3 buffers per-conn for now" (should_stop_tx).
InLLBounded == \A c \in Conns : inLL[c] <= MaxInLL

\* The comment of send_buf (670-674) for a disconnection in the middle of a
\* pass: nothing stays in tx_pending of a connection that is gone.
NothingLeftBehind == \A c \in Conns :
  state[c] = "released" /\ main = Idle => pending[c] = <<>>

=============================================================================
