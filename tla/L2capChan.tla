------------------------------ MODULE L2capChan ------------------------------
(***************************************************************************)
(* LE credit based channels: src/bluetooth/host/l2cap.c on both ends of a  *)
(* link.  The client's application connects a channel to the server's PSM, *)
(* either side sends SDUs, gives SDUs back and disconnects, the encryption *)
(* of the link changes, requests time out and the link may be lost.        *)
(*                                                                         *)
(* Threads of a host.  The Bluetooth work queue handles signalling PDUs    *)
(* and puts K-frames in rx_queue; the main work queue runs                 *)
(* l2cap_rx_process, the RTX timeouts and the TX processor (see ConnTx);   *)
(* application threads call the API.  A handler is one step.               *)
(*                                                                         *)
(* l2cap_chan_destroy cancels the RTX work with a wait exactly when it     *)
(* runs on the main work queue (1349-1353), so the timeout handler waits   *)
(* for itself: a host whose request timed out is `stuck', its main work    *)
(* queue does nothing more and nothing of what it sends leaves.            *)
(*                                                                         *)
(* The link delivers in order and loses nothing until it goes down.  One   *)
(* channel object per host, so the CIDs are always the same two values.    *)
(* Not in the configured build: enhanced credit based channels (ECRED)     *)
(* and the seg_recv interface.                                             *)
(***************************************************************************)
EXTENDS Integers, Sequences, FiniteSets, SequencesExt

CONSTANTS Sizes,       \* lengths of the SDUs each application sends
          MPS,         \* largest K-frame payload, the SDU header included
          Room,        \* room in one buffer of the application's alloc_buf
          Allocs,      \* the hosts whose channel has an alloc_buf callback
          MaxSdus,     \* bound: SDUs an application sends over one connection
          MaxConnects, \* bound: calls of bt_l2cap_chan_connect
          MaxCredits,  \* UINT16_MAX
          Psms,        \* is the PSM one of the dynamic range?
          Requires,    \* does the client's channel require the server's security level?
          CanRunOut,   \* the kinds of buffer an allocation can fail for
          Rash,        \* what applications do: disconnect while "connecting",
                       \*   with frames "unread" or SDUs "unsent", "reuse" a
                       \*   channel while they hold an SDU it delivered, connect
                       \*   "early", when frames of its last use may still come
          Overtakes,   \* a K-frame may leave before a queued signalling PDU
          MayDrop,     \* the link may be lost
          NULL

ASSUME ChanAssumption == /\ Sizes \in [{"client", "server"} -> SUBSET (Nat \ {0})]
                         /\ MPS \in Nat /\ MPS > 2 /\ Room \in Nat
                         /\ MaxSdus \in [{"client", "server"} -> Nat] /\ MaxConnects \in Nat
                         /\ Allocs \subseteq {"client", "server"} /\ MaxCredits \in Nat
                         /\ Psms \subseteq BOOLEAN /\ Requires \subseteq BOOLEAN
                         /\ Overtakes \in BOOLEAN /\ MayDrop \in BOOLEAN

VARIABLES chan,   \* the channel object of each host
          link,   \* the PDUs on their way to each host
          up,     \* the link exists
          sec,    \* conn->sec_level satisfies the server
          dyn,    \* the PSM is dynamic; never changes
          ident,  \* get_ident's counter of each host, counting requests only
          stuck,  \* the hosts whose main work queue waits for itself
          failed, \* what went wrong: assertions, null pointers, broken rules
          cut,    \* the client cancelled a connection that was pending
          connects, \* bound: calls of bt_l2cap_chan_connect so far
          sent,   \* history: lengths of the SDUs accepted over this connection
          got     \* history: the SDUs delivered over this connection
vars == <<chan, link, up, sec, dyn, ident, stuck, failed, cut, connects, sent, got>>

Hosts == {"client", "server"}
Other(h) == IF h = "client" THEN "server" ELSE "client"
HDR == 2                                            \* BT_L2CAP_SDU_HDR_SIZE
MinOf(a, b) == IF a < b THEN a ELSE b
DivUp(a, b) == (a + b - 1) \div b

\* l2cap_chan_rx_init: without alloc_buf an SDU has to fit in one K-frame.
Fits(n, h) == h \in Allocs \/ n <= MPS - HDR

\* `st' DISCONNECTED with the object in the application's hands is "free";
\* "kept" is a channel that is out of conn->channels and not released.
Free == [st |-> "free", ident |-> 0, pend |-> "none", cid |-> FALSE, rtx |-> FALSE,
         enc |-> FALSE, shut |-> FALSE, tx |-> 0, rx |-> 0,
         txq |-> <<>>, rxq |-> <<>>, sdu |-> NULL, out |-> FALSE]
States == {"free", "CONNECTING", "CONNECTED", "DISCONNECTING", "kept"}
Listed(c) == c.st \in {"CONNECTING", "CONNECTED", "DISCONNECTING"}

Init == /\ chan = [h \in Hosts |-> Free]
        /\ link = [h \in Hosts |-> <<>>]
        /\ up = TRUE
        /\ sec \in BOOLEAN /\ dyn \in Psms
        /\ ident = [h \in Hosts |-> 0]
        /\ stuck = {} /\ failed = {} /\ cut = FALSE /\ connects = 0
        /\ sent = [h \in Hosts |-> <<>>]
        /\ got = [h \in Hosts |-> <<>>]

(***************************************************************************)
(* A handler maps a working state to the next one: the channel, the PDUs   *)
(* it sends, what it breaks and what it delivers to the application.       *)
(***************************************************************************)
Work(h) == [c |-> chan[h], put |-> <<>>, bad |-> {}, sdus |-> <<>>, id |-> ident[h]]
Put(w, m) == [w EXCEPT !.put = Append(@, m)]
Bad(w, what) == [w EXCEPT !.bad = {what}]
Pdu(t, id, n) == [t |-> t, id |-> id, n |-> n]

\* What w leaves behind at h, `l' being the link without the PDU it handled.
\* Nothing leaves a host whose TX processor hangs.
Commit(h, w, l) ==
  /\ chan' = [chan EXCEPT ![h] = w.c]
  /\ ident' = [ident EXCEPT ![h] = w.id]
  /\ failed' = failed \cup w.bad
  /\ got' = [got EXCEPT ![h] = @ \o w.sdus]
  /\ link' = [l EXCEPT ![Other(h)] = IF up /\ h \notin stuck THEN @ \o w.put ELSE @]

\* The outcomes of allocating a buffer of this kind.
Allocated(kind) == IF kind \in CanRunOut THEN BOOLEAN ELSE {TRUE}

\* l2cap_chan_del with l2cap_chan_destroy: the queues are emptied, the RTX
\* work is cancelled, disconnected() and released() are called.  The object keeps
\* its ident and pending_req.
Emptied(c) == [Free EXCEPT !.out = c.out, !.ident = c.ident, !.pend = c.pend]
Del(w) == [w EXCEPT !.c = Emptied(@)]

\* get_ident; the wrap of its 8 bits is not reached.
GetIdent(w) == w.id + 1

\* l2cap_chan_send_req: the RTX work is scheduled once the PDU is sent.
SendReq(w, t, n) ==
  LET id == GetIdent(w)
  IN [Put(w, Pdu(t, id, n)) EXCEPT !.id = id, !.c.ident = id, !.c.pend = t, !.c.rtx = TRUE]

\* l2cap_le_conn_req; the request carries our initial credits.
ConnReq(w, ok) == IF ok THEN SendReq(w, "conn_req", w.c.rx) ELSE Del(w)

\* bt_l2cap_chan_disconnect; n = 1 stands for a dcid that names a channel.
Disconnect(w, ok) ==
  IF ok THEN [SendReq(w, "disc_req", IF w.c.cid THEN 1 ELSE 0) EXCEPT !.c.st = "DISCONNECTING"]
        ELSE w

\* l2cap_chan_shutdown.
Shutdown(w) == [w EXCEPT !.c.shut = TRUE, !.c.sdu = NULL, !.c.txq = <<>>, !.c.rxq = <<>>]

\* l2cap_chan_send_credits.
SendCredits(w, n, ok) ==
  CASE w.c.st # "CONNECTED" -> Bad(w, "assert: CONNECTED")
    [] w.c.st = "CONNECTED" /\ ~ok -> Shutdown(w)
    [] w.c.st = "CONNECTED" /\ ok /\ w.c.rx # 0 -> Bad(w, "assert: no credits")
    [] OTHER -> [Put(w, Pdu("credits", 0, n)) EXCEPT !.c.rx = n]

(***************************************************************************)
(* Applications.                                                           *)
(***************************************************************************)
\* What l2cap_chan_add, l2cap_chan_tx_init and l2cap_chan_rx_init leave.
Added(c) == [Emptied(c) EXCEPT !.st = "CONNECTING", !.rx = 1]
Reusable(c) == c.st = "free" /\ ("reuse" \in Rash \/ ~c.out)
Frames(q) == Len(SelectSeq(q, LAMBDA m : m.t = "frame"))
Settled == "early" \in Rash \/ (~Listed(chan["server"]) /\ Frames(link["client"]) = 0)

\* l2cap_le_connect: a client that requires more security than the link has asks for
\* it (pairs: bt_conn_set_security starts) and waits.
LeConnect(w, requires, pairs, ok) ==
  CASE ~requires \/ sec -> ConnReq(w, ok)
    [] requires /\ ~sec /\ pairs -> [w EXCEPT !.c.enc = TRUE]
    [] OTHER -> Del(w)

\* bt_l2cap_chan_connect.  The histories are those of one connection: they start
\* anew here.
Connect ==
  /\ up /\ failed = {} /\ Reusable(chan["client"]) /\ Settled /\ connects < MaxConnects
  /\ connects' = connects + 1
  /\ sent' = [h \in Hosts |-> <<>>]
  /\ \E ok \in Allocated("conn_req"), requires \in Requires, pairs \in BOOLEAN :
       LET w == LeConnect([Work("client") EXCEPT !.c = Added(@)], requires, pairs, ok)
       IN /\ chan' = [chan EXCEPT !["client"] = w.c]
          /\ ident' = [ident EXCEPT !["client"] = w.id]
          /\ link' = [link EXCEPT !["server"] = IF "client" \in stuck THEN @ ELSE @ \o w.put]
          /\ got' = [h \in Hosts |-> <<>>]
  /\ UNCHANGED <<up, sec, dyn, stuck, failed, cut>>

AppDisconnects(h) ==
  /\ failed = {} /\ chan[h].st \in {"CONNECTING", "CONNECTED"}
  /\ chan[h].st = "CONNECTED" \/ "connecting" \in Rash
  /\ chan[h].rxq = <<>> \/ "unread" \in Rash
  /\ chan[h].txq = <<>> \/ "unsent" \in Rash
  /\ \E ok \in Allocated("disc_req") : Commit(h, Disconnect(Work(h), ok), link)
  /\ cut' = (cut \/ chan[h].st = "CONNECTING")
  /\ UNCHANGED <<up, sec, dyn, stuck, connects, sent>>

\* bt_l2cap_chan_send, bt_l2cap_dyn_chan_send: whatever the channel's state.
Send(h) ==
  /\ up /\ failed = {} /\ Listed(chan[h]) /\ chan[h].cid /\ ~chan[h].shut
  /\ chan[h].st = "CONNECTED" \/ "unsent" \in Rash
  /\ Len(sent[h]) < MaxSdus[h]
  /\ \E n \in {s \in Sizes[h] : Fits(s, Other(h))} :
       /\ sent' = [sent EXCEPT ![h] = Append(@, n)]
       /\ chan' = [chan EXCEPT ![h].txq =
                     Append(@, [sdu |-> Len(sent[h]) + 1, len |-> n, left |-> n + HDR])]
  /\ UNCHANGED <<link, up, sec, dyn, ident, stuck, failed, cut, connects, got>>

RecvCompleteSilent(h) ==
  /\ failed = {} /\ chan[h].out
  /\ chan' = [chan EXCEPT ![h].out = FALSE]
  /\ UNCHANGED <<link, up, sec, dyn, ident, stuck, failed, cut, connects, sent, got>>

\* bt_l2cap_chan_recv_complete of the SDU that recv() kept.
RecvComplete(h) ==
  /\ failed = {} /\ chan[h].out
  /\ \E ok \in Allocated("credits") :
       LET w == [Work(h) EXCEPT !.c.out = FALSE]
       IN Commit(h, IF w.c.st = "CONNECTED" THEN SendCredits(w, 1, ok) ELSE w, link)
  /\ UNCHANGED <<up, sec, dyn, stuck, cut, connects, sent>>

(***************************************************************************)
(* The main work queue: K-frames out and in, timeouts, the end of a link.  *)
(***************************************************************************)
\* The ready list of the connection: a K-frame leaves after the signalling
\* PDUs that were queued before it, unless the signalling channel has gone to
\* the back of the list (see ConnTx) since.
Queued(q, f) == {Append(q, f)} \cup
  (IF Overtakes /\ q # <<>> /\ Last(q).t # "frame" THEN {Front(q) \o <<f, Last(q)>>} ELSE {})

\* l2cap_data_pull starts a K-frame: it takes a credit and as much of the
\* SDU as the peer's MPS allows.
SendFrame(h) ==
  LET c == chan[h]  p == Other(h)  s == Head(c.txq)  n == MinOf(MPS, s.left)
      f == [t |-> "frame", part |-> <<s.sdu, s.left>>, len |-> s.len, n |-> n]
  IN /\ up /\ failed = {} /\ h \notin stuck
     /\ Listed(c) /\ c.txq # <<>> /\ c.tx > 0
     /\ chan' = [chan EXCEPT ![h].tx = @ - 1,
                             ![h].txq = IF n = s.left THEN Tail(@)
                                        ELSE <<[s EXCEPT !.left = @ - n]>> \o Tail(@)]
     /\ \E q \in Queued(link[p], f) : link' = [link EXCEPT ![p] = q]
     /\ UNCHANGED <<up, sec, dyn, ident, stuck, failed, cut, connects, sent, got>>

\* What the allocations a frame can need and the recv() callback answer: the
\* application is done with the SDU, keeps it (-EINPROGRESS) or refuses it.
Answers == [recv : {"done", "keep", "refuse"}, credits : Allocated("credits"),
            more : Allocated("more"), disc : Allocated("disc_req"),
            sdu : Allocated("sdu"), frag : Allocated("frag")]

\* The recv() callback and what follows it.
Recv(w, sdu, a) ==
  LET v == [w EXCEPT !.sdus = <<sdu>>]
  IN CASE a.recv = "done" /\ v.c.st = "CONNECTED" -> SendCredits(v, 1, a.credits)
       [] a.recv = "keep" -> [v EXCEPT !.c.out = TRUE]
       [] a.recv = "refuse" -> Disconnect(v, a.disc)
       [] OTHER -> v

\* l2cap_chan_le_recv_sdu.
RecvSdu(w, a) ==
  CASE w.c.st # "CONNECTED" -> Bad(w, "assert: CONNECTED")
    [] w.c.st = "CONNECTED" /\ w.c.rx # 0 -> Bad(w, "assert: no credits")
    [] OTHER -> Recv([w EXCEPT !.c.sdu = NULL], [len |-> w.c.sdu.len, parts |-> w.c.sdu.parts], a)

\* l2cap_chan_le_recv_seg with n bytes of frame f: chan->_sdu->len is what the
\* first buffer of the SDU holds, bt_buf_append_bytes chains others to it.
RecvSeg(w, f, n, a) ==
  LET s == w.c.sdu
      head == MinOf(s.head + n, Room)
      v == [w EXCEPT !.c.sdu = [s EXCEPT !.head = head, !.parts = Append(@, f.part)]]
  IN IF s = NULL THEN Bad(w, "null: _sdu")
     ELSE CASE s.head + n > s.len -> Bad(Disconnect(w, a.disc), "SDU length mismatch")
            [] s.head + n <= s.len /\ s.head + n > Room /\ ~a.frag -> Disconnect(v, a.disc)
            [] OTHER -> IF head = s.len THEN RecvSdu(v, a)
                        ELSE IF v.c.rx = 0 THEN SendCredits(v, 1, a.more) ELSE v

\* l2cap_chan_le_recv for the first frame of an SDU, whose buffer was
\* allocated: the peer gets the credits for the rest.
RecvFirst(w, f, a) ==
  LET n == f.n - HDR
      v == [w EXCEPT !.c.sdu = [len |-> f.len, head |-> 0, parts |-> <<>>]]
      more == DivUp(MinOf(f.len - n, Room), MPS)
      u == IF more > 0 THEN SendCredits(v, more, a.more) ELSE v
  IN IF u.bad = {} THEN RecvSeg(u, f, n, a) ELSE u

\* l2cap_chan_le_recv; the credit is taken first (test_and_dec).
LeRecv(w, h, f, a) ==
  LET v == [w EXCEPT !.c.rx = @ - 1]
  IN CASE w.c.rx = 0 -> Bad(Disconnect(w, a.disc), "No credits to receive packet")
       [] w.c.rx > 0 /\ v.c.sdu # NULL -> RecvSeg(v, f, f.n, a)
       [] w.c.rx > 0 /\ v.c.sdu = NULL /\ h \notin Allocs ->
            Recv(v, [len |-> f.len, parts |-> <<f.part>>], a)
       [] OTHER -> IF a.sdu THEN RecvFirst(v, f, a) ELSE Disconnect(v, a.disc)

\* l2cap_rx_process takes one frame.
RxProcess(h) ==
  /\ failed = {} /\ h \notin stuck /\ chan[h].rxq # <<>>
  /\ \E a \in Answers :
       Commit(h, LeRecv([Work(h) EXCEPT !.c.rxq = Tail(@)], h, Head(chan[h].rxq), a), link)
  /\ UNCHANGED <<up, sec, dyn, stuck, cut, connects, sent>>

\* l2cap_chan_destroy waits for the RTX work to end when it runs in the thread
\* of that work's queue, which is the main work queue.
DestroyWaits(onMain) == onMain

\* l2cap_rtx_timeout: the channel is removed and disconnected() is called;
\* a wait of l2cap_chan_destroy would be for the item that makes it.
RtxTimeout(h) ==
  /\ failed = {} /\ h \notin stuck /\ chan[h].rtx
  /\ stuck' = IF DestroyWaits(TRUE) THEN stuck \cup {h} ELSE stuck
  /\ chan' = [chan EXCEPT ![h] = IF DestroyWaits(TRUE) THEN [Del(Work(h)).c EXCEPT !.st = "kept"]
                                 ELSE Del(Work(h)).c]
  /\ UNCHANGED <<link, up, sec, dyn, ident, failed, cut, connects, sent, got>>

\* The link is lost, and later each host's bt_l2cap_disconnected.
LinkLoss == /\ MayDrop /\ up /\ failed = {}
            /\ up' = FALSE
            /\ link' = [h \in Hosts |-> <<>>]
            /\ UNCHANGED <<chan, sec, dyn, ident, stuck, failed, cut, connects, sent, got>>

Disconnected(h) ==
  /\ ~up /\ failed = {} /\ h \notin stuck /\ Listed(chan[h])
  /\ Commit(h, Del(Work(h)), link)
  /\ UNCHANGED <<up, sec, dyn, stuck, cut, connects, sent>>

\* l2cap_le_encrypt_change of a channel that waits for encryption.
EncryptChange(w, good, ok) ==
  LET v == [w EXCEPT !.c.enc = FALSE] IN IF good THEN ConnReq(v, ok) ELSE Del(v)

\* The pairing the client asked for ends: bt_l2cap_security_changed.
SecurityChanged ==
  /\ up /\ failed = {} /\ chan["client"].enc
  /\ \E good \in BOOLEAN, ok \in Allocated("conn_req") :
       /\ sec' = (sec \/ good)
       /\ Commit("client", EncryptChange(Work("client"), good, ok), link)
  /\ UNCHANGED <<up, dyn, stuck, cut, connects, sent>>

(***************************************************************************)
(* The Bluetooth work queue: l2cap_recv.                                   *)
(***************************************************************************)
GiveOne(w, n) == [w EXCEPT !.c.tx = @ + 1]

\* l2cap_chan_tx_give_credits.
GiveCredits(w, n) == [w EXCEPT !.c.tx = @ + n]

\* l2cap_check_security.
Secure == sec

\* l2cap_chan_accept: a channel with this tx.cid is SCID_IN_USE, and the
\* application has one channel object to give.
MayAccept(w) == Reusable(w.c)
Accept(w, m) == [GiveCredits([w EXCEPT !.c = Added(@)], m.n) EXCEPT
                   !.c.st = "CONNECTED", !.c.cid = TRUE]

\* le_conn_req.
LeConnReq(w, m) ==
  CASE ~Secure -> Put(w, Pdu("conn_rsp auth", m.id, 0))
    [] Secure /\ ~MayAccept(w) -> Put(w, Pdu("conn_rsp refused", m.id, 0))
    [] OTHER -> LET v == Accept(w, m) IN Put(v, Pdu("conn_rsp", m.id, v.c.rx))

\* __l2cap_lookup_ident.
Finds(w, m, t) == Listed(w.c) /\ w.c.ident = m.id /\ w.c.pend = t

\* l2cap_change_security; `pairs' is what bt_conn_set_security answers.
ChangesSecurity(w, pairs) == pairs /\ ~w.c.enc /\ ~sec


\* le_conn_rsp; with a security error the channel is kept if pairing starts.
LeConnRsp(w, m, pairs) ==
  LET v == [w EXCEPT !.c.rtx = FALSE, !.c.ident = 0, !.c.pend = "none"]
  IN CASE ~Finds(w, m, "conn_req") -> w
       [] Finds(w, m, "conn_req") /\ m.t = "conn_rsp" ->
            GiveCredits([v EXCEPT !.c.st = "CONNECTED", !.c.cid = TRUE], m.n)
       [] Finds(w, m, "conn_req") /\ m.t = "conn_rsp auth" /\ ChangesSecurity(v, pairs) ->
            [v EXCEPT !.c.enc = TRUE]
       [] OTHER -> Del(v)

LeDisconnReqAnswers(w, m, ok) ==
  IF Listed(w.c) /\ m.n = 1 THEN Put(w, Pdu("disc_rsp", m.id, 0))
                            ELSE Put(w, Pdu("reject", m.id, 0))

\* le_disconn_req: the channel leaves the list before the response is
\* allocated.
LeDisconnReq(w, m, ok) ==
  CASE ~Listed(w.c) \/ m.n = 0 -> IF ok THEN Put(w, Pdu("reject", m.id, 0)) ELSE w
    [] Listed(w.c) /\ m.n = 1 /\ ~ok -> [w EXCEPT !.c.st = "kept"]
    [] OTHER -> Del(Put(w, Pdu("disc_rsp", m.id, 0)))

LeDisconnRsp(w, m) == IF Finds(w, m, "disc_req") THEN Del(w) ELSE w

\* le_credits.
LeCredits(w, m, ok) ==
  CASE ~(Listed(w.c) /\ w.c.cid) -> w
    [] Listed(w.c) /\ w.c.cid /\ w.c.tx + m.n > MaxCredits ->
         Bad(Disconnect(w, ok), "Credits overflow")
    [] OTHER -> GiveCredits(w, m.n)
RejectCmd(w, m) == IF Listed(w.c) /\ w.c.ident = m.id THEN Del(w) ELSE w

RecvQueueAlways(w, f) == IF Listed(w.c) THEN [w EXCEPT !.c.rxq = Append(@, f)] ELSE w
RecvQueueFirst(w, f) ==
  IF Listed(w.c) /\ w.c.st # "DISCONNECTING" THEN [w EXCEPT !.c.rxq = <<f>> \o @] ELSE w

\* l2cap_chan_recv_queue, for a CID that bt_l2cap_le_lookup_rx_cid finds: a channel
\* whose PSM is not dynamic takes the frame at once.
Takes(c) == Listed(c) /\ c.st # "DISCONNECTING" /\ ~c.shut
RecvQueue(w, f) == IF Takes(w.c) THEN [w EXCEPT !.c.rxq = Append(@, f)] ELSE w
RecvFrame(h, w, f, l) ==
  \/ (dyn \/ ~Takes(w.c)) /\ Commit(h, RecvQueue(w, f), l)
  \/ ~dyn /\ Takes(w.c) /\ \E a \in Answers : Commit(h, LeRecv(w, h, f, a), l)

\* l2cap_recv: the handler of a signalling PDU, which leaves the link as l.
Signal(h, w, m, l) ==
  \/ m.t = "conn_req" /\ \E ok \in Allocated("conn_rsp") :
                            Commit(h, IF ok THEN LeConnReq(w, m) ELSE w, l)
  \/ m.t \in {"conn_rsp", "conn_rsp auth", "conn_rsp refused"}
       /\ \E pairs \in BOOLEAN : Commit(h, LeConnRsp(w, m, pairs), l)
  \/ m.t = "disc_req" /\ \E ok \in Allocated("disc_rsp") :
                            Commit(h, LeDisconnReq(w, m, ok), l)
  \/ m.t = "disc_rsp" /\ Commit(h, LeDisconnRsp(w, m), l)
  \/ m.t = "credits" /\ \E ok \in Allocated("disc_req") : Commit(h, LeCredits(w, m, ok), l)
  \/ m.t = "reject" /\ Commit(h, RejectCmd(w, m), l)

\* bt_l2cap_recv: the next PDU.
Receive(h) ==
  LET m == Head(link[h])
      rest == [link EXCEPT ![h] = Tail(@)]
  IN /\ failed = {} /\ link[h] # <<>>
     /\ \/ m.t = "frame" /\ RecvFrame(h, Work(h), m, rest)
        \/ Signal(h, Work(h), m, rest)
     /\ UNCHANGED <<up, sec, dyn, stuck, cut, connects, sent>>

Next == \/ Connect \/ SecurityChanged \/ LinkLoss
        \/ \E h \in Hosts : \/ AppDisconnects(h) \/ Send(h) \/ RecvComplete(h)
                            \/ SendFrame(h) \/ RxProcess(h) \/ RtxTimeout(h)
                            \/ Disconnected(h) \/ Receive(h)

Spec == Init /\ [][Next]_vars

\* The work queues take what waits for them, pairing ends and an application gives
\* back an SDU it kept.
Fairness == /\ WF_vars(SecurityChanged) /\ WF_vars(\E h \in Hosts : Disconnected(h))
            /\ \A h \in Hosts : /\ WF_vars(SendFrame(h)) /\ WF_vars(RxProcess(h))
                                /\ WF_vars(Receive(h)) /\ WF_vars(RecvComplete(h))
FairSpec == Spec /\ Fairness

(***************************************************************************)
(* Properties.                                                             *)
(***************************************************************************)
Joined == up /\ \A h \in Hosts : chan[h].st = "CONNECTED" /\ ~chan[h].shut /\ h \notin stuck
CreditsIn(q) == FoldSeq(LAMBDA m, n : IF m.t = "credits" THEN m.n + n ELSE n, 0, q)

TypeOK ==
  /\ \A h \in Hosts : LET c == chan[h] IN
       /\ c.st \in States /\ {c.ident, c.tx, c.rx} \subseteq Nat
       /\ {c.cid, c.rtx, c.enc, c.shut, c.out} \subseteq BOOLEAN
       /\ c.sdu # NULL => c.sdu.head \in 0..c.sdu.len
  /\ up \in BOOLEAN /\ {sec, dyn} \subseteq BOOLEAN /\ cut \in BOOLEAN
  /\ ident \in [Hosts -> Nat] /\ stuck \subseteq Hosts /\ connects \in 0..MaxConnects
  /\ sent \in [Hosts -> Seq(Nat)]

(* Credits are conserved over the link (l2cap_chan_send_credits,           *)
(* l2cap_chan_tx_give_credits, chan_take_credit, test_and_dec): what a     *)
(* host counts as given is what its peer has left, what is on its way as a *)
(* credit and what is on its way or waits as a frame.                      *)
CreditsExact ==
  Joined => \A h \in Hosts :
    chan[Other(h)].rx = chan[h].tx + CreditsIn(link[h])
                        + Frames(link[Other(h)]) + Len(chan[Other(h)].rxq)

\* The K-frames of SDU number i: each has the bytes left when it was cut.
Parts(i, len) == [k \in 1 .. DivUp(len + HDR, MPS) |-> <<i, len + HDR - (k - 1) * MPS>>]

(* Segmentation and reassembly are inverse: the SDUs recv() sees are those *)
(* the peer's application sent, whole, in order and once.                  *)
SdusExact ==
  \A h \in Hosts : \A i \in 1 .. Len(got[h]) :
    /\ i <= Len(sent[Other(h)])
    /\ got[h][i] = [len |-> sent[Other(h)][i], parts |-> Parts(i, sent[Other(h)][i])]

(* Two hosts that run this code never break a rule of the channel for each *)
(* other: the assertions of l2cap_chan_send_credits and                    *)
(* l2cap_chan_le_recv_sdu hold, no frame comes without a credit and no     *)
(* frame exceeds its SDU.                                                  *)
NothingBreaks == failed = {}

(* What bt_l2cap_chan_send accepted reaches the peer's recv() while the    *)
(* channel lasts: credits that come back are used, none are withheld.      *)
Undelivered(h) == Joined /\ Len(got[Other(h)]) < Len(sent[h])
SduDelivered == \A h \in Hosts : Undelivered(h) ~> ~Undelivered(h)


HalfOpen(h) == chan[h].st = "CONNECTED" /\ chan[Other(h)].st # "CONNECTED" /\ stuck = {}

(* No channel is left half open: an end that is CONNECTED finds the other  *)
(* end connected too, or is taken down (le_conn_req, le_conn_rsp,          *)
(* le_disconn_req), as long as no pending connection was cancelled.        *)
NoHalfOpen == \A h \in Hosts : HalfOpen(h) ~> (cut \/ ~HalfOpen(h))

(* l2cap.h:980: "Disconnect L2CAP channel, if the connection is pending it *)
(* will be canceled": the peer does not keep a channel for it.             *)
PendingCancelled == \A h \in Hosts : HalfOpen(h) ~> ~HalfOpen(h)

(* Every channel that leaves conn->channels is given back to the           *)
(* application (le_disconn_req, when no buffer for the response is free).  *)
Released == \A h \in Hosts : chan[h].st = "kept" => h \in stuck

(* l2cap.c:1344-1345: "In the case where we are in the context of          *)
(* executing the rtx_work item, we don't sync as it will deadlock the      *)
(* workqueue."                                                             *)
NeverWaitsForItself == stuck = {}
=============================================================================
