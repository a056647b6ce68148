-------------------------------- MODULE AttReq --------------------------------
(***************************************************************************)
(* ATT requests over the fixed channel of one connection: the queue        *)
(* att->reqs and the transaction chan->req of src/bluetooth/host/att.c,    *)
(* with their users bt_gatt_* and bt_gatt_cancel of gatt.c.  A request is  *)
(* a GATT client procedure or an indication; its answer a response, an     *)
(* error or a confirmation.                                                *)
(*                                                                         *)
(* Threads.  Applications send and cancel requests.  The Bluetooth work    *)
(* queue ("rx") handles answers and security changes.  The main work queue *)
(* ("tx") runs the TX processor, which destroys each buffer it has sent    *)
(* (att_tx_destroy, att_on_sent_cb), att_timeout, and the loss of the link *)
(* (deferred_work).  Applications work under os_sched_lock, the queues do  *)
(* not.  A handler is one step unless Preempts holds.                      *)
(*                                                                         *)
(* The server is external: it answers the requests in the order in which   *)
(* they come, or not at all.  One bearer: EATT is off in the build.        *)
(***************************************************************************)
EXTENDS Naturals, Sequences, FiniteSets, SequencesExt

CONSTANTS Reqs,      \* the calls of gatt_req_send
          Slots,     \* CONFIG_BT_ATT_TX_COUNT: blocks of req_slab
          MaxLinks,  \* bound: connections
          Rash,      \* what happens to a bearer: "late", a cancel when no request is
                     \*   outstanding; "retrying", a cancel of a request that waits
                     \*   for security; "rekey", a security change nobody asked for
          Locks,     \* does os_sched_lock nest?  On FreeRTOS it does, on POSIX it is a mutex
          Preempts,  \* an application may run while a work queue sends a request
          CANCEL,    \* the address of `cancel'
          NULL

ASSUME AttAssumption == /\ IsFiniteSet(Reqs) /\ Slots \in Nat \ {0} /\ MaxLinks \in Nat \ {0}
                        /\ Locks \subseteq BOOLEAN /\ Preempts \in BOOLEAN
                        /\ NULL \notin Reqs /\ CANCEL \notin Reqs /\ NULL # CANCEL
                        /\ {"reset", "cancelled", "insecure"} \cap Reqs = {}

VARIABLES att,      \* struct bt_att and struct bt_att_chan, see Bearer
          conn,     \* the link: "connected", "disconnecting", "disconnected"
          sec,      \* security of the link: "low", "raising" or "high"
          tx,       \* requests given to L2CAP and not yet to the controller
          sent,     \* buffers sent and not destroyed yet
          server,   \* requests on their way to the server
          answers,  \* answers on their way back
          free,     \* free blocks of req_slab
          told,     \* history: what each request's callback was called with
          asked,    \* requests that were queued
          picked,   \* the request a work queue took from att->reqs and has yet to send
          failed,   \* what went wrong: "null" pointer used, thread "hung" on its own lock
          nests,    \* does os_sched_lock nest?  Never changes
          long,     \* queued requests whose PDU has become longer than the MTU
          links     \* bound: connections so far
linkVars == <<nests, long, links>>
vars == <<att, conn, sec, tx, sent, server, answers, free, told, asked, picked, failed, linkVars>>

Queues == {"rx", "tx"}

\* chan->att # NULL and ATT_CONNECTED, chan in att->chans, att->reqs, chan->req,
\* the requests with `retrying' set, and the armed timeout_work.
Bearer == [up : BOOLEAN, listed : BOOLEAN, reqs : Seq(Reqs), req : Reqs \cup {NULL, CANCEL},
           retrying : SUBSET Reqs, timer : BOOLEAN]
New == [up |-> TRUE, listed |-> TRUE, reqs |-> <<>>, req |-> NULL, retrying |-> {}, timer |-> FALSE]

Init == /\ att = New /\ conn = "connected" /\ sec = "low" /\ links = 1
        /\ tx = <<>> /\ sent = 0 /\ server = <<>> /\ answers = <<>>
        /\ free = Slots /\ told = [r \in Reqs |-> <<>>] /\ asked = {}
        /\ picked = [q \in Queues |-> NULL] /\ failed = "no"
        /\ nests \in Locks /\ long = {}

-----------------------------------------------------------------------------
(***************************************************************************)
(* A handler turns a world into the next one: the bearer, the L2CAP queue, *)
(* the free blocks, the callbacks and what a work queue picked.            *)
(***************************************************************************)
World == [att |-> att, tx |-> tx, free |-> free, told |-> told, picked |-> picked]
Becomes(w) == /\ att' = w.att /\ tx' = w.tx /\ free' = w.free /\ told' = w.told
              /\ picked' = w.picked
Alive == failed = "no"
Runs(q) == Alive /\ picked[q] = NULL
WireUnchanged == UNCHANGED <<sent, server, answers>>

\* bt_att_chan_req_send: the buffer is L2CAP's.
ChanReqSend(w, r) == [w EXCEPT !.att.req = r, !.tx = Append(@, r)]

\* att_req_send_process on thread t: an idle channel takes the next request.  One
\* that is longer than the MTU, or meets a link that is being disconnected, is put
\* back in its place.
Sends(r) == r \notin long /\ conn = "connected"
NextRequest(w) == w.att.listed /\ w.att.req = NULL /\ w.att.reqs # <<>> /\ Sends(Head(w.att.reqs))
Picked(w, t) == [w EXCEPT !.att.reqs = Tail(@), !.picked[t] = Head(w.att.reqs)]
ReqSendProcess(w, t) ==
    IF ~NextRequest(w) THEN w
    ELSE IF Preempts /\ t \in Queues THEN Picked(w, t)
    ELSE ChanReqSend([w EXCEPT !.att.reqs = Tail(@)], Head(w.att.reqs))

\* The callback of request r is called with what; its block is freed.
Finish(w, r, what) == [w EXCEPT !.free = @ + 1, !.told[r] = Append(@, what),
                                !.att.retrying = @ \ {r}]

\* att_handle_rsp while a request is outstanding or was cancelled.
CompleteTimed(w, t, what) ==
    LET idle == [w EXCEPT !.att.req = NULL]
    IN  ReqSendProcess(IF w.att.req = CANCEL THEN idle ELSE Finish(idle, w.att.req, what), t)
Complete(w, t, what) ==
    LET idle == [w EXCEPT !.att.req = NULL, !.att.timer = FALSE]
    IN  ReqSendProcess(IF w.att.req = CANCEL THEN idle ELSE Finish(idle, w.att.req, what), t)

\* att_chan_detach: the channel leaves the list, the outstanding request fails.  Its
\* callback finds no channel for a further request (bt_att_create_pdu).
Detach(w, t) ==
    LET out  == [w EXCEPT !.att.listed = FALSE]
        done == IF w.att.req = NULL THEN out ELSE Complete(out, t, "reset")
    IN  [done EXCEPT !.att.up = FALSE]

\* att_reset: every queued request fails.  From now on att_get finds no bearer.
ResetForgets(w) == [w EXCEPT !.att.reqs = <<>>]
Reset(w) == [w EXCEPT !.att.reqs = <<>>, !.free = @ + Len(w.att.reqs),
                      !.told = [r \in Reqs |-> IF r \in ToSet(w.att.reqs)
                                               THEN Append(@[r], "reset") ELSE @[r]]]

\* bt_att_disconnected.
Disconnected(w, t) == IF w.att.up THEN Reset(Detach(w, t)) ELSE w

\* att_disconnect, after a timeout or an answer to nothing.
AttDisconnect(t) == Becomes(Disconnected(World, t)) /\ conn' = "disconnecting"

-----------------------------------------------------------------------------
(***************************************************************************)
(* Applications.                                                           *)
(***************************************************************************)

\* gatt_req_send and bt_att_req_send.  The lock taken there is taken again by
\* bt_att_chan_req_send: with a lock that does not nest the thread hangs in it, with
\* the request outstanding and its buffer in its hands.
ReqSend(r) ==
    LET w == [World EXCEPT !.att.reqs = Append(@, r), !.free = @ - 1]
        n == ReqSendProcess(w, "app")
        hangs == ~nests /\ NextRequest(w)
    IN  /\ Alive /\ r \notin asked /\ free > 0 /\ att.up /\ conn = "connected"
        /\ asked' = asked \cup {r}
        /\ failed' = IF hangs THEN "hung" ELSE failed
        /\ Becomes(IF hangs THEN [n EXCEPT !.tx = tx] ELSE n)
        /\ WireUnchanged /\ UNCHANGED <<conn, sec, linkVars>>

\* bt_att_req_cancel of a request that was found: bt_slist_find_and_remove
\* takes it off the queue, where it is once.
Without(reqs, r) == RemoveAt(reqs, CHOOSE i \in DOMAIN reqs : reqs[i] = r)
ReqCancelIdle(w, r) ==
    LET done == Finish(w, r, "cancelled")
    IN  IF w.att.req = r THEN [done EXCEPT !.att.req = NULL]
        ELSE [done EXCEPT !.att.reqs = Without(@, r)]
ReqCancel(w, r) ==
    LET done == Finish(w, r, "cancelled")
    IN  IF w.att.req = r THEN [done EXCEPT !.att.req = CANCEL]
        ELSE [done EXCEPT !.att.reqs = Without(@, r)]

\* bt_gatt_cancel.  bt_att_find_req_by_user_data reads chan->req->user_data first.
GattCancel(r) ==
    /\ Alive /\ r \in asked /\ att.up /\ conn = "connected"
    /\ att.req # NULL \/ "late" \in Rash
    /\ (r = att.req /\ r \in att.retrying) => "retrying" \in Rash
    /\ IF att.req = NULL
       THEN failed' = "null" /\ UNCHANGED <<att, tx, free, told, picked>>
       ELSE /\ r = att.req \/ r \in ToSet(att.reqs)
            /\ failed' = failed /\ Becomes(ReqCancel(World, r))
    /\ WireUnchanged /\ UNCHANGED <<conn, sec, asked, linkVars>>

\* bt_conn_disconnect.
Disconnect == /\ Alive /\ conn = "connected" /\ conn' = "disconnecting"
              /\ WireUnchanged
              /\ UNCHANGED <<att, tx, free, told, picked, sec, asked, failed, linkVars>>

-----------------------------------------------------------------------------
(***************************************************************************)
(* The main work queue.                                                    *)
(***************************************************************************)

\* tx_processor sends the next PDU; the buffer is destroyed after that.
Transmit == /\ Runs("tx") /\ tx # <<>> /\ sent = 0 /\ conn = "connected"
            /\ tx' = Tail(tx) /\ server' = Append(server, Head(tx)) /\ sent' = 1
            /\ UNCHANGED <<att, conn, sec, answers, free, told, asked, picked, failed, linkVars>>

\* att_on_sent_cb of a request: bt_att_sent, then chan_rebegin_att_timeout.
SentUntimed(w) == IF ~w.att.up THEN w ELSE ReqSendProcess(w, "tx")
Sent(w) == IF ~w.att.up THEN w
           ELSE LET n == ReqSendProcess(w, "tx")
                IN  [n EXCEPT !.att.timer = @ \/ n.att.req # NULL]
OnSentCb == /\ Runs("tx") /\ sent > 0 /\ sent' = sent - 1
            /\ Becomes(Sent(World))
            /\ UNCHANGED <<conn, sec, server, answers, asked, failed, linkVars>>

\* att_timeout: uses chan->att.
AttTimeout == /\ Runs("tx") /\ sent = 0 /\ att.timer
              /\ IF att.up
                 THEN AttDisconnect("tx") /\ failed' = failed
                 ELSE failed' = "null" /\ UNCHANGED <<att, tx, free, told, picked, conn>>
              /\ WireUnchanged /\ UNCHANGED <<sec, asked, linkVars>>

\* The work queue goes on with the request it picked; a bearer that has gone
\* meanwhile refuses it, and the request is put in a list nobody reads.
Resume(q) == /\ Alive /\ picked[q] # NULL
             /\ LET w == [World EXCEPT !.picked[q] = NULL]
                IN  Becomes(IF ~att.up THEN w
                            ELSE IF Sends(picked[q]) THEN ChanReqSend(w, picked[q])
                            ELSE [w EXCEPT !.att.reqs = <<picked[q]>> \o @])
             /\ WireUnchanged /\ UNCHANGED <<conn, sec, asked, failed, linkVars>>

-----------------------------------------------------------------------------
(***************************************************************************)
(* The server and the Bluetooth work queue.                                *)
(***************************************************************************)

\* The server answers its oldest request, or asks for more security.
Answer == /\ server # <<>> /\ conn # "disconnected"
          /\ \E auth \in BOOLEAN : answers' = Append(answers, [to |-> Head(server), auth |-> auth])
          /\ server' = Tail(server)
          /\ UNCHANGED <<att, conn, sec, tx, sent, free, told, asked, picked, failed, linkVars>>

\* att_error_rsp: an error that security may cure is not given to the request yet.
\* The choice is bt_conn_set_security's result.
Cured(a) == a.auth /\ att.req \in Reqs /\ sec # "high"
Retry == [World EXCEPT !.att.timer = FALSE, !.att.retrying = @ \cup {att.req}]

\* What bt_att_recv gets: the next answer, or one to nothing from a server that
\* errs while no request is outstanding.
Stray == [to |-> NULL, auth |-> FALSE]
Arriving == IF answers # <<>> THEN {Head(answers)} ELSE IF att.req = NULL THEN {Stray} ELSE {}

\* bt_att_recv: dispatch to att_error_rsp or to a handler that ends in att_handle_rsp.
Recv == \E a \in Arriving :
    /\ Runs("rx") /\ answers' = IF a = Stray THEN answers ELSE Tail(answers)
    /\ \/ /\ ~att.up \/ conn # "connected"
          /\ UNCHANGED <<att, tx, free, told, picked, conn, sec>>
       \/ /\ att.up /\ conn = "connected" /\ Cured(a)
          /\ Becomes(Retry) /\ sec' = "raising" /\ UNCHANGED conn
       \/ /\ att.up /\ conn = "connected" /\ att.req # NULL
          /\ Becomes(Complete(World, "rx", a.to)) /\ UNCHANGED <<conn, sec>>
       \/ /\ att.up /\ conn = "connected" /\ att.req = NULL
          /\ AttDisconnect("rx") /\ UNCHANGED sec
    /\ UNCHANGED <<sent, server, asked, failed, linkVars>>

\* att_mtu_req: the client of the peer lowers the MTU; queued PDUs do not shrink.
MtuReq == /\ Runs("rx") /\ att.up /\ conn = "connected"
          /\ \E rs \in SUBSET ToSet(att.reqs) : rs # {} /\ long' = long \cup rs
          /\ WireUnchanged
          /\ UNCHANGED <<att, conn, sec, tx, free, told, asked, picked, failed, nests, links>>

\* bt_att_encrypt_change.  resent: att_req_retry could build and send the PDU again.
\* update_sec_level has set the level to 2 or more before a success is reported, so
\* that its return at level 1 is never taken.
EncryptChange(secure, resent) ==
    IF ~(att.up /\ att.req \in att.retrying) THEN World
    ELSE IF secure /\ resent THEN [World EXCEPT !.tx = Append(@, att.req)]
    ELSE Complete(World, "rx", "insecure")

\* hci_encrypt_change, hci_encrypt_key_refresh_complete, smp_pairing_complete: a
\* level below the required one is an error and disconnects.
SecurityChanged ==
    /\ Runs("rx") /\ conn # "disconnected"
    /\ sec = "raising" \/ (sec = "high" /\ "rekey" \in Rash)
    /\ \E secure, resent \in BOOLEAN :
          /\ resent => conn = "connected"
          /\ sec' = IF secure THEN "high" ELSE "low"
          /\ conn' \in IF secure THEN {conn} ELSE {conn, "disconnecting"}
          /\ Becomes(EncryptChange(secure, resent))
    /\ WireUnchanged /\ UNCHANGED <<asked, failed, linkVars>>

\* The link is gone: bt_l2cap_disconnected, which calls bt_att_disconnected, and
\* the buffers that wait are destroyed.
LinkDown == /\ Runs("tx") /\ conn # "disconnected"
            /\ Becomes([Disconnected(World, "tx") EXCEPT !.tx = <<>>])
            /\ conn' = "disconnected" /\ sec' = "low"
            /\ sent' = 0 /\ server' = <<>> /\ answers' = <<>>
            /\ UNCHANGED <<asked, failed, linkVars>>

\* bt_att_accept and bt_att_connected for a new link.
Connected == /\ Runs("rx") /\ conn = "disconnected" /\ links < MaxLinks
             /\ att' = New /\ conn' = "connected" /\ long' = {} /\ links' = links + 1
             /\ UNCHANGED <<sec, tx, sent, server, answers, free, told, asked, picked, failed,
                            nests>>

-----------------------------------------------------------------------------
Application == (\E r \in Reqs : ReqSend(r) \/ GattCancel(r)) \/ Disconnect
Host == Transmit \/ OnSentCb \/ AttTimeout \/ Recv \/ MtuReq
Next == Application \/ Host \/ Answer \/ SecurityChanged \/ LinkDown \/ Connected

Spec == Init /\ [][Next]_vars
PreemptedSpec == Init /\ [][Next \/ \E q \in Queues : Resume(q)]_vars

\* The work queues run, armed timers expire, a security procedure ends (SMP has a
\* timeout of its own) and a link that is being disconnected goes down.  Nobody
\* promises that a server answers or that applications call.
FairSpec == /\ Spec
            /\ WF_vars(Transmit) /\ WF_vars(OnSentCb) /\ WF_vars(AttTimeout)
            /\ WF_vars(Recv /\ answers # <<>>)
            /\ WF_vars(SecurityChanged /\ sec = "raising")
            /\ WF_vars(LinkDown /\ conn = "disconnecting")

-----------------------------------------------------------------------------
TypeOK == /\ att \in Bearer /\ conn \in {"connected", "disconnecting", "disconnected"}
          /\ sec \in {"low", "raising", "high"} /\ tx \in Seq(Reqs) /\ sent \in 0..1
          /\ server \in Seq(Reqs) /\ answers \in Seq([to : Reqs, auth : BOOLEAN])
          /\ free \in 0..Slots /\ told \in [Reqs -> Seq(Reqs \cup {"reset", "cancelled", "insecure"})]
          /\ asked \subseteq Reqs /\ picked \in [Queues -> Reqs \cup {NULL}]
          /\ failed \in {"no", "null", "hung"} /\ links \in 0..MaxLinks
          /\ nests \in Locks /\ long \subseteq Reqs

\* ATT is sequential: while the bearer is up, at most one request is between
\* bt_att_chan_req_send and the arrival of its answer, cancelled ones included.
OneOutstanding == att.up => Len(tx) + Len(server) + Len(answers) <= 1

\* A callback is called once, and an answer it gets is the answer to its own
\* request: chan->req is what the oldest unanswered PDU asked for.
OwnAnswer == \A r \in Reqs : Len(told[r]) <= 1 /\ \A k \in 1..Len(told[r]) : told[r][k] \in Reqs => told[r][k] = r

\* Requests and answers stay paired, through cancels, retries and timeouts.
AnswersMatch == OneOutstanding /\ OwnAnswer

\* Every block of req_slab is free, queued, picked or outstanding: none leaks and
\* none is freed twice, through cancels, timeouts and lost links.
SlotsExact ==
    free + Len(att.reqs) + Cardinality({q \in Queues : picked[q] # NULL})
         + (IF att.req \in Reqs THEN 1 ELSE 0) = Slots

\* No null pointer is used: att_timeout never runs on a detached channel, and
\* bt_gatt_cancel finds a transaction.
NothingBreaks == failed # "null"

\* Every request that was accepted is answered, fails or is cancelled, if the lock
\* nests and the peer does not make a queued request too long to be sent.
RequestEnds == \A r \in Reqs : (r \in asked /\ nests) ~> (told[r] # <<>> \/ long # {})

\* The same of every port and peer.
EveryRequestEnds == \A r \in Reqs : r \in asked ~> told[r] # <<>>
===============================================================================
