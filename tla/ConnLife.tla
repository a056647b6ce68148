------------------------------ MODULE ConnLife ------------------------------
(***************************************************************************)
(* The life of an LE connection object in the central role: conn.c, the    *)
(* connection events of hci_core.c and the scanner's part in connecting    *)
(* (scan.c).                                                               *)
(*                                                                         *)
(* Threads.  Application threads create and end connections.  The receive  *)
(* thread of the driver runs the priority half of Disconnection Complete.  *)
(* The Bluetooth work queue (bq) handles the other events in order.  The   *)
(* main work queue (mq) runs deferred_work.  A thread that sends an HCI    *)
(* command blocks for the answer, and the others run meanwhile.            *)
(*                                                                         *)
(* `mode' is the way connections are made: "direct" (LE Create Connection  *)
(* at once), "resolve" (scan first: more bonds than the controller's       *)
(* resolving list holds) or "auto" (filter accept list).  `preempt' says   *)
(* whether a thread may lose the processor between reading a state or the  *)
(* notes of ended links and acting on it.  (For a new link two commands do *)
(* the same: bt_id_pending_keys_update with keys pending, hci_le_read_phy  *)
(* with CONFIG_BT_USER_PHY_UPDATE.)  A slot is the index of a connection   *)
(* object in acl_conns.                                                    *)
(***************************************************************************)
EXTENDS Integers, Sequences, FiniteSets, SequencesExt

CONSTANTS Slots,        \* indices of acl_conns
          Peers,        \* addresses
          Handles,      \* connection handles the controller assigns
          Apps,         \* application threads
          Modes,        \* the modes that are explored
          Preempts,     \* the values of preempt that are explored
          CanFail,      \* the modes in which the controller may refuse LE Create Connection
          Slow,         \* whether a command may take longer than the timeout of an attempt
          Eager,        \* whether the controller reuses a handle the host still has events of
          MaxTries,     \* bound: connection attempts in each mode
          MaxLost,      \* bound: references that bt_conn_create_auto_stop loses of one object
          ADDR_NONE,    \* BT_ADDR_LE_NONE, the peer of an automatic connection
          NULL

ASSUME LifeAssumption == /\ Slots \subseteq Nat
                         /\ Modes \subseteq {"direct", "resolve", "auto"}
                         /\ Preempts \subseteq BOOLEAN /\ CanFail \subseteq Modes
                         /\ Slow \in BOOLEAN /\ Eager \in BOOLEAN
                         /\ MaxTries \in [Modes -> Nat] /\ MaxLost \in Nat
                         /\ {NULL, ADDR_NONE} \cap (Peers \cup Handles \cup Slots) = {}

VARIABLES mode, preempt,
          conn,        \* the connection objects: see Free
          held,        \* slots of which the application holds a reference
          scanUser,    \* BT_LE_SCAN_USER_CONN; the scanner runs when it is set
          initiating,  \* BT_DEV_INITIATING
          dead,        \* disconnected_handles
          app,         \* [Apps -> what the thread is blocked in]
          bq, mq,      \* the same for the two work queues
          rxq,         \* events waiting for the Bluetooth work queue
          target,      \* external: what the controller initiates to
          links,       \* external: [Handles -> peer or NULL]
          asked,       \* external: handles it was asked to disconnect
          tries,       \* attempts so far
          stray        \* history: a link came up that no attempt waited for

hostVars == <<conn, held, scanUser, initiating, dead>>
ctlVars == <<rxq, target, links, asked>>
vars == <<mode, preempt, hostVars, app, bq, mq, ctlVars, tries, stray>>

\* A connection object.  timer is where deferred_work is: not scheduled,
\* "delayed" or "queued".  History since it was allocated: log has the
\* callbacks made; excused says that the application was told that the
\* attempt could not be stopped, or that the attempt was restarted; lost is
\* the number of references that nobody will give back.
Free == [ref |-> 0, state |-> "disconnected", peer |-> NULL, handle |-> NULL,
         timer |-> "none", log |-> <<>>, excused |-> FALSE, lost |-> 0]

Idle == [at |-> "idle", slot |-> NULL]

Init == /\ mode \in Modes /\ preempt \in Preempts
        /\ conn = [s \in Slots |-> Free]
        /\ held = {}
        /\ scanUser = FALSE
        /\ initiating = FALSE
        /\ dead = <<>>
        /\ app = [a \in Apps |-> Idle]
        /\ bq = Idle /\ mq = Idle
        /\ rxq = <<>>
        /\ target = NULL
        /\ links = [h \in Handles |-> NULL]
        /\ asked = {}
        /\ tries = 0
        /\ stray = FALSE

-----------------------------------------------------------------------------
(* conn.c on one object.                                                   *)

(* Mutants: a handle looked up only while CONNECTED, a reference taken on   *)
(* every change of state, an attempt without a timer, a disconnection       *)
(* reported before the deferred work reports it, a note that stays.         *)
HandleConnected(r) == r.state \in {"connected", "disconnecting"}
EnterRefs(r, st) ==
  [r EXCEPT !.ref = @ + 1,
            !.timer = IF st = "initiating" THEN "delayed"
                      ELSE IF r.state = "initiating" THEN "none" ELSE @,
            !.state = st]
EnterUntimed(r, st) ==
  [r EXCEPT !.ref = IF r.state = "disconnected" THEN @ + 1 ELSE @,
            !.timer = IF r.state = "initiating" THEN "none" ELSE @,
            !.state = st]
LeaveTells(r, err) ==
  IF r.state = "complete"
  THEN [r EXCEPT !.state = "disconnected", !.timer = "queued", !.log = Append(@, "disconnected")]
  ELSE [r EXCEPT !.state = "disconnected", !.timer = "none", !.ref = @ - 1]
Keep(h) == dead

First(S) == CHOOSE s \in S : \A t \in S : s <= t

\* bt_conn_lookup_state_le; no peer (NULL) matches any.
LookupState(p, st) ==
  {s \in Slots : conn[s].ref > 0 /\ conn[s].state = st /\ p \in {NULL, conn[s].peer}}

HandleValid(r) == r.state \in {"connected", "disconnecting", "complete"}

\* bt_conn_lookup_handle.
LookupHandle(h) == {s \in Slots : conn[s].ref > 0 /\ HandleValid(conn[s]) /\ conn[s].handle = h}

\* find_pending_connect for the central role.
FindPending(p) ==
  LET direct == LookupState(p, "initiating")
  IN  IF direct # {} THEN direct ELSE LookupState(NULL, "filter")

\* conn_handle_is_disconnected: the note is used up.
Forget(h) == IF Contains(dead, h)
             THEN RemoveAt(dead, First({i \in 1..Len(dead) : dead[i] = h})) ELSE dead

Unref(r) == [r EXCEPT !.ref = @ - 1]
Log(r, what) == [r EXCEPT !.log = Append(@, what)]

\* bt_conn_set_state to anything but DISCONNECTED: leaving DISCONNECTED
\* takes a reference, leaving INITIATING cancels the timer, entering it
\* starts the timer.
Enter(r, st) ==
  [r EXCEPT !.ref = IF r.state = "disconnected" THEN @ + 1 ELSE @,
            !.timer = IF st = "initiating" THEN "delayed"
                      ELSE IF r.state = "initiating" THEN "none" ELSE @,
            !.state = st]

\* bt_conn_set_state(conn, BT_CONN_DISCONNECTED) with conn->err = err.  From
\* DISCONNECT_COMPLETE deferred_work is scheduled and keeps the reference;
\* an attempt that has not connected ends here.
Leave(r, err) ==
  LET ended == [Unref(r) EXCEPT !.state = "disconnected"]
      told == IF err THEN Log(ended, "failed") ELSE ended
  IN  CASE r.state = "complete" -> [r EXCEPT !.state = "disconnected", !.timer = "queued"]
        [] r.state = "initiating" -> [told EXCEPT !.timer = "none"]
        [] r.state = "scan" -> told
        [] r.state = "filter" -> ended
        [] r.state = "disconnected" -> r
        [] OTHER -> [r EXCEPT !.state = "disconnected", !.lost = @ + 1]   \* "Cannot happen."

-----------------------------------------------------------------------------
(* HCI commands, at the moment the controller answers them (external).     *)

\* LE Create Connection: the answer sets BT_DEV_INITIATING (hci_cmd_done).
CreateOk(p) == target = NULL /\ target' = p /\ initiating' = TRUE
CreateFails == /\ target # NULL \/ mode \in CanFail
               /\ UNCHANGED <<target, initiating>>

\* LE Create Connection Cancel: accepted only while initiating, and then
\* the attempt ends with an LE Connection Complete event.
CancelCmd == IF target # NULL
             THEN /\ target' = NULL /\ initiating' = FALSE
                  /\ rxq' = Append(rxq, [ev |-> "cancelled"])
             ELSE UNCHANGED <<target, initiating, rxq>>

\* Disconnect: accepted if the handle is in use.
DisconnectCmd(h) == asked' = IF links[h] # NULL THEN asked \cup {h} ELSE asked

-----------------------------------------------------------------------------
(* The application.                                                        *)

FreeSlots == {s \in Slots : conn[s].ref = 0}

\* conn_le_create_common_checks and bt_conn_add_le: the checks that do not
\* depend on the parameters.
MayCreate(p) == /\ tries < MaxTries[mode]
                /\ ~initiating
                /\ \A s \in Slots : conn[s].ref > 0 => conn[s].peer # p
                /\ FreeSlots # {}
New(p) == [Free EXCEPT !.ref = 1, !.peer = p]

\* bt_conn_le_create up to the command.
Create(a, p) ==
  LET s == First(FreeSlots)
  IN  /\ mode = "direct" /\ app[a] = Idle /\ MayCreate(p)
      /\ conn' = [conn EXCEPT ![s] = Enter(New(p), "initiating")]
      /\ app' = [app EXCEPT ![a] = [at |-> "create", slot |-> s]]
      /\ tries' = tries + 1
      /\ UNCHANGED <<mode, preempt, held, scanUser, initiating, dead, bq, mq, ctlVars, stray>>

\* bt_conn_le_create with host-based resolving, whole.  If the scanner has
\* this user already the attempt fails, and takes the user away.
CreateResolve(a, p) ==
  LET s == First(FreeSlots)
      r == Enter(New(p), "scan")
  IN  /\ mode = "resolve" /\ app[a] = Idle /\ MayCreate(p)
      /\ IF scanUser
         THEN /\ conn' = [conn EXCEPT ![s] = Unref(Leave(r, FALSE))]
              /\ scanUser' = FALSE
              /\ UNCHANGED held
         ELSE /\ conn' = [conn EXCEPT ![s] = r]
              /\ scanUser' = TRUE
              /\ held' = held \cup {s}
      /\ tries' = tries + 1
      /\ UNCHANGED <<mode, preempt, initiating, dead, app, bq, mq, ctlVars, stray>>

\* bt_conn_le_create_auto up to the command.
CreateAuto(a) ==
  LET s == First(FreeSlots)
  IN  /\ mode = "auto" /\ app[a] = Idle
      /\ tries < MaxTries[mode] /\ ~initiating /\ FreeSlots # {}
      /\ LookupState(ADDR_NONE, "filter") = {}
      /\ conn' = [conn EXCEPT ![s] = Enter(New(ADDR_NONE), "filter")]
      /\ app' = [app EXCEPT ![a] = [at |-> "create", slot |-> s]]
      /\ tries' = tries + 1
      /\ UNCHANGED <<mode, preempt, held, scanUser, initiating, dead, bq, mq, ctlVars, stray>>

\* The rest of bt_conn_le_create and of bt_conn_le_create_auto, which keeps
\* no reference for the application.
Created(a) ==
  LET s == app[a].slot
      r == conn[s]
  IN  /\ app[a].at = "create"
      /\ \/ /\ CreateOk(r.peer)
            /\ conn' = [conn EXCEPT ![s] = IF mode = "auto" THEN Unref(r) ELSE r]
            /\ held' = IF mode = "auto" THEN held ELSE held \cup {s}
         \/ /\ CreateFails
            /\ conn' = [conn EXCEPT ![s] = Unref(Leave(r, FALSE))]
            /\ UNCHANGED held
      /\ app' = [app EXCEPT ![a] = Idle]
      /\ UNCHANGED <<mode, preempt, scanUser, dead, bq, mq, rxq, links, asked, tries, stray>>

\* bt_conn_create_auto_stop up to the command.  The reference of the lookup
\* is not returned when BT_DEV_INITIATING is clear.
AutoStop(a) ==
  LET found == LookupState(ADDR_NONE, "filter")
      s == First(found)
  IN  /\ mode = "auto" /\ app[a] = Idle /\ found # {}
      /\ IF initiating
         THEN /\ conn' = [conn EXCEPT ![s] = Leave(@, FALSE)]
              /\ app' = [app EXCEPT ![a].at = "cancel"]
         ELSE /\ conn[s].lost < MaxLost
              /\ conn' = [conn EXCEPT ![s].ref = @ + 1, ![s].lost = @ + 1]
              /\ UNCHANGED app
      /\ UNCHANGED <<mode, preempt, held, scanUser, initiating, dead, bq, mq, ctlVars, tries, stray>>

\* bt_conn_disconnect up to a command.
Disconnect(a, s) ==
  /\ app[a] = Idle /\ s \in held
  /\ \/ /\ conn[s].state = "scan"
        /\ conn' = [conn EXCEPT ![s] = Leave(@, TRUE)]
        /\ scanUser' = TRUE        \* bt_le_scan_user_add(BT_LE_SCAN_USER_CONN)
        /\ UNCHANGED app
     \/ /\ conn[s].state = "initiating"
        /\ conn' = [conn EXCEPT ![s].timer = "none"]
        /\ app' = [app EXCEPT ![a] = [at |-> "cancel", slot |-> s]]
        /\ UNCHANGED scanUser
     \/ /\ conn[s].state = "connected"
        /\ app' = [app EXCEPT ![a] = [at |-> "disconnect", slot |-> s]]
        /\ UNCHANGED <<conn, scanUser>>
  /\ UNCHANGED <<mode, preempt, held, initiating, dead, bq, mq, ctlVars, tries, stray>>

\* bt_le_create_conn_cancel of bt_conn_disconnect and of auto_stop.
Cancel(a) ==
  LET s == app[a].slot
  IN  /\ app[a].at = "cancel"
      /\ CancelCmd
      /\ conn' = IF s = NULL \/ target # NULL THEN conn ELSE [conn EXCEPT ![s].excused = TRUE]
      /\ app' = [app EXCEPT ![a] = Idle]
      /\ UNCHANGED <<mode, preempt, held, scanUser, dead, bq, mq, links, asked, tries, stray>>

\* conn_disconnect: the command, the check of conn->state, and its change.
DisconnectSent(a) ==
  LET s == app[a].slot
  IN  /\ app[a].at = "disconnect"
      /\ DisconnectCmd(conn[s].handle)
      /\ app' = [app EXCEPT ![a] = IF links[conn[s].handle] = NULL THEN Idle
                                   ELSE [@ EXCEPT !.at = "answered"]]
      /\ UNCHANGED <<mode, preempt, hostVars, bq, mq, rxq, target, links, tries, stray>>

Answered(a) ==
  LET s == app[a].slot
      now == conn[s].state = "connected"
  IN  /\ app[a].at = "answered"
      /\ conn' = IF now /\ ~preempt THEN [conn EXCEPT ![s] = Enter(@, "disconnecting")] ELSE conn
      /\ app' = [app EXCEPT ![a] = IF now /\ preempt THEN [@ EXCEPT !.at = "mark"] ELSE Idle]
      /\ UNCHANGED <<mode, preempt, held, scanUser, initiating, dead, bq, mq, ctlVars, tries, stray>>

Mark(a) ==
  /\ app[a].at = "mark"
  /\ conn' = [conn EXCEPT ![app[a].slot] = Enter(@, "disconnecting")]
  /\ app' = [app EXCEPT ![a] = Idle]
  /\ UNCHANGED <<mode, preempt, held, scanUser, initiating, dead, bq, mq, ctlVars, tries, stray>>

\* The application's bt_conn_unref.
AppUnref(s) ==
  /\ s \in held /\ \A a \in Apps : app[a].slot # s
  /\ held' = held \ {s}
  /\ conn' = [conn EXCEPT ![s] = Unref(@)]
  /\ UNCHANGED <<mode, preempt, scanUser, initiating, dead, app, bq, mq, ctlVars, tries, stray>>

-----------------------------------------------------------------------------
(* The controller and the receive thread.                                  *)

\* A connection is established.  A controller that is not eager waits with
\* the reuse of a handle until the host has worked off the old events.
Settled(h) == /\ \A i \in 1..Len(rxq) : rxq[i].ev \in {"connected", "disconnected"} => rxq[i].handle # h
              /\ LookupHandle(h) = {}
Establish(p, h) ==
  /\ target \in {p, ADDR_NONE} /\ links[h] = NULL
  /\ Eager \/ Settled(h)
  /\ \A g \in Handles : links[g] # p
  /\ links' = [links EXCEPT ![h] = p]
  /\ target' = NULL
  /\ rxq' = Append(rxq, [ev |-> "connected", handle |-> h, peer |-> p])
  /\ UNCHANGED <<mode, preempt, hostVars, app, bq, mq, asked, tries, stray>>

\* A link ends, and hci_disconn_complete_prio: the state of its object, or
\* a note in disconnected_handles if the object is not connected yet.
Dropped(h) ==
  LET found == LookupHandle(h)
  IN  /\ links[h] # NULL
      /\ links' = [links EXCEPT ![h] = NULL]
      /\ asked' = asked \ {h}
      /\ rxq' = Append(rxq, [ev |-> "disconnected", handle |-> h])
      /\ IF found # {}
         THEN /\ conn' = [conn EXCEPT ![First(found)] = Enter(@, "complete")]
              /\ UNCHANGED dead
         ELSE /\ dead' = IF Len(dead) < Cardinality(Slots) THEN Append(dead, h) ELSE dead
              /\ UNCHANGED conn
      /\ UNCHANGED <<mode, preempt, held, scanUser, initiating, app, bq, mq, target, tries, stray>>

\* The scanner reports a connectable advertisement (bound: of a peer some
\* attempt waits for; other reports change nothing).
Report(p) ==
  /\ scanUser /\ LookupState(p, "scan") # {}
  /\ \A i \in 1..Len(rxq) : rxq[i].ev # "report"
  /\ rxq' = Append(rxq, [ev |-> "report", peer |-> p])
  /\ UNCHANGED <<mode, preempt, hostVars, app, bq, mq, target, links, asked, tries, stray>>

-----------------------------------------------------------------------------
(* The Bluetooth work queue.                                               *)

\* bt_hci_le_enh_conn_complete.  A link nobody waits for is disconnected.
\* One whose end has been noted is connected and disconnected at once.  A
\* thread that is preempted has looked for the note, and connects later:
\* the event stays at the head of rxq until it is done.
Linked(r, e, ended) ==
  LET up == Enter([r EXCEPT !.peer = e.peer, !.handle = e.handle], "connected")
  IN  IF ended THEN Log(Enter(up, "complete"), "failed") ELSE Log(up, "connected")
ConnComplete ==
  LET e == Head(rxq)
      found == FindPending(e.peer)
      s == First(found)
      ended == Contains(dead, e.handle)
      waits == preempt /\ found # {}
  IN  /\ bq = Idle /\ rxq # <<>> /\ e.ev = "connected"
      /\ rxq' = IF waits THEN rxq ELSE Tail(rxq)
      /\ dead' = Forget(e.handle)
      /\ initiating' = FALSE
      /\ stray' = (stray \/ found = {})
      /\ IF found = {} THEN DisconnectCmd(e.handle) ELSE UNCHANGED asked
      /\ conn' = IF found = {} THEN conn
                 ELSE IF waits THEN [conn EXCEPT ![s].ref = @ + 1]
                 ELSE [conn EXCEPT ![s] = Linked(@, e, ended)]
      /\ bq' = IF waits THEN [at |-> IF ended THEN "noted" ELSE "linked", slot |-> s] ELSE bq
      /\ UNCHANGED <<mode, preempt, held, scanUser, app, mq, target, links, tries>>

\* update_conn and the rest of the same.
ConnUp ==
  /\ bq.at \in {"linked", "noted"}
  /\ conn' = [conn EXCEPT ![bq.slot] = Unref(Linked(@, Head(rxq), bq.at = "noted"))]
  /\ bq' = Idle /\ rxq' = Tail(rxq)
  /\ UNCHANGED <<mode, preempt, held, scanUser, initiating, dead, app, mq, target, links,
                 asked, tries, stray>>

\* le_conn_complete_cancel.  A scheduled timer means that this was not the
\* timeout of the attempt: the initiator is started again.
ConnCancelled ==
  LET found == FindPending(NULL)
      s == First(found)
      again == conn[s].state = "filter" \/ conn[s].timer # "none"
  IN  /\ bq = Idle /\ rxq # <<>> /\ Head(rxq).ev = "cancelled"
      /\ rxq' = Tail(rxq)
      /\ IF found = {} THEN UNCHANGED <<conn, bq>>
         ELSE IF again
         THEN /\ bq' = [at |-> "again", slot |-> s]
              /\ conn' = [conn EXCEPT ![s].ref = @ + 1, ![s].excused = TRUE]
         ELSE /\ conn' = [conn EXCEPT ![s] = Leave(@, TRUE)]
              /\ UNCHANGED bq
      /\ UNCHANGED <<mode, preempt, held, scanUser, initiating, dead, app, mq, target,
                     links, asked, tries, stray>>

Again ==
  /\ bq.at = "again"
  /\ CreateOk(conn[bq.slot].peer) \/ CreateFails
  /\ conn' = [conn EXCEPT ![bq.slot] = Unref(@)]
  /\ bq' = Idle
  /\ UNCHANGED <<mode, preempt, held, scanUser, dead, app, mq, rxq, links, asked, tries, stray>>

\* check_pending_conn up to the command: the object is still in
\* SCAN_BEFORE_INITIATING while LE Create Connection is on its way.
CheckPending ==
  LET found == LookupState(Head(rxq).peer, "scan")
      s == First(found)
  IN  /\ bq = Idle /\ rxq # <<>> /\ Head(rxq).ev = "report"
      /\ rxq' = Tail(rxq)
      /\ IF found = {} THEN UNCHANGED <<conn, bq, scanUser>>
         ELSE /\ scanUser' = FALSE
              /\ conn' = [conn EXCEPT ![s].ref = @ + 1]
              /\ bq' = [at |-> "pending", slot |-> s]
      /\ UNCHANGED <<mode, preempt, held, initiating, dead, app, mq, target, links,
                     asked, tries, stray>>

\* The rest of it: if the command fails the scanner loses its user with the
\* change of state, also one that was added in the meantime.
Pending ==
  LET s == bq.slot
  IN  /\ bq.at = "pending"
      /\ \/ /\ CreateOk(conn[s].peer)
            /\ conn' = [conn EXCEPT ![s] = Unref(Enter(@, "initiating"))]
            /\ UNCHANGED scanUser
         \/ /\ CreateFails
            /\ conn' = [conn EXCEPT ![s] = Unref(Leave(@, TRUE))]
            /\ scanUser' = (scanUser /\ conn[s].state # "scan")
      /\ bq' = Idle
      /\ UNCHANGED <<mode, preempt, held, dead, app, mq, rxq, links, asked, tries, stray>>

\* hci_disconn_complete.
DisconnComplete ==
  LET found == LookupHandle(Head(rxq).handle)
  IN  /\ bq = Idle /\ rxq # <<>> /\ Head(rxq).ev = "disconnected"
      /\ rxq' = Tail(rxq)
      /\ conn' = IF found = {} THEN conn
                 ELSE [conn EXCEPT ![First(found)] = Leave(@, TRUE)]
      /\ UNCHANGED <<mode, preempt, held, scanUser, initiating, dead, app, bq, mq,
                     target, links, asked, tries, stray>>

-----------------------------------------------------------------------------
(* The main work queue.                                                    *)

\* The timeout of a direct attempt.
Expire(s) ==
  /\ conn[s].timer = "delayed"
  /\ Slow \/ (bq.slot # s /\ mq = Idle /\ \A a \in Apps : app[a].slot # s)
  /\ conn' = [conn EXCEPT ![s].timer = "queued"]
  /\ UNCHANGED <<mode, preempt, held, scanUser, initiating, dead, app, bq, mq, ctlVars, tries, stray>>

\* deferred_work: the last step of a connection, or the timeout of an
\* attempt, which cancels whatever the controller initiates.
DeferredWork(s) ==
  /\ mq = Idle /\ conn[s].timer = "queued"
  /\ IF conn[s].state = "disconnected"
     THEN /\ conn' = [conn EXCEPT ![s] = Unref(Log([@ EXCEPT !.timer = "none"], "disconnected"))]
          /\ UNCHANGED mq
     ELSE /\ conn' = [conn EXCEPT ![s].timer = "none"]
          /\ mq' = [at |-> "cancel", slot |-> s]
  /\ UNCHANGED <<mode, preempt, held, scanUser, initiating, dead, app, bq, ctlVars, tries, stray>>

\* The retry on -ENOBUFS never runs: bt_hci_cmd_alloc is called to wait for a
\* buffer as long as it takes, and bt_queue_get then comes back with one.
TimeoutCancel ==
  /\ mq.at = "cancel"
  /\ CancelCmd
  /\ mq' = [mq EXCEPT !.at = "return"]
  /\ UNCHANGED <<mode, preempt, conn, held, scanUser, dead, app, bq, links, asked, tries, stray>>

Return ==
  /\ mq.at = "return" /\ mq' = Idle
  /\ UNCHANGED <<mode, preempt, hostVars, app, bq, ctlVars, tries, stray>>

-----------------------------------------------------------------------------
AppNext(a) == Created(a) \/ Cancel(a) \/ DisconnectSent(a) \/ Answered(a) \/ Mark(a)
BqNext == \/ ConnComplete \/ ConnUp \/ ConnCancelled \/ Again \/ CheckPending \/ Pending
          \/ DisconnComplete
MqNext == TimeoutCancel \/ Return \/ \E s \in Slots : DeferredWork(s)

Next == \/ \E a \in Apps : \/ AppNext(a) \/ CreateAuto(a) \/ AutoStop(a)
                           \/ \E p \in Peers : Create(a, p) \/ CreateResolve(a, p)
                           \/ \E s \in Slots : Disconnect(a, s)
        \/ \E s \in Slots : AppUnref(s) \/ Expire(s)
        \/ \E p \in Peers : Report(p) \/ \E h \in Handles : Establish(p, h)
        \/ \E h \in Handles : Dropped(h)
        \/ BqNext \/ MqNext

Spec == Init /\ [][Next]_vars

\* Every thread goes on, timers expire, and the controller ends the links
\* it was asked to end.  It never has to find a peer.
FairSpec == /\ Spec
            /\ \A a \in Apps : WF_vars(AppNext(a))
            /\ WF_vars(BqNext) /\ WF_vars(MqNext)
            /\ \A s \in Slots : WF_vars(Expire(s))
            /\ \A h \in Handles : WF_vars(Dropped(h) /\ h \in asked)

-----------------------------------------------------------------------------
(* Properties.  Where one depends on the mode or on preemption, the formula *)
(* without the restriction is what the violated configurations check.      *)

ConnStates == {"disconnected", "complete", "initiating", "scan", "filter", "connected", "disconnecting"}
Conns == [ref : Nat, state : ConnStates, peer : Peers \cup {ADDR_NONE, NULL},
          handle : Handles \cup {NULL}, timer : {"none", "delayed", "queued"},
          log : Seq({"connected", "failed", "disconnected"}), excused : BOOLEAN, lost : Nat]
Waiting == [at : {"idle", "create", "cancel", "disconnect", "answered", "mark", "again", "pending",
                  "linked", "noted", "return"},
            slot : Slots \cup {NULL}]
Events == [ev : {"connected"}, handle : Handles, peer : Peers] \cup [ev : {"cancelled"}]
            \cup [ev : {"disconnected"}, handle : Handles] \cup [ev : {"report"}, peer : Peers]
TypeOK ==
  /\ mode \in Modes /\ preempt \in BOOLEAN /\ tries \in Nat /\ stray \in BOOLEAN
  /\ conn \in [Slots -> Conns] /\ held \subseteq Slots
  /\ scanUser \in BOOLEAN /\ initiating \in BOOLEAN
  /\ dead \in Seq(Handles) /\ asked \subseteq Handles /\ rxq \in Seq(Events)
  /\ app \in [Apps -> Waiting] /\ bq \in Waiting /\ mq \in Waiting
  /\ target \in Peers \cup {ADDR_NONE, NULL} /\ links \in [Handles -> Peers \cup {NULL}]

\* A slot's reference count is the number of those who hold it: the
\* application, the thread creating it, a work queue in the middle of a
\* handler, and the stack from the first state change until it is done with
\* the disconnection.  So no timer, state or handler is left on a slot that
\* bt_conn_new gives away, and references are lost in two places only: the
\* "Cannot happen." of bt_conn_set_state and the early return of
\* bt_conn_create_auto_stop.
Count(b) == IF b THEN 1 ELSE 0
Stack(r) == r.state # "disconnected" \/ r.timer # "none"
Creating(s) == \E a \in Apps : app[a] = [at |-> "create", slot |-> s]
Holders(s) == Count(s \in held) + Count(Creating(s)) + Count(bq.slot = s) + Count(Stack(conn[s]))
RefsExact == ~preempt => \A s \in Slots : conn[s].ref = Holders(s) + conn[s].lost

\* The application is told once how an attempt ends, at most once and after
\* that of the end of the connection, and always before the slot of a
\* connection it was told of is free again.
Told ==
  \A s \in Slots :
    LET log == conn[s].log
    IN  /\ Len(log) <= 2
        /\ \A i \in 1..Len(log) : (log[i] = "disconnected") <=> i = 2
        /\ conn[s].ref = 0 => log # <<"connected">>
ToldOnce == ~preempt /\ mode # "resolve" => Told

\* No object is treated as disconnected while its link is up: a note in
\* disconnected_handles meets the connection it was made for, as long as
\* every link that came up was waited for and every end was reported.
Dead ==
  \A s \in Slots : conn[s].ref > 0 /\ conn[s].state = "complete" =>
    links[conn[s].handle] # conn[s].peer
NothingLost == \A s \in Slots : conn[s].lost = 0
DeadIsDead == ~stray /\ NothingLost => Dead

\* With a controller that does not refuse, every direct attempt ends: it
\* connects, or its timer ends it, whatever commands of other attempts race
\* with it; unless it had to be restarted, or the application was told that
\* it could not be stopped.
AttemptEnds ==
  mode = "direct" => \A s \in Slots : []<>(conn[s].state # "initiating" \/ conn[s].excused)

\* The same without exception: what the timeout parameter of
\* bt_conn_le_create promises.
EveryAttemptEnds == \A s \in Slots : []<>(conn[s].state # "initiating")

\* A connection that has ended is reported as disconnected, unless its
\* attempt was restarted while its creator still waited for the controller,
\* or a link that nobody waited for has left a note in the place of its own.
Reported ==
  \A s \in Slots : []<>(conn[s].state = "connected" \/ conn[s].log # <<"connected">>)
EndReported ==
  ~preempt => \/ \A s \in Slots : []<>(\/ conn[s].state = "connected" \/ conn[s].excused
                                       \/ conn[s].log # <<"connected">>)
              \/ <>stray

\* The scanner scans for connections exactly if some attempt waits for it.
ScanIffWanted ==
  bq = Idle => (scanUser <=> LookupState(NULL, "scan") # {})

\* deferred_work does not run on a slot that bt_conn_new may initialise.
NoRunOnFreeSlot == \A s \in Slots : conn[s].ref = 0 => mq.slot # s

=============================================================================
