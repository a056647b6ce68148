------------------------------- MODULE MeshNet -------------------------------
(***************************************************************************)
(* Sequence numbers, IV index and replay protection of mesh nodes, with    *)
(* the storage that has to bring them through a reset: net.c, rpl.c,       *)
(* settings.c of src/bluetooth/mesh.  Nodes number and encrypt packets,    *)
(* receive what is on the air late, again and out of order, follow each    *)
(* other's IV update procedure, store what changed and lose power.         *)
(*                                                                         *)
(* A packet is its nonce: the source element, the IV index it was          *)
(* encrypted with and the sequence number.  The network message cache is   *)
(* left out: it is small and forgetful, so any packet may come again.      *)
(* Durations count periods of ivu_timer.  One subnet.  BT_MESH_VALID holds *)
(* on every node: one that bt_mesh_reset takes out of the network, and     *)
(* whose storage is then deleted, is no node of this module any more.      *)
(***************************************************************************)
EXTENDS Integers, Sequences, FiniteSets, SequencesExt

CONSTANTS Nodes, Elements,  \* the nodes and the element addresses of each
          CRPL,             \* CONFIG_BT_MESH_CRPL: slots of a replay list
          Rate,             \* CONFIG_BT_MESH_SEQ_STORE_RATE
          SeqLimit,         \* CONFIG_BT_MESH_IV_UPDATE_SEQ_LIMIT
          IvuMin,           \* BT_MESH_IVU_MIN_HOURS, in periods of the timer
          MaxPackets, MaxSeq, MaxIv, MaxCrashes, \* bounds
          CrashAfter,       \* what a crash may interrupt: "nothing" that is pending but
                            \*   replay list changes, or store_pending in or after its "rpl"
                            \*   or after its "iv" handler; "unsaved": replay list changes too
          RplTimer,         \* CONFIG_BT_MESH_RPL_STORE_TIMEOUT >= 0
          Prompt,           \* scheduling: a store without delay is done at once, see Next
          Missing,          \* nodes that may miss an IV update and recover
          Segmenting,       \* nodes that send segmented messages
          NULL

ASSUME MeshAssumption ==
    /\ Elements \in [Nodes -> SUBSET UNION {Elements[n] : n \in Nodes}]
    /\ \A m, n \in Nodes : m # n => Elements[m] \cap Elements[n] = {}
    /\ \A n \in Nodes : NULL \notin Elements[n]
    /\ CRPL \in Nat \ {0} /\ Rate \in Nat /\ SeqLimit \in Nat /\ IvuMin \in Nat \ {0}
    /\ MaxPackets \in Nat /\ MaxSeq \in Nat /\ MaxIv \in Nat /\ MaxCrashes \in Nat
    /\ CrashAfter \subseteq {"nothing", "rpl", "iv", "unsaved"}
    /\ Prompt \in BOOLEAN /\ RplTimer \in BOOLEAN
    /\ Missing \subseteq Nodes /\ Segmenting \subseteq Nodes

VARIABLES ram,      \* what each node knows, see Ram
          flash,    \* what each node has stored, see Flash
          out,      \* encrypted packets a node has yet to transmit
          air,      \* packets that were transmitted
          got,      \* history: packets each node delivered
          bad,      \* history: "nonce" used for two packets, "replay" delivered
          crashes   \* bound: resets so far
vars == <<ram, flash, out, air, got, bad, crashes>>

Sources == UNION {Elements[n] : n \in Nodes}
Packet == [src : Sources, iv : Nat, seq : Nat]
Entry == [src : Sources \cup {NULL}, seq : Nat, old : BOOLEAN, store : BOOLEAN]
Pending == {"rpl", "iv", "seq"}

\* bt_mesh, replay_list with its `store' bits, rpl_flags and pending_flags.
Ram == [iv : Nat, ivu : BOOLEAN, dur : 0..2 * IvuMin, timer : BOOLEAN, deferred : BOOLEAN,
        recovered : BOOLEAN, seq : Nat, rpl : [1..CRPL -> Entry],
        reset : BOOLEAN, clear : BOOLEAN, pend : SUBSET Pending]

\* bt/mesh/IV, bt/mesh/Seq and the entries bt/mesh/RPL/<src>.
Flash == [iv : Nat, ivu : BOOLEAN, dur : 0..2 * IvuMin, seq : Nat, rpl : SUBSET Entry]

Empty == [src |-> NULL, seq |-> 0, old |-> FALSE, store |-> FALSE]
Padded(s) == [i \in 1..CRPL |-> IF i <= Len(s) THEN s[i] ELSE Empty]

\* Nodes that were provisioned while the network was in normal operation.
Init == /\ ram = [n \in Nodes |->
                    [iv |-> 1, ivu |-> FALSE, dur |-> 0, timer |-> TRUE, deferred |-> FALSE,
                     recovered |-> FALSE, seq |-> 0, rpl |-> Padded(<<>>),
                     reset |-> FALSE, clear |-> FALSE, pend |-> {}]]
        /\ flash = [n \in Nodes |-> [iv |-> 1, ivu |-> FALSE, dur |-> 0, seq |-> 0, rpl |-> {}]]
        /\ out = [n \in Nodes |-> {}] /\ air = {} /\ got = [n \in Nodes |-> {}]
        /\ bad = {} /\ crashes = 0

-----------------------------------------------------------------------------
(***************************************************************************)
(* The IV update procedure.                                                *)
(***************************************************************************)

\* bt_mesh_rpl_reset: entries of the IV index before the last one are to be removed,
\* the others are old now.
RplResetKeep(r) == [r EXCEPT !.reset = TRUE, !.pend = @ \cup {"rpl"},
                             !.rpl = [i \in 1..CRPL |-> [r.rpl[i] EXCEPT !.store = @ \/ r.rpl[i].src # NULL]]]
RplReset(r) ==
    [r EXCEPT !.reset = TRUE, !.pend = @ \cup {"rpl"},
              !.rpl = [i \in 1..CRPL |-> IF r.rpl[i].src = NULL THEN r.rpl[i]
                                         ELSE [r.rpl[i] EXCEPT !.store = ~r.rpl[i].old, !.old = ~@]]]

\* do_update of bt_mesh_net_iv_update.
DoUpdate(r, update) == [r EXCEPT !.ivu = update, !.dur = 0, !.timer = TRUE,
                                 !.pend = @ \cup {"iv", "seq"}]

\* The node has missed an IV update: IV index recovery.
Missed(r, iv, update) == \/ iv > r.iv + 1
                         \/ iv = r.iv + 1 /\ (r.ivu \/ ~update)

\* bt_mesh_net_iv_update.  busy: bt_mesh_tx_in_progress.
Busy(n) == IF n \in Segmenting THEN BOOLEAN ELSE {FALSE}
IvUpdate(r, iv, update, busy) ==
    IF iv < r.iv \/ iv > r.iv + 42 \/ (iv = r.iv /\ update) THEN r
    ELSE IF Missed(r, iv, update)
         THEN IF r.recovered /\ r.dur < 2 * IvuMin THEN r
              ELSE DoUpdate([r EXCEPT !.recovered = TRUE, !.clear = TRUE, !.iv = iv, !.seq = 0,
                                      !.pend = @ \cup {"rpl"}], update)
    ELSE IF r.ivu = update \/ r.dur < IvuMin THEN r
    ELSE IF update THEN DoUpdate([RplReset(r) EXCEPT !.iv = iv, !.recovered = FALSE], update)
    ELSE IF busy THEN [r EXCEPT !.deferred = TRUE]
    ELSE DoUpdate([r EXCEPT !.seq = 0], update)

\* ivu_refresh, every period.  Longer durations than Ripe tell nothing apart.
Ripe(r) == IF r.recovered THEN 2 * IvuMin ELSE IvuMin
IvuRefresh(n) ==
    LET r == [ram[n] EXCEPT !.dur = IF @ < Ripe(ram[n]) THEN @ + 1 ELSE @]
    IN  /\ ram[n].timer /\ r # ram[n]
        /\ \E busy \in Busy(n) :
             ram' = [ram EXCEPT ![n] = IF r.dur >= IvuMin /\ r.ivu
                                       THEN IvUpdate(r, r.iv, FALSE, busy)
                                       ELSE [r EXCEPT !.pend = @ \cup {"iv"}]]
        /\ UNCHANGED <<flash, out, air, got, bad, crashes>>

\* net_beacon_recv: node n hears a secure network beacon of another node, or one that
\* tells it that it has missed an IV update.
Heard(n) == {<<ram[m].iv, ram[m].ivu>> : m \in Nodes \ {n}}
            \cup (IF n \in Missing THEN (1..MaxIv) \X BOOLEAN ELSE {})
Beacon(n) == \E b \in Heard(n), busy \in Busy(n) :
    /\ Missed(ram[n], b[1], b[2]) => n \in Missing
    /\ ram' = [ram EXCEPT ![n] = IvUpdate(@, b[1], b[2], busy)]
    /\ UNCHANGED <<flash, out, air, got, bad, crashes>>

\* seg_tx_reset of the transfer that deferred the update.
SegTxReset(n) ==
    /\ ram[n].deferred
    /\ \E busy \in Busy(n) :
         ram' = [ram EXCEPT ![n] = IvUpdate([@ EXCEPT !.deferred = FALSE], ram[n].iv, FALSE, busy)]
    /\ UNCHANGED <<flash, out, air, got, bad, crashes>>

-----------------------------------------------------------------------------
(***************************************************************************)
(* Sending.                                                                *)
(***************************************************************************)

\* bt_mesh_next_seq: the number is the old value.  It is stored every Rate packets.
StoresSeq(seq) == Rate <= 1 \/ seq % Rate = 0
NextSeq(r) ==
    LET q == [r EXCEPT !.seq = @ + 1, !.pend = @ \cup (IF StoresSeq(r.seq + 1) THEN {"seq"} ELSE {})]
    IN  IF ~q.ivu /\ q.seq > SeqLimit /\ q.iv < MaxIv THEN IvUpdate(q, q.iv + 1, TRUE, FALSE) ELSE q

IviTx(r) == IF r.ivu THEN r.iv - 1 ELSE r.iv

\* bt_mesh_net_encode: the number is taken, then the IV index is read.
MayEncode(n) == ram[n].seq < MaxSeq /\ out[n] = {} /\ Cardinality(air) < MaxPackets
Encode(n, e) ==
    /\ MayEncode(n)
    /\ ram' = [ram EXCEPT ![n] = NextSeq(@)]
    /\ out' = [out EXCEPT ![n] = {[src |-> e, iv |-> IviTx(ram'[n]), seq |-> ram[n].seq]}]
    /\ UNCHANGED <<flash, air, got, bad, crashes>>

\* ivu_refresh on another thread ends the IV update between the two.
EncodeLate(n, e) ==
    /\ MayEncode(n) /\ ram[n].timer
    /\ ram' = [ram EXCEPT ![n] = IvUpdate([NextSeq(@) EXCEPT !.dur = IvuMin], ram[n].iv, FALSE, FALSE)]
    /\ out' = [out EXCEPT ![n] = {[src |-> e, iv |-> IviTx(ram'[n]), seq |-> ram[n].seq]}]
    /\ UNCHANGED <<flash, air, got, bad, crashes>>

\* The advertiser sends the packet.
Transmit(n) == \E p \in out[n] :
    /\ air' = air \cup {p} /\ out' = [out EXCEPT ![n] = @ \ {p}]
    /\ bad' = IF p \in air THEN bad \cup {"nonce"} ELSE bad
    /\ UNCHANGED <<ram, flash, got, crashes>>

-----------------------------------------------------------------------------
(***************************************************************************)
(* Receiving.                                                              *)
(***************************************************************************)

\* net_decrypt: the IVI bit tells the current IV index from the one before.
Decrypts(r, p) == p.iv \in {r.iv, r.iv - 1}

\* bt_mesh_rpl_check finds the slot of a packet, or none.  The first slot that is
\* empty or has the packet's source decides.
Candidate(r, p) == {i \in 1..CRPL : /\ r.rpl[i].src \in {NULL, p.src}
                                    /\ \A j \in 1..i - 1 : r.rpl[j].src \notin {NULL, p.src}}
Newer(r, p, e) == \/ e.src = NULL
                  \/ ~e.old /\ r.reset /\ ~e.store
                  \/ p.iv = r.iv /\ e.old
                  \/ ~(p.iv # r.iv /\ ~e.old) /\ e.seq < p.seq
RplSlot(r, p) == {i \in Candidate(r, p) : Newer(r, p, r.rpl[i])}

\* bt_mesh_rpl_update with schedule_rpl_store: without the timer the change is stored
\* when an application asks for it, or with the next IV update.
RplScheduled == IF RplTimer THEN {"rpl"} ELSE {}
RplUpdateUnsaved(r, i, p) ==
    [r EXCEPT !.rpl[i] = [src |-> p.src, seq |-> p.seq, old |-> p.iv # r.iv, store |-> FALSE],
              !.pend = @ \cup RplScheduled]
RplUpdate(r, i, p) ==
    [r EXCEPT !.rpl[i] = [src |-> p.src, seq |-> p.seq, old |-> p.iv # r.iv, store |-> TRUE],
              !.pend = @ \cup RplScheduled]

Deliver(n, p) == /\ got' = [got EXCEPT ![n] = @ \cup {p}]
                 /\ bad' = IF p \in got[n] THEN bad \cup {"replay"} ELSE bad

\* bt_mesh_net_recv and trans_unseg: check, deliver, update.
Recv(n, p) ==
    /\ p.src \notin Elements[n] /\ Decrypts(ram[n], p)
    /\ \E i \in RplSlot(ram[n], p) : ram' = [ram EXCEPT ![n] = RplUpdate(@, i, p)]
    /\ Deliver(n, p)
    /\ UNCHANGED <<flash, out, air, crashes>>

-----------------------------------------------------------------------------
(***************************************************************************)
(* Storage and reset.                                                      *)
(***************************************************************************)
Stored(e) == [e EXCEPT !.store = FALSE]
Without(entries, srcs) == {e \in entries : e.src \notin srcs}
SrcsOf(entries) == {e.src : e \in entries}

\* bt_mesh_rpl_pending_store for all nodes: what a node is, s, becomes.  The entries are
\* written one by one; after a reset those to be stored are moved over the gaps that the
\* others leave.
Kept(rpl) == {i \in 1..CRPL : rpl[i].store}
Place(rpl, i) == Cardinality({k \in Kept(rpl) : k <= i})
Compacted(rpl) ==
    [j \in 1..CRPL |-> IF \E i \in Kept(rpl) : Place(rpl, i) = j
                       THEN Stored(rpl[CHOOSE i \in Kept(rpl) : Place(rpl, i) = j]) ELSE Empty]
RplWritten(s, slots) ==
    LET rpl == s.ram.rpl
        gone == IF s.ram.clear THEN slots ELSE IF s.ram.reset THEN slots \ Kept(rpl) ELSE {}
        save == IF s.ram.clear THEN {} ELSE {Stored(rpl[i]) : i \in slots \cap Kept(rpl)}
    IN  Without(s.flash.rpl, {rpl[i].src : i \in gone} \cup SrcsOf(save)) \cup save
RplStoreAll(s) ==
    LET rpl == s.ram.rpl
    IN  [ram |-> [s.ram EXCEPT !.reset = FALSE, !.clear = FALSE,
                    !.rpl = IF s.ram.clear THEN Padded(<<>>)
                            ELSE IF s.ram.reset THEN Compacted(rpl)
                            ELSE [i \in 1..CRPL |-> Stored(rpl[i])]],
         flash |-> [s.flash EXCEPT !.rpl = RplWritten(s, 1..CRPL)]]

\* The same for one address: the flags are consumed, the list is not compacted.
RplStoreFor(s, addr) ==
    LET mine == {i \in 1..CRPL : s.ram.rpl[i].src = addr}
        save == IF s.ram.clear THEN {} ELSE {Stored(s.ram.rpl[i]) : i \in {j \in mine : s.ram.rpl[j].store}}
        gone == IF s.ram.clear \/ s.ram.reset THEN {addr} ELSE SrcsOf(save)
    IN  [ram |-> [s.ram EXCEPT !.reset = FALSE, !.clear = FALSE,
                    !.rpl = [i \in 1..CRPL |-> IF i \in mine THEN Stored(@[i]) ELSE @[i]]],
         flash |-> [s.flash EXCEPT !.rpl = Without(@, gone) \cup save]]

\* store_pending: the handlers in the order of their flags.
HandlersSeqFirst == <<"rpl", "seq", "iv">>
Handlers == <<"rpl", "iv", "seq">>
Cleared(s, h) == [s EXCEPT !.ram.pend = @ \ {h}]
Handled(s, h) ==
    LET t == Cleared(s, h)
    IN  IF h \notin s.ram.pend THEN s
        ELSE CASE h = "rpl" -> RplStoreAll(t)
               [] h = "iv" -> [t EXCEPT !.flash.iv = t.ram.iv, !.flash.ivu = t.ram.ivu,
                                        !.flash.dur = t.ram.dur]
               [] h = "seq" -> [t EXCEPT !.flash.seq = t.ram.seq]
StorePending(s, first, last) ==
    LET step(t, k) == IF k \in first..last THEN Handled(t, Handlers[k]) ELSE t
    IN  step(step(step(s, 1), 2), 3)

Node(n) == [ram |-> ram[n], flash |-> flash[n]]
NodeBecomes(n, s) == ram' = [ram EXCEPT ![n] = s.ram] /\ flash' = [flash EXCEPT ![n] = s.flash]

Store(n) == /\ ram[n].pend # {}
            /\ NodeBecomes(n, StorePending(Node(n), 1, 3))
            /\ UNCHANGED <<out, air, got, bad, crashes>>

\* bt_mesh_rpl_pending_store called by an application, for one address or for all.
RplPendingStore(n, addr) == /\ NodeBecomes(n, RplStoreFor(Node(n), addr))
                            /\ UNCHANGED <<out, air, got, bad, crashes>>
RplPendingStoreAll(n) == /\ NodeBecomes(n, RplStoreAll(Cleared(Node(n), "rpl")))
                         /\ UNCHANGED <<out, air, got, bad, crashes>>

\* seq_set: the first number nobody can have used, if what was due has been stored.
SeqSet(seq) == IF Rate > 0 THEN seq + (Rate - (seq % Rate)) - 1 ELSE seq

\* iv_val has seven bits for the duration: one that went on after IvuMin may have
\* wrapped to any value.
Durations(f) == IF f.dur < IvuMin THEN {f.dur} ELSE 0..f.dur

\* iv_set, rpl_set, mesh_commit.  A timer whose period is over is not started again.
Loaded(f, dur) == [iv |-> f.iv, ivu |-> f.ivu, dur |-> dur, timer |-> dur < IvuMin,
              deferred |-> FALSE, recovered |-> FALSE, seq |-> SeqSet(f.seq),
              rpl |-> Padded(SetToSeq(f.rpl)), reset |-> FALSE, clear |-> FALSE, pend |-> {}]

\* Power is lost, possibly in the middle of store_pending, and the node starts again.
Interrupted(s) ==
    {StorePending(s, 1, k).flash : k \in
        {j \in 0..2 : CASE j = 0 -> "nothing" \in CrashAfter /\ ("rpl" \notin s.ram.pend \/ "unsaved" \in CrashAfter)
                        [] OTHER -> Handlers[j] \in s.ram.pend /\ <<"rpl", "iv">>[j] \in CrashAfter}}
    \cup {[s.flash EXCEPT !.rpl = RplWritten(s, 1..k)] :
             k \in {j \in 1..CRPL : "rpl" \in s.ram.pend /\ "rpl" \in CrashAfter}}
Crash(n) == \E f \in Interrupted(Node(n)) : \E dur \in Durations(f) :
    /\ crashes < MaxCrashes /\ crashes' = crashes + 1
    /\ flash' = [flash EXCEPT ![n] = f]
    /\ ram' = [ram EXCEPT ![n] = Loaded(f, dur)]
    /\ out' = [out EXCEPT ![n] = {}]
    /\ UNCHANGED <<air, got, bad>>

-----------------------------------------------------------------------------
\* What Prompt assumes of the settings thread: a store without delay is done before the
\* advertiser sends the packet, before another packet is handled and before hours pass.
\* The code waits for none of this.
SeqSettled(n) == Prompt => "seq" \notin ram[n].pend
Settled(n) == Prompt => ram[n].pend \cap {"iv", "seq"} = {}

Next == \E n \in Nodes :
    \/ SegTxReset(n) \/ Beacon(n)
    \/ Settled(n) /\ IvuRefresh(n)
    \/ \E e \in Elements[n] : Encode(n, e)
    \/ SeqSettled(n) /\ Transmit(n)
    \/ Settled(n) /\ \E p \in air : Recv(n, p)
    \/ Store(n) \/ Crash(n)

Spec == Init /\ [][Next]_vars

\* An application stores one entry, or all; another thread's IV update meets an encoder;
\* the settings thread looks at the IV flag just before an update sets it.
AppStores == \E n \in Nodes : \/ RplPendingStoreAll(n)
                              \/ \E addr \in Sources : RplPendingStore(n, addr)
StoreOneSpec == Init /\ [][Next \/ AppStores]_vars
PreemptedSpec == Init /\ [][Next \/ \E n \in Nodes : \E e \in Elements[n] : EncodeLate(n, e)]_vars
StoreSeqOnly(n) == /\ "seq" \in ram[n].pend
                   /\ NodeBecomes(n, StorePending(Node(n), 3, 3))
                   /\ UNCHANGED <<out, air, got, bad, crashes>>
InterleavedSpec == Init /\ [][Next \/ \E n \in Nodes : StoreSeqOnly(n)]_vars

-----------------------------------------------------------------------------
TypeOK == /\ ram \in [Nodes -> Ram] /\ flash \in [Nodes -> Flash]
          /\ out \in [Nodes -> SUBSET Packet] /\ air \subseteq Packet
          /\ got \in [Nodes -> SUBSET Packet] /\ bad \subseteq {"nonce", "replay"}

\* No node ever transmits two packets with the same IV index and sequence number,
\* through IV updates, recoveries, resets and interrupted stores: the nonce of
\* bt_mesh_net_encrypt is unique.
NonceUnique == "nonce" \notin bad

\* No node delivers a packet twice, though packets come again at any time.
NoReplay == "replay" \notin bad

\* A packet that is newer than all a node has delivered from its source is accepted,
\* if the replay list has room: entries of earlier IV indexes do not shut out a node.
NewestOf(n, p) == \A q \in got[n] : q.src = p.src => q.iv < p.iv \/ (q.iv = p.iv /\ q.seq < p.seq)
FreshAccepted == \A n \in Nodes : \A p \in air :
    (/\ p.src \notin Elements[n] /\ Decrypts(ram[n], p) /\ NewestOf(n, p)
     /\ ~ram[n].clear /\ Candidate(ram[n], p) # {}) => RplSlot(ram[n], p) # {}
===============================================================================
