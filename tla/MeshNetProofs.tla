---------------------------- MODULE MeshNetProofs ----------------------------
(***************************************************************************)
(* Proofs about the mesh network layer, for any nodes and elements, any    *)
(* store rate, any size of the replay list, any bound and any crashes that *)
(* CrashAfter allows.                                                      *)
(*                                                                         *)
(* No nonce is used twice (NoncesUnique).  Numbers are ordered by the IV   *)
(* index a node sends with, then by the sequence number.  What was sent    *)
(* lies below the place where RAM stands, which is clear, and below the    *)
(* place where the flash would restart, which is what the handlers of      *)
(* store_pending and their order are for.                                  *)
(*                                                                         *)
(* No packet is delivered twice (NothingReplayed) and the newest one is    *)
(* never refused (NewestAccepted).  Each delivered packet that still       *)
(* decrypts is covered by an entry of its source, each entry that counts   *)
(* stands for a delivered packet, and the flash mirrors the list but for   *)
(* what is marked to be stored.                                            *)
(***************************************************************************)
EXTENDS MeshNet, FiniteSetTheorems, SequenceTheorems, TLAPS

(* What the numbers need to know of bt_mesh and of the flash.              *)
RamFields == {"iv", "ivu", "dur", "timer", "deferred", "recovered", "seq", "rpl",
              "reset", "clear", "pend"}
FlashFields == {"iv", "ivu", "dur", "seq", "rpl"}
HasNumbers(r) == r.iv \in Nat \ {0} /\ r.ivu \in BOOLEAN /\ r.seq \in Nat
IsRam(r) == DOMAIN r = RamFields /\ HasNumbers(r)
IsFlash(f) == DOMAIN f = FlashFields /\ HasNumbers(f)
Numbered == [src : Sources, iv : Nat, seq : Nat]

(* Packet p was numbered before the place iv, seq.                         *)
Below(p, iv, seq) == p.iv < iv \/ (p.iv = iv /\ p.seq < seq)

(* What is stored is what RAM holds, unless it is about to be stored.      *)
SameIv(r, f) == f.iv = r.iv /\ f.ivu = r.ivu
Saved(r, f) == /\ IviTx(f) <= IviTx(r)
               /\ "iv" \notin r.pend => SameIv(r, f)
               /\ "seq" \notin r.pend => SameIv(r, f) /\ r.seq <= SeqSet(f.seq)

(* The packets of a node with elements E that are on the air and those it  *)
(* has yet to transmit.                                                    *)
SentBelow(E, r, f, sent) ==
  \A p \in sent : p.src \in E => /\ Below(p, IviTx(r), r.seq)
                                 /\ Below(p, IviTx(f), SeqSet(f.seq))
WaitingBelow(E, r, waiting, sent) ==
  /\ \A p \in waiting : /\ p.src \in E /\ Below(p, IviTx(r), r.seq)
                        /\ \A q \in sent : q.src \in E => Below(q, p.iv, p.seq)
  /\ \A p, q \in waiting : p = q

NodeInv(E, r, f, waiting, sent) ==
  /\ IsRam(r) /\ IsFlash(f) /\ waiting \subseteq Numbered /\ sent \subseteq Numbered
  /\ Saved(r, f) /\ SentBelow(E, r, f, sent) /\ WaitingBelow(E, r, waiting, sent)

(* The inductive invariant.                                                *)
NumbersInv == /\ ram = [n \in Nodes |-> ram[n]] /\ flash = [n \in Nodes |-> flash[n]]
              /\ out = [n \in Nodes |-> out[n]]
              /\ \A n \in Nodes : NodeInv(Elements[n], ram[n], flash[n], out[n], air)
              /\ NonceUnique
-----------------------------------------------------------------------------
(* seq_set restarts at or after the number it is given.                    *)
LEMMA SeqSetType ==
  ASSUME NEW s \in Nat
  PROVE  SeqSet(s) \in Nat /\ SeqSet(s) >= s
<1>1. CASE Rate > 0
  <2>1. Rate \in Nat \ {0} /\ s % Rate \in 0..(Rate - 1)
    BY <1>1, MeshAssumption
  <2> QED BY <2>1, <1>1 DEF SeqSet
<1>2. CASE ~(Rate > 0)
  BY <1>2, MeshAssumption DEF SeqSet
<1> QED BY <1>1, <1>2

(* A number that is not due to be stored is not past the restart.          *)
LEMMA SeqSetCovers ==
  ASSUME NEW s \in Nat, NEW f \in Nat, s <= SeqSet(f), ~StoresSeq(s + 1)
  PROVE  s + 1 <= SeqSet(f)
<1>1. Rate \in Nat /\ Rate > 1 /\ (s + 1) % Rate # 0
  BY MeshAssumption DEF StoresSeq
<1>2. PICK k \in Nat : f = (k * Rate) + (f % Rate)
  <2>1. f = ((f \div Rate) * Rate) + (f % Rate) /\ f \div Rate \in Nat
    BY <1>1
  <2> QED BY <2>1
<1>3. f % Rate \in 0..(Rate - 1)
  BY <1>1
<1>4. SeqSet(f) + 1 = k * Rate + Rate
  BY <1>1, <1>2, <1>3 DEF SeqSet
<1>5. k * Rate + Rate = (k + 1) * Rate
  BY <1>1
<1>6. ((k + 1) * Rate) % Rate = 0
  BY <1>1
<1>7. s + 1 # SeqSet(f) + 1
  BY <1>1, <1>4, <1>5, <1>6
<1>8. SeqSet(f) \in Nat
  BY SeqSetType
<1> QED BY <1>7, <1>8

-----------------------------------------------------------------------------
(* What bt_mesh_net_iv_update may do to a node: nothing that counts, or    *)
(* the node sends with a later IV index, or goes on numbering with the     *)
(* same one, and both values are to be stored.                             *)
SameNumbers(r, t) == t.iv = r.iv /\ t.ivu = r.ivu /\ t.seq = r.seq
Moves(r, t) ==
  /\ r.pend \subseteq t.pend
  /\ \/ SameNumbers(r, t)
     \/ /\ "iv" \in t.pend /\ "seq" \in t.pend
        /\ IviTx(t) > IviTx(r) \/ (IviTx(t) = IviTx(r) /\ t.seq = r.seq)

LEMMA MoveKeepsInv ==
  ASSUME NEW E, NEW r, NEW t, NEW f, NEW waiting, NEW sent,
         NodeInv(E, r, f, waiting, sent), IsRam(t), Moves(r, t)
  PROVE  NodeInv(E, t, f, waiting, sent)
<1>1. /\ r.iv \in Nat /\ t.iv \in Nat /\ f.iv \in Nat /\ r.ivu \in BOOLEAN /\ t.ivu \in BOOLEAN
      /\ f.ivu \in BOOLEAN /\ r.seq \in Nat /\ t.seq \in Nat /\ f.seq \in Nat
  BY DEF NodeInv, IsRam, IsFlash, HasNumbers
<1>2. IviTx(r) \in Int /\ IviTx(t) \in Int /\ IviTx(f) \in Int
  BY <1>1 DEF IviTx
<1>3. IviTx(t) > IviTx(r) \/ (IviTx(t) = IviTx(r) /\ t.seq = r.seq)
  BY <1>1, <1>2 DEF Moves, SameNumbers, IviTx
<1>4. ASSUME NEW p \in Numbered, Below(p, IviTx(r), r.seq) PROVE Below(p, IviTx(t), t.seq)
  <2>1. p.iv \in Nat /\ p.seq \in Nat
    BY DEF Numbered
  <2> QED BY <1>1, <1>2, <1>3, <1>4, <2>1 DEF Below
<1>5. Saved(t, f)
  <2>1. CASE SameNumbers(r, t)
    BY <1>1, <2>1 DEF NodeInv, Saved, SameIv, SameNumbers, Moves, IviTx
  <2>2. CASE "iv" \in t.pend /\ "seq" \in t.pend
    BY <1>2, <1>3, <2>2 DEF NodeInv, Saved
  <2> QED BY <2>1, <2>2 DEF Moves
<1>6. SentBelow(E, t, f, sent)
  BY <1>4 DEF NodeInv, SentBelow
<1>7. WaitingBelow(E, t, waiting, sent)
  BY <1>4 DEF NodeInv, WaitingBelow
<1> QED BY <1>5, <1>6, <1>7 DEF NodeInv

LEMMA DoUpdateFacts ==
  ASSUME NEW r, IsRam(r), NEW update \in BOOLEAN
  PROVE  LET t == DoUpdate(r, update)
         IN  /\ IsRam(t) /\ t.iv = r.iv /\ t.ivu = update /\ t.seq = r.seq
             /\ t.pend = r.pend \cup {"iv", "seq"}
BY DEF DoUpdate, IsRam, HasNumbers, RamFields

LEMMA IvUpdateMoves ==
  ASSUME NEW r, IsRam(r), NEW iv \in Nat, NEW update \in BOOLEAN, NEW busy \in BOOLEAN
  PROVE  IsRam(IvUpdate(r, iv, update, busy)) /\ Moves(r, IvUpdate(r, iv, update, busy))
<1> DEFINE t == IvUpdate(r, iv, update, busy)
           recovered == [r EXCEPT !.recovered = TRUE, !.clear = TRUE, !.iv = iv, !.seq = 0,
                                  !.pend = @ \cup {"rpl"}]
           started == [RplReset(r) EXCEPT !.iv = iv, !.recovered = FALSE]
           restarted == [r EXCEPT !.seq = 0]
           ahead == iv >= r.iv /\ r.ivu # update
           up == DoUpdate(started, update)
           back == DoUpdate(restarted, update)
           far == DoUpdate(recovered, update)
<1>0. r.iv \in Nat /\ r.iv > 0 /\ r.ivu \in BOOLEAN /\ r.seq \in Nat /\ DOMAIN r = RamFields
  BY DEF IsRam, HasNumbers
<1>7. \/ t = r \/ t = [r EXCEPT !.deferred = TRUE]
      \/ iv >= r.iv /\ Missed(r, iv, update) /\ t = far
      \/ ahead /\ iv # r.iv /\ ~Missed(r, iv, update) /\ update /\ t = up
      \/ ahead /\ ~update /\ t = back
  <2> HIDE DEF up, back, far
  <2> QED BY <1>0 DEF IvUpdate, up, back, far
<1> SUFFICES IsRam(t) /\ Moves(r, t)
  OBVIOUS
<1> HIDE DEF t
<1>1. CASE t = r
  BY <1>1 DEF Moves, SameNumbers
<1>2. CASE t = [r EXCEPT !.deferred = TRUE]
  BY <1>0, <1>2 DEF Moves, SameNumbers, IsRam, HasNumbers, RamFields
<1>3. CASE iv >= r.iv /\ Missed(r, iv, update) /\ t = far
  <2>1. IsRam(recovered) /\ recovered.iv = iv /\ recovered.pend = r.pend \cup {"rpl"}
    BY <1>0, <1>3 DEF IsRam, HasNumbers, RamFields
  <2> HIDE DEF recovered
  <2>2. IsRam(t) /\ t.iv = iv /\ t.ivu = update /\ t.pend = r.pend \cup {"rpl", "iv", "seq"}
    BY <1>3, <2>1, DoUpdateFacts
  <2>3. IviTx(t) > IviTx(r)
    BY <1>0, <1>3, <2>2 DEF Missed, IviTx
  <2> QED BY <2>2, <2>3 DEF Moves
<1>4. CASE ahead /\ iv # r.iv /\ ~Missed(r, iv, update) /\ update /\ t = up
  <2>1. PICK x : RplReset(r) = [r EXCEPT !.reset = TRUE, !.pend = @ \cup {"rpl"}, !.rpl = x]
    BY DEF RplReset
  <2>2. /\ IsRam(started) /\ started.iv = iv /\ started.seq = r.seq /\ started.pend = r.pend \cup {"rpl"}
    BY <1>0, <1>4, <2>1 DEF IsRam, HasNumbers, RamFields
  <2> HIDE DEF started
  <2>3. /\ IsRam(t) /\ t.iv = iv /\ t.ivu = update /\ t.seq = r.seq
        /\ t.pend = r.pend \cup {"rpl", "iv", "seq"}
    <3>1. t = DoUpdate(started, update)
      BY <1>4
    <3>2. /\ IsRam(t) /\ t.iv = started.iv /\ t.ivu = update /\ t.seq = started.seq
          /\ t.pend = started.pend \cup {"iv", "seq"}
      BY ONLY <2>2, <3>1, update \in BOOLEAN, DoUpdateFacts, Zenon
    <3> QED BY <2>2, <3>2
  <2>4. iv = r.iv + 1 /\ ~r.ivu
    BY <1>0, <1>4 DEF Missed
  <2>5. IviTx(t) = iv - 1 /\ IviTx(r) = r.iv
    BY <1>4, <2>3, <2>4 DEF IviTx
  <2> QED BY <1>0, <2>3, <2>4, <2>5 DEF Moves
<1>5. CASE ahead /\ ~update /\ t = back
  <2>1. /\ IsRam(restarted) /\ restarted.iv = r.iv /\ restarted.pend = r.pend
    BY <1>0 DEF IsRam, HasNumbers, RamFields
  <2> HIDE DEF restarted
  <2>2. IsRam(t) /\ t.iv = r.iv /\ t.ivu = update /\ t.pend = r.pend \cup {"iv", "seq"}
    BY <1>5, <2>1, DoUpdateFacts
  <2>3. IviTx(t) > IviTx(r)
    BY <1>0, <1>5, <2>2 DEF IviTx
  <2> QED BY <2>2, <2>3 DEF Moves
<1> QED BY <1>1, <1>2, <1>3, <1>4, <1>5, <1>7

(* A node that begins an IV update goes on with its numbers.               *)
LEMMA StartGoesOn ==
  ASSUME NEW r, IsRam(r), ~r.ivu, NEW update \in BOOLEAN, update, NEW busy,
         NEW t, t = IvUpdate(r, r.iv + 1, update, busy)
  PROVE  IviTx(t) = IviTx(r) /\ t.seq = r.seq
<1> DEFINE started == [RplReset(r) EXCEPT !.iv = r.iv + 1, !.recovered = FALSE]
           up == DoUpdate(started, update)
<1>1. r.iv \in Nat /\ r.iv > 0 /\ DOMAIN r = RamFields
  BY DEF IsRam, HasNumbers
<1>2. t = r \/ t = up
  <2>1. ~Missed(r, r.iv + 1, update)
    BY <1>1 DEF Missed
  <2>2. ~(r.iv + 1 < r.iv \/ r.iv + 1 > r.iv + 42 \/ (r.iv + 1 = r.iv /\ update))
    BY <1>1
  <2> HIDE DEF up
  <2> QED BY <2>1, <2>2 DEF IvUpdate, up
<1>3. PICK x : RplReset(r) = [r EXCEPT !.reset = TRUE, !.pend = @ \cup {"rpl"}, !.rpl = x]
  BY DEF RplReset
<1>4. IsRam(started) /\ started.iv = r.iv + 1 /\ started.seq = r.seq
  BY <1>1, <1>3 DEF IsRam, HasNumbers, RamFields
<1> HIDE DEF started
<1>5. CASE t = up
  <2>1. t.iv = r.iv + 1 /\ t.ivu = TRUE /\ t.seq = r.seq
    <3>1. /\ up.iv = started.iv /\ up.ivu = update /\ up.seq = started.seq
      BY <1>4, DoUpdateFacts, Zenon
    <3> HIDE DEF up
    <3> QED BY <1>4, <1>5, <3>1
  <2>2. IviTx(t) = r.iv + 1 - 1
    BY ONLY <1>1, <2>1 DEF IviTx
  <2>3. IviTx(r) = r.iv
    BY DEF IviTx
  <2> QED BY ONLY <1>1, <2>1, <2>2, <2>3
<1> QED BY <1>2, <1>5

(* bt_mesh_next_seq: the number is used up, and what is not covered by the *)
(* flash is to be stored.                                                  *)
LEMMA NextSeqFacts ==
  ASSUME NEW r, IsRam(r), NEW t, t = NextSeq(r)
  PROVE  /\ IsRam(t) /\ IviTx(t) = IviTx(r) /\ t.seq = r.seq + 1 /\ r.pend \subseteq t.pend
         /\ "iv" \notin t.pend => t.iv = r.iv /\ t.ivu = r.ivu
         /\ "seq" \notin t.pend => t.iv = r.iv /\ t.ivu = r.ivu /\ ~StoresSeq(r.seq + 1)
<1> DEFINE q == [r EXCEPT !.seq = @ + 1, !.pend = @ \cup (IF StoresSeq(r.seq + 1) THEN {"seq"} ELSE {})]
<1>1. /\ IsRam(q) /\ q.iv = r.iv /\ q.ivu = r.ivu /\ q.seq = r.seq + 1 /\ r.pend \subseteq q.pend
      /\ "seq" \notin q.pend => ~StoresSeq(r.seq + 1)
  BY DEF IsRam, HasNumbers, RamFields
<1>2. t = IF ~q.ivu /\ q.seq > SeqLimit /\ q.iv < MaxIv THEN IvUpdate(q, q.iv + 1, TRUE, FALSE) ELSE q
  BY DEF NextSeq
<1> HIDE DEF q
<1>3. IviTx(q) = IviTx(r)
  BY <1>1 DEF IviTx
<1>4. CASE ~q.ivu /\ t = IvUpdate(q, q.iv + 1, TRUE, FALSE)
  <2>1. IviTx(t) = IviTx(q) /\ t.seq = q.seq
    BY <1>1, <1>4, StartGoesOn
  <2>2. q.iv + 1 \in Nat
    BY <1>1 DEF IsRam, HasNumbers
  <2>3. IsRam(t) /\ Moves(q, t)
    BY <1>1, <1>4, <2>2, IvUpdateMoves
  <2> QED BY <1>1, <1>3, <2>1, <2>3 DEF Moves, SameNumbers
<1>5. CASE t = q
  BY <1>1, <1>3, <1>5
<1> QED BY <1>2, <1>4, <1>5
-----------------------------------------------------------------------------
(* Steps that only move one node.                                          *)
LEMMA MoveStep ==
  ASSUME NumbersInv, NEW n \in Nodes, NEW t, ram' = [ram EXCEPT ![n] = t],
         IsRam(t), Moves(ram[n], t), UNCHANGED <<flash, out, air>>, NonceUnique'
  PROVE  NumbersInv'
<1>1. ASSUME NEW m \in Nodes
      PROVE  NodeInv(Elements[m], ram'[m], flash'[m], out'[m], air')
  <2>1. NodeInv(Elements[m], ram[m], flash[m], out[m], air)
    BY DEF NumbersInv
  <2>2. CASE m = n
    <3>1. ram'[m] = t
      BY <2>2 DEF NumbersInv
    <3> QED BY <2>1, <2>2, <3>1, MoveKeepsInv
  <2>3. CASE m # n
    BY <2>1, <2>3 DEF NumbersInv
  <2> QED BY <2>2, <2>3
<1> QED BY <1>1 DEF NumbersInv

LEMMA SameThenMoves ==
  ASSUME NEW r, NEW s, NEW t, r.pend \subseteq s.pend, SameNumbers(r, s), Moves(s, t)
  PROVE  Moves(r, t)
BY DEF Moves, SameNumbers, IviTx

LEMMA IvuRefreshStep ==
  ASSUME NumbersInv, NEW n \in Nodes, IvuRefresh(n)
  PROVE  NumbersInv'
<1> DEFINE r == [ram[n] EXCEPT !.dur = IF @ < Ripe(ram[n]) THEN @ + 1 ELSE @]
<1>1. IsRam(ram[n])
  BY DEF NumbersInv, NodeInv
<1>2. IsRam(r) /\ ram[n].pend \subseteq r.pend /\ SameNumbers(ram[n], r)
  BY <1>1 DEF IsRam, HasNumbers, RamFields, SameNumbers
<1>3. PICK busy \in Busy(n) :
        ram' = [ram EXCEPT ![n] = IF r.dur >= IvuMin /\ r.ivu THEN IvUpdate(r, r.iv, FALSE, busy)
                                  ELSE [r EXCEPT !.pend = @ \cup {"iv"}]]
  BY DEF IvuRefresh
<1>4. UNCHANGED <<flash, out, air, bad>>
  BY DEF IvuRefresh
<1>5. busy \in BOOLEAN
  BY <1>3 DEF Busy
<1> HIDE DEF r
<1>6. CASE ram' = [ram EXCEPT ![n] = IvUpdate(r, r.iv, FALSE, busy)]
  <2>1. r.iv \in Nat
    BY <1>2 DEF IsRam, HasNumbers
  <2>2. IsRam(IvUpdate(r, r.iv, FALSE, busy)) /\ Moves(r, IvUpdate(r, r.iv, FALSE, busy))
    BY <1>2, <1>5, <2>1, IvUpdateMoves
  <2>3. Moves(ram[n], IvUpdate(r, r.iv, FALSE, busy))
    BY <1>2, <2>2, SameThenMoves
  <2>4. NonceUnique'
    BY <1>4 DEF NumbersInv, NonceUnique
  <2> QED BY <1>4, <1>6, <2>2, <2>3, <2>4, MoveStep
<1>7. CASE ram' = [ram EXCEPT ![n] = [r EXCEPT !.pend = @ \cup {"iv"}]]
  <2> DEFINE t == [r EXCEPT !.pend = @ \cup {"iv"}]
  <2>1. IsRam(t) /\ Moves(r, t)
    BY <1>2 DEF IsRam, HasNumbers, RamFields, Moves, SameNumbers
  <2>2. ram' = [ram EXCEPT ![n] = t]
    BY <1>7
  <2> HIDE DEF t
  <2>3. Moves(ram[n], t)
    BY <1>2, <2>1, SameThenMoves
  <2>4. NonceUnique'
    BY <1>4 DEF NumbersInv, NonceUnique
  <2> QED BY <1>4, <2>1, <2>2, <2>3, <2>4, MoveStep
<1> QED BY <1>3, <1>6, <1>7

LEMMA SegTxResetStep ==
  ASSUME NumbersInv, NEW n \in Nodes, SegTxReset(n)
  PROVE  NumbersInv'
<1> DEFINE r == [ram[n] EXCEPT !.deferred = FALSE]
<1>1. IsRam(ram[n]) /\ ram = [m \in Nodes |-> ram[m]]
  BY DEF NumbersInv, NodeInv
<1>2. IsRam(r) /\ ram[n].pend \subseteq r.pend /\ SameNumbers(ram[n], r)
  BY <1>1 DEF IsRam, HasNumbers, RamFields, SameNumbers
<1>3. PICK busy \in Busy(n) : ram' = [ram EXCEPT ![n] = IvUpdate([@ EXCEPT !.deferred = FALSE], ram[n].iv, FALSE, busy)]
  BY DEF SegTxReset
<1> DEFINE t == IvUpdate(r, ram[n].iv, FALSE, busy)
<1>4. ram' = [ram EXCEPT ![n] = t]
  BY <1>1, <1>3
<1>5. busy \in BOOLEAN /\ ram[n].iv \in Nat
  BY <1>1, <1>3 DEF Busy, IsRam, HasNumbers
<1>6. UNCHANGED <<flash, out, air, bad>> /\ NonceUnique'
  BY DEF SegTxReset, NumbersInv, NonceUnique
<1> HIDE DEF r
<1>7. IsRam(t) /\ Moves(r, t)
  BY <1>2, <1>5, IvUpdateMoves
<1> HIDE DEF t
<1>8. Moves(ram[n], t)
  BY <1>2, <1>7, SameThenMoves
<1> QED BY <1>4, <1>6, <1>7, <1>8, MoveStep

LEMMA BeaconStep ==
  ASSUME NumbersInv, NEW n \in Nodes, Beacon(n)
  PROVE  NumbersInv'
<1>1. IsRam(ram[n]) /\ ram = [m \in Nodes |-> ram[m]]
  BY DEF NumbersInv, NodeInv
<1>2. PICK b \in Heard(n), busy \in Busy(n) : ram' = [ram EXCEPT ![n] = IvUpdate(@, b[1], b[2], busy)]
  BY DEF Beacon
<1>3. b[1] \in Nat /\ b[2] \in BOOLEAN
  <2>1. CASE b \in {<<ram[m].iv, ram[m].ivu>> : m \in Nodes \ {n}}
    <3>1. PICK m \in Nodes : b = <<ram[m].iv, ram[m].ivu>>
      BY <2>1
    <3> QED BY <3>1 DEF NumbersInv, NodeInv, IsRam, HasNumbers
  <2>2. CASE b \in (1..MaxIv) \X BOOLEAN
    BY <2>2, MeshAssumption
  <2> QED BY <1>2, <2>1, <2>2 DEF Heard
<1>4. busy \in BOOLEAN
  BY <1>2 DEF Busy
<1> DEFINE t == IvUpdate(ram[n], b[1], b[2], busy)
<1>5. ram' = [ram EXCEPT ![n] = t]
  BY <1>1, <1>2
<1>6. IsRam(t) /\ Moves(ram[n], t)
  BY <1>1, <1>3, <1>4, IvUpdateMoves
<1>7. UNCHANGED <<flash, out, air, bad>> /\ NonceUnique'
  BY DEF Beacon, NumbersInv, NonceUnique
<1> HIDE DEF t
<1> QED BY <1>5, <1>6, <1>7, MoveStep

LEMMA RecvStep ==
  ASSUME NumbersInv, NEW n \in Nodes, NEW p, Recv(n, p)
  PROVE  NumbersInv'
<1>1. IsRam(ram[n]) /\ ram = [m \in Nodes |-> ram[m]]
  BY DEF NumbersInv, NodeInv
<1>2. PICK i : ram' = [ram EXCEPT ![n] = RplUpdate(@, i, p)]
  BY DEF Recv
<1>3. PICK x : RplUpdate(ram[n], i, p) = [ram[n] EXCEPT !.rpl = x, !.pend = @ \cup RplScheduled]
  BY DEF RplUpdate
<1> DEFINE t == [ram[n] EXCEPT !.rpl = x, !.pend = @ \cup RplScheduled]
<1>4. ram' = [ram EXCEPT ![n] = t]
  BY <1>1, <1>2, <1>3
<1>5. IsRam(t) /\ Moves(ram[n], t)
  BY <1>1 DEF IsRam, HasNumbers, RamFields, Moves, SameNumbers, RplScheduled
<1>6. UNCHANGED <<flash, out, air>> /\ NonceUnique'
  BY DEF Recv, Deliver, NumbersInv, NonceUnique
<1> HIDE DEF t
<1> QED BY <1>4, <1>5, <1>6, MoveStep
-----------------------------------------------------------------------------
(* bt_mesh_net_encode: the new packet is above all that was sent, below    *)
(* the next one, and transmitted only when the flash covers it.            *)
LEMMA EncodeStep ==
  ASSUME NumbersInv, NEW n \in Nodes, NEW e \in Elements[n], Encode(n, e)
  PROVE  NumbersInv'
<1> DEFINE r == ram[n]
           t == NextSeq(r)
           p == [src |-> e, iv |-> IviTx(t), seq |-> r.seq]
<1>1. /\ NodeInv(Elements[n], r, flash[n], out[n], air) /\ IsRam(r) /\ IsFlash(flash[n])
      /\ ram = [m \in Nodes |-> ram[m]] /\ out = [m \in Nodes |-> out[m]]
  BY DEF NumbersInv, NodeInv
<1>2. ram' = [ram EXCEPT ![n] = t] /\ out' = [out EXCEPT ![n] = {p}]
  <2>1. ram' = [ram EXCEPT ![n] = t]
    BY <1>1 DEF Encode
  <2>2. ram'[n] = t
    BY <1>1, <2>1
  <2> QED BY <2>1, <2>2 DEF Encode
<1>3. UNCHANGED <<flash, air, bad>> /\ NonceUnique'
  BY DEF Encode, NumbersInv, NonceUnique
<1>4. /\ IsRam(t) /\ IviTx(t) = IviTx(r) /\ t.seq = r.seq + 1 /\ r.pend \subseteq t.pend
      /\ "iv" \notin t.pend => t.iv = r.iv /\ t.ivu = r.ivu
      /\ "seq" \notin t.pend => t.iv = r.iv /\ t.ivu = r.ivu /\ ~StoresSeq(r.seq + 1)
  BY <1>1, NextSeqFacts
<1>5. /\ r.iv \in Nat \ {0} /\ r.ivu \in BOOLEAN /\ r.seq \in Nat /\ flash[n].seq \in Nat
      /\ flash[n].iv \in Nat /\ flash[n].ivu \in BOOLEAN
  BY <1>1 DEF IsRam, IsFlash, HasNumbers
<1>6. IviTx(r) \in Nat
  BY <1>5 DEF IviTx
<1> HIDE DEF t, r
<1>7. NodeInv(Elements[n], t, flash[n], {p}, air)
  <2>1. p \in Numbered /\ p.src = e /\ p.iv = IviTx(r) /\ p.seq = r.seq
    BY <1>4, <1>5, <1>6 DEF Numbered, Sources
  <2> HIDE DEF p
  <2>2. Below(p, IviTx(t), t.seq)
    BY <1>4, <1>5, <1>6, <2>1 DEF Below
  <2>3. ASSUME NEW q \in air, q.src \in Elements[n]
        PROVE  Below(q, p.iv, p.seq) /\ Below(q, IviTx(t), t.seq)
    <3>1. q.iv \in Nat /\ q.seq \in Nat
      BY <1>1 DEF NodeInv, Numbered
    <3>2. Below(q, IviTx(r), r.seq)
      BY <1>1, <2>3 DEF NodeInv, SentBelow
    <3> QED BY <1>4, <1>5, <1>6, <2>1, <3>1, <3>2 DEF Below
  <2>4. Saved(t, flash[n])
    <3>1. Saved(r, flash[n])
      BY <1>1 DEF NodeInv
    <3>2. ASSUME "seq" \notin t.pend PROVE SameIv(t, flash[n]) /\ t.seq <= SeqSet(flash[n].seq)
      <4>1. SameIv(r, flash[n]) /\ r.seq <= SeqSet(flash[n].seq)
        BY <1>4, <3>1, <3>2 DEF Saved
      <4>2. r.seq + 1 <= SeqSet(flash[n].seq)
        BY <1>4, <1>5, <3>2, <4>1, SeqSetCovers
      <4> QED BY <1>4, <3>2, <4>1, <4>2 DEF SameIv
    <3>3. ASSUME "iv" \notin t.pend PROVE SameIv(t, flash[n])
      BY <1>4, <3>1, <3>3 DEF Saved, SameIv
    <3> QED BY <1>4, <3>1, <3>2, <3>3 DEF Saved
  <2>5. SentBelow(Elements[n], t, flash[n], air)
    BY <1>1, <2>3 DEF NodeInv, SentBelow
  <2>6. WaitingBelow(Elements[n], t, {p}, air)
    BY <2>1, <2>2, <2>3 DEF WaitingBelow
  <2> QED BY <1>1, <1>4, <2>1, <2>4, <2>5, <2>6 DEF NodeInv
<1> HIDE DEF p
<1>8. ASSUME NEW m \in Nodes
      PROVE  NodeInv(Elements[m], ram'[m], flash'[m], out'[m], air')
  <2>1. CASE m = n
    BY <1>1, <1>2, <1>3, <1>7, <2>1
  <2>2. CASE m # n
    BY <1>1, <1>2, <1>3, <2>2 DEF NumbersInv
  <2> QED BY <2>1, <2>2
<1> QED BY <1>1, <1>2, <1>3, <1>8 DEF NumbersInv

(* The packet leaves.  This is where a nonce would be used again.          *)
LEMMA TransmitStep ==
  ASSUME NumbersInv, NEW n \in Nodes, "seq" \notin ram[n].pend, Transmit(n)
  PROVE  NumbersInv'
<1>1. PICK p \in out[n] : /\ air' = air \cup {p} /\ out' = [out EXCEPT ![n] = @ \ {p}]
                          /\ bad' = IF p \in air THEN bad \cup {"nonce"} ELSE bad
  BY DEF Transmit
<1>2. UNCHANGED <<ram, flash>>
  BY DEF Transmit
<1>3. NodeInv(Elements[n], ram[n], flash[n], out[n], air)
  BY DEF NumbersInv
<1>4. /\ p.src \in Elements[n] /\ Below(p, IviTx(ram[n]), ram[n].seq) /\ p \in Numbered
      /\ \A q \in air : q.src \in Elements[n] => Below(q, p.iv, p.seq)
      /\ out[n] \ {p} = {}
  BY <1>3 DEF NodeInv, WaitingBelow
<1>5. p.iv \in Nat /\ p.seq \in Nat
  BY <1>4 DEF Numbered
<1>6. p \notin air
  BY <1>4, <1>5 DEF Below
<1>7. Below(p, IviTx(flash[n]), SeqSet(flash[n].seq))
  <2>1. SameIv(ram[n], flash[n]) /\ ram[n].seq <= SeqSet(flash[n].seq)
    BY <1>1, <1>3 DEF NodeInv, Saved
  <2>2. IviTx(flash[n]) = IviTx(ram[n])
    BY <2>1 DEF SameIv, IviTx
  <2>3. SeqSet(flash[n].seq) \in Nat /\ ram[n].seq \in Nat
    BY <1>3, SeqSetType DEF NodeInv, IsRam, IsFlash, HasNumbers
  <2> QED BY <1>4, <1>5, <2>1, <2>2, <2>3 DEF Below
<1>8. ASSUME NEW m \in Nodes
      PROVE  NodeInv(Elements[m], ram'[m], flash'[m], out'[m], air')
  <2>1. CASE m = n
    <3>1. out'[n] = {}
      BY <1>1, <1>4 DEF NumbersInv
    <3>2. NodeInv(Elements[n], ram[n], flash[n], {}, air \cup {p})
      BY <1>3, <1>4, <1>7 DEF NodeInv, SentBelow, WaitingBelow
    <3> QED BY <1>1, <1>2, <2>1, <3>1, <3>2
  <2>2. CASE m # n
    <3>1. p.src \notin Elements[m]
      BY <1>4, <2>2, MeshAssumption
    <3>2. out'[m] = out[m] /\ NodeInv(Elements[m], ram[m], flash[m], out[m], air)
      BY <1>1, <2>2 DEF NumbersInv
    <3>3. NodeInv(Elements[m], ram[m], flash[m], out[m], air \cup {p})
      BY <1>4, <3>1, <3>2 DEF NodeInv, SentBelow, WaitingBelow
    <3> QED BY <1>1, <1>2, <3>2, <3>3
  <2> QED BY <2>1, <2>2
<1>9. NonceUnique'
  BY <1>1, <1>6 DEF NumbersInv, NonceUnique
<1> QED BY <1>1, <1>2, <1>8, <1>9 DEF NumbersInv

-----------------------------------------------------------------------------
(* store_pending, handler by handler: what a node is, s, keeps its numbers *)
(* and the stored ones follow.                                             *)
IsNode(s) == DOMAIN s = {"ram", "flash"} /\ IsRam(s.ram) /\ IsFlash(s.flash)
Stores(s, t, h) ==
  /\ IsNode(t) /\ SameNumbers(s.ram, t.ram) /\ t.ram.pend = s.ram.pend \ {h}
  /\ IF h = "iv" /\ h \in s.ram.pend
     THEN t.flash.iv = s.ram.iv /\ t.flash.ivu = s.ram.ivu
     ELSE t.flash.iv = s.flash.iv /\ t.flash.ivu = s.flash.ivu
  /\ t.flash.seq = IF h = "seq" /\ h \in s.ram.pend THEN s.ram.seq ELSE s.flash.seq

LEMMA HandledStores ==
  ASSUME NEW s, IsNode(s), NEW h \in {"rpl", "iv", "seq"}
  PROVE  Stores(s, Handled(s, h), h)
<1> DEFINE u == [s EXCEPT !.ram.pend = @ \ {h}]
<1>1. /\ IsNode(u) /\ u.flash = s.flash /\ SameNumbers(s.ram, u.ram)
      /\ u.ram.pend = s.ram.pend \ {h}
  BY DEF IsNode, IsRam, HasNumbers, RamFields, SameNumbers
<1>2. u = Cleared(s, h)
  BY DEF Cleared
<1> HIDE DEF u
<1>3. CASE h \notin s.ram.pend
  <2>1. s.ram.pend = s.ram.pend \ {h} /\ Handled(s, h) = s
    BY <1>3 DEF Handled
  <2> QED BY <1>3, <2>1 DEF Stores, SameNumbers
<1>4. CASE h \in s.ram.pend /\ h = "rpl"
  <2>1. Handled(s, h) = RplStoreAll(u)
    BY <1>2, <1>4 DEF Handled
  <2>2. \E x, y : RplStoreAll(u) = [ram |-> [u.ram EXCEPT !.reset = FALSE, !.clear = FALSE, !.rpl = x],
                                    flash |-> [u.flash EXCEPT !.rpl = y]]
    BY DEF RplStoreAll
  <2>3. PICK x, y : Handled(s, h) = [ram |-> [u.ram EXCEPT !.reset = FALSE, !.clear = FALSE, !.rpl = x],
                                     flash |-> [u.flash EXCEPT !.rpl = y]]
    BY <2>1, <2>2
  <2> DEFINE t == Handled(s, h)
  <2>4. /\ t.ram = [u.ram EXCEPT !.reset = FALSE, !.clear = FALSE, !.rpl = x]
        /\ t.flash = [u.flash EXCEPT !.rpl = y] /\ DOMAIN t = {"ram", "flash"}
    BY <2>3
  <2> HIDE DEF t
  <2>5. IsRam(t.ram) /\ SameNumbers(u.ram, t.ram) /\ t.ram.pend = u.ram.pend
    BY <1>1, <2>4 DEF IsNode, IsRam, HasNumbers, RamFields, SameNumbers
  <2>6. IsFlash(t.flash) /\ t.flash.iv = u.flash.iv /\ t.flash.ivu = u.flash.ivu /\ t.flash.seq = u.flash.seq
    BY <1>1, <2>4 DEF IsNode, IsFlash, HasNumbers, FlashFields
  <2>7. Stores(s, t, h)
    BY <1>1, <1>4, <2>4, <2>5, <2>6 DEF Stores, IsNode, SameNumbers
  <2> QED BY <2>7 DEF t
<1>5. CASE h \in s.ram.pend /\ h = "iv"
  <2>1. Handled(s, h) = [u EXCEPT !.flash.iv = u.ram.iv, !.flash.ivu = u.ram.ivu, !.flash.dur = u.ram.dur]
    BY <1>2, <1>5 DEF Handled
  <2> DEFINE t == Handled(s, h)
  <2>2. /\ t.ram = u.ram /\ DOMAIN t = {"ram", "flash"}
        /\ t.flash = [u.flash EXCEPT !.iv = u.ram.iv, !.ivu = u.ram.ivu, !.dur = u.ram.dur]
    BY <1>1, <2>1 DEF IsNode, IsFlash, FlashFields
  <2> HIDE DEF t
  <2>3. /\ IsFlash(t.flash) /\ t.flash.iv = u.ram.iv /\ t.flash.ivu = u.ram.ivu
        /\ t.flash.seq = u.flash.seq
    BY <1>1, <2>2 DEF IsNode, IsRam, IsFlash, HasNumbers, FlashFields
  <2>4. Stores(s, t, h)
    BY <1>1, <1>5, <2>2, <2>3 DEF Stores, IsNode, SameNumbers
  <2> QED BY <2>4 DEF t
<1>6. CASE h \in s.ram.pend /\ h = "seq"
  <2>1. Handled(s, h) = [u EXCEPT !.flash.seq = u.ram.seq]
    BY <1>2, <1>6 DEF Handled
  <2> QED BY <1>1, <1>6, <2>1 DEF Stores, IsNode, IsRam, IsFlash, HasNumbers, RamFields, FlashFields, SameNumbers
<1> QED BY <1>3, <1>4, <1>5, <1>6

(* Each handler keeps the numbers in order, the last one because the IV    *)
(* index was stored before it.                                             *)
Ordered(E, s, waiting, sent) == IsNode(s) /\ NodeInv(E, s.ram, s.flash, waiting, sent)

LEMMA StoresKeepInv ==
  ASSUME NEW E, NEW waiting, NEW sent, NEW s, NEW t, NEW h, Ordered(E, s, waiting, sent),
         Stores(s, t, h), h = "seq" => "iv" \notin s.ram.pend
  PROVE  Ordered(E, t, waiting, sent)
<1> DEFINE r == s.ram
           f == s.flash
           g == t.flash
<1>1. /\ r.iv \in Nat /\ r.ivu \in BOOLEAN /\ r.seq \in Nat /\ f.seq \in Nat /\ g.seq \in Nat
      /\ f.iv \in Nat /\ f.ivu \in BOOLEAN /\ g.iv \in Nat /\ g.ivu \in BOOLEAN
  BY DEF Ordered, Stores, IsNode, IsRam, IsFlash, HasNumbers
<1>2. IviTx(r) \in Int /\ IviTx(f) \in Int /\ IviTx(g) \in Int /\ IviTx(t.ram) = IviTx(r)
  BY <1>1 DEF IviTx, Stores, SameNumbers
<1>3. SeqSet(f.seq) \in Nat /\ SeqSet(r.seq) \in Nat /\ SeqSet(r.seq) >= r.seq /\ SeqSet(g.seq) \in Nat
  BY <1>1, SeqSetType
<1>4. Saved(r, f) /\ SentBelow(E, r, f, sent) /\ WaitingBelow(E, r, waiting, sent)
      /\ waiting \subseteq Numbered /\ sent \subseteq Numbered
  BY DEF Ordered, NodeInv
<1>5. /\ t.ram.iv = r.iv /\ t.ram.ivu = r.ivu /\ t.ram.seq = r.seq /\ t.ram.pend = r.pend \ {h}
      /\ IsRam(t.ram) /\ IsFlash(g) /\ IsNode(t)
  BY DEF Stores, SameNumbers, IsNode
<1>6. Saved(t.ram, g) /\ SentBelow(E, t.ram, g, sent)
  <2>1. CASE h = "iv" /\ h \in r.pend
    <3>1. g.iv = r.iv /\ g.ivu = r.ivu /\ g.seq = f.seq
      BY <2>1 DEF Stores
    <3>2. IviTx(g) = IviTx(r)
      BY <3>1 DEF IviTx
    <3> HIDE DEF r, f, g
    <3>3. Saved(t.ram, g)
      BY <1>2, <1>4, <1>5, <2>1, <3>1, <3>2 DEF Saved, SameIv
    <3>4. ASSUME NEW p \in sent, p.src \in E PROVE Below(p, IviTx(g), SeqSet(g.seq))
      <4>1. p.iv \in Nat /\ p.seq \in Nat /\ Below(p, IviTx(f), SeqSet(f.seq)) /\ IviTx(f) <= IviTx(r)
        BY <1>4, <3>4 DEF Numbered, SentBelow, Saved
      <4> QED BY <1>2, <1>3, <3>1, <3>2, <4>1 DEF Below
    <3> QED BY <1>2, <1>4, <1>5, <3>3, <3>4 DEF SentBelow
  <2>2. CASE h = "seq" /\ h \in r.pend
    <3>1. g.iv = f.iv /\ g.ivu = f.ivu /\ g.seq = r.seq
      BY <2>2 DEF Stores
    <3>2. SameIv(r, f) /\ IviTx(g) = IviTx(r)
      BY <1>4, <2>2, <3>1 DEF Saved, SameIv, IviTx
    <3> HIDE DEF r, f, g
    <3>3. Saved(t.ram, g)
      BY <1>2, <1>3, <1>5, <3>1, <3>2 DEF Saved, SameIv
    <3>4. ASSUME NEW p \in sent, p.src \in E PROVE Below(p, IviTx(g), SeqSet(g.seq))
      <4>1. p.iv \in Nat /\ p.seq \in Nat /\ Below(p, IviTx(r), r.seq)
        BY <1>4, <3>4 DEF Numbered, SentBelow
      <4> QED BY <1>1, <1>2, <1>3, <3>1, <3>2, <4>1 DEF Below
    <3> QED BY <1>2, <1>4, <1>5, <3>3, <3>4 DEF SentBelow
  <2>3. CASE ~(h \in {"iv", "seq"} /\ h \in r.pend)
    <3>1. g.iv = f.iv /\ g.ivu = f.ivu /\ g.seq = f.seq
      BY <2>3 DEF Stores
    <3>2. IviTx(g) = IviTx(f) /\ ("iv" \in t.ram.pend <=> "iv" \in r.pend)
                             /\ ("seq" \in t.ram.pend <=> "seq" \in r.pend)
      BY <1>5, <2>3, <3>1 DEF IviTx
    <3> HIDE DEF r, f, g
    <3> QED BY <1>2, <1>4, <1>5, <3>1, <3>2 DEF Saved, SameIv, SentBelow
  <2> QED BY <2>1, <2>2, <2>3
<1>7. WaitingBelow(E, t.ram, waiting, sent)
  BY <1>2, <1>4, <1>5 DEF WaitingBelow
<1> QED BY <1>4, <1>5, <1>6, <1>7 DEF Ordered, NodeInv

LEMMA StorePendingSteps ==
  ASSUME NEW s
  PROVE  /\ StorePending(s, 1, 0) = s
         /\ StorePending(s, 1, 1) = Handled(s, "rpl")
         /\ StorePending(s, 1, 2) = Handled(Handled(s, "rpl"), "iv")
         /\ StorePending(s, 1, 3) = Handled(Handled(Handled(s, "rpl"), "iv"), "seq")
<1>1. Handlers[1] = "rpl" /\ Handlers[2] = "iv" /\ Handlers[3] = "seq"
  BY DEF Handlers
<1> QED BY <1>1 DEF StorePending

LEMMA StorePendingOrdered ==
  ASSUME NEW E, NEW waiting, NEW sent, NEW s, Ordered(E, s, waiting, sent), NEW k \in 0..3
  PROVE  Ordered(E, StorePending(s, 1, k), waiting, sent)
<1> DEFINE a == Handled(s, "rpl")
           b == Handled(a, "iv")
           c == Handled(b, "seq")
<1>1. Ordered(E, a, waiting, sent)
  <2>1. Stores(s, a, "rpl")
    BY HandledStores DEF Ordered
  <2> HIDE DEF a
  <2> QED BY <2>1, StoresKeepInv
<1> HIDE DEF a
<1>2. Ordered(E, b, waiting, sent) /\ "iv" \notin b.ram.pend
  <2>1. Stores(a, b, "iv")
    BY <1>1, HandledStores DEF Ordered
  <2> HIDE DEF b
  <2> QED BY <1>1, <2>1, StoresKeepInv DEF Stores
<1> HIDE DEF b
<1>3. Ordered(E, c, waiting, sent)
  <2>1. Stores(b, c, "seq")
    BY <1>2, HandledStores DEF Ordered
  <2> HIDE DEF c
  <2> QED BY <1>2, <2>1, StoresKeepInv
<1> HIDE DEF c
<1>4. /\ StorePending(s, 1, 0) = s /\ StorePending(s, 1, 1) = a
      /\ StorePending(s, 1, 2) = b /\ StorePending(s, 1, 3) = c
  BY StorePendingSteps DEF a, b, c
<1>5. k = 0 \/ k = 1 \/ k = 2 \/ k = 3
  OBVIOUS
<1> QED BY <1>1, <1>2, <1>3, <1>4, <1>5

(* A node of the invariant is ordered, and one that becomes ordered keeps  *)
(* the invariant.                                                          *)
LEMMA NodeOrdered ==
  ASSUME NumbersInv, NEW n \in Nodes
  PROVE  Ordered(Elements[n], Node(n), out[n], air)
BY DEF NumbersInv, NodeInv, Ordered, IsNode, Node

LEMMA OrderedStep ==
  ASSUME NumbersInv, NEW n \in Nodes, NEW s, NodeBecomes(n, s), NEW waiting,
         Ordered(Elements[n], s, waiting, air), out' = [out EXCEPT ![n] = waiting],
         UNCHANGED <<air, bad>>
  PROVE  NumbersInv'
<1>1. ASSUME NEW m \in Nodes
      PROVE  NodeInv(Elements[m], ram'[m], flash'[m], out'[m], air')
  <2>1. CASE m = n
    BY <2>1 DEF NumbersInv, NodeBecomes, Ordered
  <2>2. CASE m # n
    BY <2>2 DEF NumbersInv, NodeBecomes
  <2> QED BY <2>1, <2>2
<1>2. /\ ram' = [m \in Nodes |-> ram'[m]] /\ flash' = [m \in Nodes |-> flash'[m]]
      /\ out' = [m \in Nodes |-> out'[m]] /\ NonceUnique'
  BY DEF NumbersInv, NodeBecomes, NonceUnique
<1> QED BY <1>1, <1>2 DEF NumbersInv

LEMMA StoreStep ==
  ASSUME NumbersInv, NEW n \in Nodes, Store(n)
  PROVE  NumbersInv'
<1> DEFINE s == StorePending(Node(n), 1, 3)
<1>1. NodeBecomes(n, s) /\ UNCHANGED <<out, air, bad>>
  BY DEF Store
<1>2. Ordered(Elements[n], s, out[n], air)
  BY NodeOrdered, StorePendingOrdered
<1>3. out' = [out EXCEPT ![n] = out[n]]
  BY <1>1 DEF NumbersInv
<1> HIDE DEF s
<1> QED BY <1>1, <1>2, <1>3, OrderedStep

(* iv_set, seq_set: a node starts again where its flash says.              *)
LEMMA LoadedOrdered ==
  ASSUME NEW E, NEW waiting, NEW sent, NEW s, Ordered(E, s, waiting, sent), NEW dur
  PROVE  Ordered(E, [ram |-> Loaded(s.flash, dur), flash |-> s.flash], {}, sent)
<1> DEFINE f == s.flash
           r == Loaded(f, dur)
           t == [ram |-> r, flash |-> f]
<1>1. IsFlash(f) /\ f.iv \in Nat \ {0} /\ f.ivu \in BOOLEAN /\ f.seq \in Nat
  BY DEF Ordered, IsNode, IsFlash, HasNumbers
<1>2. SeqSet(f.seq) \in Nat
  BY <1>1, SeqSetType
<1>3. DOMAIN r = RamFields /\ r.iv = f.iv /\ r.ivu = f.ivu /\ r.seq = SeqSet(f.seq)
  BY DEF Loaded, RamFields
<1> HIDE DEF r, f
<1>4. IsRam(r) /\ IviTx(r) = IviTx(f) /\ IviTx(f) \in Int
  BY <1>1, <1>2, <1>3 DEF IsRam, HasNumbers, IviTx
<1>5. Saved(r, f)
  BY <1>2, <1>3, <1>4 DEF Saved, SameIv
<1>6. SentBelow(E, r, f, sent) /\ sent \subseteq Numbered
  BY <1>3, <1>4 DEF Ordered, NodeInv, SentBelow, f
<1>7. WaitingBelow(E, r, {}, sent)
  BY DEF WaitingBelow
<1>8. t.ram = r /\ t.flash = f /\ DOMAIN t = {"ram", "flash"}
  OBVIOUS
<1> HIDE DEF t
<1>9. Ordered(E, t, {}, sent)
  BY <1>1, <1>4, <1>5, <1>6, <1>7, <1>8 DEF Ordered, NodeInv, IsNode
<1> QED BY <1>9 DEF t, r, f

(* What is written of the replay list leaves the numbers alone.            *)
LEMMA RplWrittenOrdered ==
  ASSUME NumbersInv, NEW n \in Nodes, NEW y
  PROVE  \E s : Ordered(Elements[n], s, out[n], air) /\ s.flash = [flash[n] EXCEPT !.rpl = y]
<1> DEFINE u == Node(n)
           t == [ram |-> u.ram, flash |-> [u.flash EXCEPT !.rpl = y]]
<1>1. Ordered(Elements[n], u, out[n], air)
  BY NodeOrdered
<1>2. t.flash = [flash[n] EXCEPT !.rpl = y]
  BY DEF Node
<1> HIDE DEF u
<1>3. /\ t.ram = u.ram /\ t.flash = [u.flash EXCEPT !.rpl = y] /\ DOMAIN t = {"ram", "flash"}
  OBVIOUS
<1> HIDE DEF t
<1>4. /\ IsFlash(t.flash) /\ t.flash.iv = u.flash.iv /\ t.flash.ivu = u.flash.ivu
      /\ t.flash.seq = u.flash.seq
  BY <1>1, <1>3 DEF Ordered, IsNode, IsFlash, HasNumbers, FlashFields
<1>5. IviTx(t.flash) = IviTx(u.flash)
  BY <1>4 DEF IviTx
<1>6. Ordered(Elements[n], t, out[n], air)
  BY <1>1, <1>3, <1>4, <1>5
     DEF Ordered, IsNode, NodeInv, Saved, SameIv, SentBelow, WaitingBelow
<1> QED BY <1>2, <1>6

LEMMA CrashStep ==
  ASSUME NumbersInv, NEW n \in Nodes, Crash(n)
  PROVE  NumbersInv'
<1>1. PICK f \in Interrupted(Node(n)) : \E dur \in Durations(f) :
        /\ flash' = [flash EXCEPT ![n] = f] /\ ram' = [ram EXCEPT ![n] = Loaded(f, dur)]
        /\ out' = [out EXCEPT ![n] = {}] /\ UNCHANGED <<air, bad>>
  BY DEF Crash
<1>2. PICK dur : /\ flash' = [flash EXCEPT ![n] = f] /\ ram' = [ram EXCEPT ![n] = Loaded(f, dur)]
                 /\ out' = [out EXCEPT ![n] = {}] /\ UNCHANGED <<air, bad>>
  BY <1>1
<1>3. \/ \E k \in 0..2 : f = StorePending(Node(n), 1, k).flash
      \/ \E y : f = [flash[n] EXCEPT !.rpl = y]
  BY <1>1 DEF Interrupted, Node
<1>4. PICK s : Ordered(Elements[n], s, out[n], air) /\ f = s.flash
  <2>1. CASE \E k \in 0..2 : f = StorePending(Node(n), 1, k).flash
    BY <2>1, NodeOrdered, StorePendingOrdered
  <2>2. CASE \E y : f = [flash[n] EXCEPT !.rpl = y]
    BY <2>2, RplWrittenOrdered
  <2> QED BY <1>3, <2>1, <2>2
<1> DEFINE t == [ram |-> Loaded(s.flash, dur), flash |-> s.flash]
<1>5. Ordered(Elements[n], t, {}, air)
  BY <1>4, LoadedOrdered
<1>6. NodeBecomes(n, t)
  BY <1>2, <1>4 DEF NodeBecomes
<1> HIDE DEF t
<1> QED BY <1>2, <1>5, <1>6, OrderedStep
-----------------------------------------------------------------------------
LEMMA NumbersInit == Init => NumbersInv
<1> SUFFICES ASSUME Init PROVE NumbersInv
  OBVIOUS
<1>1. ASSUME NEW n \in Nodes PROVE NodeInv(Elements[n], ram[n], flash[n], out[n], air)
  <2>1. /\ ram[n].iv = 1 /\ ram[n].ivu = FALSE /\ ram[n].seq = 0 /\ DOMAIN ram[n] = RamFields
        /\ flash[n].iv = 1 /\ flash[n].ivu = FALSE /\ flash[n].seq = 0
        /\ DOMAIN flash[n] = FlashFields /\ out[n] = {} /\ air = {}
    BY DEF Init, RamFields, FlashFields
  <2>2. SeqSet(0) \in Nat
    BY SeqSetType
  <2>6. ram[n].iv \in Nat \ {0} /\ ram[n].seq \in Nat /\ flash[n].iv \in Nat \ {0} /\ flash[n].seq \in Nat
    BY <2>1
  <2>7. ram[n].ivu \in BOOLEAN /\ flash[n].ivu \in BOOLEAN
    BY <2>1, Zenon
  <2>3. IsRam(ram[n]) /\ IsFlash(flash[n])
    BY <2>1, <2>6, <2>7, Zenon DEF IsRam, IsFlash, HasNumbers
  <2>4. IviTx(ram[n]) = 1 /\ IviTx(flash[n]) = 1 /\ SameIv(ram[n], flash[n])
    BY <2>1 DEF IviTx, SameIv
  <2>5. Saved(ram[n], flash[n])
    BY <2>1, <2>2, <2>4 DEF Saved
  <2> QED BY <2>1, <2>3, <2>5 DEF NodeInv, SentBelow, WaitingBelow
<1> QED BY <1>1 DEF Init, NumbersInv, NonceUnique

LEMMA NumbersNext == Prompt /\ NumbersInv /\ [Next]_vars => NumbersInv'
<1> SUFFICES ASSUME Prompt, NumbersInv, [Next]_vars PROVE NumbersInv'
  OBVIOUS
<1>1. CASE UNCHANGED vars
  BY <1>1 DEF vars, NumbersInv, NonceUnique
<1>2. CASE Next
  <2>1. PICK n \in Nodes :
          \/ SegTxReset(n) \/ Beacon(n)
          \/ Settled(n) /\ IvuRefresh(n)
          \/ \E e \in Elements[n] : Encode(n, e)
          \/ SeqSettled(n) /\ Transmit(n)
          \/ Settled(n) /\ \E p \in air : Recv(n, p)
          \/ Store(n) \/ Crash(n)
    BY <1>2 DEF Next
  <2>2. CASE Settled(n) /\ IvuRefresh(n)
    BY <2>2, IvuRefreshStep
  <2>3. CASE SegTxReset(n)
    BY <2>3, SegTxResetStep
  <2>4. CASE Beacon(n)
    BY <2>4, BeaconStep
  <2>5. CASE SeqSettled(n) /\ Transmit(n)
    BY <2>5, TransmitStep DEF SeqSettled
  <2>6. CASE \E e \in Elements[n] : Encode(n, e)
    BY <2>6, EncodeStep
  <2>7. CASE Store(n)
    BY <2>7, StoreStep
  <2>8. CASE Crash(n)
    BY <2>8, CrashStep
  <2>9. CASE Settled(n) /\ \E p \in air : Recv(n, p)
    BY <2>9, RecvStep
  <2> QED BY <2>1, <2>2, <2>3, <2>4, <2>5, <2>6, <2>7, <2>8, <2>9
<1> QED BY <1>1, <1>2

(* No nonce is used twice, through every IV update, recovery, reset and    *)
(* interrupted store, if bt_mesh_net_encode's store request is carried out *)
(* before the packet it is for is transmitted.                             *)
THEOREM NoncesUnique ==
  ASSUME Prompt
  PROVE  Spec => []NonceUnique
<1>1. NumbersInv => NonceUnique
  BY DEF NumbersInv
<1>2. NumbersInv /\ [Next]_vars => NumbersInv'
  BY NumbersNext
<1> QED BY <1>1, <1>2, NumbersInit, PTL DEF Spec

(* bt_mesh_rpl_pending_store for one address leaves the numbers alone.     *)
LEMMA RplPendingStoreStep ==
  ASSUME NumbersInv, NEW n \in Nodes, NEW addr, RplPendingStore(n, addr)
  PROVE  NumbersInv'
<1> DEFINE u == Node(n)
           t == RplStoreFor(u, addr)
<1>1. Ordered(Elements[n], u, out[n], air)
  BY NodeOrdered
<1>2. NodeBecomes(n, t) /\ UNCHANGED <<out, air, bad>>
  BY DEF RplPendingStore
<1> HIDE DEF u
<1>3. PICK x, y : t = [ram |-> [u.ram EXCEPT !.reset = FALSE, !.clear = FALSE, !.rpl = x],
                       flash |-> [u.flash EXCEPT !.rpl = y]]
  BY DEF RplStoreFor
<1> HIDE DEF t
<1>4. /\ t.ram = [u.ram EXCEPT !.reset = FALSE, !.clear = FALSE, !.rpl = x]
      /\ t.flash = [u.flash EXCEPT !.rpl = y] /\ DOMAIN t = {"ram", "flash"}
  BY <1>3
<1>5. IsRam(t.ram) /\ SameNumbers(u.ram, t.ram) /\ t.ram.pend = u.ram.pend
  BY <1>1, <1>4 DEF Ordered, IsNode, IsRam, HasNumbers, RamFields, SameNumbers
<1>6. /\ IsFlash(t.flash) /\ t.flash.iv = u.flash.iv /\ t.flash.ivu = u.flash.ivu
      /\ t.flash.seq = u.flash.seq
  BY <1>1, <1>4 DEF Ordered, IsNode, IsFlash, HasNumbers, FlashFields
<1>7. IviTx(t.ram) = IviTx(u.ram) /\ IviTx(t.flash) = IviTx(u.flash)
  BY <1>5, <1>6 DEF SameNumbers, IviTx
<1>8. Ordered(Elements[n], t, out[n], air)
  BY <1>1, <1>4, <1>5, <1>6, <1>7
     DEF Ordered, IsNode, NodeInv, Saved, SameIv, SameNumbers, SentBelow, WaitingBelow
<1>9. out' = [out EXCEPT ![n] = out[n]]
  BY <1>2 DEF NumbersInv
<1> QED BY <1>2, <1>8, <1>9, OrderedStep

(* Neither does the one for all addresses.                                 *)
LEMMA RplPendingStoreAllStep ==
  ASSUME NumbersInv, NEW n \in Nodes, RplPendingStoreAll(n)
  PROVE  NumbersInv'
<1> DEFINE v == Node(n)
           u == Cleared(v, "rpl")
           t == RplStoreAll(u)
<1>1. Ordered(Elements[n], v, out[n], air)
  BY NodeOrdered
<1>2. NodeBecomes(n, t) /\ UNCHANGED <<out, air, bad>>
  BY DEF RplPendingStoreAll
<1> HIDE DEF v
<1>3. /\ u.ram = [v.ram EXCEPT !.pend = @ \ {"rpl"}] /\ u.flash = v.flash
  BY <1>1 DEF Cleared, Ordered, IsNode
<1> HIDE DEF u
<1>4. PICK x, y : t = [ram |-> [u.ram EXCEPT !.reset = FALSE, !.clear = FALSE, !.rpl = x],
                       flash |-> [u.flash EXCEPT !.rpl = y]]
  BY DEF RplStoreAll
<1> HIDE DEF t
<1>5. /\ t.ram = [u.ram EXCEPT !.reset = FALSE, !.clear = FALSE, !.rpl = x]
      /\ t.flash = [v.flash EXCEPT !.rpl = y] /\ DOMAIN t = {"ram", "flash"}
  BY <1>3, <1>4
<1>6. IsRam(t.ram) /\ SameNumbers(v.ram, t.ram) /\ t.ram.pend = v.ram.pend \ {"rpl"}
  BY <1>1, <1>3, <1>5 DEF Ordered, IsNode, IsRam, HasNumbers, RamFields, SameNumbers
<1>7. /\ IsFlash(t.flash) /\ t.flash.iv = v.flash.iv /\ t.flash.ivu = v.flash.ivu
      /\ t.flash.seq = v.flash.seq
  BY <1>1, <1>5 DEF Ordered, IsNode, IsFlash, HasNumbers, FlashFields
<1>8. IviTx(t.ram) = IviTx(v.ram) /\ IviTx(t.flash) = IviTx(v.flash)
  BY <1>6, <1>7 DEF SameNumbers, IviTx
<1>9. Ordered(Elements[n], t, out[n], air)
  BY <1>1, <1>5, <1>6, <1>7, <1>8
     DEF Ordered, IsNode, NodeInv, Saved, SameIv, SameNumbers, SentBelow, WaitingBelow
<1>10. out' = [out EXCEPT ![n] = out[n]]
  BY <1>2 DEF NumbersInv
<1> QED BY <1>2, <1>9, <1>10, OrderedStep

(* No nonce is used twice when applications also call                      *)
(* bt_mesh_rpl_pending_store, for single addresses or for all.             *)
THEOREM NoncesUniqueStoreOne ==
  ASSUME Prompt
  PROVE  StoreOneSpec => []NonceUnique
<1>1. NumbersInv => NonceUnique
  BY DEF NumbersInv
<1>2. NumbersInv /\ [Next \/ AppStores]_vars => NumbersInv'
  <2>1. NumbersInv /\ AppStores => NumbersInv'
    BY RplPendingStoreStep, RplPendingStoreAllStep DEF AppStores
  <2> QED BY <2>1, NumbersNext
<1> QED BY <1>1, <1>2, NumbersInit, PTL DEF StoreOneSpec

-----------------------------------------------------------------------------
(***************************************************************************)
(* The replay list.  First what the storing does to lists and sets.        *)
(***************************************************************************)

(* The places of the kept entries are 1 to their number, each once.        *)
LEMMA PlacesAreDense ==
  ASSUME NEW l
  PROVE  /\ Cardinality(Kept(l)) \in 0..CRPL
         /\ \A i \in Kept(l) : Place(l, i) \in 1..Cardinality(Kept(l))
         /\ \A i, j \in Kept(l) : Place(l, i) = Place(l, j) => i = j
         /\ \A k \in 1..Cardinality(Kept(l)) : \E i \in Kept(l) : Place(l, i) = k
<1> DEFINE K == Kept(l)
           N == Cardinality(K)
           B(i) == {k \in K : k <= i}
           rank == [i \in K |-> Place(l, i)]
<1>1. CRPL \in Nat /\ K \subseteq 1..CRPL
  BY MeshAssumption DEF Kept
<1>2. IsFiniteSet(1..CRPL) /\ Cardinality(1..CRPL) = CRPL
  <2>1. 1 \in Int /\ CRPL \in Int /\ ~(1 > CRPL) /\ CRPL - 1 + 1 = CRPL
    BY MeshAssumption
  <2> HIDE DEF K, N, rank
  <2>2. IsFiniteSet(1..CRPL) /\ Cardinality(1..CRPL) = CRPL - 1 + 1
    BY ONLY <2>1, FS_Interval
  <2> QED BY <2>1, <2>2
<1>3. IsFiniteSet(K) /\ N <= CRPL /\ N \in Nat
  BY <1>1, <1>2, FS_Subset, FS_CardinalityType
<1>4. ASSUME NEW i \in K
      PROVE  IsFiniteSet(B(i)) /\ Place(l, i) = Cardinality(B(i)) /\ Place(l, i) \in 1..N
  <2>1. IsFiniteSet(B(i)) /\ Cardinality(B(i)) <= N /\ Cardinality(B(i)) \in Nat
    BY <1>3, FS_Subset, FS_CardinalityType
  <2>2. i \in B(i)
    BY <1>1
  <2>3. Cardinality(B(i)) # 0
    BY <2>1, <2>2, FS_EmptySet
  <2> QED BY <1>3, <2>1, <2>3 DEF Place
<1>5. ASSUME NEW i \in K, NEW j \in K, i < j
      PROVE  Place(l, i) < Place(l, j)
  <2>1. B(i) \subseteq B(j) /\ j \in B(j) /\ j \notin B(i)
    BY <1>1, <1>5
  <2>2. Cardinality(B(i)) <= Cardinality(B(j)) /\ Cardinality(B(i)) # Cardinality(B(j))
    BY <1>4, <2>1, FS_Subset
  <2> QED BY <1>3, <1>4, <2>2
<1>6. \A i, j \in K : Place(l, i) = Place(l, j) => i = j
  <2> SUFFICES ASSUME NEW i \in K, NEW j \in K, Place(l, i) = Place(l, j), i # j PROVE FALSE
    OBVIOUS
  <2>1. i < j \/ j < i
    <3>1. i \in Int /\ j \in Int
      BY <1>1
    <3> QED BY <3>1
  <2>2. Place(l, i) \in 1..N /\ Place(l, j) \in 1..N
    BY <1>4
  <2> QED BY <1>5, <2>1, <2>2
<1>7. rank \in Injection(K, 1..N)
  BY <1>4, <1>6 DEF Injection, IsInjective
<1>8. IsFiniteSet(1..N) /\ Cardinality(1..N) = N
  BY <1>3, FS_Interval
<1>9. rank \in Surjection(K, 1..N)
  <2> HIDE DEF K, N, rank
  <2>1. rank \in Injection(K, 1..N) /\ IsFiniteSet(K) /\ IsFiniteSet(1..N) /\ Cardinality(1..N) = Cardinality(K)
    BY <1>3, <1>7, <1>8 DEF N
  <2> QED BY ONLY <2>1, FS_Injection
<1>10. \A k \in 1..N : \E i \in K : Place(l, i) = k
  BY <1>9 DEF Surjection
<1>11. \A i \in K : Place(l, i) \in 1..N
  BY <1>4
<1>12. N \in 0..CRPL
  <2> HIDE DEF N
  <2> QED BY ONLY <1>1, <1>3
<1> QED BY ONLY <1>11, <1>12, <1>6, <1>10

(* SetToSeq lists a finite set, each element once.                         *)
LEMMA SetToSeqLists ==
  ASSUME NEW S, IsFiniteSet(S), NEW s, s = SetToSeq(S)
  PROVE  /\ Len(s) = Cardinality(S) /\ Cardinality(S) \in Nat
         /\ \A i \in 1..Cardinality(S) : s[i] \in S
         /\ \A i, j \in 1..Cardinality(S) : s[i] = s[j] => i = j
         /\ \A x \in S : \E i \in 1..Cardinality(S) : s[i] = x
<1> DEFINE N == Cardinality(S)
<1>1. N \in Nat /\ ExistsBijection(1..N, S)
  BY FS_CardinalityType
<1>2. \E f \in [1..N -> S] : IsInjective(f)
  BY <1>1 DEF ExistsBijection, Bijection, Injection
<1>3. s \in [1..N -> S] /\ IsInjective(s)
  BY <1>2 DEF SetToSeq
<1>4. s \in Injection(1..N, S)
  BY <1>3 DEF Injection
<1>5. IsFiniteSet(1..N) /\ Cardinality(1..N) = N
  BY <1>1, FS_Interval
<1>6. s \in Surjection(1..N, S)
  BY <1>4, <1>5, FS_Injection
<1>7. Len(s) = N
  BY <1>1, <1>3
<1> QED BY <1>1, <1>3, <1>6, <1>7 DEF Surjection, IsInjective


-----------------------------------------------------------------------------
(* The list has no gaps and one entry for each source, and so has the      *)
(* flash.                                                                  *)
IsEntry(e) == /\ DOMAIN e = {"src", "seq", "old", "store"} /\ e.src \in Sources \cup {NULL}
              /\ e.seq \in Nat /\ e.old \in BOOLEAN /\ e.store \in BOOLEAN
Like(e, f) == f.src = e.src /\ f.seq = e.seq /\ f.old = e.old
ListOK(l) == /\ DOMAIN l = 1..CRPL /\ \A i \in 1..CRPL : IsEntry(l[i])
             /\ \A i, j \in 1..CRPL : i < j /\ l[i].src = NULL => l[j].src = NULL
             /\ \A i, j \in 1..CRPL : l[i].src = l[j].src /\ l[i].src # NULL => i = j
             /\ \A i \in 1..CRPL : l[i].store => l[i].src # NULL
StoredOK(F) == /\ \A f \in F : IsEntry(f) /\ f.src # NULL /\ ~f.store
               /\ \A f, g \in F : f.src = g.src => f = g

(* An entry that a reset is about to remove.                               *)
Stale(r, e) == r.reset /\ ~e.old /\ ~e.store

(* The flash F holds what the list holds, but for what is to be stored.    *)
Mirrored(r, F) ==
  /\ \A f \in F : \E i \in 1..CRPL : r.rpl[i].src = f.src
  /\ \A i \in 1..CRPL : r.rpl[i].src # NULL /\ ~r.rpl[i].store /\ ~Stale(r, r.rpl[i])
                          => \E f \in F : Like(r.rpl[i], f)
  /\ "rpl" \notin r.pend => ~r.reset /\ \A i \in 1..CRPL : ~r.rpl[i].store

(* While a reset waits to be stored, so do the IV index and the number,    *)
(* and the next IV update is hours away.                                   *)
Resetting(r) ==
  /\ ~r.clear
  /\ r.reset => /\ {"rpl", "iv", "seq"} \subseteq r.pend /\ r.dur < IvuMin
                /\ \A i \in 1..CRPL : r.rpl[i].src # NULL => (r.rpl[i].old <=> r.rpl[i].store)

(* Every delivered packet g that still decrypts is covered by an entry,    *)
(* and every entry stands for a packet that was delivered.                 *)
Covers(r, e, p) == /\ ~Stale(r, e)
                   /\ p.iv = r.iv => ~e.old
                   /\ p.iv = r.iv \/ e.old => p.seq <= e.seq
Covered(r, g) == \A p \in g :
  /\ p.iv <= r.iv
  /\ p.iv >= r.iv - 1 => \E i \in 1..CRPL : r.rpl[i].src = p.src /\ Covers(r, r.rpl[i], p)
Means(r, e, q) == q.src = e.src /\ q.seq = e.seq /\ q.iv = IF e.old THEN r.iv - 1 ELSE r.iv
Meant(r, g) == \A i \in 1..CRPL :
  r.rpl[i].src # NULL /\ ~Stale(r, r.rpl[i]) => \E q \in g : Means(r, r.rpl[i], q)

Protects(r, F, g) == /\ g \subseteq Numbered /\ ListOK(r.rpl) /\ StoredOK(F) /\ Mirrored(r, F)
                     /\ Resetting(r) /\ Covered(r, g) /\ Meant(r, g)

(* The inductive invariant, next to NumbersInv.                            *)
ReplayInv == /\ got = [n \in Nodes |-> got[n]]
             /\ \A n \in Nodes : /\ Protects(ram[n], flash[n].rpl, got[n])
                                 /\ "rpl" \notin ram[n].pend => flash[n].iv = ram[n].iv
             /\ NoReplay
-----------------------------------------------------------------------------
(* What an IV update that was not missed may do to the list.               *)
SameList(r, t) == /\ t.rpl = r.rpl /\ t.iv = r.iv /\ t.reset = r.reset /\ t.clear = r.clear
                  /\ r.pend \subseteq t.pend
                  /\ r.reset => t.dur < IvuMin
Restarts(r, t) == /\ t.rpl = RplReset(r).rpl /\ t.iv = r.iv + 1 /\ t.reset = TRUE /\ t.clear = r.clear
                  /\ t.pend = r.pend \cup {"rpl", "iv", "seq"} /\ t.dur = 0 /\ ~r.reset

LEMMA SourcesNotNull == NULL \notin Sources
BY MeshAssumption DEF Sources

LEMMA SameListProtects ==
  ASSUME NEW r, NEW t, NEW F, NEW g, Protects(r, F, g), SameList(r, t)
  PROVE  Protects(t, F, g)
<1>1. \A e : Stale(t, e) <=> Stale(r, e)
  BY DEF SameList, Stale
<1>2. Mirrored(t, F)
  BY <1>1 DEF Protects, Mirrored, SameList
<1>3. Resetting(t)
  BY DEF Protects, Resetting, SameList
<1>4. Covered(t, g)
  BY <1>1 DEF Protects, Covered, Covers, SameList
<1>5. Meant(t, g)
  BY <1>1 DEF Protects, Meant, Means, SameList
<1> QED BY <1>2, <1>3, <1>4, <1>5 DEF Protects, SameList

(* bt_mesh_rpl_reset: entries of the index that is now the one before are  *)
(* kept and are old, those that were old are on their way out.             *)
LEMMA RplResetEntry ==
  ASSUME NEW r, ListOK(r.rpl), DOMAIN r = RamFields, NEW l, l = RplReset(r).rpl
  PROVE  /\ DOMAIN l = 1..CRPL
         /\ \A i \in 1..CRPL :
              /\ IsEntry(l[i]) /\ l[i].src = r.rpl[i].src /\ l[i].seq = r.rpl[i].seq
              /\ l[i].src # NULL => (l[i].old <=> ~r.rpl[i].old) /\ (l[i].store <=> ~r.rpl[i].old)
              /\ l[i].src = NULL => ~l[i].store
<1>1. l = [i \in 1..CRPL |-> IF r.rpl[i].src = NULL THEN r.rpl[i]
                             ELSE [r.rpl[i] EXCEPT !.store = ~r.rpl[i].old, !.old = ~@]]
  BY DEF RplReset, RamFields
<1>2. ASSUME NEW i \in 1..CRPL
      PROVE  /\ IsEntry(l[i]) /\ l[i].src = r.rpl[i].src /\ l[i].seq = r.rpl[i].seq
             /\ l[i].src # NULL => (l[i].old <=> ~r.rpl[i].old) /\ (l[i].store <=> ~r.rpl[i].old)
             /\ l[i].src = NULL => ~l[i].store
  <2> DEFINE e == r.rpl[i]
             d == [e EXCEPT !.store = ~e.old, !.old = ~@]
  <2>1. IsEntry(e) /\ (e.store => e.src # NULL)
    BY DEF ListOK
  <2>2. l[i] = IF e.src = NULL THEN e ELSE d
    BY <1>1
  <2> HIDE DEF e
  <2>3. IsEntry(d) /\ d.src = e.src /\ d.seq = e.seq /\ (d.old <=> ~e.old) /\ (d.store <=> ~e.old)
    BY <2>1 DEF IsEntry
  <2> HIDE DEF d
  <2>4. /\ IsEntry(l[i]) /\ l[i].src = e.src /\ l[i].seq = e.seq
        /\ l[i].src # NULL => (l[i].old <=> ~e.old) /\ (l[i].store <=> ~e.old)
        /\ l[i].src = NULL => ~l[i].store
    BY <2>1, <2>2, <2>3
  <2> QED BY <2>4 DEF e
<1> QED BY <1>1, <1>2

LEMMA RestartProtects ==
  ASSUME NEW r, NEW t, NEW F, NEW g, Protects(r, F, g), IsRam(r), Restarts(r, t)
  PROVE  Protects(t, F, g)
<1> DEFINE l == t.rpl
<1>1. r.iv \in Nat /\ DOMAIN r = RamFields /\ ListOK(r.rpl)
  BY DEF Protects, IsRam, HasNumbers
<1>2. /\ DOMAIN l = 1..CRPL
      /\ \A i \in 1..CRPL :
           /\ IsEntry(l[i]) /\ l[i].src = r.rpl[i].src /\ l[i].seq = r.rpl[i].seq
           /\ l[i].src # NULL => (l[i].old <=> ~r.rpl[i].old) /\ (l[i].store <=> ~r.rpl[i].old)
           /\ l[i].src = NULL => ~l[i].store
  BY <1>1, RplResetEntry DEF Restarts
<1>3. ListOK(l)
  BY <1>1, <1>2 DEF ListOK
<1>4. /\ t.reset = TRUE /\ t.iv = r.iv + 1 /\ t.pend = r.pend \cup {"rpl", "iv", "seq"} /\ ~r.reset
      /\ t.dur = 0 /\ ~t.clear
  BY DEF Restarts, Protects, Resetting
<1>5. \A i \in 1..CRPL : l[i].src # NULL => (Stale(t, l[i]) <=> r.rpl[i].old)
  BY <1>2, <1>4 DEF Stale
<1>6. Mirrored(t, F)
  <2>1. \A f \in F : \E i \in 1..CRPL : l[i].src = f.src
    BY <1>2 DEF Protects, Mirrored
  <2>2. \A i \in 1..CRPL : l[i].src # NULL /\ ~l[i].store => Stale(t, l[i])
    BY <1>2, <1>5
  <2> QED BY <1>4, <2>1, <2>2 DEF Mirrored
<1>7. Resetting(t)
  <2>1. 0 < IvuMin
    BY MeshAssumption
  <2> QED BY <1>2, <1>4, <2>1 DEF Resetting
<1>8. Covered(t, g)
  <2> SUFFICES ASSUME NEW p \in g
               PROVE  /\ p.iv <= t.iv
                      /\ p.iv >= t.iv - 1 => \E i \in 1..CRPL : l[i].src = p.src /\ Covers(t, l[i], p)
    BY DEF Covered
  <2>1. p.iv \in Nat /\ p.seq \in Nat /\ p.src \in Sources /\ p.iv <= r.iv
    BY DEF Protects, Numbered, Covered
  <2>2. p.iv <= t.iv /\ p.iv # t.iv /\ (p.iv >= t.iv - 1 => p.iv = r.iv /\ p.iv >= r.iv - 1)
    BY <1>1, <1>4, <2>1
  <2>3. ASSUME p.iv >= t.iv - 1
        PROVE  \E i \in 1..CRPL : l[i].src = p.src /\ Covers(t, l[i], p)
    <3>1. PICK i \in 1..CRPL : r.rpl[i].src = p.src /\ Covers(r, r.rpl[i], p)
      BY <2>2, <2>3 DEF Protects, Covered
    <3>2. ~r.rpl[i].old /\ p.seq <= r.rpl[i].seq
      BY <2>2, <2>3, <3>1 DEF Covers
    <3>3. l[i].src = p.src /\ l[i].seq = r.rpl[i].seq /\ l[i].src # NULL
      BY <1>2, <2>1, <3>1, SourcesNotNull
    <3>4. Covers(t, l[i], p)
      BY <1>5, <2>2, <3>2, <3>3 DEF Covers
    <3> QED BY <3>3, <3>4
  <2> QED BY <2>2, <2>3
<1>9. Meant(t, g)
  <2> SUFFICES ASSUME NEW i \in 1..CRPL, l[i].src # NULL, ~Stale(t, l[i])
               PROVE  \E q \in g : Means(t, l[i], q)
    BY DEF Meant
  <2>1. ~r.rpl[i].old /\ r.rpl[i].src = l[i].src /\ r.rpl[i].seq = l[i].seq /\ l[i].old
    BY <1>2, <1>5
  <2>2. PICK q \in g : Means(r, r.rpl[i], q)
    BY <1>4, <2>1 DEF Protects, Meant, Stale
  <2>3. q.iv = t.iv - 1
    BY <1>1, <1>4, <2>1, <2>2 DEF Means
  <2> QED BY <2>1, <2>2, <2>3 DEF Means
<1> QED BY <1>3, <1>6, <1>7, <1>8, <1>9 DEF Protects

LEMMA DoUpdateList ==
  ASSUME NEW r, IsRam(r), NEW update
  PROVE  LET t == DoUpdate(r, update)
         IN  /\ t.rpl = r.rpl /\ t.iv = r.iv /\ t.reset = r.reset /\ t.clear = r.clear
             /\ t.pend = r.pend \cup {"iv", "seq"} /\ t.dur = 0
BY DEF DoUpdate, IsRam, RamFields

LEMMA IvUpdateList ==
  ASSUME NEW r, IsRam(r), Resetting(r), NEW iv \in Nat, NEW update \in BOOLEAN, NEW busy \in BOOLEAN,
         ~Missed(r, iv, update), NEW t, t = IvUpdate(r, iv, update, busy)
  PROVE  SameList(r, t) \/ Restarts(r, t)
<1> DEFINE started == [RplReset(r) EXCEPT !.iv = iv, !.recovered = FALSE]
           restarted == [r EXCEPT !.seq = 0]
           up == DoUpdate(started, update)
           back == DoUpdate(restarted, update)
<1>1. r.iv \in Nat /\ DOMAIN r = RamFields /\ 0 < IvuMin
  BY MeshAssumption DEF IsRam, HasNumbers
<1>2. \/ t = r \/ t = [r EXCEPT !.deferred = TRUE]
      \/ iv >= r.iv /\ iv # r.iv /\ update /\ ~(r.dur < IvuMin) /\ t = up
      \/ t = back
  <2> HIDE DEF up, back
  <2> QED BY <1>1 DEF IvUpdate, up, back
<1>3. CASE t = r
  BY <1>3 DEF SameList, Resetting
<1>4. CASE t = [r EXCEPT !.deferred = TRUE]
  BY <1>1, <1>4 DEF SameList, Resetting, RamFields
<1>5. CASE iv >= r.iv /\ iv # r.iv /\ update /\ ~(r.dur < IvuMin) /\ t = up
  <2>1. ~r.reset /\ iv = r.iv + 1
    BY <1>1, <1>5 DEF Resetting, Missed
  <2>2. PICK x : RplReset(r) = [r EXCEPT !.reset = TRUE, !.pend = @ \cup {"rpl"}, !.rpl = x]
    BY DEF RplReset
  <2>3. /\ IsRam(started) /\ started.iv = iv /\ started.pend = r.pend \cup {"rpl"}
        /\ started.rpl = RplReset(r).rpl /\ started.reset = TRUE /\ started.clear = r.clear
    BY <1>1, <1>5, <2>2 DEF IsRam, HasNumbers, RamFields
  <2> HIDE DEF started
  <2>4. /\ t.rpl = started.rpl /\ t.iv = started.iv /\ t.reset = started.reset /\ t.clear = started.clear
        /\ t.pend = started.pend \cup {"iv", "seq"} /\ t.dur = 0
    <3>1. IsRam(started) /\ t = DoUpdate(started, update)
      BY <1>5, <2>3
    <3> QED BY ONLY <3>1, DoUpdateList, Zenon
  <2> QED BY <2>1, <2>3, <2>4 DEF Restarts
<1>6. CASE t = back
  <2>1. /\ IsRam(restarted) /\ restarted.iv = r.iv /\ restarted.pend = r.pend /\ restarted.rpl = r.rpl
        /\ restarted.reset = r.reset /\ restarted.clear = r.clear
    BY <1>1 DEF IsRam, HasNumbers, RamFields
  <2> HIDE DEF restarted
  <2>2. /\ t.rpl = r.rpl /\ t.iv = r.iv /\ t.reset = r.reset /\ t.clear = r.clear
        /\ t.pend = r.pend \cup {"iv", "seq"} /\ t.dur = 0
    BY <1>6, <2>1, DoUpdateList
  <2> QED BY <1>1, <2>2 DEF SameList
<1> QED BY <1>2, <1>3, <1>4, <1>5, <1>6

LEMMA IvUpdateProtects ==
  ASSUME NEW r, IsRam(r), NEW iv \in Nat, NEW update \in BOOLEAN, NEW busy \in BOOLEAN,
         ~Missed(r, iv, update), NEW F, NEW g, Protects(r, F, g)
  PROVE  LET t == IvUpdate(r, iv, update, busy)
         IN  /\ Protects(t, F, g) /\ r.pend \subseteq t.pend
             /\ "rpl" \notin t.pend => t.iv = r.iv
<1> DEFINE t == IvUpdate(r, iv, update, busy)
<1>1. Resetting(r)
  BY DEF Protects
<1>2. SameList(r, t) \/ Restarts(r, t)
  BY <1>1, IvUpdateList
<1> HIDE DEF t
<1>3. Protects(t, F, g)
  BY <1>2, SameListProtects, RestartProtects
<1>4. r.pend \subseteq t.pend /\ ("rpl" \notin t.pend => t.iv = r.iv)
  BY <1>2 DEF SameList, Restarts
<1> QED BY <1>3, <1>4 DEF t

(* Steps that only change what one node knows.                             *)
LEMMA ProtectStep ==
  ASSUME NumbersInv, ReplayInv, NEW n \in Nodes, NEW t, ram' = [ram EXCEPT ![n] = t],
         Protects(t, flash[n].rpl, got[n]), ram[n].pend \subseteq t.pend,
         "rpl" \notin t.pend => t.iv = ram[n].iv, UNCHANGED <<flash, got, bad>>
  PROVE  ReplayInv'
<1>1. ASSUME NEW m \in Nodes
      PROVE  /\ Protects(ram'[m], flash'[m].rpl, got'[m])
             /\ "rpl" \notin ram'[m].pend => flash'[m].iv = ram'[m].iv
  <2>1. CASE m = n
    <3>1. ram'[m] = t
      BY <2>1 DEF NumbersInv
    <3> QED BY <2>1, <3>1 DEF ReplayInv
  <2>2. CASE m # n
    <3>1. ram'[m] = ram[m]
      BY <2>2 DEF NumbersInv
    <3> QED BY <3>1 DEF ReplayInv
  <2> QED BY <2>1, <2>2
<1> QED BY <1>1 DEF ReplayInv, NoReplay

LEMMA NotMissed ==
  ASSUME NEW r, IsRam(r), NEW iv, NEW update \in BOOLEAN,
         iv = r.iv \/ (iv = r.iv + 1 /\ update /\ ~r.ivu)
  PROVE  ~Missed(r, iv, update)
<1>1. r.iv \in Nat
  BY DEF IsRam, HasNumbers
<1> QED BY <1>1 DEF Missed

LEMMA IvuRefreshProtects ==
  ASSUME Prompt, NumbersInv, ReplayInv, NEW n \in Nodes, Settled(n), IvuRefresh(n)
  PROVE  ReplayInv'
<1> DEFINE r == [ram[n] EXCEPT !.dur = IF @ < Ripe(ram[n]) THEN @ + 1 ELSE @]
           F == flash[n].rpl
           g == got[n]
<1>1. IsRam(ram[n]) /\ Protects(ram[n], F, g)
  BY DEF NumbersInv, NodeInv, ReplayInv
<1>2. ~ram[n].reset
  BY <1>1 DEF Protects, Resetting, Settled
<1>3. IsRam(r) /\ SameList(ram[n], r) /\ r.pend = ram[n].pend /\ r.iv = ram[n].iv
  BY <1>1, <1>2 DEF IsRam, HasNumbers, RamFields, SameList
<1>4. PICK busy \in Busy(n) :
        ram' = [ram EXCEPT ![n] = IF r.dur >= IvuMin /\ r.ivu THEN IvUpdate(r, r.iv, FALSE, busy)
                                  ELSE [r EXCEPT !.pend = @ \cup {"iv"}]]
  BY DEF IvuRefresh
<1>5. UNCHANGED <<flash, got, bad>> /\ busy \in BOOLEAN
  BY <1>4 DEF IvuRefresh, Busy
<1> HIDE DEF r
<1>6. Protects(r, F, g)
  BY <1>1, <1>3, SameListProtects
<1>7. CASE ram' = [ram EXCEPT ![n] = IvUpdate(r, r.iv, FALSE, busy)]
  <2> DEFINE t == IvUpdate(r, r.iv, FALSE, busy)
  <2>1. r.iv \in Nat /\ ~Missed(r, r.iv, FALSE)
    BY <1>3, NotMissed DEF IsRam, HasNumbers
  <2>2. Protects(t, F, g) /\ r.pend \subseteq t.pend /\ ("rpl" \notin t.pend => t.iv = r.iv)
    BY <1>3, <1>5, <1>6, <2>1, IvUpdateProtects
  <2>3. ram' = [ram EXCEPT ![n] = t]
    BY <1>7
  <2> HIDE DEF t
  <2> QED BY <1>3, <1>5, <2>2, <2>3, ProtectStep
<1>8. CASE ram' = [ram EXCEPT ![n] = [r EXCEPT !.pend = @ \cup {"iv"}]]
  <2> DEFINE t == [r EXCEPT !.pend = @ \cup {"iv"}]
  <2>1. SameList(r, t)
    BY <1>3, <1>6 DEF SameList, IsRam, RamFields, Protects, Resetting
  <2>2. ram' = [ram EXCEPT ![n] = t]
    BY <1>8
  <2> HIDE DEF t
  <2>3. Protects(t, F, g) /\ r.pend \subseteq t.pend /\ t.iv = r.iv
    BY <1>6, <2>1, SameListProtects DEF SameList
  <2> QED BY <1>3, <1>5, <2>2, <2>3, ProtectStep
<1> QED BY <1>4, <1>7, <1>8

LEMMA SegTxResetProtects ==
  ASSUME NumbersInv, ReplayInv, NEW n \in Nodes, SegTxReset(n)
  PROVE  ReplayInv'
<1> DEFINE r == [ram[n] EXCEPT !.deferred = FALSE]
           F == flash[n].rpl
           g == got[n]
<1>1. IsRam(ram[n]) /\ Protects(ram[n], F, g) /\ ram = [m \in Nodes |-> ram[m]]
  BY DEF NumbersInv, NodeInv, ReplayInv
<1>2. IsRam(r) /\ SameList(ram[n], r) /\ r.pend = ram[n].pend /\ r.iv = ram[n].iv
  BY <1>1 DEF IsRam, HasNumbers, RamFields, SameList, Protects, Resetting
<1>3. PICK busy \in Busy(n) : ram' = [ram EXCEPT ![n] = IvUpdate([@ EXCEPT !.deferred = FALSE], ram[n].iv, FALSE, busy)]
  BY DEF SegTxReset
<1>4. UNCHANGED <<flash, got, bad>> /\ busy \in BOOLEAN
  BY <1>3 DEF SegTxReset, Busy
<1> DEFINE t == IvUpdate(r, r.iv, FALSE, busy)
<1>5. ram' = [ram EXCEPT ![n] = t]
  <2>1. ram' = [ram EXCEPT ![n] = IvUpdate(r, ram[n].iv, FALSE, busy)]
    BY <1>1, <1>3
  <2> HIDE DEF r
  <2> QED BY <1>2, <2>1
<1> HIDE DEF r
<1>6. r.iv \in Nat /\ ~Missed(r, r.iv, FALSE) /\ Protects(r, F, g)
  BY <1>1, <1>2, NotMissed, SameListProtects DEF IsRam, HasNumbers
<1>7. Protects(t, F, g) /\ r.pend \subseteq t.pend /\ ("rpl" \notin t.pend => t.iv = r.iv)
  BY <1>2, <1>4, <1>6, IvUpdateProtects
<1> HIDE DEF t
<1> QED BY <1>2, <1>4, <1>5, <1>7, ProtectStep

LEMMA BeaconProtects ==
  ASSUME Missing = {}, NumbersInv, ReplayInv, NEW n \in Nodes, Beacon(n)
  PROVE  ReplayInv'
<1> DEFINE r == ram[n]
           F == flash[n].rpl
           g == got[n]
<1>1. IsRam(r) /\ Protects(r, F, g)
  BY DEF NumbersInv, NodeInv, ReplayInv
<1>2. PICK b \in Heard(n), busy \in Busy(n) :
        /\ ~Missed(r, b[1], b[2])
        /\ ram' = [ram EXCEPT ![n] = IvUpdate(@, b[1], b[2], busy)]
  BY DEF Beacon
<1>3. UNCHANGED <<flash, got, bad>> /\ busy \in BOOLEAN
  BY <1>2 DEF Beacon, Busy
<1>4. b[1] \in Nat /\ b[2] \in BOOLEAN
  <2>1. PICK m \in Nodes : b = <<ram[m].iv, ram[m].ivu>>
    BY <1>2 DEF Heard
  <2> QED BY <2>1 DEF NumbersInv, NodeInv, IsRam, HasNumbers
<1> DEFINE t == IvUpdate(r, b[1], b[2], busy)
<1>5. ram' = [ram EXCEPT ![n] = t]
  BY <1>2 DEF NumbersInv
<1>6. Protects(t, F, g) /\ r.pend \subseteq t.pend /\ ("rpl" \notin t.pend => t.iv = r.iv)
  BY <1>1, <1>2, <1>3, <1>4, IvUpdateProtects
<1> HIDE DEF t
<1> QED BY <1>3, <1>5, <1>6, ProtectStep

LEMMA EncodeProtects ==
  ASSUME NumbersInv, ReplayInv, NEW n \in Nodes, NEW e, Encode(n, e)
  PROVE  ReplayInv'
<1> DEFINE r == ram[n]
           F == flash[n].rpl
           g == got[n]
           q == [r EXCEPT !.seq = @ + 1, !.pend = @ \cup (IF StoresSeq(r.seq + 1) THEN {"seq"} ELSE {})]
           t == NextSeq(r)
<1>1. IsRam(r) /\ Protects(r, F, g)
  BY DEF NumbersInv, NodeInv, ReplayInv
<1>2. ram' = [ram EXCEPT ![n] = t] /\ UNCHANGED <<flash, got, bad>>
  BY DEF Encode, NumbersInv
<1>3. IsRam(q) /\ SameList(r, q) /\ r.pend \subseteq q.pend /\ q.iv = r.iv
  BY <1>1 DEF IsRam, HasNumbers, RamFields, SameList, Protects, Resetting
<1>4. t = IF ~q.ivu /\ q.seq > SeqLimit /\ q.iv < MaxIv THEN IvUpdate(q, q.iv + 1, TRUE, FALSE) ELSE q
  BY DEF NextSeq
<1> HIDE DEF q, r
<1>5. Protects(q, F, g)
  BY <1>1, <1>3, SameListProtects
<1>6. Protects(t, F, g) /\ r.pend \subseteq t.pend /\ ("rpl" \notin t.pend => t.iv = r.iv)
  <2> HIDE DEF t
  <2>1. CASE ~q.ivu /\ t = IvUpdate(q, q.iv + 1, TRUE, FALSE)
    <3>1. q.iv + 1 \in Nat /\ ~Missed(q, q.iv + 1, TRUE)
      <4>1. q.iv \in Nat /\ ~q.ivu
        BY <1>3, <2>1 DEF IsRam, HasNumbers
      <4> QED BY ONLY <4>1 DEF Missed
    <3>2. Protects(t, F, g) /\ q.pend \subseteq t.pend /\ ("rpl" \notin t.pend => t.iv = q.iv)
      BY <1>3, <1>5, <2>1, <3>1, IvUpdateProtects
    <3> QED BY <1>3, <3>2
  <2>2. CASE t = q
    BY <1>3, <1>5, <2>2
  <2> QED BY <1>4, <2>1, <2>2
<1> HIDE DEF t
<1> QED BY <1>2, <1>6, ProtectStep DEF r

-----------------------------------------------------------------------------
(* bt_mesh_rpl_check looks at the entry of the packet's source, if the     *)
(* list has one.                                                           *)
LEMMA CandidateIsSlot ==
  ASSUME NEW r, ListOK(r.rpl), NEW p, p.src \in Sources, NEW i \in Candidate(r, p),
         NEW j \in 1..CRPL, r.rpl[j].src = p.src
  PROVE  i = j
<1>1. i \in 1..CRPL /\ r.rpl[i].src \in {NULL, p.src} /\ p.src # NULL /\ CRPL \in Nat
  BY SourcesNotNull, MeshAssumption DEF Candidate
<1>2. CASE r.rpl[i].src = p.src
  BY <1>1, <1>2 DEF ListOK
<1>3. CASE r.rpl[i].src = NULL
  <2>1. j < i \/ i < j \/ i = j
    BY <1>1
  <2>2. ~(j < i)
    <3> SUFFICES ASSUME j < i PROVE FALSE
      OBVIOUS
    <3>1. j \in 1..i - 1
      BY <1>1
    <3> QED BY <3>1 DEF Candidate
  <2>3. ~(i < j)
    BY <1>1, <1>3 DEF ListOK
  <2> QED BY <2>1, <2>2, <2>3
<1> QED BY <1>1, <1>2, <1>3

(* A packet that was delivered is turned away, unless a reset has just     *)
(* begun.                                                                  *)
LEMMA SlotOnlyForNew ==
  ASSUME NEW r, NEW F, NEW g, Protects(r, F, g), IsRam(r), ~r.reset, NEW p \in g,
         Decrypts(r, p), NEW i \in RplSlot(r, p)
  PROVE  FALSE
<1>1. p.iv \in Nat /\ p.seq \in Nat /\ p.src \in Sources /\ r.iv \in Nat /\ ListOK(r.rpl)
  BY DEF Protects, Numbered, IsRam, HasNumbers
<1>2. p.iv >= r.iv - 1
  BY <1>1 DEF Decrypts
<1>3. PICK j \in 1..CRPL : r.rpl[j].src = p.src /\ Covers(r, r.rpl[j], p)
  BY <1>2 DEF Protects, Covered
<1>4. i \in Candidate(r, p) /\ Newer(r, p, r.rpl[i])
  BY DEF RplSlot
<1>5. i = j
  BY <1>1, <1>3, <1>4, CandidateIsSlot
<1>6. p.src # NULL /\ r.rpl[j].seq \in Nat
  BY <1>1, SourcesNotNull DEF ListOK, IsEntry
<1> QED BY <1>1, <1>3, <1>4, <1>5, <1>6 DEF Newer, Covers

(* bt_mesh_rpl_update: the new entry covers the packet and all that the    *)
(* one before it covered.                                                  *)
LEMMA UpdateProtects ==
  ASSUME RplTimer, NEW r, NEW F, NEW g, Protects(r, F, g), IsRam(r), ~r.reset,
         NEW p \in Numbered, Decrypts(r, p), NEW i \in RplSlot(r, p), NEW t, t = RplUpdate(r, i, p)
  PROVE  Protects(t, F, g \cup {p})
<1> DEFINE l == t.rpl
           new == [src |-> p.src, seq |-> p.seq, old |-> p.iv # r.iv, store |-> TRUE]
<1>1. /\ p.iv \in Nat /\ p.seq \in Nat /\ p.src \in Sources /\ r.iv \in Nat /\ ListOK(r.rpl)
      /\ DOMAIN r = RamFields /\ CRPL \in Nat /\ p.src # NULL
  BY SourcesNotNull, MeshAssumption DEF Protects, Numbered, IsRam, HasNumbers
<1>2. /\ i \in Candidate(r, p) /\ Newer(r, p, r.rpl[i]) /\ i \in 1..CRPL
      /\ r.rpl[i].src \in {NULL, p.src} /\ \A j \in 1..i - 1 : r.rpl[j].src \notin {NULL, p.src}
  BY DEF RplSlot, Candidate
<1>3. /\ l = [r.rpl EXCEPT ![i] = new] /\ t.reset = r.reset /\ t.clear = r.clear /\ t.iv = r.iv
      /\ t.pend = r.pend \cup {"rpl"}
  BY <1>1 DEF RplUpdate, RplScheduled, RamFields
<1>4. /\ DOMAIN l = 1..CRPL /\ l[i] = new /\ \A j \in 1..CRPL : j # i => l[j] = r.rpl[j]
  BY <1>1, <1>2, <1>3 DEF ListOK
<1>5. /\ IsEntry(new) /\ new.src = p.src /\ new.seq = p.seq /\ new.store = TRUE
      /\ (new.old <=> p.iv # r.iv)
  BY <1>1 DEF IsEntry
<1> HIDE DEF l, new
<1>6. \A j \in 1..CRPL : r.rpl[j].src = p.src => j = i
  BY <1>1, <1>2, CandidateIsSlot
<1>7. ListOK(l)
  <2>1. \A j \in 1..CRPL : IsEntry(l[j]) /\ (l[j].store => l[j].src # NULL)
    BY <1>1, <1>4, <1>5 DEF ListOK
  <2>2. ASSUME NEW a \in 1..CRPL, NEW b \in 1..CRPL, a < b, l[a].src = NULL PROVE l[b].src = NULL
    <3>1. a # i /\ r.rpl[a].src = NULL
      BY <1>1, <1>4, <1>5, <2>2
    <3>2. b # i
      <4> SUFFICES ASSUME b = i PROVE FALSE
        OBVIOUS
      <4>1. a \in 1..i - 1
        BY <1>1, <2>2
      <4> QED BY <1>2, <3>1, <4>1
    <3> QED BY <1>1, <1>4, <2>2, <3>1, <3>2 DEF ListOK
  <2>3. ASSUME NEW a \in 1..CRPL, NEW b \in 1..CRPL, l[a].src = l[b].src, l[a].src # NULL PROVE a = b
    <3>1. CASE a # i /\ b # i
      BY <1>1, <1>4, <2>3, <3>1 DEF ListOK
    <3>2. CASE a = i \/ b = i
      BY <1>4, <1>5, <1>6, <2>3, <3>2
    <3> QED BY <3>1, <3>2
  <2> QED BY <1>4, <2>1, <2>2, <2>3 DEF ListOK
<1>8. ~t.reset /\ ~t.clear /\ \A e : ~Stale(t, e) /\ ~Stale(r, e)
  BY <1>3 DEF Stale, Protects, Resetting
<1>9. Mirrored(t, F)
  <2>1. ASSUME NEW f \in F PROVE \E j \in 1..CRPL : l[j].src = f.src
    <3>1. PICK j \in 1..CRPL : r.rpl[j].src = f.src /\ f.src # NULL
      BY DEF Protects, Mirrored, StoredOK
    <3>2. l[j].src = f.src
      BY <1>2, <1>4, <1>5, <3>1
    <3> QED BY <3>2
  <2>2. ASSUME NEW j \in 1..CRPL, l[j].src # NULL, ~l[j].store PROVE \E f \in F : Like(l[j], f)
    <3>1. j # i
      BY <1>4, <1>5, <2>2
    <3> QED BY <1>4, <1>8, <2>2, <3>1 DEF Protects, Mirrored
  <2> QED BY <1>3, <2>1, <2>2 DEF Mirrored, l
<1>10. Covered(t, g \cup {p})
  <2> SUFFICES ASSUME NEW q \in g \cup {p}
               PROVE  /\ q.iv <= t.iv
                      /\ q.iv >= t.iv - 1 => \E j \in 1..CRPL : l[j].src = q.src /\ Covers(t, l[j], q)
    BY DEF Covered, l
  <2>1. CASE q = p
    <3>1. p.iv <= r.iv
      BY <1>1 DEF Decrypts
    <3>2. Covers(t, new, p)
      BY <1>1, <1>3, <1>5, <1>8 DEF Covers
    <3> QED BY <1>2, <1>3, <1>4, <1>5, <2>1, <3>1, <3>2
  <2>2. CASE q \in g
    <3>1. q.iv \in Nat /\ q.seq \in Nat /\ q.iv <= r.iv
      BY <2>2 DEF Protects, Numbered, Covered
    <3>2. ASSUME q.iv >= r.iv - 1 PROVE \E j \in 1..CRPL : l[j].src = q.src /\ Covers(t, l[j], q)
      <4>1. PICK j \in 1..CRPL : r.rpl[j].src = q.src /\ Covers(r, r.rpl[j], q)
        BY <2>2, <3>2 DEF Protects, Covered
      <4>2. CASE j # i
        BY <1>3, <1>4, <1>8, <4>1, <4>2 DEF Covers
      <4>3. CASE j = i
        <5>1. q.src # NULL /\ q.src = p.src /\ r.rpl[i].seq \in Nat
          <6>1. q.src \in Sources
            BY <2>2 DEF Protects, Numbered
          <6>2. r.rpl[i].seq \in Nat
            BY <1>1, <1>2 DEF ListOK, IsEntry
          <6> QED BY <1>2, <4>1, <4>3, <6>1, <6>2, SourcesNotNull
        <5>2. Newer(r, p, r.rpl[i]) /\ r.rpl[i].src # NULL /\ Covers(r, r.rpl[i], q)
          BY <1>2, <4>1, <4>3, <5>1
        <5>3. p.iv \in {r.iv, r.iv - 1} /\ q.iv \in {r.iv, r.iv - 1}
          BY <1>1, <3>1, <3>2 DEF Decrypts
        <5>4. q.iv = r.iv => p.iv = r.iv
          BY <5>2, <1>8 DEF Newer, Covers
        <5>5. q.iv = r.iv \/ p.iv # r.iv => q.seq <= p.seq
          BY <1>1, <1>8, <3>1, <5>1, <5>2, <5>3, <5>4 DEF Newer, Covers
        <5>6. Covers(t, new, q)
          BY <1>3, <1>5, <1>8, <5>4, <5>5 DEF Covers
        <5> QED BY <1>2, <1>4, <1>5, <5>1, <5>6
      <4> QED BY <4>2, <4>3
    <3> QED BY <1>3, <3>1, <3>2
  <2> QED BY <2>1, <2>2
<1>11. Meant(t, g \cup {p})
  <2> SUFFICES ASSUME NEW j \in 1..CRPL, l[j].src # NULL
               PROVE  \E q \in g \cup {p} : Means(t, l[j], q)
    BY DEF Meant, l
  <2>1. CASE j = i
    <3>1. Means(t, new, p)
      BY <1>1, <1>3, <1>5 DEF Means, Decrypts
    <3> QED BY <1>4, <2>1, <3>1
  <2>2. CASE j # i
    <3>1. \E q \in g : Means(r, r.rpl[j], q)
      BY <1>4, <1>8, <2>2 DEF Protects, Meant
    <3> QED BY <1>3, <1>4, <2>2, <3>1 DEF Means
  <2> QED BY <2>1, <2>2
<1>12. Resetting(t)
  BY <1>8 DEF Resetting
<1> QED BY <1>7, <1>9, <1>10, <1>11, <1>12 DEF Protects, l

LEMMA RecvProtects ==
  ASSUME Prompt, RplTimer, NumbersInv, ReplayInv, NEW n \in Nodes, Settled(n),
         NEW p \in air, Recv(n, p)
  PROVE  ReplayInv'
<1> DEFINE r == ram[n]
           F == flash[n].rpl
           g == got[n]
<1>1. IsRam(r) /\ Protects(r, F, g) /\ p \in Numbered
  BY DEF NumbersInv, NodeInv, ReplayInv
<1>2. ~r.reset
  BY <1>1 DEF Protects, Resetting, Settled
<1>3. PICK i \in RplSlot(r, p) : ram' = [ram EXCEPT ![n] = RplUpdate(@, i, p)]
  BY DEF Recv
<1> DEFINE t == RplUpdate(r, i, p)
<1>4. Decrypts(r, p) /\ ram' = [ram EXCEPT ![n] = t] /\ UNCHANGED flash
  BY <1>3 DEF Recv, NumbersInv
<1>5. Protects(t, F, g \cup {p}) /\ "rpl" \in t.pend
  <2>1. Protects(t, F, g \cup {p})
    BY <1>1, <1>2, <1>3, <1>4, UpdateProtects
  <2>2. "rpl" \in t.pend
    BY <1>1 DEF RplUpdate, RplScheduled, IsRam, RamFields
  <2> QED BY <2>1, <2>2
<1> HIDE DEF t
<1>6. p \notin got[n]
  BY <1>1, <1>2, <1>3, <1>4, SlotOnlyForNew
<1>7. got' = [got EXCEPT ![n] = @ \cup {p}] /\ bad' = bad
  BY <1>6 DEF Recv, Deliver
<1>8. ASSUME NEW m \in Nodes
      PROVE  /\ Protects(ram'[m], flash'[m].rpl, got'[m])
             /\ "rpl" \notin ram'[m].pend => flash'[m].iv = ram'[m].iv
  <2>1. CASE m = n
    <3>1. ram'[m] = t /\ got'[m] = g \cup {p} /\ flash'[m].rpl = F
      BY <1>4, <1>7, <2>1 DEF NumbersInv, ReplayInv
    <3> QED BY <1>5, <3>1
  <2>2. CASE m # n
    <3>1. ram'[m] = ram[m] /\ got'[m] = got[m] /\ flash'[m] = flash[m]
      BY <1>4, <1>7, <2>2 DEF NumbersInv, ReplayInv
    <3> QED BY <3>1 DEF ReplayInv
  <2> QED BY <2>1, <2>2
<1> QED BY <1>7, <1>8 DEF ReplayInv, NoReplay
-----------------------------------------------------------------------------
LEMMA StoredEntry ==
  ASSUME NEW e, IsEntry(e)
  PROVE  IsEntry(Stored(e)) /\ Like(e, Stored(e)) /\ ~Stored(e).store
BY DEF IsEntry, Stored, Like

(* What the list l becomes when all of it is stored.                       *)
LEMMA CompactedList ==
  ASSUME NEW l, ListOK(l), NEW c, c = Compacted(l)
  PROVE  /\ ListOK(c) /\ \A j \in 1..CRPL : ~c[j].store
         /\ \A i \in Kept(l) : \E j \in 1..CRPL : c[j] = Stored(l[i])
         /\ \A j \in 1..CRPL : c[j].src # NULL => \E i \in Kept(l) : c[j] = Stored(l[i])
<1> DEFINE K == Kept(l)
           N == Cardinality(K)
           at(j) == CHOOSE i \in K : Place(l, i) = j
<1>1. /\ N \in 0..CRPL /\ \A i \in K : Place(l, i) \in 1..N
      /\ \A i, j \in K : Place(l, i) = Place(l, j) => i = j
      /\ \A k \in 1..N : \E i \in K : Place(l, i) = k
  BY PlacesAreDense
<1>2. K \subseteq 1..CRPL /\ CRPL \in Nat /\ \A i \in K : l[i].store
  BY MeshAssumption DEF Kept
<1>3. /\ DOMAIN c = 1..CRPL
      /\ \A j \in 1..CRPL : c[j] = IF \E i \in K : Place(l, i) = j THEN Stored(l[at(j)]) ELSE Empty
  BY DEF Compacted
<1> HIDE DEF K, N
<1>4. \A j \in 1..CRPL : j <= N => at(j) \in K /\ Place(l, at(j)) = j /\ c[j] = Stored(l[at(j)])
  <2> SUFFICES ASSUME NEW j \in 1..CRPL, j <= N
               PROVE  at(j) \in K /\ Place(l, at(j)) = j /\ c[j] = Stored(l[at(j)])
    OBVIOUS
  <2>1. \E i \in K : Place(l, i) = j
    BY <1>1
  <2> QED BY <1>3, <2>1
<1>5. \A j \in 1..CRPL : ~(j <= N) => c[j] = Empty
  BY <1>1, <1>3
<1>6. \A i \in K : Place(l, i) \in 1..CRPL /\ at(Place(l, i)) = i /\ c[Place(l, i)] = Stored(l[i])
  <2> SUFFICES ASSUME NEW i \in K
               PROVE  Place(l, i) \in 1..CRPL /\ at(Place(l, i)) = i /\ c[Place(l, i)] = Stored(l[i])
    OBVIOUS
  <2>1. Place(l, i) \in 1..CRPL /\ Place(l, i) <= N
    <3>1. Place(l, i) \in 1..N /\ N \in 0..CRPL /\ CRPL \in Nat
      BY <1>1, <1>2
    <3> QED BY ONLY <3>1
  <2>2. at(Place(l, i)) \in K /\ Place(l, at(Place(l, i))) = Place(l, i)
    BY <1>4, <2>1
  <2>3. at(Place(l, i)) = i
    BY <1>1, <2>2
  <2> QED BY <1>4, <2>1, <2>3
<1> HIDE DEF at
<1>7. ASSUME NEW i \in K
      PROVE  /\ IsEntry(Stored(l[i])) /\ ~Stored(l[i]).store
             /\ Stored(l[i]).src = l[i].src /\ l[i].src # NULL
  <2>1. IsEntry(l[i]) /\ l[i].src # NULL
    BY <1>2 DEF ListOK
  <2> QED BY <2>1, StoredEntry DEF Like
<1>8. IsEntry(Empty) /\ Empty.src = NULL /\ ~Empty.store
  BY DEF Empty, IsEntry
<1>9. \A j \in 1..CRPL : IsEntry(c[j]) /\ ~c[j].store /\ (c[j].src # NULL <=> j <= N)
  BY <1>4, <1>5, <1>7, <1>8
<1>10. \A i, j \in 1..CRPL : i < j /\ c[i].src = NULL => c[j].src = NULL
  BY <1>1, <1>2, <1>9
<1>11. ASSUME NEW i \in 1..CRPL, NEW j \in 1..CRPL, c[i].src = c[j].src, c[i].src # NULL
       PROVE  i = j
  <2>1. i <= N /\ j <= N
    BY <1>9, <1>11
  <2>2. at(i) \in K /\ at(j) \in K /\ l[at(i)].src = l[at(j)].src /\ l[at(i)].src # NULL
    BY <1>4, <1>7, <1>11, <2>1
  <2>3. at(i) = at(j)
    BY <1>2, <2>2 DEF ListOK
  <2> QED BY <1>4, <2>1, <2>3
<1>12. ListOK(c)
  BY <1>3, <1>9, <1>10, <1>11 DEF ListOK
<1>13. \A j \in 1..CRPL : c[j].src # NULL => \E i \in K : c[j] = Stored(l[i])
  BY <1>4, <1>9
<1> QED BY <1>6, <1>9, <1>12, <1>13 DEF K

(* A list that is written anew, in whatever order, with what counted of    *)
(* the one before, and a flash G that holds the same.                      *)
Rewritten(r, t, G) ==
  /\ t.iv = r.iv /\ ~t.reset /\ ~t.clear
  /\ ListOK(t.rpl) /\ \A j \in 1..CRPL : ~t.rpl[j].store
  /\ \A j \in 1..CRPL : t.rpl[j].src # NULL =>
       \E i \in 1..CRPL : Like(r.rpl[i], t.rpl[j]) /\ ~Stale(r, r.rpl[i])
  /\ \A i \in 1..CRPL : r.rpl[i].src # NULL /\ ~Stale(r, r.rpl[i]) =>
       \E j \in 1..CRPL : Like(r.rpl[i], t.rpl[j])
  /\ StoredOK(G) /\ \A f \in G : \E j \in 1..CRPL : t.rpl[j].src = f.src
  /\ \A j \in 1..CRPL : t.rpl[j].src # NULL => \E f \in G : Like(t.rpl[j], f)

LEMMA RewrittenProtects ==
  ASSUME NEW r, NEW t, NEW F, NEW G, NEW g, Protects(r, F, g), Rewritten(r, t, G)
  PROVE  Protects(t, G, g)
<1>1. \A e : ~Stale(t, e)
  BY DEF Rewritten, Stale
<1>2. Mirrored(t, G) /\ Resetting(t)
  BY DEF Rewritten, Mirrored, Resetting
<1>3. Covered(t, g)
  <2> SUFFICES ASSUME NEW p \in g
               PROVE  /\ p.iv <= t.iv
                      /\ p.iv >= t.iv - 1 =>
                           \E j \in 1..CRPL : t.rpl[j].src = p.src /\ Covers(t, t.rpl[j], p)
    BY DEF Covered
  <2>1. p.iv <= t.iv /\ t.iv = r.iv
    BY DEF Rewritten, Protects, Covered
  <2>2. ASSUME p.iv >= t.iv - 1
        PROVE  \E j \in 1..CRPL : t.rpl[j].src = p.src /\ Covers(t, t.rpl[j], p)
    <3>1. PICK i \in 1..CRPL : r.rpl[i].src = p.src /\ Covers(r, r.rpl[i], p)
      BY <2>1, <2>2 DEF Protects, Covered
    <3>2. r.rpl[i].src # NULL
      BY <3>1, SourcesNotNull DEF Protects, Numbered
    <3>3. PICK j \in 1..CRPL : Like(r.rpl[i], t.rpl[j])
      BY <3>1, <3>2 DEF Rewritten, Covers
    <3>4. t.rpl[j].src = p.src /\ Covers(t, t.rpl[j], p)
      BY <1>1, <2>1, <3>1, <3>3 DEF Like, Covers
    <3> QED BY <3>4
  <2> QED BY <2>1, <2>2
<1>4. Meant(t, g)
  <2> SUFFICES ASSUME NEW j \in 1..CRPL, t.rpl[j].src # NULL
               PROVE  \E q \in g : Means(t, t.rpl[j], q)
    BY DEF Meant
  <2>1. PICK i \in 1..CRPL : Like(r.rpl[i], t.rpl[j]) /\ ~Stale(r, r.rpl[i])
    BY DEF Rewritten
  <2>2. r.rpl[i].src # NULL
    BY <2>1 DEF Like
  <2>3. PICK q \in g : Means(r, r.rpl[i], q)
    BY <2>1, <2>2 DEF Protects, Meant
  <2>4. Means(t, t.rpl[j], q)
    BY <2>1, <2>3 DEF Like, Means, Rewritten
  <2> QED BY <2>4
<1> QED BY <1>2, <1>3, <1>4 DEF Protects, Rewritten

(* bt_mesh_rpl_pending_store: what is saved, and the two ways it goes.     *)
Save(l) == {Stored(l[i]) : i \in Kept(l)}
Gone(l) == {l[i].src : i \in (1..CRPL) \ Kept(l)}
PlainStore(r, t, F, G) ==
  /\ t.iv = r.iv /\ ~r.reset /\ ~t.reset /\ ~t.clear
  /\ t.rpl = [i \in 1..CRPL |-> Stored(r.rpl[i])]
  /\ G = Without(F, SrcsOf(Save(r.rpl))) \cup Save(r.rpl)
ResetStore(r, t, F, G) ==
  /\ t.iv = r.iv /\ r.reset /\ ~t.reset /\ ~t.clear /\ t.rpl = Compacted(r.rpl)
  /\ G = Without(F, Gone(r.rpl) \cup SrcsOf(Save(r.rpl))) \cup Save(r.rpl)

LEMMA SavedOK ==
  ASSUME NEW l, ListOK(l), NEW F, StoredOK(F), NEW srcs, NEW save, NEW G,
         save = Save(l), SrcsOf(save) \subseteq srcs, G = Without(F, srcs) \cup save
  PROVE  StoredOK(G)
<1>1. ASSUME NEW f \in save
      PROVE  \E i \in Kept(l) : f = Stored(l[i]) /\ f.src = l[i].src /\ i \in 1..CRPL /\ l[i].src # NULL
                                /\ IsEntry(f) /\ ~f.store
  <2>1. PICK i \in Kept(l) : f = Stored(l[i])
    BY DEF Save
  <2>2. i \in 1..CRPL /\ IsEntry(l[i]) /\ l[i].src # NULL
    BY DEF Kept, ListOK
  <2> QED BY <2>1, <2>2, StoredEntry DEF Like
<1>2. \A f \in G : (f \in F /\ f.src \notin SrcsOf(save)) \/ f \in save
  BY DEF Without
<1>3. \A f \in save : f.src \in SrcsOf(save)
  BY DEF SrcsOf
<1>4. \A f \in G : IsEntry(f) /\ f.src # NULL /\ ~f.store
  BY <1>1, <1>2 DEF StoredOK
<1>5. \A f, h \in save : f.src = h.src => f = h
  BY <1>1 DEF ListOK
<1>6. ASSUME NEW f \in G, NEW h \in G, f.src = h.src PROVE f = h
  <2>1. \/ f \in F /\ h \in F
        \/ f \in save /\ h \in save
    BY <1>2, <1>3, <1>6
  <2> QED BY <1>5, <1>6, <2>1 DEF StoredOK
<1> QED BY <1>4, <1>6 DEF StoredOK

(* bt_mesh_rpl_pending_store without a reset: the changed entries go to    *)
(* the flash.                                                              *)
LEMMA PlainStoreProtects ==
  ASSUME NEW r, NEW t, NEW F, NEW G, NEW g, Protects(r, F, g), PlainStore(r, t, F, G)
  PROVE  Protects(t, G, g)
<1>0. PICK save : /\ save = Save(r.rpl) /\ save = {Stored(r.rpl[i]) : i \in Kept(r.rpl)}
                  /\ G = Without(F, SrcsOf(save)) \cup save
  BY DEF PlainStore, Save
<1>1. ListOK(r.rpl) /\ StoredOK(F) /\ Mirrored(r, F) /\ \A e : ~Stale(r, e)
  BY DEF Protects, Stale, PlainStore
<1>2. \A i \in 1..CRPL : /\ t.rpl[i] = Stored(r.rpl[i]) /\ IsEntry(r.rpl[i]) /\ IsEntry(t.rpl[i])
                         /\ Like(r.rpl[i], t.rpl[i]) /\ ~t.rpl[i].store
  BY <1>1, StoredEntry DEF ListOK, PlainStore
<1>3. ListOK(t.rpl)
  BY <1>1, <1>2 DEF ListOK, Like, PlainStore
<1>4. StoredOK(G)
  BY <1>0, <1>1, SavedOK
<1>5. ASSUME NEW f \in G PROVE \E j \in 1..CRPL : t.rpl[j].src = f.src
  <2>1. CASE f \in F
    BY <1>1, <1>2, <2>1 DEF Mirrored, Like
  <2>2. CASE f \in save
    BY <1>0, <1>2, <2>2 DEF Kept
  <2> QED BY <1>0, <2>1, <2>2 DEF Without
<1>6. ASSUME NEW j \in 1..CRPL, t.rpl[j].src # NULL PROVE \E f \in G : Like(t.rpl[j], f)
  <2>1. r.rpl[j].src # NULL
    BY <1>2, <1>6 DEF Like
  <2>2. CASE r.rpl[j].store
    <3>1. t.rpl[j] \in G
      BY <1>0, <1>2, <2>2 DEF Kept
    <3> QED BY <3>1 DEF Like
  <2>3. CASE ~r.rpl[j].store
    <3>1. PICK f \in F : Like(r.rpl[j], f)
      BY <1>1, <2>1, <2>3 DEF Mirrored
    <3>2. f.src \notin SrcsOf(save)
      <4> SUFFICES ASSUME NEW i \in Kept(r.rpl), f.src = Stored(r.rpl[i]).src PROVE FALSE
        BY <1>0 DEF SrcsOf
      <4>1. i \in 1..CRPL /\ r.rpl[i].store /\ r.rpl[i].src = r.rpl[j].src
        BY <1>2, <3>1 DEF Kept, Like
      <4> QED BY <1>1, <2>1, <2>3, <4>1 DEF ListOK
    <3>3. f \in G
      BY <1>0, <3>2 DEF Without
    <3> QED BY <1>2, <3>1, <3>3 DEF Like
  <2> QED BY <2>2, <2>3
<1>7. Rewritten(r, t, G)
  BY <1>1, <1>2, <1>3, <1>4, <1>5, <1>6 DEF Rewritten, Like, PlainStore
<1> QED BY <1>7, RewrittenProtects

(* After a reset: what is not to be stored leaves the list and the flash.  *)
LEMMA ResetStoreProtects ==
  ASSUME NEW r, NEW t, NEW F, NEW G, NEW g, Protects(r, F, g), ResetStore(r, t, F, G)
  PROVE  Protects(t, G, g)
<1> DEFINE l == r.rpl
           K == Kept(l)
<1>0. PICK save, gone : /\ save = Save(l) /\ save = {Stored(l[i]) : i \in K}
                        /\ gone = {l[i].src : i \in (1..CRPL) \ K}
                        /\ G = Without(F, gone \cup SrcsOf(save)) \cup save
  BY DEF ResetStore, Save, Gone
<1>1. ListOK(l) /\ StoredOK(F) /\ Mirrored(r, F)
  BY DEF Protects
<1>2. K \subseteq 1..CRPL /\ \A i \in 1..CRPL : i \in K <=> l[i].store
  BY DEF Kept
<1>3. \A i \in 1..CRPL : l[i].src # NULL => (~Stale(r, l[i]) <=> i \in K)
  BY <1>2 DEF Protects, Resetting, Stale, ResetStore
<1>4. \A i \in K : IsEntry(l[i]) /\ l[i].src # NULL /\ Like(l[i], Stored(l[i]))
  BY <1>1, <1>2, StoredEntry DEF ListOK
<1>5. /\ ListOK(t.rpl) /\ \A j \in 1..CRPL : ~t.rpl[j].store
      /\ \A i \in K : \E j \in 1..CRPL : t.rpl[j] = Stored(l[i])
      /\ \A j \in 1..CRPL : t.rpl[j].src # NULL => \E i \in K : t.rpl[j] = Stored(l[i])
  BY <1>1, CompactedList DEF ResetStore
<1>6. StoredOK(G)
  <2>1. SrcsOf(save) \subseteq gone \cup SrcsOf(save)
    OBVIOUS
  <2> HIDE DEF K, l
  <2> QED BY ONLY <1>0, <1>1, <2>1, SavedOK
<1>7. ASSUME NEW f \in G PROVE f \in save
  <2> SUFFICES ASSUME f \in F, f.src \notin gone, f.src \notin SrcsOf(save) PROVE FALSE
    BY <1>0 DEF Without
  <2>1. PICK i \in 1..CRPL : l[i].src = f.src
    BY <1>1 DEF Mirrored
  <2>2. CASE i \in K
    <3>1. Stored(l[i]) \in save /\ Stored(l[i]).src = f.src
      BY <1>0, <1>4, <2>1, <2>2 DEF Like
    <3> QED BY <3>1 DEF SrcsOf
  <2>3. CASE i \notin K
    BY <1>0, <2>1, <2>3
  <2> QED BY <2>2, <2>3
<1> HIDE DEF K, l
<1>8. ASSUME NEW f \in G PROVE \E j \in 1..CRPL : t.rpl[j].src = f.src
  <2>1. PICK i \in K : f = Stored(l[i])
    BY <1>0, <1>7
  <2> QED BY <1>5, <2>1
<1>9. ASSUME NEW j \in 1..CRPL, t.rpl[j].src # NULL PROVE \E f \in G : Like(t.rpl[j], f)
  <2>1. t.rpl[j] \in G
    BY <1>0, <1>5, <1>9
  <2> QED BY <2>1 DEF Like
<1>10. ASSUME NEW j \in 1..CRPL, t.rpl[j].src # NULL
       PROVE  \E i \in 1..CRPL : Like(l[i], t.rpl[j]) /\ ~Stale(r, l[i])
  <2>1. PICK i \in K : t.rpl[j] = Stored(l[i])
    BY <1>5, <1>10
  <2>2. i \in 1..CRPL /\ l[i].src # NULL /\ Like(l[i], t.rpl[j])
    BY <1>2, <1>4, <2>1
  <2> QED BY <1>3, <2>1, <2>2
<1>11. ASSUME NEW i \in 1..CRPL, l[i].src # NULL, ~Stale(r, l[i])
       PROVE  \E j \in 1..CRPL : Like(l[i], t.rpl[j])
  <2>1. i \in K
    BY <1>3, <1>11
  <2> QED BY <1>4, <1>5, <2>1
<1>12. Rewritten(r, t, G)
  BY <1>5, <1>6, <1>8, <1>9, <1>10, <1>11 DEF Rewritten, ResetStore, l
<1> QED BY <1>12, RewrittenProtects

LEMMA RplStoreAllIs ==
  ASSUME NEW u, IsNode(u), ~u.ram.clear, NEW t, t = RplStoreAll(u)
  PROVE  /\ \/ PlainStore(u.ram, t.ram, u.flash.rpl, t.flash.rpl)
            \/ ResetStore(u.ram, t.ram, u.flash.rpl, t.flash.rpl)
         /\ t.ram.pend = u.ram.pend
<1> DEFINE l == u.ram.rpl
           gone == IF u.ram.clear THEN 1..CRPL ELSE IF u.ram.reset THEN (1..CRPL) \ Kept(l) ELSE {}
           save == IF u.ram.clear THEN {} ELSE {Stored(l[i]) : i \in (1..CRPL) \cap Kept(l)}
           c == IF u.ram.clear THEN Padded(<<>>)
                ELSE IF u.ram.reset THEN Compacted(l) ELSE [i \in 1..CRPL |-> Stored(l[i])]
           G == Without(u.flash.rpl, {l[i].src : i \in gone} \cup SrcsOf(save)) \cup save
<1>1. DOMAIN u.ram = RamFields /\ DOMAIN u.flash = FlashFields
  BY DEF IsNode, IsRam, IsFlash
<1>2. /\ t.ram = [u.ram EXCEPT !.reset = FALSE, !.clear = FALSE, !.rpl = c]
      /\ t.flash = [u.flash EXCEPT !.rpl = G]
  <2>1. t = [ram |-> [u.ram EXCEPT !.reset = FALSE, !.clear = FALSE, !.rpl = c],
             flash |-> [u.flash EXCEPT !.rpl = G]]
    BY DEF RplStoreAll, RplWritten
  <2> HIDE DEF c, G
  <2> QED BY <2>1
<1>3. c = IF u.ram.reset THEN Compacted(l) ELSE [i \in 1..CRPL |-> Stored(l[i])]
  OBVIOUS
<1>4. save = Save(l)
  BY DEF Save, Kept
<1>5. CASE u.ram.reset
  <2>1. {l[i].src : i \in gone} = Gone(l)
    BY <1>5 DEF Gone
  <2>2. G = Without(u.flash.rpl, Gone(l) \cup SrcsOf(Save(l))) \cup Save(l)
    BY ONLY <1>4, <2>1
  <2> HIDE DEF G, c
  <2>3. t.ram.iv = u.ram.iv /\ t.ram.reset = FALSE /\ t.ram.clear = FALSE /\ t.ram.rpl = c /\ t.ram.pend = u.ram.pend
    BY <1>1, <1>2 DEF RamFields
  <2>4. t.flash.rpl = G
    BY <1>1, <1>2 DEF FlashFields
  <2> QED BY <1>3, <1>5, <2>2, <2>3, <2>4 DEF ResetStore
<1>6. CASE ~u.ram.reset
  <2>1. {l[i].src : i \in gone} \cup SrcsOf(save) = SrcsOf(Save(l))
    BY <1>4, <1>6
  <2>2. G = Without(u.flash.rpl, SrcsOf(Save(l))) \cup Save(l)
    BY ONLY <1>4, <2>1
  <2> HIDE DEF G, c
  <2>3. t.ram.iv = u.ram.iv /\ t.ram.reset = FALSE /\ t.ram.clear = FALSE /\ t.ram.rpl = c /\ t.ram.pend = u.ram.pend
    BY <1>1, <1>2 DEF RamFields
  <2>4. t.flash.rpl = G
    BY <1>1, <1>2 DEF FlashFields
  <2> QED BY <1>3, <1>6, <2>2, <2>3, <2>4 DEF PlainStore
<1> QED BY <1>5, <1>6

LEMMA RplHandledProtects ==
  ASSUME NEW s, IsNode(s), NEW g, Protects(s.ram, s.flash.rpl, g), NEW t, t = Handled(s, "rpl")
  PROVE  Protects(t.ram, t.flash.rpl, g) /\ "rpl" \notin t.ram.pend /\ t.ram.iv = s.ram.iv
<1>1. CASE "rpl" \notin s.ram.pend
  BY <1>1 DEF Handled
<1>2. CASE "rpl" \in s.ram.pend
  <2> DEFINE u == Cleared(s, "rpl")
  <2>1. IsNode(s) /\ ~s.ram.clear
    BY DEF Protects, Resetting
  <2>2. t = RplStoreAll(u)
    BY <1>2 DEF Handled
  <2>3. /\ IsNode(u) /\ u.ram.rpl = s.ram.rpl /\ u.flash = s.flash /\ u.ram.clear = s.ram.clear
        /\ u.ram.reset = s.ram.reset /\ u.ram.pend = s.ram.pend \ {"rpl"} /\ u.ram.iv = s.ram.iv
    BY <2>1 DEF Cleared, IsNode, IsRam, HasNumbers, RamFields
  <2> HIDE DEF u
  <2>4. /\ \/ PlainStore(u.ram, t.ram, u.flash.rpl, t.flash.rpl)
           \/ ResetStore(u.ram, t.ram, u.flash.rpl, t.flash.rpl)
        /\ t.ram.pend = u.ram.pend
    BY <2>1, <2>2, <2>3, RplStoreAllIs
  <2>5. \/ PlainStore(s.ram, t.ram, s.flash.rpl, t.flash.rpl)
        \/ ResetStore(s.ram, t.ram, s.flash.rpl, t.flash.rpl)
    BY <2>3, <2>4 DEF PlainStore, ResetStore
  <2>6. Protects(t.ram, t.flash.rpl, g)
    BY <2>5, PlainStoreProtects, ResetStoreProtects
  <2>7. t.ram.iv = s.ram.iv
    BY <2>5 DEF PlainStore, ResetStore
  <2> QED BY <2>3, <2>4, <2>6, <2>7
<1> QED BY <1>1, <1>2

LEMMA OtherHandled ==
  ASSUME NEW s, IsNode(s), NEW h \in {"iv", "seq"}, NEW t, t = Handled(s, h)
  PROVE  /\ t.ram.rpl = s.ram.rpl /\ t.ram.iv = s.ram.iv /\ t.ram.reset = s.ram.reset
         /\ t.ram.clear = s.ram.clear /\ t.flash.rpl = s.flash.rpl
<1> DEFINE u == Cleared(s, h)
<1>1. /\ IsNode(u) /\ u.flash = s.flash /\ u.ram.rpl = s.ram.rpl /\ u.ram.iv = s.ram.iv
      /\ u.ram.reset = s.ram.reset /\ u.ram.clear = s.ram.clear
  BY DEF Cleared, IsNode, IsRam, HasNumbers, RamFields
<1>2. u = Cleared(s, h)
  OBVIOUS
<1> HIDE DEF u
<1>3. \/ t = s
      \/ t = [u EXCEPT !.flash.iv = u.ram.iv, !.flash.ivu = u.ram.ivu, !.flash.dur = u.ram.dur]
      \/ t = [u EXCEPT !.flash.seq = u.ram.seq]
  BY <1>2 DEF Handled
<1>4. CASE t = s
  BY <1>4
<1>5. CASE t = [u EXCEPT !.flash.iv = u.ram.iv, !.flash.ivu = u.ram.ivu, !.flash.dur = u.ram.dur]
  <2>1. /\ t.ram = u.ram
        /\ t.flash = [u.flash EXCEPT !.iv = u.ram.iv, !.ivu = u.ram.ivu, !.dur = u.ram.dur]
    BY <1>1, <1>5 DEF IsNode, IsFlash, FlashFields
  <2>2. t.flash.rpl = u.flash.rpl
    BY <1>1, <2>1 DEF IsNode, IsFlash, FlashFields
  <2> QED BY <1>1, <2>1, <2>2
<1>6. CASE t = [u EXCEPT !.flash.seq = u.ram.seq]
  <2>1. t.ram = u.ram /\ t.flash.rpl = u.flash.rpl
    BY <1>1, <1>6 DEF IsNode, IsFlash, FlashFields
  <2> QED BY <1>1, <2>1
<1> QED BY <1>3, <1>4, <1>5, <1>6

LEMMA OtherHandledProtects ==
  ASSUME NEW s, IsNode(s), NEW h \in {"iv", "seq"}, NEW t, t = Handled(s, h), NEW g,
         Protects(s.ram, s.flash.rpl, g), "rpl" \notin s.ram.pend
  PROVE  /\ IsNode(t) /\ Protects(t.ram, t.flash.rpl, g) /\ "rpl" \notin t.ram.pend
         /\ t.ram.iv = s.ram.iv
<1>1. /\ t.ram.rpl = s.ram.rpl /\ t.ram.iv = s.ram.iv /\ t.ram.reset = s.ram.reset
      /\ t.ram.clear = s.ram.clear /\ t.flash.rpl = s.flash.rpl
  BY OtherHandled
<1>2. IsNode(t) /\ t.ram.pend = s.ram.pend \ {h}
  BY HandledStores DEF Stores
<1>3. ~s.ram.reset /\ ~s.ram.clear /\ ~t.ram.reset /\ ~t.ram.clear /\ "rpl" \notin t.ram.pend
  BY <1>1, <1>2 DEF Protects, Mirrored, Resetting
<1>4. \A e : ~Stale(t.ram, e) /\ ~Stale(s.ram, e)
  BY <1>3 DEF Stale
<1>5. Mirrored(t.ram, t.flash.rpl) /\ Resetting(t.ram)
  BY <1>1, <1>3, <1>4 DEF Protects, Mirrored, Resetting
<1>6. Covered(t.ram, g) /\ Meant(t.ram, g)
  BY <1>1, <1>4 DEF Protects, Covered, Covers, Meant, Means
<1> QED BY <1>1, <1>2, <1>3, <1>5, <1>6 DEF Protects

LEMMA StorePendingProtects ==
  ASSUME NEW s, IsNode(s), NEW g, Protects(s.ram, s.flash.rpl, g), NEW k \in {2, 3},
         NEW t, t = StorePending(s, 1, k)
  PROVE  /\ Protects(t.ram, t.flash.rpl, g) /\ "rpl" \notin t.ram.pend /\ "iv" \notin t.ram.pend
         /\ t.ram.iv = s.ram.iv
         /\ k = 2 /\ "iv" \in s.ram.pend => t.flash.iv = s.ram.iv
<1> DEFINE a == Handled(s, "rpl")
           b == Handled(a, "iv")
           c == Handled(b, "seq")
<1>1. /\ Protects(a.ram, a.flash.rpl, g) /\ "rpl" \notin a.ram.pend /\ a.ram.iv = s.ram.iv
      /\ IsNode(a) /\ a.ram.pend = s.ram.pend \ {"rpl"}
  BY RplHandledProtects, HandledStores DEF Stores
<1> HIDE DEF a
<1>2. /\ Protects(b.ram, b.flash.rpl, g) /\ "rpl" \notin b.ram.pend /\ b.ram.iv = s.ram.iv
      /\ IsNode(b)
  BY <1>1, OtherHandledProtects
<1>3. /\ b.ram.pend = a.ram.pend \ {"iv"}
      /\ "iv" \in a.ram.pend => b.flash.iv = a.ram.iv
  BY <1>1, HandledStores DEF Stores
<1> HIDE DEF b
<1>4. /\ Protects(c.ram, c.flash.rpl, g) /\ "rpl" \notin c.ram.pend /\ c.ram.iv = s.ram.iv
  BY <1>2, OtherHandledProtects
<1>5. c.ram.pend = b.ram.pend \ {"seq"}
  BY <1>2, HandledStores DEF Stores
<1> HIDE DEF c
<1>6. StorePending(s, 1, 2) = b /\ StorePending(s, 1, 3) = c
  BY StorePendingSteps DEF a, b, c
<1>7. CASE k = 2
  BY <1>1, <1>2, <1>3, <1>6, <1>7
<1>8. CASE k = 3
  BY <1>3, <1>4, <1>5, <1>6, <1>8
<1> QED BY <1>7, <1>8

(* rpl_set: the entries of the flash become the list, in any order.        *)
LEMMA LoadedProtects ==
  ASSUME NEW r, NEW f, NEW g, Protects(r, f.rpl, g), "rpl" \notin r.pend, f.iv = r.iv, NEW dur,
         NEW t, t = Loaded(f, dur)
  PROVE  Protects(t, f.rpl, g)
<1> DEFINE F == f.rpl
           N == Cardinality(F)
           sq == SetToSeq(F)
           at == [e \in F |-> CHOOSE i \in 1..CRPL : r.rpl[i].src = e.src]
<1>1. /\ StoredOK(F) /\ Mirrored(r, F) /\ ListOK(r.rpl) /\ ~r.reset /\ CRPL \in Nat
      /\ \A i \in 1..CRPL : ~r.rpl[i].store
  BY MeshAssumption DEF Protects, Mirrored
<1>2. t.iv = r.iv /\ t.reset = FALSE /\ t.clear = FALSE /\ t.rpl = Padded(sq)
  BY DEF Loaded
<1>3. \A e \in F : at[e] \in 1..CRPL /\ r.rpl[at[e]].src = e.src
  BY <1>1 DEF Mirrored
<1>4. IsFiniteSet(F) /\ N <= CRPL /\ N \in Nat
  <2>1. at \in Injection(F, 1..CRPL)
    <3>1. at \in [F -> 1..CRPL]
      BY <1>3
    <3> HIDE DEF at
    <3>2. ASSUME NEW d \in F, NEW e \in F, at[d] = at[e] PROVE d = e
      <4>1. d.src = e.src
        BY <1>3, <3>2
      <4> QED BY <1>1, <4>1 DEF StoredOK
    <3> QED BY <3>1, <3>2 DEF Injection, IsInjective
  <2>2. IsFiniteSet(1..CRPL) /\ Cardinality(1..CRPL) = CRPL
    <3>1. 1 \in Int /\ CRPL \in Int /\ ~(1 > CRPL) /\ CRPL - 1 + 1 = CRPL
      BY MeshAssumption
    <3>2. IsFiniteSet(1..CRPL) /\ Cardinality(1..CRPL) = CRPL - 1 + 1
      BY ONLY <3>1, FS_Interval
    <3> QED BY <3>1, <3>2
  <2> HIDE DEF at, F
  <2>3. IsFiniteSet(F) /\ Cardinality(F) <= Cardinality(1..CRPL)
    BY ONLY <2>1, <2>2, FS_Injection
  <2> QED BY <2>2, <2>3, FS_CardinalityType
<1> HIDE DEF at
<1>5. /\ Len(sq) = N /\ \A i \in 1..N : sq[i] \in F
      /\ \A i, j \in 1..N : sq[i] = sq[j] => i = j
      /\ \A e \in F : \E i \in 1..N : sq[i] = e
  BY <1>4, SetToSeqLists
<1> HIDE DEF sq, N, F
<1>6. /\ DOMAIN t.rpl = 1..CRPL
      /\ \A j \in 1..CRPL : t.rpl[j] = IF j <= N THEN sq[j] ELSE Empty
  BY <1>2, <1>5 DEF Padded
<1>7. \A j \in 1..CRPL : /\ j <= N => j \in 1..N /\ t.rpl[j] \in F /\ t.rpl[j] = sq[j]
                         /\ ~(j <= N) => t.rpl[j] = Empty
  BY <1>4, <1>5, <1>6
<1>8. \A e \in F : \E j \in 1..CRPL : t.rpl[j] = e
  BY <1>1, <1>4, <1>5, <1>6
<1>9. \A e \in F : IsEntry(e) /\ e.src # NULL /\ ~e.store
  BY <1>1 DEF StoredOK
<1>10. IsEntry(Empty) /\ Empty.src = NULL /\ ~Empty.store
  BY DEF Empty, IsEntry
<1>11. \A j \in 1..CRPL : IsEntry(t.rpl[j]) /\ ~t.rpl[j].store /\ (t.rpl[j].src # NULL <=> j <= N)
  BY <1>7, <1>9, <1>10
<1>12. ListOK(t.rpl)
  <2>1. \A i, j \in 1..CRPL : i < j /\ t.rpl[i].src = NULL => t.rpl[j].src = NULL
    BY <1>1, <1>4, <1>11
  <2>2. ASSUME NEW i \in 1..CRPL, NEW j \in 1..CRPL, t.rpl[i].src = t.rpl[j].src, t.rpl[i].src # NULL
        PROVE  i = j
    <3>1. i <= N /\ j <= N
      BY <1>11, <2>2
    <3>2. t.rpl[i] = t.rpl[j]
      BY <1>1, <1>7, <2>2, <3>1 DEF StoredOK
    <3> QED BY <1>5, <1>7, <3>1, <3>2
  <2> QED BY <1>6, <1>11, <2>1, <2>2 DEF ListOK
<1>13. \A e : ~Stale(r, e)
  BY <1>1 DEF Stale
<1>14. ASSUME NEW j \in 1..CRPL, t.rpl[j].src # NULL
       PROVE  t.rpl[j] \in F /\ \E i \in 1..CRPL : Like(r.rpl[i], t.rpl[j])
  <2>1. t.rpl[j] \in F
    BY <1>7, <1>11, <1>14
  <2>2. PICK i \in 1..CRPL : r.rpl[i].src = t.rpl[j].src
    BY <1>1, <2>1 DEF Mirrored
  <2>3. PICK e \in F : Like(r.rpl[i], e)
    BY <1>1, <1>13, <1>14, <2>2 DEF Mirrored
  <2>4. e = t.rpl[j]
    BY <1>1, <2>1, <2>2, <2>3 DEF StoredOK, Like
  <2> QED BY <2>1, <2>3, <2>4
<1>15. ASSUME NEW i \in 1..CRPL, r.rpl[i].src # NULL
       PROVE  \E j \in 1..CRPL : Like(r.rpl[i], t.rpl[j])
  <2>1. PICK e \in F : Like(r.rpl[i], e)
    BY <1>1, <1>13, <1>15 DEF Mirrored
  <2> QED BY <1>8, <2>1
<1>16. Rewritten(r, t, F)
  <2>1. \A e \in F : \E j \in 1..CRPL : t.rpl[j].src = e.src
    BY <1>8
  <2>2. \A j \in 1..CRPL : t.rpl[j].src # NULL => \E e \in F : Like(t.rpl[j], e)
    BY <1>14 DEF Like
  <2> QED BY <1>1, <1>2, <1>11, <1>12, <1>13, <1>14, <1>15, <2>1, <2>2 DEF Rewritten
<1> QED BY <1>16, RewrittenProtects DEF F

(* Steps that change what one node knows and has stored.                   *)
LEMMA BecomesProtects ==
  ASSUME NumbersInv, ReplayInv, NEW n \in Nodes, NEW r, NEW f,
         ram' = [ram EXCEPT ![n] = r], flash' = [flash EXCEPT ![n] = f], UNCHANGED <<got, bad>>,
         Protects(r, f.rpl, got[n]), f.iv = r.iv
  PROVE  ReplayInv'
<1>1. ASSUME NEW m \in Nodes
      PROVE  /\ Protects(ram'[m], flash'[m].rpl, got'[m])
             /\ "rpl" \notin ram'[m].pend => flash'[m].iv = ram'[m].iv
  <2>1. CASE m = n
    <3>1. ram'[m] = r /\ flash'[m] = f
      BY <2>1 DEF NumbersInv
    <3> QED BY <2>1, <3>1
  <2>2. CASE m # n
    <3>1. ram'[m] = ram[m] /\ flash'[m] = flash[m]
      BY <2>2 DEF NumbersInv
    <3> QED BY <3>1 DEF ReplayInv
  <2> QED BY <2>1, <2>2
<1> QED BY <1>1 DEF ReplayInv, NoReplay

LEMMA NodeProtects ==
  ASSUME NumbersInv, ReplayInv, NEW n \in Nodes
  PROVE  LET s == Node(n)
         IN  /\ IsNode(s) /\ Protects(s.ram, s.flash.rpl, got[n]) /\ s.ram = ram[n]
             /\ "rpl" \notin s.ram.pend => s.flash.iv = s.ram.iv
BY DEF NumbersInv, NodeInv, ReplayInv, Node, IsNode

LEMMA StoreProtects ==
  ASSUME NumbersInv, NumbersInv', ReplayInv, NEW n \in Nodes, Store(n)
  PROVE  ReplayInv'
<1> DEFINE s == Node(n)
           t == StorePending(s, 1, 3)
<1>1. IsNode(s) /\ Protects(s.ram, s.flash.rpl, got[n])
  BY NodeProtects
<1>2. /\ ram' = [ram EXCEPT ![n] = t.ram] /\ flash' = [flash EXCEPT ![n] = t.flash]
      /\ UNCHANGED <<got, bad>>
  BY DEF Store, NodeBecomes
<1> HIDE DEF s
<1>3. Protects(t.ram, t.flash.rpl, got[n]) /\ "iv" \notin t.ram.pend
  BY <1>1, StorePendingProtects
<1> HIDE DEF t
<1>4. t.flash.iv = t.ram.iv
  <2>1. ram'[n] = t.ram /\ flash'[n] = t.flash
    BY <1>2 DEF NumbersInv
  <2>2. Saved(ram'[n], flash'[n])
    BY DEF NumbersInv, NodeInv
  <2> QED BY <1>3, <2>1, <2>2 DEF Saved, SameIv
<1> QED BY <1>2, <1>3, <1>4, BecomesProtects

LEMMA CrashProtects ==
  ASSUME CrashAfter \subseteq {"nothing", "iv"}, NumbersInv, ReplayInv, NEW n \in Nodes, Crash(n)
  PROVE  ReplayInv'
<1> DEFINE s == Node(n)
<1>1. /\ IsNode(s) /\ Protects(s.ram, s.flash.rpl, got[n])
      /\ "rpl" \notin s.ram.pend => s.flash.iv = s.ram.iv
  BY NodeProtects
<1>2. PICK f \in Interrupted(s) : \E dur \in Durations(f) :
        /\ flash' = [flash EXCEPT ![n] = f] /\ ram' = [ram EXCEPT ![n] = Loaded(f, dur)]
        /\ UNCHANGED <<got, bad>>
  BY DEF Crash
<1>3. PICK dur : /\ flash' = [flash EXCEPT ![n] = f] /\ ram' = [ram EXCEPT ![n] = Loaded(f, dur)]
                 /\ UNCHANGED <<got, bad>>
  BY <1>2
<1> HIDE DEF s
<1>4. \E k \in {0, 2} : /\ f = StorePending(s, 1, k).flash
                        /\ k = 0 => "rpl" \notin s.ram.pend
                        /\ k = 2 => "iv" \in s.ram.pend
  <2>1. PICK k \in 0..2 :
          /\ f = StorePending(s, 1, k).flash
          /\ CASE k = 0 -> "nothing" \in CrashAfter /\ ("rpl" \notin s.ram.pend \/ "unsaved" \in CrashAfter)
               [] OTHER -> Handlers[k] \in s.ram.pend /\ <<"rpl", "iv">>[k] \in CrashAfter
    <3>1. "rpl" \notin CrashAfter
      OBVIOUS
    <3> QED BY <1>2, <3>1 DEF Interrupted
  <2>2. CASE k = 0
    BY <2>1, <2>2
  <2>3. CASE k = 1
    BY <2>1, <2>3
  <2>4. CASE k = 2
    BY <2>1, <2>4 DEF Handlers
  <2>5. k = 0 \/ k = 1 \/ k = 2
    OBVIOUS
  <2> QED BY <2>2, <2>3, <2>4, <2>5
<1>5. \E r : Protects(r, f.rpl, got[n]) /\ "rpl" \notin r.pend /\ f.iv = r.iv
  <2>1. CASE f = StorePending(s, 1, 0).flash /\ "rpl" \notin s.ram.pend
    <3>1. f = s.flash
      BY <2>1, StorePendingSteps
    <3> QED BY <1>1, <2>1, <3>1
  <2>2. CASE f = StorePending(s, 1, 2).flash /\ "iv" \in s.ram.pend
    <3> DEFINE t == StorePending(s, 1, 2)
    <3>1. /\ Protects(t.ram, t.flash.rpl, got[n]) /\ "rpl" \notin t.ram.pend /\ t.ram.iv = s.ram.iv
          /\ t.flash.iv = s.ram.iv
      BY <1>1, <2>2, StorePendingProtects
    <3> HIDE DEF t
    <3>2. f = t.flash
      BY <2>2 DEF t
    <3> QED BY <3>1, <3>2
  <2> QED BY <1>4, <2>1, <2>2
<1>6. Protects(Loaded(f, dur), f.rpl, got[n])
  BY <1>5, LoadedProtects
<1>7. Loaded(f, dur).iv = f.iv
  BY DEF Loaded
<1> QED BY <1>3, <1>6, <1>7, BecomesProtects

LEMMA ReplayInit == Init => ReplayInv
<1> SUFFICES ASSUME Init PROVE ReplayInv
  OBVIOUS
<1>1. ASSUME NEW n \in Nodes
      PROVE  Protects(ram[n], flash[n].rpl, got[n]) /\ flash[n].iv = ram[n].iv
  <2>1. /\ ram[n].iv = 1 /\ flash[n].iv = 1 /\ ram[n].rpl = Padded(<<>>) /\ ram[n].reset = FALSE
        /\ ram[n].clear = FALSE /\ flash[n].rpl = {} /\ got[n] = {}
    BY DEF Init
  <2>2. IsEntry(Empty) /\ Empty.src = NULL /\ ~Empty.store
    BY DEF Empty, IsEntry
  <2>3. /\ DOMAIN ram[n].rpl = 1..CRPL
        /\ \A i \in 1..CRPL : ram[n].rpl[i] = Empty
    BY <2>1 DEF Padded
  <2>4. ListOK(ram[n].rpl) /\ StoredOK(flash[n].rpl)
    BY <2>1, <2>2, <2>3 DEF ListOK, StoredOK
  <2>5. Mirrored(ram[n], flash[n].rpl) /\ Resetting(ram[n])
    BY <2>1, <2>2, <2>3 DEF Mirrored, Resetting
  <2>6. Covered(ram[n], got[n]) /\ Meant(ram[n], got[n])
    BY <2>1, <2>2, <2>3 DEF Covered, Meant
  <2> QED BY <2>1, <2>4, <2>5, <2>6 DEF Protects
<1> QED BY <1>1 DEF Init, ReplayInv, NoReplay

LEMMA ReplayNext ==
  ASSUME Prompt, RplTimer, Missing = {}, CrashAfter \subseteq {"nothing", "iv"}
  PROVE  NumbersInv /\ NumbersInv' /\ ReplayInv /\ [Next]_vars => ReplayInv'
<1> SUFFICES ASSUME NumbersInv, NumbersInv', ReplayInv, [Next]_vars PROVE ReplayInv'
  OBVIOUS
<1>1. CASE UNCHANGED vars
  BY <1>1 DEF vars, ReplayInv, NoReplay
<1>2. CASE Next
  <2>1. PICK n \in Nodes :
          \/ SegTxReset(n) \/ Beacon(n)
          \/ Settled(n) /\ IvuRefresh(n)
          \/ \E e \in Elements[n] : Encode(n, e)
          \/ SeqSettled(n) /\ Transmit(n)
          \/ Settled(n) /\ \E p \in air : Recv(n, p)
          \/ Store(n) \/ Crash(n)
    BY <1>2 DEF Next
  <2>2. CASE Settled(n) /\ IvuRefresh(n)
    BY <2>2, IvuRefreshProtects
  <2>3. CASE SegTxReset(n)
    BY <2>3, SegTxResetProtects
  <2>4. CASE Beacon(n)
    BY <2>4, BeaconProtects
  <2>5. CASE SeqSettled(n) /\ Transmit(n)
    BY <2>5 DEF Transmit, ReplayInv, NoReplay
  <2>6. CASE \E e \in Elements[n] : Encode(n, e)
    BY <2>6, EncodeProtects
  <2>7. CASE Store(n)
    BY <2>7, StoreProtects
  <2>8. CASE Crash(n)
    BY <2>8, CrashProtects
  <2>9. CASE Settled(n) /\ \E p \in air : Recv(n, p)
    BY <2>9, RecvProtects
  <2> QED BY <2>1, <2>2, <2>3, <2>4, <2>5, <2>6, <2>7, <2>8, <2>9
<1> QED BY <1>1, <1>2

(* The replay list is never wrong about what was delivered, whatever the   *)
(* order of packets, IV updates and stores, and across resets.             *)
LEMMA ReplayAlways ==
  ASSUME Prompt, RplTimer, Missing = {}, CrashAfter \subseteq {"nothing", "iv"}
  PROVE  Spec => [](NumbersInv /\ ReplayInv)
<1>1. NumbersInv /\ [Next]_vars => NumbersInv'
  BY NumbersNext
<1>2. NumbersInv /\ ReplayInv /\ [Next]_vars => NumbersInv' /\ ReplayInv'
  BY <1>1, ReplayNext
<1> QED BY <1>2, NumbersInit, ReplayInit, PTL DEF Spec

(* bt_mesh_rpl_check turns away every packet that was delivered before, if *)
(* stores without delay are done in time, no IV update is missed and no    *)
(* crash loses a change of the list, which the timer is to store.          *)
THEOREM NothingReplayed ==
  ASSUME Prompt, RplTimer, Missing = {}, CrashAfter \subseteq {"nothing", "iv"}
  PROVE  Spec => []NoReplay
<1>1. NumbersInv /\ ReplayInv => NoReplay
  BY DEF ReplayInv
<1> QED BY <1>1, ReplayAlways, PTL

(* Under the same conditions bt_mesh_rpl_check never turns away the newest *)
(* packet of a source, whatever entries of earlier IV indexes are left.    *)
THEOREM NewestAccepted ==
  ASSUME Prompt, RplTimer, Missing = {}, CrashAfter \subseteq {"nothing", "iv"}
  PROVE  Spec => []FreshAccepted
<1>1. ASSUME NumbersInv, ReplayInv PROVE FreshAccepted
  <2> SUFFICES ASSUME NEW n \in Nodes, NEW p \in air, Decrypts(ram[n], p), NewestOf(n, p),
                      NEW i \in Candidate(ram[n], p)
               PROVE  Newer(ram[n], p, ram[n].rpl[i])
    BY DEF FreshAccepted, RplSlot
  <2> DEFINE r == ram[n]
             e == r.rpl[i]
  <2>1. /\ IsRam(r) /\ Protects(r, flash[n].rpl, got[n]) /\ p \in Numbered
    BY <1>1 DEF NumbersInv, NodeInv, ReplayInv
  <2>2. p.iv \in Nat /\ p.seq \in Nat /\ r.iv \in Nat /\ i \in 1..CRPL /\ e.src \in {NULL, p.src}
    BY <2>1 DEF Numbered, IsRam, HasNumbers, Candidate
  <2>3. CASE e.src = NULL \/ Stale(r, e)
    BY <2>3 DEF Newer, Stale
  <2>4. CASE e.src # NULL /\ ~Stale(r, e)
    <3>1. PICK q \in got[n] : Means(r, e, q)
      BY <2>1, <2>2, <2>4 DEF Protects, Meant
    <3>2. q.iv \in Nat /\ q.seq \in Nat /\ q.src = p.src /\ e.seq = q.seq
      BY <2>1, <2>2, <2>4, <3>1 DEF Protects, Numbered, Means
    <3>3. q.iv < p.iv \/ (q.iv = p.iv /\ q.seq < p.seq)
      BY <3>2 DEF NewestOf
    <3>4. q.iv = IF e.old THEN r.iv - 1 ELSE r.iv
      BY <3>1 DEF Means
    <3>5. p.iv = r.iv \/ p.iv = r.iv - 1
      BY DEF Decrypts
    <3> HIDE DEF r, e
    <3>6. Newer(r, p, e)
      BY ONLY <2>2, <3>2, <3>3, <3>4, <3>5 DEF Newer
    <3> QED BY <3>6 DEF r, e
  <2> QED BY <2>3, <2>4
<1> QED BY <1>1, ReplayAlways, PTL
===============================================================================
