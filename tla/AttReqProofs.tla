----------------------------- MODULE AttReqProofs -----------------------------
(***************************************************************************)
(* Proofs about AttReq: the blocks of req_slab are conserved, requests and *)
(* answers stay paired, and no timeout meets a channel that is detached.   *)
(*                                                                         *)
(* A handler is one step (Preempts is FALSE).  It is a composition of      *)
(* operators on worlds; each of them keeps a world sound, and the actions  *)
(* add what is on the wire.                                                *)
(***************************************************************************)
EXTENDS AttReq, ListLemmas, FiniteSetTheorems

Ends == {"reset", "cancelled", "insecure"}

Worlds == [att : Bearer, tx : Seq(Reqs), free : Nat, told : [Reqs -> Seq(Reqs \cup Ends)],
           picked : [Queues -> Reqs \cup {NULL}]]

Used(w) == w.free + Len(w.att.reqs) + (IF w.att.req \in Reqs THEN 1 ELSE 0)

(* Where a request is: queued once, outstanding, or neither; one that is    *)
(* underway or was never asked has not been told anything, and only the    *)
(* outstanding one waits for security.                                     *)
Placed(w, q) ==
  /\ Once(w.att.reqs, Reqs)
  /\ ~Has(w.att.reqs, w.att.req)
  /\ w.att.retrying \subseteq {w.att.req}
  /\ \A r \in Reqs : /\ Has(w.att.reqs, r) \/ r = w.att.req => r \in q /\ w.told[r] = <<>>
                     /\ r \notin q => w.told[r] = <<>>
                     /\ Len(w.told[r]) <= 1

Timed(w) == w.att.timer => w.att.req # NULL /\ w.att.up

Sound(w, q) == /\ w \in Worlds /\ Used(w) = Slots /\ Placed(w, q) /\ Timed(w)
               /\ w.picked = [x \in Queues |-> NULL]
               /\ w.att.listed => w.att.up

(* The bearer is up while the link is usable, and may be so while that is   *)
(* being disconnected; one that is down has no request, and a new link     *)
(* starts with nothing on the wire.                                        *)
LinkInv == /\ conn = "connected" => att.up
           /\ conn = "disconnected" => ~att.up
           /\ att.listed <=> att.up
           /\ ~att.up => att.reqs = <<>> /\ att.req = NULL
           /\ conn = "disconnected" => tx = <<>> /\ server = <<>> /\ answers = <<>>

(* What is on the wire of a bearer that is up, in L2CAP, at the server or  *)
(* coming back: at most one request, which is the outstanding one unless   *)
(* that was cancelled; nothing while no request is outstanding, or while   *)
(* it waits for security.                                                  *)
Silent(l2cap, there, back) == l2cap = <<>> /\ there = <<>> /\ back = <<>>
Paired(bearer, l2cap, there, back, level) ==
  bearer.up =>
    /\ Len(l2cap) + Len(there) + Len(back) <= 1
    /\ bearer.req \in Reqs => /\ \A i \in 1..Len(l2cap) : l2cap[i] = bearer.req
                              /\ \A i \in 1..Len(there) : there[i] = bearer.req
                              /\ \A i \in 1..Len(back) : back[i].to = bearer.req
    /\ bearer.req = NULL => Silent(l2cap, there, back)
    /\ bearer.req \in bearer.retrying /\ level = "raising" => Silent(l2cap, there, back)
PairInv == Paired(att, tx, server, answers, sec)

(* An answer that was told is the request's own.                           *)
Owned(said) == \A r \in Reqs : \A k \in 1..Len(said[r]) : said[r][k] \in Reqs => said[r][k] = r
OwnTold == Owned(told)

WireOK == /\ conn \in {"connected", "disconnecting", "disconnected"}
          /\ sec \in {"low", "raising", "high"} /\ sent \in 0..1
          /\ server \in Seq(Reqs) /\ answers \in Seq([to : Reqs, auth : BOOLEAN])
          /\ asked \subseteq Reqs /\ failed \in {"no", "null", "hung"} /\ links \in 0..MaxLinks
          /\ nests \in Locks /\ long \subseteq Reqs

IInv == /\ Sound(World, asked) /\ WireOK /\ LinkInv
        /\ "rekey" \notin Rash => PairInv /\ OwnTold
        /\ "late" \notin Rash => failed # "null"
-----------------------------------------------------------------------------
(* The operators on worlds.                                                *)

(* Taking the first of the queue leaves the others, which it is not among. *)
LEMMA TakeFirst ==
  ASSUME NEW list \in Seq(Reqs), Once(list, Reqs), list # <<>>
  PROVE  /\ Tail(list) \in Seq(Reqs) /\ Head(list) \in Reqs
         /\ Len(Tail(list)) = Len(list) - 1 /\ Len(list) \in Nat \ {0}
         /\ Has(list, Head(list))
         /\ \A x : Has(Tail(list), x) => Has(list, x) /\ x # Head(list)
         /\ Once(Tail(list), Reqs)
<1>1. /\ Len(list) \in Nat \ {0} /\ Len(Tail(list)) = Len(list) - 1
      /\ Head(list) = list[1] /\ Tail(list) \in Seq(Reqs)
      /\ \A i \in 1..Len(Tail(list)) : Tail(list)[i] = list[i + 1]
  BY LenProperties, EmptySeq, HeadTailProperties
<1>2. Has(list, Head(list))
  BY <1>1 DEF Has
<1>3. Once(Tail(list), Reqs) /\ Head(list) \in Reqs
  BY TailHas
<1>4. ASSUME NEW x, Has(Tail(list), x)
      PROVE  Has(list, x) /\ x # Head(list)
  <2>1. PICK i \in 1..Len(Tail(list)) : Tail(list)[i] = x
    BY <1>4 DEF Has
  <2>2. i + 1 \in 1..Len(list) /\ list[i + 1] = x
    BY <1>1, <2>1
  <2>3. x \in Reqs
    BY <2>2, ElementOfSeq
  <2> QED
    BY <1>1, <2>1, <2>2, <2>3 DEF Has, Once
<1> QED
  BY <1>1, <1>2, <1>3, <1>4

(* An idle channel takes the next request and gives it to L2CAP.           *)
LEMMA ProcessSound ==
  ASSUME NEW w, NEW q, NEW t, ~Preempts, Sound(w, q)
  PROVE  LET n == ReqSendProcess(w, t)
         IN  /\ Sound(n, q) /\ n.free = w.free
             /\ n.told = w.told /\ n.att.up = w.att.up /\ n.att.listed = w.att.listed
             /\ n.att.retrying = w.att.retrying /\ n.att.timer = w.att.timer
             /\ n = w \/ (/\ NextRequest(w) /\ n.att.req \in Reqs
                          /\ n.tx = Append(w.tx, n.att.req))
<1> DEFINE n == ReqSendProcess(w, t)
           r == Head(w.att.reqs)
<1>1. CASE ~NextRequest(w)
  BY <1>1 DEF ReqSendProcess
<1>2. CASE NextRequest(w)
  <2>0. /\ w \in Worlds /\ w.att \in Bearer /\ w.att.reqs \in Seq(Reqs) /\ w.tx \in Seq(Reqs)
        /\ w.att.reqs # <<>> /\ w.att.req = NULL /\ w.att.listed
    BY <1>2 DEF Sound, Worlds, Bearer, NextRequest
  <2>1. /\ Tail(w.att.reqs) \in Seq(Reqs) /\ r \in Reqs
        /\ Len(Tail(w.att.reqs)) = Len(w.att.reqs) - 1 /\ Len(w.att.reqs) \in Nat \ {0}
        /\ Has(w.att.reqs, r)
        /\ \A x : Has(Tail(w.att.reqs), x) => Has(w.att.reqs, x) /\ x # r
        /\ Once(Tail(w.att.reqs), Reqs)
    BY <2>0, TakeFirst DEF Sound, Placed
  <2>2. n = [w EXCEPT !.att = [w.att EXCEPT !.reqs = Tail(w.att.reqs), !.req = r],
                      !.tx = Append(w.tx, r)]
    BY <1>2, <2>0 DEF ReqSendProcess, ChanReqSend, Worlds, Bearer
  <2>3. /\ n.att.reqs = Tail(w.att.reqs) /\ n.att.req = r /\ n.tx = Append(w.tx, r)
        /\ n.free = w.free /\ n.told = w.told /\ n.picked = w.picked
        /\ n.att.up = w.att.up /\ n.att.listed = w.att.listed
        /\ n.att.retrying = w.att.retrying /\ n.att.timer = w.att.timer
    <3> HIDE DEF n, r
    <3>1. /\ n.att = [w.att EXCEPT !.reqs = Tail(w.att.reqs), !.req = r] /\ n.tx = Append(w.tx, r)
          /\ n.free = w.free /\ n.told = w.told /\ n.picked = w.picked
      BY <2>0, <2>2 DEF Worlds
    <3> QED
      BY <2>0, <3>1 DEF Bearer
  <2>7. n \in Worlds
    <3>1. Append(w.tx, r) \in Seq(Reqs)
      BY <2>0, <2>1, AppendProperties
    <3>2. [w.att EXCEPT !.reqs = Tail(w.att.reqs), !.req = r] \in Bearer
      BY <2>0, <2>1 DEF Bearer
    <3> QED
      BY <2>0, <2>2, <3>1, <3>2 DEF Worlds
  <2>4. Used(n) = Slots
    BY <2>0, <2>1, <2>3, AttAssumption DEF Sound, Used, Worlds
  <2>5. Placed(n, q)
    BY <2>0, <2>1, <2>3, AttAssumption DEF Sound, Placed, Bearer
  <2>6. Timed(n)
    BY <2>1, <2>3, AttAssumption DEF Sound, Timed
  <2> QED
    BY <1>2, <2>1, <2>3, <2>4, <2>5, <2>6, <2>7 DEF Sound
<1> QED
  BY <1>1, <1>2

(* What n, after att_handle_rsp with the answer what, is to w before.       *)
Completed(w, n, what) ==
  /\ n.att.up = w.att.up /\ n.att.listed = w.att.listed
  /\ n.att.timer = FALSE
  /\ \A r \in Reqs : n.told[r] = IF r = w.att.req THEN <<what>> ELSE w.told[r]
  /\ \/ n.att.req = NULL /\ n.tx = w.tx
     \/ w.att.listed /\ n.att.req \in Reqs /\ n.tx = Append(w.tx, n.att.req)
  /\ n.att.retrying = {}
  /\ n.free = IF w.att.req \in Reqs THEN w.free + 1 ELSE w.free

(* att_handle_rsp: the outstanding request is told and its block freed, or *)
(* a cancelled one is forgotten, and the next one is sent.                 *)
LEMMA CompleteSound ==
  ASSUME NEW w, NEW q, NEW t, NEW what \in Reqs \cup Ends, ~Preempts, Sound(w, q),
         w.att.req # NULL
  PROVE  /\ Sound(Complete(w, t, what), q)
         /\ Completed(w, Complete(w, t, what), what)
<1> DEFINE n == Complete(w, t, what)
           idle == [w EXCEPT !.att = [w.att EXCEPT !.req = NULL, !.timer = FALSE]]
           i == IF w.att.req = CANCEL THEN idle ELSE Finish(idle, w.att.req, what)
<1>0. /\ w \in Worlds /\ w.att \in Bearer /\ w.att.reqs \in Seq(Reqs) /\ w.tx \in Seq(Reqs)
      /\ w.told \in [Reqs -> Seq(Reqs \cup Ends)] /\ w.free \in Nat
      /\ w.att.retrying \subseteq {w.att.req} /\ w.att.retrying \subseteq Reqs
      /\ w.att.req \in Reqs \/ w.att.req = CANCEL
  BY DEF Sound, Worlds, Bearer, Placed
<1>1. n = ReqSendProcess(i, t)
  BY <1>0 DEF Complete, Worlds, Bearer
<1>2. /\ idle \in Worlds /\ idle.att \in Bearer
      /\ idle.att.req = NULL /\ idle.att.timer = FALSE /\ idle.att.reqs = w.att.reqs
      /\ idle.tx = w.tx /\ idle.free = w.free /\ idle.told = w.told /\ idle.picked = w.picked
      /\ idle.att.up = w.att.up /\ idle.att.listed = w.att.listed
      /\ idle.att.retrying = w.att.retrying
  BY <1>0 DEF Worlds, Bearer
<1>3. /\ i.att.req = NULL /\ i.att.timer = FALSE /\ i.att.reqs = w.att.reqs
      /\ i.att.up = w.att.up /\ i.att.listed = w.att.listed
      /\ i.att.retrying = {} /\ i.picked = w.picked /\ i.tx = w.tx
      /\ i.free = IF w.att.req \in Reqs THEN w.free + 1 ELSE w.free
      /\ \A r \in Reqs : i.told[r] = IF r = w.att.req THEN <<what>> ELSE w.told[r]
      /\ i \in Worlds
  <2>1. CASE w.att.req = CANCEL
    BY <1>0, <1>2, <2>1, AttAssumption
  <2>2. CASE w.att.req \in Reqs
    <3> DEFINE r == w.att.req
               said == [idle.told EXCEPT ![r] = Append(idle.told[r], what)]
    <3>1. i = [idle EXCEPT !.free = idle.free + 1, !.told = said,
                           !.att = [idle.att EXCEPT !.retrying = idle.att.retrying \ {r}]]
      BY <1>2, <2>2, AttAssumption DEF Finish, Worlds, Bearer
    <3>2. w.told[r] = <<>>
      BY <2>2 DEF Sound, Placed
    <3>9. Append(w.told[r], what) = <<what>> /\ <<what>> \in Seq(Reqs \cup Ends)
      BY <3>2
    <3> HIDE DEF idle, i
    <3>3. said \in [Reqs -> Seq(Reqs \cup Ends)]
      BY <1>0, <1>2, <2>2, <3>9
    <3>4. \A x \in Reqs : said[x] = IF x = r THEN <<what>> ELSE w.told[x]
      BY <1>0, <1>2, <2>2, <3>9
    <3>5. idle.att.retrying \ {r} = {}
      BY <1>0, <1>2
    <3>6. [idle.att EXCEPT !.retrying = idle.att.retrying \ {r}] \in Bearer
      BY <1>2 DEF Bearer
    <3> HIDE DEF said
    <3>7. /\ i.att.req = NULL /\ i.att.timer = FALSE /\ i.att.reqs = w.att.reqs
          /\ i.att.up = w.att.up /\ i.att.listed = w.att.listed
          /\ i.att.retrying = {} /\ i.picked = w.picked /\ i.tx = w.tx
          /\ i.free = w.free + 1 /\ i.told = said
      BY <3>1, <3>5, <1>2 DEF Worlds, Bearer
    <3>8. i \in Worlds
      <4>1. idle \in Worlds /\ idle.free + 1 \in Nat
        BY <1>0, <1>2
      <4> QED
        BY <4>1, <3>1, <3>3, <3>6 DEF Worlds
    <3> QED
      BY <2>2, <3>4, <3>7, <3>8
  <2> QED
    BY <1>0, <2>1, <2>2
<1> HIDE DEF idle, i
<1>4. Used(i) = Slots
  <2>1. Len(w.att.reqs) \in Nat /\ w.free \in Nat
    BY <1>0, LenProperties
  <2>2. w.free + Len(w.att.reqs) + (IF w.att.req \in Reqs THEN 1 ELSE 0) = Slots
    BY DEF Sound, Used
  <2>3. /\ i.att.req = NULL /\ i.att.reqs = w.att.reqs
        /\ i.free = IF w.att.req \in Reqs THEN w.free + 1 ELSE w.free
    BY <1>3
  <2> QED
    BY <2>1, <2>2, <2>3, AttAssumption DEF Used
<1>5. Placed(i, q)
  <2>1. ~Has(w.att.reqs, NULL)
    BY <1>0, ElementOfSeq, AttAssumption DEF Has
  <2>2. Len(<<what>>) <= 1
    OBVIOUS
  <2> QED
    BY <1>0, <1>3, <2>1, <2>2, AttAssumption DEF Placed, Sound
<1>6. Sound(i, q)
  BY <1>3, <1>4, <1>5 DEF Sound, Timed
<1>7. /\ Sound(n, q) /\ n.free = i.free /\ n.told = i.told
      /\ n.att.up = i.att.up /\ n.att.listed = i.att.listed
      /\ n.att.retrying = i.att.retrying /\ n.att.timer = i.att.timer
      /\ n = i \/ (/\ NextRequest(i) /\ n.att.req \in Reqs /\ n.tx = Append(i.tx, n.att.req))
  BY <1>1, <1>6, ProcessSound
<1> QED
  BY <1>3, <1>7 DEF NextRequest, Completed

(* ToSet and Has say the same of a list.                                   *)
LEMMA ToSetHas ==
  ASSUME NEW S, NEW list \in Seq(S), NEW x
  PROVE  x \in ToSet(list) <=> Has(list, x)
<1>1. DOMAIN list = 1..Len(list)
  BY LenProperties
<1> QED
  BY <1>1 DEF ToSet, Has

(* A request that was never asked is queued: att->reqs and its block.      *)
Queued(w, r) == [w EXCEPT !.att.reqs = Append(@, r), !.free = @ - 1]
QueueEffect(w, n, q) ==
  /\ Sound(n, q)
  /\ n.att.req = w.att.req /\ n.tx = w.tx /\ n.told = w.told
  /\ n.att.up = w.att.up /\ n.att.listed = w.att.listed
  /\ n.att.timer = w.att.timer /\ n.att.retrying = w.att.retrying
LEMMA QueueSound ==
  ASSUME NEW w, NEW q, NEW r \in Reqs, r \notin q, Sound(w, q), w.free > 0
  PROVE  QueueEffect(w, Queued(w, r), q \cup {r})
<1> DEFINE n == [w EXCEPT !.att.reqs = Append(@, r), !.free = @ - 1]
           list == Append(w.att.reqs, r)
<1>0. /\ w \in Worlds /\ w.att \in Bearer /\ w.att.reqs \in Seq(Reqs)
      /\ w.free \in Nat /\ Once(w.att.reqs, Reqs) /\ ~Has(w.att.reqs, r) /\ r # w.att.req
  BY DEF Sound, Worlds, Bearer, Placed
<1>1. /\ list \in Seq(Reqs) /\ Len(list) = Len(w.att.reqs) + 1 /\ Len(w.att.reqs) \in Nat
      /\ Once(list, Reqs)
      /\ \A x : Has(list, x) <=> Has(w.att.reqs, x) \/ x = r
  BY <1>0, AppendFacts, AppendHas
<1> HIDE DEF list
<1>2. n = [w EXCEPT !.att = [w.att EXCEPT !.reqs = list], !.free = w.free - 1]
  BY <1>0 DEF Worlds, Bearer, list
<1>3. /\ n.att.reqs = list /\ n.free = w.free - 1 /\ n.att.req = w.att.req /\ n.tx = w.tx
      /\ n.told = w.told /\ n.picked = w.picked
      /\ n.att.up = w.att.up /\ n.att.listed = w.att.listed
      /\ n.att.timer = w.att.timer /\ n.att.retrying = w.att.retrying
  BY <1>0, <1>2 DEF Worlds, Bearer
<1>4. n \in Worlds
  <2>1. [w.att EXCEPT !.reqs = list] \in Bearer
    BY <1>0, <1>1 DEF Bearer
  <2>2. w.free - 1 \in Nat
    BY <1>0
  <2> QED
    BY <1>0, <1>2, <2>1, <2>2 DEF Worlds
<1> HIDE DEF n
<1>5. Used(n) = Slots
  <2>1. w.free + Len(w.att.reqs) + (IF w.att.req \in Reqs THEN 1 ELSE 0) = Slots
    BY DEF Sound, Used
  <2>2. /\ n.att.reqs = list /\ n.free = w.free - 1 /\ n.att.req = w.att.req
        /\ Len(list) = Len(w.att.reqs) + 1 /\ Len(w.att.reqs) \in Nat /\ w.free \in Nat
    BY <1>0, <1>1, <1>3
  <2> QED
    BY <2>1, <2>2 DEF Used
<1>6. Placed(n, q \cup {r})
  BY <1>0, <1>1, <1>3 DEF Sound, Placed
<1>7. Timed(n)
  BY <1>3 DEF Sound, Timed
<1>8. Sound(n, q \cup {r})
  BY <1>3, <1>4, <1>5, <1>6, <1>7 DEF Sound
<1>9. n = Queued(w, r)
  BY DEF n, Queued
<1> QED
  BY <1>3, <1>8, <1>9 DEF QueueEffect

(* What n, a bearer that was detached, is to w before.                      *)
Down(w, n) ==
  /\ ~n.att.up /\ ~n.att.listed /\ n.att.req = NULL /\ n.att.timer = FALSE
  /\ n.tx = w.tx
  /\ \A r \in Reqs : n.told[r] = w.told[r] \/ n.told[r] = <<"reset">>

(* att_chan_detach: the channel is down and the outstanding request told.  *)
LEMMA DetachSound ==
  ASSUME NEW w, NEW q, NEW t, ~Preempts, Sound(w, q)
  PROVE  Sound(Detach(w, t), q) /\ Down(w, Detach(w, t))
<1> DEFINE out  == [w EXCEPT !.att = [w.att EXCEPT !.listed = FALSE]]
           done == IF w.att.req = NULL THEN out ELSE Complete(out, t, "reset")
           n    == Detach(w, t)
<1>0. w \in Worlds /\ w.att \in Bearer /\ w.free \in Nat
  BY DEF Sound, Worlds, Bearer
<1>1. /\ out \in Worlds /\ ~out.att.listed /\ out.att.up = w.att.up
      /\ out.att.reqs = w.att.reqs /\ out.att.req = w.att.req /\ out.tx = w.tx
      /\ out.free = w.free /\ out.told = w.told /\ out.picked = w.picked
      /\ out.att.timer = w.att.timer /\ out.att.retrying = w.att.retrying
  BY <1>0 DEF Worlds, Bearer
<1>2. n = [done EXCEPT !.att.up = FALSE]
  BY <1>0 DEF Detach, Worlds, Bearer
<1> HIDE DEF n, out
<1>3. Sound(out, q)
  BY <1>1 DEF Sound, Used, Placed, Timed
<1>4. /\ Sound(done, q) /\ ~done.att.listed /\ done.att.req = NULL /\ done.att.timer = FALSE
      /\ done.tx = w.tx
      /\ done.free = IF w.att.req \in Reqs THEN w.free + 1 ELSE w.free
      /\ \A r \in Reqs : done.told[r] = IF r = w.att.req THEN <<"reset">> ELSE w.told[r]
  <2>1. CASE w.att.req = NULL
    <3>1. done = out
      BY <2>1
    <3> QED
      BY <2>1, <3>1, <1>1, <1>3, AttAssumption DEF Sound, Timed, Worlds, Bearer
  <2>2. CASE w.att.req # NULL
    <3>1. done = Complete(out, t, "reset") /\ "reset" \in Reqs \cup Ends
      BY <2>2 DEF Ends
    <3> HIDE DEF done
    <3>2. out.att.req # NULL /\ ~out.att.listed
      BY <2>2, <1>1
    <3>3. "reset" \in Reqs \cup Ends /\ ~Preempts /\ Sound(out, q) /\ out.att.req # NULL
      BY <3>1, <3>2, <1>3
    <3>4. Sound(done, q) /\ Completed(out, done, "reset")
      BY <3>1, <3>3, CompleteSound
    <3> QED
      BY <3>2, <3>4, <1>1 DEF Completed
  <2> QED
    BY <2>1, <2>2
<1> HIDE DEF done
<1>6. /\ n \in Worlds /\ ~n.att.up /\ n.att.listed = done.att.listed
      /\ n.att.req = done.att.req /\ n.att.timer = done.att.timer /\ n.tx = done.tx
      /\ n.told = done.told /\ n.att.reqs = done.att.reqs /\ n.free = done.free
      /\ n.picked = done.picked /\ n.att.retrying = done.att.retrying
  <2>1. done \in Worlds /\ done.att \in Bearer
    BY <1>4 DEF Sound, Worlds
  <2> QED
    BY <1>2, <2>1 DEF Worlds, Bearer
<1>7. Sound(n, q)
  BY <1>4, <1>6 DEF Sound, Used, Placed, Timed
<1> QED
  BY <1>4, <1>6, <1>7 DEF n, Down

(* att_reset: every queued request is told and its block freed.            *)
LEMMA ResetSound ==
  ASSUME NEW w, NEW q, Sound(w, q), q \subseteq Reqs
  PROVE  LET n == Reset(w)
         IN  /\ Sound(n, q) /\ n.att.up = w.att.up /\ n.att.listed = w.att.listed
             /\ n.att.req = w.att.req /\ n.att.timer = w.att.timer /\ n.tx = w.tx
             /\ n.att.reqs = <<>>
             /\ \A r \in Reqs : n.told[r] = w.told[r] \/ n.told[r] = <<"reset">>
<1> DEFINE n == Reset(w)
           said == [r \in Reqs |-> IF r \in ToSet(w.att.reqs)
                                   THEN Append(w.told[r], "reset") ELSE w.told[r]]
<1>0. /\ w \in Worlds /\ w.att \in Bearer /\ w.free \in Nat /\ w.att.reqs \in Seq(Reqs)
      /\ Len(w.att.reqs) \in Nat /\ w.told \in [Reqs -> Seq(Reqs \cup Ends)]
  BY LenProperties DEF Sound, Worlds, Bearer
<1>1. \A r \in Reqs : said[r] = IF Has(w.att.reqs, r) THEN <<"reset">> ELSE w.told[r]
  <2> SUFFICES ASSUME NEW r \in Reqs
               PROVE  said[r] = IF Has(w.att.reqs, r) THEN <<"reset">> ELSE w.told[r]
    OBVIOUS
  <2>1. r \in ToSet(w.att.reqs) <=> Has(w.att.reqs, r)
    BY <1>0, ToSetHas
  <2>2. Has(w.att.reqs, r) => w.told[r] = <<>>
    BY DEF Sound, Placed
  <2>3. Append(<<>>, "reset") = <<"reset">>
    OBVIOUS
  <2> QED
    BY <2>1, <2>2, <2>3
<1>2. said \in [Reqs -> Seq(Reqs \cup Ends)]
  <2>1. \A r \in Reqs : said[r] \in Seq(Reqs \cup Ends)
    BY <1>0, <1>1 DEF Ends
  <2> QED
    BY <2>1
<1>3. n = [w EXCEPT !.att = [w.att EXCEPT !.reqs = <<>>],
                    !.free = w.free + Len(w.att.reqs), !.told = said]
  BY <1>0 DEF Reset, Worlds, Bearer
<1> HIDE DEF n, said
<1>4. /\ n.att.reqs = <<>> /\ n.att.req = w.att.req /\ n.att.timer = w.att.timer
      /\ n.att.up = w.att.up /\ n.att.listed = w.att.listed /\ n.tx = w.tx
      /\ n.att.retrying = w.att.retrying /\ n.picked = w.picked
      /\ n.free = w.free + Len(w.att.reqs) /\ n.told = said
  BY <1>0, <1>3 DEF Worlds, Bearer
<1>5. n \in Worlds
  <2>1. [w.att EXCEPT !.reqs = <<>>] \in Bearer
    <3>1. <<>> \in Seq(Reqs)
      OBVIOUS
    <3> QED
      BY <1>0, <3>1 DEF Bearer
  <2>2. w.free + Len(w.att.reqs) \in Nat
    BY <1>0
  <2> QED
    BY <1>0, <1>2, <1>3, <2>1, <2>2 DEF Worlds
<1>6. Used(n) = Slots
  <2>1. w.free + Len(w.att.reqs) + (IF w.att.req \in Reqs THEN 1 ELSE 0) = Slots
    BY DEF Sound, Used
  <2>2. Len(n.att.reqs) = 0
    BY <1>4
  <2> QED
    BY <1>0, <1>4, <2>1, <2>2 DEF Used
<1>7. Placed(n, q)
  <2>1. \A x : ~Has(n.att.reqs, x)
    BY <1>4 DEF Has
  <2>2. Once(n.att.reqs, Reqs)
    BY <1>4 DEF Once
  <2>3. Len(<<"reset">>) <= 1
    OBVIOUS
  <2> QED
    BY <1>0, <1>1, <1>4, <2>1, <2>2, <2>3 DEF Sound, Placed
<1>8. Sound(n, q)
  BY <1>4, <1>5, <1>6, <1>7 DEF Sound, Timed
<1> QED
  BY <1>1, <1>4, <1>8 DEF n

(* bt_att_req_cancel: a request that is queued leaves the queue, one that  *)
(* is outstanding leaves its place to the answer that still comes.         *)
CancelEffect(w, n, q, r) ==
  /\ Sound(n, q) /\ n.tx = w.tx /\ n.att.up = w.att.up
  /\ n.att.listed = w.att.listed /\ n.att.retrying \subseteq w.att.retrying
  /\ n.att.req = IF w.att.req = r THEN CANCEL ELSE w.att.req
  /\ \A x \in Reqs : n.told[x] = w.told[x] \/ n.told[x] = <<"cancelled">>
LEMMA CancelSound ==
  ASSUME NEW w, NEW q, NEW r \in Reqs, Sound(w, q), r = w.att.req \/ Has(w.att.reqs, r)
  PROVE  CancelEffect(w, ReqCancel(w, r), q, r)
<1> DEFINE n == ReqCancel(w, r)
           said == [w.told EXCEPT ![r] = Append(w.told[r], "cancelled")]
           still == w.att.retrying \ {r}
           list == IF w.att.req = r THEN w.att.reqs ELSE Without(w.att.reqs, r)
           req2 == IF w.att.req = r THEN CANCEL ELSE w.att.req
<1>0. /\ w \in Worlds /\ w.att \in Bearer /\ w.free \in Nat /\ w.att.reqs \in Seq(Reqs)
      /\ Len(w.att.reqs) \in Nat /\ w.told \in [Reqs -> Seq(Reqs \cup Ends)]
      /\ Once(w.att.reqs, Reqs) /\ w.att.req \in Reqs \cup {NULL, CANCEL}
      /\ w.told[r] = <<>> /\ w.att.retrying \in SUBSET Reqs /\ w.picked = [x \in Queues |-> NULL]
      /\ w.att.listed => w.att.up
  BY LenProperties DEF Sound, Worlds, Bearer, Placed
<1>1. /\ said \in [Reqs -> Seq(Reqs \cup Ends)]
      /\ \A x \in Reqs : said[x] = IF x = r THEN <<"cancelled">> ELSE w.told[x]
  <2>1. Append(w.told[r], "cancelled") = <<"cancelled">>
    BY <1>0
  <2>2. <<"cancelled">> \in Seq(Reqs \cup Ends)
    BY DEF Ends
  <2> QED
    BY <1>0, <2>1, <2>2
<1>2. /\ list \in Seq(Reqs) /\ Once(list, Reqs)
      /\ Len(list) = IF w.att.req = r THEN Len(w.att.reqs) ELSE Len(w.att.reqs) - 1
      /\ \A x \in Reqs : Has(list, x) => Has(w.att.reqs, x) /\ (w.att.req # r => x # r)
      /\ ~Has(w.att.reqs, w.att.req)
  <2>1. ~Has(w.att.reqs, w.att.req)
    BY DEF Sound, Placed
  <2>2. CASE w.att.req = r
    BY <1>0, <2>1, <2>2
  <2>3. CASE w.att.req # r
    <3> DEFINE k == CHOOSE j \in DOMAIN w.att.reqs : w.att.reqs[j] = r
    <3>1. k \in 1..Len(w.att.reqs) /\ w.att.reqs[k] = r
      <4>1. DOMAIN w.att.reqs = 1..Len(w.att.reqs)
        BY <1>0, LenProperties
      <4> QED
        BY <2>3, <4>1 DEF Has
    <3>2. list = RemoveAt(w.att.reqs, k)
      BY <2>3 DEF Without
    <3> HIDE DEF k, list
    <3>3. /\ list \in Seq(Reqs) /\ Len(list) = Len(w.att.reqs) - 1
      <4>1. w.att.reqs \in Seq(Reqs)
        BY <1>0
      <4> QED
        BY ONLY <3>1, <3>2, <4>1, RemoveAtFacts
    <3>4. /\ \A x \in Reqs : Has(list, x) <=> Has(w.att.reqs, x) /\ x # w.att.reqs[k]
          /\ Once(list, Reqs)
      BY <1>0, <3>1, <3>2, RemoveHas
    <3> QED
      BY <2>1, <2>3, <3>1, <3>3, <3>4
  <2> QED
    BY <2>2, <2>3
<1>3. w.free + 1 \in Nat /\ still \in SUBSET Reqs /\ req2 \in Reqs \cup {NULL, CANCEL}
  BY <1>0
<1> HIDE DEF n, said, still
<1>4. /\ n.free = w.free + 1 /\ n.told = said /\ n.att.retrying = still /\ n.att.req = req2
      /\ n.att.reqs = list /\ n.tx = w.tx /\ n.picked = w.picked /\ n.att.up = w.att.up
      /\ n.att.listed = w.att.listed /\ n.att.timer = w.att.timer
      /\ n \in Worlds
  <2>1. CASE w.att.req = r
    <3> DEFINE a == [w.att EXCEPT !.retrying = still, !.req = CANCEL]
    <3>1. n = [w EXCEPT !.free = w.free + 1, !.told = said, !.att = a]
      BY <1>0, <2>1 DEF n, said, still, ReqCancel, Finish, Worlds, Bearer
    <3>2. a \in Bearer
      BY <1>0, <1>3 DEF Bearer
    <3>3. list = w.att.reqs /\ req2 = CANCEL
      BY <2>1
    <3> QED
      BY <1>0, <1>1, <1>3, <3>1, <3>2, <3>3 DEF Worlds, Bearer
  <2>2. CASE w.att.req # r
    <3> DEFINE a == [w.att EXCEPT !.retrying = still, !.reqs = list]
    <3>1. n = [w EXCEPT !.free = w.free + 1, !.told = said, !.att = a]
      BY <1>0, <2>2 DEF n, said, still, ReqCancel, Finish, Worlds, Bearer
    <3>2. a \in Bearer
      BY <1>0, <1>2, <1>3 DEF Bearer
    <3>3. req2 = w.att.req
      BY <2>2
    <3> HIDE DEF list
    <3> QED
      BY <1>0, <1>1, <1>3, <3>1, <3>2, <3>3 DEF Worlds, Bearer
  <2> QED
    BY <2>1, <2>2
<1> HIDE DEF list
<1>6. Used(n) = Slots
  <2>1. w.free + Len(w.att.reqs) + (IF w.att.req \in Reqs THEN 1 ELSE 0) = Slots
    BY DEF Sound, Used
  <2>2. /\ n.att.reqs = list /\ n.free = w.free + 1 /\ n.att.req = req2
        /\ Len(list) = IF w.att.req = r THEN Len(w.att.reqs) ELSE Len(w.att.reqs) - 1
        /\ Len(w.att.reqs) \in Nat /\ w.free \in Nat
    BY <1>0, <1>2, <1>4
  <2>3. CASE w.att.req = r
    <3>1. n.att.req \notin Reqs
      BY <1>4, <2>3, AttAssumption
    <3> QED
      BY <2>1, <2>2, <2>3, <3>1 DEF Used
  <2>4. CASE w.att.req # r
    <3> DEFINE k == IF w.att.req \in Reqs THEN 1 ELSE 0
    <3>1. n.att.req = w.att.req /\ Len(n.att.reqs) = Len(w.att.reqs) - 1 /\ k \in Nat
      BY <1>4, <2>2, <2>4
    <3>2. w.free + Len(w.att.reqs) + k = Slots
      BY <2>1
    <3>3. Used(n) = (w.free + 1) + (Len(w.att.reqs) - 1) + k
      BY <2>2, <3>1 DEF Used
    <3>4. w.free \in Nat /\ Len(w.att.reqs) \in Nat /\ k \in Nat
      BY <2>2, <3>1
    <3> HIDE DEF k
    <3> QED
      BY ONLY <3>2, <3>3, <3>4
  <2> QED
    BY <2>3, <2>4
<1>7. Placed(n, q)
  <2>1. Len(<<"cancelled">>) <= 1
    OBVIOUS
  <2>2. ~Has(list, req2)
    <3>1. \A x : Has(list, x) => x \in Reqs
      BY <1>2, ElementOfSeq DEF Has
    <3> QED
      BY <1>2, <3>1, AttAssumption
  <2>3. still \subseteq {req2}
    BY DEF Sound, Placed, still
  <2>4. ASSUME NEW x \in Reqs
        PROVE  /\ Has(list, x) \/ x = req2 => x \in q /\ said[x] = <<>>
               /\ x \notin q => said[x] = <<>>
               /\ Len(said[x]) <= 1
    <3>1. /\ Has(w.att.reqs, x) \/ x = w.att.req => x \in q /\ w.told[x] = <<>>
          /\ x \notin q => w.told[x] = <<>>
          /\ Len(w.told[x]) <= 1 /\ r \in q
      BY DEF Sound, Placed
    <3>2. said[x] = IF x = r THEN <<"cancelled">> ELSE w.told[x]
      BY <1>1
    <3>3. Has(list, x) \/ x = req2 => x # r /\ (Has(w.att.reqs, x) \/ x = w.att.req)
      BY <1>2, AttAssumption
    <3> QED
      BY <2>1, <3>1, <3>2, <3>3
  <2> QED
    BY <1>2, <1>4, <2>2, <2>3, <2>4 DEF Placed
<1>8. Sound(n, q)
  BY <1>0, <1>4, <1>6, <1>7, AttAssumption DEF Sound, Timed
<1>9. CancelEffect(w, n, q, r)
  BY <1>1, <1>4, <1>8 DEF CancelEffect, still
<1> QED
  BY <1>9 DEF n

(* bt_att_disconnected.                                                    *)
LEMMA DisconnectedSound ==
  ASSUME NEW w, NEW q, NEW t, ~Preempts, Sound(w, q), q \subseteq Reqs, w.att.up
  PROVE  /\ Sound(Disconnected(w, t), q)
         /\ Down(w, Disconnected(w, t)) /\ Disconnected(w, t).att.reqs = <<>>
<1> DEFINE d == Detach(w, t)
           n == Disconnected(w, t)
<1>1. Sound(d, q) /\ Down(w, d)
  BY DetachSound
<1>2. n = Reset(d)
  BY DEF Disconnected
<1> HIDE DEF d, n
<1>3. /\ Sound(n, q) /\ n.att.up = d.att.up /\ n.att.listed = d.att.listed
      /\ n.att.req = d.att.req /\ n.att.timer = d.att.timer /\ n.tx = d.tx
      /\ n.att.reqs = <<>>
      /\ \A r \in Reqs : n.told[r] = d.told[r] \/ n.told[r] = <<"reset">>
  BY <1>1, <1>2, ResetSound
<1> QED
  BY <1>1, <1>3 DEF n, Down

-----------------------------------------------------------------------------
(* The actions.                                                            *)

(* After a handler the world is what the handler made of it.               *)
LEMMA WorldBecomes ==
  ASSUME NEW w \in Worlds, Becomes(w)
  PROVE  /\ World' = w
         /\ att' = w.att /\ tx' = w.tx /\ free' = w.free /\ told' = w.told /\ picked' = w.picked
BY DEF World, Becomes, Worlds

LEMMA WorldFields ==
  /\ World.att = att /\ World.tx = tx /\ World.free = free /\ World.told = told
  /\ World.picked = picked
BY DEF World

(* A request that has just been sent is alone on the wire.                 *)
LEMMA PairedFresh ==
  ASSUME NEW bearer, NEW level, bearer.req \in Reqs, bearer.req \notin bearer.retrying
  PROVE  Paired(bearer, Append(<<>>, bearer.req), <<>>, <<>>, level)
<1>1. /\ Append(<<>>, bearer.req) = <<bearer.req>> /\ Len(<<bearer.req>>) = 1
      /\ \A i \in 1..1 : <<bearer.req>>[i] = bearer.req
      /\ Len(<<>>) = 0
  OBVIOUS
<1> QED
  BY <1>1, AttAssumption DEF Paired

(* The ends that are no answers.                                           *)
LEMMA OwnedEnds ==
  ASSUME NEW old, NEW new, Owned(old),
         \A r \in Reqs : \/ new[r] = old[r] \/ new[r] = <<r>>
                         \/ \E e \in Ends : new[r] = <<e>>
  PROVE  Owned(new)
<1> SUFFICES ASSUME NEW r \in Reqs, NEW k \in 1..Len(new[r]), new[r][k] \in Reqs
             PROVE  new[r][k] = r
  BY DEF Owned
<1>1. CASE new[r] = old[r]
  BY <1>1 DEF Owned
<1>2. CASE new[r] = <<r>>
  BY <1>2
<1>3. ASSUME NEW e \in Ends, new[r] = <<e>>
      PROVE  FALSE
  <2>1. k = 1 /\ new[r][k] = e
    BY <1>3
  <2> QED
    BY <2>1, <1>3, AttAssumption DEF Ends
<1> QED
  BY <1>1, <1>2, <1>3

LEMMA InitInv == Init => IInv
<1> SUFFICES ASSUME Init PROVE IInv
  OBVIOUS
<1>1. /\ att = New /\ tx = <<>> /\ server = <<>> /\ answers = <<>> /\ free = Slots
      /\ told = [r \in Reqs |-> <<>>] /\ asked = {} /\ picked = [x \in Queues |-> NULL]
      /\ att.reqs = <<>> /\ att.req = NULL /\ att.retrying = {} /\ att.up /\ att.listed
      /\ att.timer = FALSE
  BY DEF Init, New
<1>2. World \in Worlds
  BY <1>1, AttAssumption DEF World, Worlds, Bearer, New
<1>3. Used(World) = Slots
  <2>1. World.free = Slots /\ World.att.reqs = <<>> /\ World.att.req = NULL
    BY <1>1, WorldFields
  <2>2. Len(World.att.reqs) = 0 /\ World.att.req \notin Reqs /\ Slots \in Nat
    BY <2>1, AttAssumption
  <2> QED
    BY <2>1, <2>2 DEF Used
<1>4. Placed(World, asked)
  <2>1. \A x : ~Has(<<>>, x)
    BY DEF Has
  <2>2. Once(<<>>, Reqs) /\ Len(<<>>) <= 1
    BY DEF Once
  <2>3. \A r \in Reqs : World.told[r] = <<>>
    BY <1>1, WorldFields
  <2>4. World.att.reqs = <<>> /\ World.att.req = NULL /\ World.att.retrying = {}
    BY <1>1, WorldFields
  <2> QED
    BY <2>1, <2>2, <2>3, <2>4, AttAssumption DEF Placed
<1>5. Sound(World, asked)
  BY <1>1, <1>2, <1>3, <1>4, WorldFields DEF Sound, Timed
<1>6. WireOK
  BY <1>1, AttAssumption DEF Init, WireOK
<1>7. LinkInv /\ PairInv /\ OwnTold
  BY <1>1, AttAssumption DEF Init, LinkInv, PairInv, Paired, Silent, OwnTold, Owned
<1> QED
  BY <1>5, <1>6, <1>7 DEF Init, IInv

(* The types of the variables, from the invariant.                         *)
LEMMA Typed ==
  ASSUME IInv
  PROVE  /\ att \in Bearer /\ tx \in Seq(Reqs) /\ free \in Nat
         /\ told \in [Reqs -> Seq(Reqs \cup Ends)] /\ asked \subseteq Reqs
         /\ att.reqs \in Seq(Reqs) /\ att.req \in Reqs \cup {NULL, CANCEL}
         /\ att.retrying \subseteq Reqs /\ att.retrying \subseteq {att.req}
         /\ server \in Seq(Reqs) /\ answers \in Seq([to : Reqs, auth : BOOLEAN])
         /\ World \in Worlds /\ Sound(World, asked)
BY WorldFields DEF IInv, Sound, Worlds, Bearer, WireOK, Placed

(* The pairing looks at a part of the bearer only.                         *)
LEMMA PairedSame ==
  ASSUME NEW old, NEW new, NEW l2cap, NEW there, NEW back, NEW level,
         new.up = old.up, new.req = old.req, new.retrying = old.retrying,
         Paired(old, l2cap, there, back, level)
  PROVE  Paired(new, l2cap, there, back, level)
BY DEF Paired

LEMMA PairedDown ==
  ASSUME NEW bearer, NEW l2cap, NEW there, NEW back, NEW level, ~bearer.up
  PROVE  Paired(bearer, l2cap, there, back, level)
BY DEF Paired

(* An action that leaves the bearer up, and the link or begins to cut it.  *)
LEMMA LinkStays ==
  ASSUME LinkInv, att'.up = att.up, att'.listed = att.listed, att.up,
         conn' = conn \/ conn' = "disconnecting"
  PROVE  LinkInv'
BY DEF LinkInv

LEMMA ReqSendInv ==
  ASSUME IInv, ~Preempts, NEW r \in Reqs, ReqSend(r)
  PROVE  IInv'
<1> DEFINE w == [World EXCEPT !.att.reqs = Append(@, r), !.free = @ - 1]
           n == ReqSendProcess(w, "app")
           q == asked \cup {r}
           hangs == ~nests /\ NextRequest(w)
           m == IF hangs THEN [n EXCEPT !.tx = tx] ELSE n
<1>0. /\ r \notin asked /\ free > 0 /\ att.up /\ conn = "connected" /\ asked' = q
      /\ UNCHANGED <<sent, server, answers, conn, sec, nests, long, links>>
  BY DEF ReqSend, WireUnchanged, linkVars
<1>1. WireOK' /\ (failed' = failed \/ failed' = "hung")
  BY <1>0 DEF ReqSend, IInv, WireOK
<1>2. /\ Sound(w, q)
      /\ w.att.req = att.req /\ w.tx = tx /\ w.told = told
      /\ w.att.up = att.up /\ w.att.listed = att.listed
      /\ w.att.timer = att.timer /\ w.att.retrying = att.retrying
  <2>1. Sound(World, asked) /\ World.free > 0
    BY <1>0, Typed, WorldFields
  <2>2. w = Queued(World, r)
    BY DEF Queued
  <2>3. QueueEffect(World, Queued(World, r), asked \cup {r})
    BY <1>0, <2>1, QueueSound
  <2>4. /\ Sound(w, asked \cup {r})
        /\ w.att.req = World.att.req /\ w.tx = World.tx /\ w.told = World.told
        /\ w.att.up = World.att.up /\ w.att.listed = World.att.listed
        /\ w.att.timer = World.att.timer /\ w.att.retrying = World.att.retrying
    BY ONLY <2>2, <2>3 DEF QueueEffect
  <2> QED
    BY <2>4, WorldFields
<1>3. n = ReqSendProcess(w, "app") /\ Sound(w, q) /\ "null" # "hung"
  BY <1>2
<1>4. /\ hangs => failed' = "hung" /\ NextRequest(w)
      /\ ~hangs => failed' = failed
      /\ Becomes(m)
  BY DEF ReqSend
<1>5. m = [n EXCEPT !.tx = tx] \/ m = n
  OBVIOUS
<1>6. hangs => m = [n EXCEPT !.tx = tx]
  OBVIOUS
<1>7. ~hangs => m = n
  OBVIOUS
<1> HIDE DEF w, n, q, m, hangs
<1>8. /\ Sound(n, q) /\ n.free = w.free
      /\ n.told = w.told /\ n.att.up = w.att.up /\ n.att.listed = w.att.listed
      /\ n.att.retrying = w.att.retrying /\ n.att.timer = w.att.timer
      /\ n = w \/ (NextRequest(w) /\ n.att.req \in Reqs /\ n.tx = Append(w.tx, n.att.req))
  BY <1>3, ProcessSound
<1>9. /\ m \in Worlds /\ m.att = n.att /\ m.free = n.free /\ m.told = n.told
      /\ m.picked = n.picked /\ (m.tx = tx \/ m = n)
  <2>1. n \in Worlds /\ tx \in Seq(Reqs)
    BY <1>8, Typed DEF Sound
  <2> QED
    BY <1>5, <2>1 DEF Worlds
<1>10. Sound(m, q)
  BY <1>8, <1>9 DEF Sound, Used, Placed, Timed
<1>11. World' = m /\ att' = m.att /\ tx' = m.tx /\ told' = m.told
  BY <1>4, <1>9, WorldBecomes
<1>12. LinkInv'
  <2>1. LinkInv /\ att'.up = att.up /\ att'.listed = att.listed /\ conn' = conn
    BY <1>0, <1>2, <1>8, <1>9, <1>11 DEF IInv
  <2> QED
    BY <1>0, <2>1, LinkStays
<1>13. ASSUME "rekey" \notin Rash
       PROVE  PairInv' /\ OwnTold'
  <2>1. Paired(att, tx, server, answers, sec) /\ OwnTold
    BY <1>13 DEF IInv, PairInv
  <2>2. OwnTold'
    BY <2>1, <1>2, <1>8, <1>9, <1>11 DEF OwnTold
  <2>3. CASE n = w
    <3>1. /\ att'.up = att.up /\ att'.req = att.req /\ att'.retrying = att.retrying
          /\ tx' = tx
      BY <2>3, <1>2, <1>9, <1>11
    <3>2. Paired(att', tx, server, answers, sec)
      BY <2>1, <3>1, PairedSame
    <3>3. Paired(att', tx', server', answers', sec')
      BY <3>1, <3>2, <1>0
    <3> QED
      BY <3>3, <2>2 DEF PairInv
  <2>4. CASE NextRequest(w) /\ n.att.req \in Reqs /\ n.tx = Append(w.tx, n.att.req)
    <3>1. att.req = NULL
      BY <2>4, <1>2 DEF NextRequest
    <3>2. tx = <<>> /\ server = <<>> /\ answers = <<>>
      BY <2>1, <3>1, <1>0 DEF Paired, Silent
    <3>3. n.att.req \notin n.att.retrying
      BY <2>4, <3>1, <1>2, <1>8, Typed, AttAssumption
    <3>4. CASE m = n
      <4>1. Paired(n.att, Append(<<>>, n.att.req), <<>>, <<>>, sec')
        BY <2>4, <3>3, PairedFresh
      <4>2. /\ att' = n.att /\ tx' = Append(<<>>, n.att.req) /\ server' = <<>>
            /\ answers' = <<>>
        BY <2>4, <3>2, <3>4, <1>0, <1>2, <1>11
      <4>3. Paired(att', tx', server', answers', sec')
        BY <4>1, <4>2
      <4> QED
        BY <4>3, <2>2 DEF PairInv
    <3>5. CASE m.tx = tx
      <4>1. Paired(n.att, <<>>, <<>>, <<>>, sec')
        BY DEF Paired, Silent
      <4>2. att' = n.att /\ tx' = <<>> /\ server' = <<>> /\ answers' = <<>>
        BY <3>2, <3>5, <1>0, <1>9, <1>11
      <4>3. Paired(att', tx', server', answers', sec')
        BY <4>1, <4>2
      <4> QED
        BY <4>3, <2>2 DEF PairInv
    <3> QED
      BY <1>9, <3>4, <3>5
  <2> QED
    BY <1>8, <2>3, <2>4
<1>14. Sound(World', asked') /\ ("late" \notin Rash => failed' # "null")
  BY <1>0, <1>1, <1>3, <1>10, <1>11 DEF IInv
<1> QED
  BY <1>1, <1>12, <1>13, <1>14 DEF IInv

LEMMA GattCancelInv ==
  ASSUME IInv, NEW r \in Reqs, GattCancel(r)
  PROVE  IInv'
<1>0. /\ att.up /\ conn = "connected"
      /\ UNCHANGED <<sent, server, answers, conn, sec, asked, nests, long, links>>
  BY DEF GattCancel, WireUnchanged, linkVars
<1>1. CASE att.req = NULL
  <2>1. "late" \in Rash /\ failed' = "null" /\ UNCHANGED <<att, tx, free, told, picked>>
    BY <1>1 DEF GattCancel
  <2>2. World' = World
    BY <2>1 DEF World
  <2>3. LinkInv' /\ PairInv' = PairInv /\ OwnTold' = OwnTold /\ WireOK'
    BY <1>0, <2>1 DEF IInv, LinkInv, PairInv, OwnTold, WireOK
  <2> QED
    BY <1>0, <2>1, <2>2, <2>3 DEF IInv
<1>2. CASE att.req # NULL
  <2> DEFINE n == ReqCancel(World, r)
  <2>1. failed' = failed /\ Becomes(n) /\ (r = att.req \/ r \in ToSet(att.reqs))
    BY <1>2 DEF GattCancel
  <2>2. Sound(World, asked) /\ (r = World.att.req \/ Has(World.att.reqs, r))
    <3>1. r \in ToSet(att.reqs) <=> Has(att.reqs, r)
      BY Typed, ToSetHas
    <3> QED
      BY <2>1, <3>1, Typed, WorldFields
  <2>3. /\ Sound(n, asked) /\ n.tx = World.tx /\ n.att.up = World.att.up
        /\ n.att.listed = World.att.listed /\ n.att.retrying \subseteq World.att.retrying
        /\ n.att.req = IF World.att.req = r THEN CANCEL ELSE World.att.req
        /\ \A x \in Reqs : n.told[x] = World.told[x] \/ n.told[x] = <<"cancelled">>
    <3>1. n = ReqCancel(World, r)
      OBVIOUS
    <3> HIDE DEF n
    <3> QED
      <4>1. CancelEffect(World, n, asked, r)
        BY ONLY <2>2, <3>1, CancelSound
      <4> QED
        BY ONLY <4>1 DEF CancelEffect
  <2> HIDE DEF n
  <2>4. World' = n /\ att' = n.att /\ tx' = n.tx /\ told' = n.told
    BY <2>1, <2>3, WorldBecomes DEF Sound
  <2>5. Sound(World', asked') /\ WireOK'
    BY <1>0, <2>1, <2>3, <2>4 DEF IInv, WireOK
  <2>6. LinkInv'
    BY <1>0, <2>3, <2>4, LinkStays, WorldFields DEF IInv
  <2>7. ASSUME "rekey" \notin Rash
        PROVE  PairInv' /\ OwnTold'
    <3>1. Paired(att, tx, server, answers, sec) /\ OwnTold
      BY <2>7 DEF IInv, PairInv
    <3>2. "cancelled" \in Ends /\ Owned(told)
      BY <3>1 DEF Ends, OwnTold
    <3>3. Owned(told')
      BY <3>2, <2>3, <2>4, OwnedEnds, WorldFields
    <3>4. /\ att'.up = att.up /\ att'.retrying \subseteq att.retrying /\ tx' = tx
          /\ att'.req = IF att.req = r THEN CANCEL ELSE att.req
      BY <2>3, <2>4, WorldFields
    <3>5. CANCEL \notin att.retrying /\ CANCEL \notin Reqs /\ CANCEL # NULL
      BY Typed, AttAssumption
    <3>6. Paired(att', tx', server', answers', sec')
      BY <1>0, <3>1, <3>4, <3>5 DEF Paired
    <3> QED
      BY <3>3, <3>6 DEF PairInv, OwnTold
  <2> QED
    BY <2>1, <2>5, <2>6, <2>7 DEF IInv
<1> QED
  BY <1>1, <1>2

(* tx_processor: the PDU of the outstanding request leaves L2CAP, which    *)
(* had no other.                                                           *)
LEMMA TransmitInv ==
  ASSUME IInv, Transmit
  PROVE  IInv'
<1>0. /\ tx # <<>> /\ conn = "connected" /\ sent' = 1
      /\ tx' = Tail(tx) /\ server' = Append(server, Head(tx))
      /\ UNCHANGED <<att, conn, sec, answers, free, told, asked, picked, failed, nests, long,
                   links>>
  BY DEF Transmit, linkVars
<1>1. /\ Tail(tx) \in Seq(Reqs) /\ Head(tx) \in Reqs /\ Append(server, Head(tx)) \in Seq(Reqs)
      /\ Len(tx) \in Nat \ {0} /\ Len(Tail(tx)) = Len(tx) - 1 /\ Head(tx) = tx[1]
      /\ \A i \in 1..Len(Tail(tx)) : Tail(tx)[i] = tx[i + 1]
      /\ Len(Append(server, Head(tx))) = Len(server) + 1 /\ Len(server) \in Nat
      /\ Append(server, Head(tx))[Len(server) + 1] = Head(tx)
      /\ \A i \in 1..Len(server) : Append(server, Head(tx))[i] = server[i]
  <2>1. tx \in Seq(Reqs) /\ server \in Seq(Reqs) /\ Len(tx) \in Nat /\ Len(server) \in Nat
    BY Typed, LenProperties
  <2>2. Head(tx) \in Reqs /\ Len(tx) # 0 /\ Tail(tx) \in Seq(Reqs)
    BY <1>0, <2>1, HeadTailProperties, EmptySeq
  <2> QED
    BY <1>0, <2>1, <2>2, HeadTailProperties, AppendProperties
<1>2. WireOK'
  BY <1>0, <1>1 DEF IInv, WireOK
<1>3. Sound(World', asked')
  <2>1. World' = [att |-> att, tx |-> Tail(tx), free |-> free, told |-> told,
                  picked |-> picked]
    BY <1>0 DEF World
  <2>2. /\ World'.att = World.att /\ World'.free = World.free /\ World'.told = World.told
        /\ World'.picked = World.picked /\ World' \in Worlds
    <3>1. /\ att \in Bearer /\ Tail(tx) \in Seq(Reqs) /\ free \in Nat
          /\ told \in [Reqs -> Seq(Reqs \cup Ends)] /\ picked \in [Queues -> Reqs \cup {NULL}]
      BY <1>1, Typed, WorldFields DEF Worlds
    <3> QED
      BY <2>1, <3>1, WorldFields DEF Worlds
  <2> QED
    BY <2>2, <1>0 DEF IInv, Sound, Used, Placed, Timed
<1>4. LinkInv'
  BY <1>0 DEF IInv, LinkInv
<1>5. ASSUME "rekey" \notin Rash
      PROVE  PairInv' /\ OwnTold'
  <2>1. Paired(att, tx, server, answers, sec) /\ OwnTold /\ att.up
    BY <1>0, <1>5 DEF IInv, PairInv, LinkInv
  <2>2. OwnTold'
    BY <1>0, <2>1 DEF OwnTold
  <2>3. att.req # NULL /\ ~(att.req \in att.retrying /\ sec = "raising")
    BY <1>0, <2>1 DEF Paired, Silent
  <2>4. Len(answers) \in Nat
    BY Typed, LenProperties
  <2>5. Len(tx) + Len(server) + Len(answers) <= 1
    BY <2>1 DEF Paired
  <2>6. Len(tx) = 1 /\ Len(server) = 0 /\ Len(answers) = 0
    BY <1>1, <2>4, <2>5
  <2>7. Len(tx') = 0 /\ Len(server') = 1 /\ server'[1] = tx[1]
    BY <1>0, <1>1, <2>6
  <2>8. Paired(att, tx', server', answers, sec)
    BY <1>1, <2>1, <2>3, <2>6, <2>7 DEF Paired
  <2>9. Paired(att', tx', server', answers', sec')
    BY <1>0, <2>8
  <2> QED
    BY <2>2, <2>9 DEF PairInv
<1> QED
  BY <1>0, <1>2, <1>3, <1>4, <1>5 DEF IInv

(* A handler that may send the next request, for none is outstanding: what *)
(* it does to the pairing.                                                 *)
LEMMA FreshPair ==
  ASSUME NEW n, IInv, "rekey" \notin Rash, att.up, att.req = NULL, n.att.req \in Reqs,
         n.att.retrying = {}, n.tx = Append(tx, n.att.req), NEW level
  PROVE  Paired(n.att, n.tx, server, answers, level)
<1>1. tx = <<>> /\ server = <<>> /\ answers = <<>>
  BY DEF IInv, PairInv, Paired, Silent
<1>2. Paired(n.att, Append(<<>>, n.att.req), <<>>, <<>>, level)
  BY PairedFresh
<1> QED
  BY <1>1, <1>2

(* att_on_sent_cb.                                                         *)
LEMMA OnSentCbInv ==
  ASSUME IInv, ~Preempts, OnSentCb
  PROVE  IInv'
<1>0. /\ sent > 0 /\ sent' = sent - 1 /\ Becomes(Sent(World))
      /\ UNCHANGED <<conn, sec, server, answers, asked, failed, nests, long, links>>
  BY DEF OnSentCb, linkVars
<1>1. WireOK'
  BY <1>0 DEF IInv, WireOK
<1>2. CASE ~att.up
  <2>1. Sent(World) = World
    BY <1>2, WorldFields DEF Sent
  <2>2. World' = World /\ att' = att /\ tx' = tx /\ told' = told
    BY <1>0, <2>1, Typed, WorldBecomes, WorldFields
  <2>3. LinkInv' /\ PairInv' = PairInv /\ OwnTold' = OwnTold
    BY <1>0, <2>2 DEF IInv, LinkInv, PairInv, OwnTold
  <2> QED
    BY <1>0, <1>1, <2>2, <2>3 DEF IInv
<1>3. CASE att.up
  <2> DEFINE n == ReqSendProcess(World, "tx")
             m == [n EXCEPT !.att.timer = @ \/ n.att.req # NULL]
  <2>1. n = ReqSendProcess(World, "tx") /\ Sound(World, asked) /\ Sent(World) = m
    BY <1>3, Typed, WorldFields DEF Sent
  <2> HIDE DEF n
  <2>2. /\ Sound(n, asked) /\ n.free = World.free
        /\ n.told = World.told /\ n.att.up = World.att.up /\ n.att.listed = World.att.listed
        /\ n.att.retrying = World.att.retrying /\ n.att.timer = World.att.timer
        /\ n = World \/ (/\ NextRequest(World) /\ n.att.req \in Reqs
                         /\ n.tx = Append(World.tx, n.att.req))
    BY <2>1, ProcessSound
  <2>3. /\ m \in Worlds /\ m.att.req = n.att.req /\ m.att.up = n.att.up
        /\ m.att.listed = n.att.listed /\ m.att.reqs = n.att.reqs
        /\ m.att.retrying = n.att.retrying /\ m.tx = n.tx /\ m.told = n.told
        /\ m.free = n.free /\ m.picked = n.picked
        /\ m.att.timer => n.att.timer \/ n.att.req # NULL
    <3>1. n \in Worlds /\ n.att \in Bearer
      BY <2>2 DEF Sound, Worlds
    <3>2. m = [n EXCEPT !.att = [n.att EXCEPT !.timer = n.att.timer \/ n.att.req # NULL]]
      BY <3>1 DEF Worlds, Bearer
    <3>3. (n.att.timer \/ n.att.req # NULL) \in BOOLEAN
      OBVIOUS
    <3>4. [n.att EXCEPT !.timer = n.att.timer \/ n.att.req # NULL] \in Bearer
      BY <3>1, <3>3 DEF Bearer
    <3> HIDE DEF m
    <3> QED
      BY <3>1, <3>2, <3>4 DEF Worlds, Bearer
  <2> HIDE DEF m
  <2>4. Sound(m, asked)
    <3>1. Timed(m)
      BY <1>3, <2>2, <2>3, WorldFields DEF Sound, Timed
    <3> QED
      BY <3>1, <2>2, <2>3 DEF Sound, Used, Placed
  <2>5. World' = m /\ att' = m.att /\ tx' = m.tx /\ told' = m.told
    BY <1>0, <2>1, <2>3, WorldBecomes
  <2>6. LinkInv'
    <3>1. LinkInv /\ att'.up = att.up /\ att'.listed = att.listed /\ conn' = conn
      BY <1>0, <2>2, <2>3, <2>5, WorldFields DEF IInv
    <3> QED
      BY <1>3, <3>1, LinkStays
  <2>7. ASSUME "rekey" \notin Rash
        PROVE  PairInv' /\ OwnTold'
    <3>1. Paired(att, tx, server, answers, sec) /\ OwnTold
      BY <2>7 DEF IInv, PairInv
    <3>2. OwnTold'
      BY <3>1, <2>2, <2>3, <2>5, WorldFields DEF OwnTold
    <3>3. Paired(m.att, m.tx, server, answers, sec)
      <4>1. CASE n = World
        BY <4>1, <3>1, <2>3, PairedSame, WorldFields
      <4>2. CASE NextRequest(World) /\ n.att.req \in Reqs /\ n.tx = Append(World.tx, n.att.req)
        <5>1. att.req = NULL
          BY <4>2, WorldFields DEF NextRequest
        <5>2. m.att.req \in Reqs /\ m.att.retrying = {} /\ m.tx = Append(tx, m.att.req)
          BY <4>2, <5>1, <2>2, <2>3, Typed, WorldFields, AttAssumption
        <5> QED
          BY <1>3, <2>7, <5>1, <5>2, FreshPair
      <4> QED
        BY <2>2, <4>1, <4>2
    <3>4. Paired(att', tx', server', answers', sec')
      BY <1>0, <2>5, <3>3
    <3> QED
      BY <3>2, <3>4 DEF PairInv
  <2> QED
    BY <1>0, <1>1, <2>4, <2>5, <2>6, <2>7 DEF IInv
<1> QED
  BY <1>2, <1>3

(* att_disconnect and bt_att_disconnected: a bearer that is up goes down.  *)
LEMMA DisconnectInv ==
  ASSUME NEW t, IInv, ~Preempts, att.up, AttDisconnect(t)
  PROVE  /\ Sound(World', asked) /\ tx' = tx
         /\ ~att'.up /\ ~att'.listed /\ att'.req = NULL /\ att'.reqs = <<>>
         /\ conn' = "disconnecting"
         /\ OwnTold => OwnTold'
<1> DEFINE n == Disconnected(World, t)
<1>2. Sound(World, asked) /\ asked \subseteq Reqs /\ World.att.up
  BY Typed, WorldFields
<1>3. Sound(n, asked) /\ Down(World, n) /\ n.att.reqs = <<>>
  BY <1>2, DisconnectedSound, Zenon
<1>4. Becomes(n) /\ conn' = "disconnecting"
  BY DEF AttDisconnect
<1> HIDE DEF n
<1>5. World' = n /\ att' = n.att /\ tx' = n.tx /\ told' = n.told
  BY <1>3, <1>4, WorldBecomes DEF Sound
<1>6. ASSUME OwnTold PROVE OwnTold'
  <2>1. \A r \in Reqs : told'[r] = told[r] \/ told'[r] = <<"reset">>
    BY <1>3, <1>5, WorldFields DEF Down
  <2>2. "reset" \in Ends
    BY DEF Ends
  <2>3. Owned(told')
    BY <1>6, <2>1, <2>2, OwnedEnds DEF OwnTold
  <2> QED
    BY <2>3 DEF OwnTold
<1> QED
  BY <1>3, <1>4, <1>5, <1>6, WorldFields DEF Down

(* att_timeout finds its bearer: a timer is stopped before that goes.      *)
LEMMA AttTimeoutInv ==
  ASSUME IInv, ~Preempts, AttTimeout
  PROVE  IInv'
<1>1. att.up /\ AttDisconnect("tx") /\ failed' = failed
  BY Typed, WorldFields DEF AttTimeout, Sound, Timed
<1>2. UNCHANGED <<sent, server, answers, sec, asked, nests, long, links>>
  BY DEF AttTimeout, WireUnchanged, linkVars
<1>3. /\ Sound(World', asked) /\ tx' = tx
      /\ ~att'.up /\ ~att'.listed /\ att'.req = NULL /\ att'.reqs = <<>>
      /\ conn' = "disconnecting"
      /\ OwnTold => OwnTold'
  BY <1>1, DisconnectInv
<1>4. WireOK'
  BY <1>1, <1>2, <1>3 DEF IInv, WireOK
<1>5. LinkInv' /\ Paired(att', tx', server', answers', sec')
  BY <1>3, PairedDown DEF LinkInv
<1> QED
  BY <1>1, <1>2, <1>3, <1>4, <1>5 DEF IInv, PairInv

(* The server answers: what was there comes back.                          *)
LEMMA AnswerInv ==
  ASSUME IInv, Answer
  PROVE  IInv'
<1>0. /\ server # <<>> /\ conn # "disconnected" /\ server' = Tail(server)
      /\ UNCHANGED <<att, conn, sec, tx, sent, free, told, asked, picked, failed, nests, long,
                   links>>
  BY DEF Answer, linkVars
<1>1. PICK auth \in BOOLEAN : answers' = Append(answers, [to |-> Head(server), auth |-> auth])
  BY DEF Answer
<1> DEFINE a == [to |-> Head(server), auth |-> auth]
<1>2. /\ Tail(server) \in Seq(Reqs) /\ Head(server) \in Reqs /\ Head(server) = server[1]
      /\ Len(server) \in Nat \ {0} /\ Len(Tail(server)) = Len(server) - 1
  <2>1. server \in Seq(Reqs) /\ Len(server) \in Nat
    BY Typed, LenProperties
  <2>2. Head(server) \in Reqs /\ Len(server) # 0 /\ Tail(server) \in Seq(Reqs)
    BY <1>0, <2>1, HeadTailProperties, EmptySeq
  <2> QED
    BY <1>0, <2>1, <2>2, HeadTailProperties
<1>3. a \in [to : Reqs, auth : BOOLEAN] /\ a.to = server[1]
  BY <1>2
<1> HIDE DEF a
<1>4. /\ Append(answers, a) \in Seq([to : Reqs, auth : BOOLEAN])
      /\ Len(Append(answers, a)) = Len(answers) + 1 /\ Len(answers) \in Nat
      /\ Append(answers, a)[Len(answers) + 1] = a
  BY <1>3, Typed, LenProperties, AppendProperties
<1>5. answers' = Append(answers, a)
  BY <1>1 DEF a
<1>6. WireOK'
  BY <1>0, <1>2, <1>4, <1>5 DEF IInv, WireOK
<1>7. World' = World /\ LinkInv'
  BY <1>0 DEF IInv, World, LinkInv
<1>8. ASSUME "rekey" \notin Rash
      PROVE  PairInv' /\ OwnTold'
  <2>1. Paired(att, tx, server, answers, sec) /\ OwnTold
    BY <1>8 DEF IInv, PairInv
  <2>2. OwnTold'
    BY <1>0, <2>1 DEF OwnTold
  <2>3. Paired(att, tx, server', answers', sec)
    <3>1. CASE ~att.up
      BY <3>1, PairedDown
    <3>2. CASE att.up
      <4>1. att.req # NULL /\ ~(att.req \in att.retrying /\ sec = "raising")
        BY <1>0, <2>1, <3>2 DEF Paired, Silent
      <4>2. Len(tx) + Len(server) + Len(answers) <= 1 /\ Len(tx) \in Nat
        BY <2>1, <3>2, Typed, LenProperties DEF Paired
      <4>3. Len(server) = 1 /\ Len(answers) = 0 /\ Len(tx) = 0
        BY <1>2, <1>4, <4>2
      <4>4. Len(server') = 0 /\ Len(answers') = 1 /\ answers'[1].to = server[1]
        BY <1>0, <1>2, <1>3, <1>4, <1>5, <4>3
      <4> QED
        BY <2>1, <3>2, <4>1, <4>3, <4>4 DEF Paired
    <3> QED
      BY <3>1, <3>2
  <2>4. Paired(att', tx', server', answers', sec')
    BY <1>0, <2>3
  <2> QED
    BY <2>2, <2>4 DEF PairInv
<1> QED
  BY <1>0, <1>6, <1>7, <1>8 DEF IInv

(* The first of a list and the rest.                                       *)
LEMMA FirstOf ==
  ASSUME NEW S, NEW list \in Seq(S), list # <<>>
  PROVE  /\ Head(list) \in S /\ Head(list) = list[1] /\ Tail(list) \in Seq(S)
         /\ Len(list) \in Nat \ {0} /\ Len(Tail(list)) = Len(list) - 1
BY HeadTailProperties, LenProperties, EmptySeq

(* bt_att_recv.                                                            *)
LEMMA RecvInv ==
  ASSUME IInv, ~Preempts, Recv
  PROVE  IInv'
<1>1. PICK a \in Arriving :
    /\ Runs("rx") /\ answers' = IF a = Stray THEN answers ELSE Tail(answers)
    /\ \/ /\ ~att.up \/ conn # "connected"
          /\ UNCHANGED <<att, tx, free, told, picked, conn, sec>>
       \/ /\ att.up /\ conn = "connected" /\ Cured(a)
          /\ Becomes(Retry) /\ sec' = "raising" /\ UNCHANGED conn
       \/ /\ att.up /\ conn = "connected" /\ att.req # NULL
          /\ Becomes(Complete(World, "rx", a.to)) /\ UNCHANGED <<conn, sec>>
       \/ /\ att.up /\ conn = "connected" /\ att.req = NULL
          /\ AttDisconnect("rx") /\ UNCHANGED sec
    /\ UNCHANGED <<sent, server, asked, failed, nests, long, links>>
  BY DEF Recv, linkVars
<1>2. /\ \/ answers = <<>> /\ a = Stray /\ att.req = NULL
         \/ answers # <<>> /\ a = answers[1] /\ a \in [to : Reqs, auth : BOOLEAN] /\ a # Stray
      /\ answers # <<>> => /\ Tail(answers) \in Seq([to : Reqs, auth : BOOLEAN])
                           /\ Len(Tail(answers)) = Len(answers) - 1
                           /\ Len(answers) \in Nat \ {0}
  <2>1. CASE answers = <<>>
    BY <2>1 DEF Arriving
  <2>2. CASE answers # <<>>
    <3>1. answers \in Seq([to : Reqs, auth : BOOLEAN]) /\ Len(answers) \in Nat
      BY Typed, LenProperties
    <3>2. /\ Head(answers) \in [to : Reqs, auth : BOOLEAN] /\ Head(answers) = answers[1]
          /\ Tail(answers) \in Seq([to : Reqs, auth : BOOLEAN]) /\ Len(answers) # 0
          /\ Len(Tail(answers)) = Len(answers) - 1
      BY <2>2, <3>1, FirstOf
    <3>3. a = Head(answers)
      BY <2>2 DEF Arriving
    <3>4. a.to \in Reqs /\ Stray.to = NULL
      BY <3>2, <3>3 DEF Stray
    <3> QED
      BY <2>2, <3>1, <3>2, <3>3, <3>4, AttAssumption
  <2> QED
    BY <2>1, <2>2
<1>3. answers' \in Seq([to : Reqs, auth : BOOLEAN]) /\ (answers = <<>> => answers' = <<>>)
  BY <1>1, <1>2, Typed
<1>4. ASSUME "rekey" \notin Rash, att.up
      PROVE  /\ answers # <<>> => tx = <<>> /\ server = <<>> /\ answers' = <<>>
             /\ answers # <<>> /\ att.req \in Reqs => a.to = att.req
             /\ att.req = NULL => answers = <<>>
  <2>1. Paired(att, tx, server, answers, sec)
    BY <1>4 DEF IInv, PairInv
  <2>2. Len(tx) + Len(server) + Len(answers) <= 1 /\ Len(tx) \in Nat /\ Len(server) \in Nat
    BY <2>1, <1>4, Typed, LenProperties DEF Paired
  <2>3. ASSUME answers # <<>>
        PROVE  tx = <<>> /\ server = <<>> /\ answers' = <<>>
    <3>2. Len(answers) \in Nat \ {0} /\ Len(Tail(answers)) = Len(answers) - 1
      BY <1>2, <2>3
    <3>1. Len(tx) = 0 /\ Len(server) = 0 /\ Len(answers) = 1 /\ Len(Tail(answers)) = 0
      BY <2>2, <3>2
    <3> QED
      BY <1>1, <1>2, <2>3, <3>1, Typed, EmptySeq
  <2>4. ASSUME answers # <<>>, att.req \in Reqs
        PROVE  a.to = att.req
    BY <1>2, <1>4, <2>1, <2>4 DEF Paired
  <2>5. att.req = NULL => answers = <<>>
    BY <1>4, <2>1 DEF Paired, Silent
  <2> QED
    BY <2>3, <2>4, <2>5
<1>5. CASE /\ ~att.up \/ conn # "connected"
           /\ UNCHANGED <<att, tx, free, told, picked, conn, sec>>
  <2>1. World' = World
    BY <1>5 DEF World
  <2>2. WireOK' /\ LinkInv'
    BY <1>1, <1>3, <1>5 DEF IInv, WireOK, LinkInv
  <2>3. OwnTold' = OwnTold
    BY <1>5 DEF OwnTold
  <2>4. ASSUME "rekey" \notin Rash
        PROVE  Paired(att', tx', server', answers', sec')
    <3>1. CASE ~att.up
      BY <1>5, <3>1, PairedDown
    <3>2. CASE answers = <<>>
      <4>1. answers' = answers
        BY <1>3, <3>2
      <4> QED
        BY <1>1, <1>5, <2>4, <4>1 DEF IInv, PairInv
    <3>3. CASE att.up /\ answers # <<>>
      <4>1. tx = <<>> /\ server = <<>> /\ answers' = <<>>
        BY <1>4, <2>4, <3>3
      <4>2. Paired(att, <<>>, <<>>, <<>>, sec)
        BY DEF Paired, Silent
      <4> QED
        BY <1>1, <1>5, <4>1, <4>2
    <3> QED
      BY <3>1, <3>2, <3>3
  <2> QED
    BY <1>1, <1>5, <2>1, <2>2, <2>3, <2>4 DEF IInv, PairInv
<1>6. CASE /\ att.up /\ conn = "connected" /\ Cured(a)
           /\ Becomes(Retry) /\ sec' = "raising" /\ UNCHANGED conn
  <2>1. att.req \in Reqs /\ answers # <<>>
    BY <1>2, <1>6, AttAssumption DEF Cured
  <2> DEFINE late == att.retrying \cup {att.req}
  <2>2. Retry = [World EXCEPT !.att = [att EXCEPT !.timer = FALSE, !.retrying = late]]
    BY Typed, WorldFields DEF Retry, Worlds, Bearer
  <2>3. late \subseteq Reqs /\ late = {att.req}
    BY <2>1, Typed
  <2>4. [att EXCEPT !.timer = FALSE, !.retrying = late] \in Bearer
    BY <2>3, Typed DEF Bearer
  <2> HIDE DEF late
  <2>5. /\ Retry \in Worlds /\ Retry.att.req = att.req /\ Retry.att.reqs = att.reqs
        /\ Retry.att.up = att.up /\ Retry.att.listed = att.listed /\ Retry.att.timer = FALSE
        /\ Retry.att.retrying = late /\ Retry.tx = tx /\ Retry.free = free
        /\ Retry.told = told /\ Retry.picked = picked
    <3>1. World \in Worlds /\ att \in Bearer
      BY Typed
    <3> QED
      BY <2>2, <2>4, <3>1, WorldFields DEF Worlds, Bearer
  <2>6. Sound(Retry, asked)
    BY <2>3, <2>5, Typed, WorldFields DEF Sound, Used, Placed, Timed
  <2>7. World' = Retry /\ att' = Retry.att /\ tx' = tx /\ told' = told
    BY <1>6, <2>5, WorldBecomes
  <2>8. WireOK' /\ LinkInv'
    <3>1. LinkInv /\ att'.up = att.up /\ att'.listed = att.listed /\ conn' = conn
      BY <1>6, <2>5, <2>7 DEF IInv
    <3> QED
      BY <1>1, <1>3, <1>6, <3>1, LinkStays DEF IInv, WireOK
  <2>9. ASSUME "rekey" \notin Rash
        PROVE  PairInv' /\ OwnTold'
    <3>1. OwnTold'
      BY <2>7, <2>9 DEF IInv, OwnTold
    <3>2. tx' = <<>> /\ server' = <<>> /\ answers' = <<>>
      BY <1>1, <1>4, <1>6, <2>1, <2>7, <2>9
    <3>3. Paired(att', <<>>, <<>>, <<>>, sec')
      BY DEF Paired, Silent
    <3>4. Paired(att', tx', server', answers', sec')
      BY <3>2, <3>3
    <3> QED
      BY <3>1, <3>4 DEF PairInv
  <2> QED
    BY <1>1, <1>6, <2>6, <2>7, <2>8, <2>9 DEF IInv
<1>7. CASE /\ att.up /\ conn = "connected" /\ att.req # NULL
           /\ Becomes(Complete(World, "rx", a.to)) /\ UNCHANGED <<conn, sec>>
  <2> DEFINE n == Complete(World, "rx", a.to)
  <2>1. answers # <<>> /\ a.to \in Reqs
    BY <1>2, <1>7
  <2>2. Sound(World, asked) /\ World.att.req # NULL /\ a.to \in Reqs \cup Ends
    BY <1>7, <2>1, Typed, WorldFields
  <2>3. Sound(n, asked) /\ Completed(World, n, a.to)
    BY <2>2, CompleteSound, Zenon
  <2>4. Becomes(n)
    BY <1>7
  <2> HIDE DEF n
  <2>5. World' = n /\ att' = n.att /\ tx' = n.tx /\ told' = n.told
    BY <2>3, <2>4, WorldBecomes DEF Sound
  <2>6. WireOK' /\ LinkInv'
    <3>1. LinkInv /\ att'.up = att.up /\ att'.listed = att.listed /\ conn' = conn
      BY <1>7, <2>3, <2>5, WorldFields DEF IInv, Completed
    <3> QED
      BY <1>1, <1>3, <1>7, <3>1, LinkStays DEF IInv, WireOK
  <2>7. ASSUME "rekey" \notin Rash
        PROVE  PairInv' /\ OwnTold'
    <3>1. /\ tx = <<>> /\ server = <<>> /\ answers' = <<>>
          /\ att.req \in Reqs => a.to = att.req
      BY <1>4, <1>7, <2>1, <2>7
    <3>2. \A r \in Reqs : told'[r] = told[r] \/ told'[r] = <<r>>
      BY <2>3, <2>5, <3>1, WorldFields DEF Completed
    <3>3. Owned(told')
      BY <2>7, <3>2, OwnedEnds DEF IInv, OwnTold
    <3>4. Paired(n.att, n.tx, <<>>, <<>>, sec)
      <4>1. CASE n.att.req = NULL /\ n.tx = tx
        <5>1. n.tx = <<>> /\ n.att.req \notin n.att.retrying
          BY <4>1, <3>1, <2>3 DEF Completed
        <5> QED
          BY <5>1, <4>1, AttAssumption DEF Paired, Silent
      <4>2. CASE n.att.req \in Reqs /\ n.tx = Append(tx, n.att.req)
        <5>1. n.tx = Append(<<>>, n.att.req) /\ n.att.req \notin n.att.retrying
          BY <4>2, <3>1, <2>3 DEF Completed
        <5> QED
          BY <5>1, <4>2, PairedFresh
      <4> QED
        BY <2>3, <4>1, <4>2, WorldFields DEF Completed
    <3>5. Paired(att', tx', server', answers', sec')
      BY <1>1, <1>7, <2>5, <3>1, <3>4
    <3> QED
      BY <3>3, <3>5 DEF PairInv, OwnTold
  <2> QED
    BY <1>1, <1>7, <2>3, <2>5, <2>6, <2>7 DEF IInv
<1>8. CASE /\ att.up /\ conn = "connected" /\ att.req = NULL
           /\ AttDisconnect("rx") /\ UNCHANGED sec
  <2>1. /\ Sound(World', asked) /\ tx' = tx
        /\ ~att'.up /\ ~att'.listed /\ att'.req = NULL /\ att'.reqs = <<>>
        /\ conn' = "disconnecting"
        /\ OwnTold => OwnTold'
    BY <1>8, DisconnectInv
  <2>2. WireOK'
    BY <1>1, <1>3, <1>8, <2>1 DEF IInv, WireOK
  <2>3. LinkInv' /\ Paired(att', tx', server', answers', sec')
    BY <2>1, PairedDown DEF LinkInv
  <2> QED
    BY <1>1, <2>1, <2>2, <2>3 DEF IInv, PairInv
<1> QED
  BY <1>1, <1>5, <1>6, <1>7, <1>8

(* bt_att_encrypt_change.                                                  *)
LEMMA SecurityChangedInv ==
  ASSUME IInv, ~Preempts, SecurityChanged
  PROVE  IInv'
<1>1. PICK secure \in BOOLEAN, resent \in BOOLEAN :
        /\ sec' = IF secure THEN "high" ELSE "low"
        /\ conn' = conn \/ conn' = "disconnecting"
        /\ Becomes(EncryptChange(secure, resent))
  BY DEF SecurityChanged
<1>2. /\ conn # "disconnected"
      /\ UNCHANGED <<sent, server, answers, asked, failed, nests, long, links>>
      /\ sec = "raising" \/ (sec = "high" /\ "rekey" \in Rash)
  BY DEF SecurityChanged, WireUnchanged, linkVars
<1>3. WireOK' /\ conn' # "disconnected" /\ (conn' = "connected" => conn = "connected")
  BY <1>1, <1>2 DEF IInv, WireOK
<1>4. ASSUME "rekey" \notin Rash
      PROVE  /\ Paired(att, tx, server, answers, sec) /\ OwnTold
             /\ att.up /\ att.req \in att.retrying
                  => tx = <<>> /\ server = <<>> /\ answers = <<>>
  BY <1>2, <1>4 DEF IInv, PairInv, Paired, Silent
<1>5. CASE ~(att.up /\ att.req \in att.retrying)
  <2>1. EncryptChange(secure, resent) = World
    BY <1>5 DEF EncryptChange
  <2>2. World' = World /\ att' = att /\ tx' = tx /\ told' = told
    BY <1>1, <2>1, Typed, WorldBecomes, WorldFields
  <2>3. LinkInv' /\ OwnTold' = OwnTold
    BY <1>3, <2>2 DEF IInv, LinkInv, OwnTold
  <2>4. ASSUME "rekey" \notin Rash
        PROVE  PairInv'
    <3>1. Paired(att, tx, server, answers, sec')
      BY <1>4, <1>5, <2>4 DEF Paired
    <3>2. Paired(att', tx', server', answers', sec')
      BY <1>2, <2>2, <3>1
    <3> QED
      BY <3>2 DEF PairInv
  <2> QED
    BY <1>2, <1>3, <2>2, <2>3, <2>4 DEF IInv
<1>6. CASE att.up /\ att.req \in att.retrying /\ secure /\ resent
  <2> DEFINE n == [World EXCEPT !.tx = Append(@, att.req)]
  <2>1. EncryptChange(secure, resent) = n
    BY <1>6 DEF EncryptChange
  <2>2. att.req \in Reqs /\ Append(tx, att.req) \in Seq(Reqs)
    BY <1>6, Typed, AppendProperties
  <2>3. /\ n \in Worlds /\ n.att = att /\ n.tx = Append(tx, att.req) /\ n.free = free
        /\ n.told = told /\ n.picked = picked
    BY <2>2, Typed, WorldFields DEF Worlds
  <2> HIDE DEF n
  <2>4. Sound(n, asked)
    BY <2>3, Typed, WorldFields DEF Sound, Used, Placed, Timed
  <2>5. World' = n /\ att' = att /\ tx' = Append(tx, att.req) /\ told' = told
    BY <1>1, <2>1, <2>3, WorldBecomes
  <2>6. LinkInv' /\ OwnTold' = OwnTold
    BY <1>3, <1>6, <2>5 DEF IInv, LinkInv, OwnTold
  <2>7. ASSUME "rekey" \notin Rash
        PROVE  PairInv'
    <3>1. tx = <<>> /\ server = <<>> /\ answers = <<>> /\ sec' = "high"
      BY <1>1, <1>4, <1>6, <2>7
    <3>2. Paired(att, <<att.req>>, <<>>, <<>>, "high")
      <4>1. Len(<<att.req>>) = 1 /\ Len(<<>>) = 0 /\ <<att.req>>[1] = att.req
        OBVIOUS
      <4> QED
        BY <4>1, <2>2, AttAssumption DEF Paired
    <3>3. Append(<<>>, att.req) = <<att.req>>
      OBVIOUS
    <3>4. Paired(att', tx', server', answers', sec')
      BY <1>2, <2>5, <3>1, <3>2, <3>3
    <3> QED
      BY <3>4 DEF PairInv
  <2> QED
    BY <1>2, <1>3, <2>4, <2>5, <2>6, <2>7 DEF IInv
<1>7. CASE att.up /\ att.req \in att.retrying /\ ~(secure /\ resent)
  <2> DEFINE n == Complete(World, "rx", "insecure")
  <2>1. Becomes(n)
    BY <1>1, <1>7 DEF EncryptChange
  <2>2. Sound(World, asked) /\ World.att.req # NULL /\ "insecure" \in Reqs \cup Ends
    BY <1>7, Typed, WorldFields, AttAssumption DEF Ends
  <2>3. Sound(n, asked) /\ Completed(World, n, "insecure")
    BY <2>2, CompleteSound, Zenon
  <2> HIDE DEF n
  <2>5. World' = n /\ att' = n.att /\ tx' = n.tx /\ told' = n.told
    BY <2>1, <2>3, WorldBecomes DEF Sound
  <2>6. LinkInv'
    <3>1. LinkInv /\ att'.up = att.up /\ att'.listed = att.listed
      BY <2>3, <2>5, WorldFields DEF IInv, Completed
    <3> QED
      BY <1>1, <1>7, <3>1, LinkStays
  <2>7. ASSUME "rekey" \notin Rash
        PROVE  PairInv' /\ OwnTold'
    <3>1. tx = <<>> /\ server = <<>> /\ answers = <<>> /\ OwnTold
      BY <1>4, <1>7, <2>7
    <3>2. \A r \in Reqs : told'[r] = told[r] \/ told'[r] = <<"insecure">>
      BY <2>3, <2>5, WorldFields DEF Completed
    <3>3. Owned(told')
      <4>1. "insecure" \in Ends
        BY DEF Ends
      <4> QED
        BY <3>1, <3>2, <4>1, OwnedEnds DEF OwnTold
    <3>4. Paired(n.att, n.tx, <<>>, <<>>, sec')
      <4>1. CASE n.att.req = NULL /\ n.tx = tx
        <5>1. n.tx = <<>> /\ n.att.req \notin n.att.retrying
          BY <4>1, <3>1, <2>3 DEF Completed
        <5> QED
          BY <5>1, <4>1, AttAssumption DEF Paired, Silent
      <4>2. CASE n.att.req \in Reqs /\ n.tx = Append(tx, n.att.req)
        <5>1. n.tx = Append(<<>>, n.att.req) /\ n.att.req \notin n.att.retrying
          BY <4>2, <3>1, <2>3 DEF Completed
        <5> QED
          BY <5>1, <4>2, PairedFresh
      <4> QED
        BY <2>3, <4>1, <4>2, WorldFields DEF Completed
    <3>5. Paired(att', tx', server', answers', sec')
      BY <1>2, <2>5, <3>1, <3>4
    <3> QED
      BY <3>3, <3>5 DEF PairInv, OwnTold
  <2> QED
    BY <1>2, <1>3, <2>3, <2>5, <2>6, <2>7 DEF IInv
<1> QED
  BY <1>5, <1>6, <1>7

(* The link is lost.                                                       *)
LEMMA LinkDownInv ==
  ASSUME IInv, ~Preempts, LinkDown
  PROVE  IInv'
<1> DEFINE d == Disconnected(World, "tx")
           n == [d EXCEPT !.tx = <<>>]
<1>0. /\ Becomes(n) /\ conn' = "disconnected" /\ sec' = "low"
      /\ sent' = 0 /\ server' = <<>> /\ answers' = <<>>
      /\ UNCHANGED <<asked, failed, nests, long, links>>
  BY DEF LinkDown, linkVars
<1>1. /\ Sound(d, asked) /\ ~d.att.up /\ ~d.att.listed /\ d.att.req = NULL
      /\ d.att.reqs = <<>>
      /\ \A r \in Reqs : d.told[r] = told[r] \/ d.told[r] = <<"reset">>
  <2>1. CASE ~att.up
    <3>1. d = World
      BY <2>1, WorldFields DEF Disconnected
    <3> QED
      BY <2>1, <3>1, Typed, WorldFields DEF IInv, LinkInv
  <2>2. CASE att.up
    <3>1. Sound(World, asked) /\ asked \subseteq Reqs /\ World.att.up
      BY <2>2, Typed, WorldFields
    <3>2. Sound(d, asked) /\ Down(World, d) /\ d.att.reqs = <<>>
      BY <3>1, DisconnectedSound, Zenon
    <3> HIDE DEF d
    <3> QED
      BY <3>1, <3>2, WorldFields DEF Down
  <2> QED
    BY <2>1, <2>2
<1> HIDE DEF d
<1>2. /\ n \in Worlds /\ n.att = d.att /\ n.tx = <<>> /\ n.free = d.free /\ n.told = d.told
      /\ n.picked = d.picked
  <2>1. d \in Worlds /\ <<>> \in Seq(Reqs)
    BY <1>1 DEF Sound
  <2> QED
    BY <2>1 DEF Worlds
<1> HIDE DEF n
<1>3. Sound(n, asked)
  BY <1>1, <1>2 DEF Sound, Used, Placed, Timed
<1>4. World' = n /\ att' = n.att /\ tx' = n.tx /\ told' = n.told
  BY <1>0, <1>2, WorldBecomes
<1>5. WireOK'
  BY <1>0 DEF IInv, WireOK
<1>6. LinkInv' /\ Paired(att', tx', server', answers', sec')
  BY <1>0, <1>1, <1>2, <1>4, PairedDown DEF LinkInv
<1>7. ASSUME OwnTold PROVE OwnTold'
  <2>1. "reset" \in Ends
    BY DEF Ends
  <2>2. Owned(told')
    BY <1>1, <1>2, <1>4, <1>7, <2>1, OwnedEnds DEF OwnTold
  <2> QED
    BY <2>2 DEF OwnTold
<1> QED
  BY <1>0, <1>3, <1>4, <1>5, <1>6, <1>7 DEF IInv, PairInv

(* A new link starts with a fresh bearer.                                  *)
LEMMA ConnectedInv ==
  ASSUME IInv, Connected
  PROVE  IInv'
<1>0. /\ conn = "disconnected" /\ links < MaxLinks
      /\ att' = New /\ conn' = "connected" /\ links' = links + 1
      /\ long' = {}
      /\ UNCHANGED <<sec, tx, sent, server, answers, free, told, asked, picked, failed, nests>>
  BY DEF Connected
<1>1. WireOK'
  BY <1>0, AttAssumption DEF IInv, WireOK
<1>2. /\ att.reqs = <<>> /\ att.req = NULL /\ tx = <<>> /\ server = <<>> /\ answers = <<>>
  BY <1>0 DEF IInv, LinkInv
<1>3. /\ New.up /\ New.listed /\ New.reqs = <<>> /\ New.req = NULL /\ New.retrying = {}
      /\ New.timer = FALSE /\ New \in Bearer
  BY DEF New, Bearer
<1>4. /\ World'.att = New /\ World'.tx = tx /\ World'.free = free /\ World'.told = told
      /\ World'.picked = picked
  BY <1>0 DEF World
<1>5. World' \in Worlds
  BY <1>0, <1>3, Typed, WorldFields DEF World, Worlds
<1>6. Sound(World', asked')
  <2>1. Used(World') = Slots
    BY <1>2, <1>3, <1>4, Typed, WorldFields DEF Sound, Used
  <2>2. Placed(World', asked')
    BY <1>0, <1>2, <1>3, <1>4, Typed, WorldFields DEF Sound, Placed
  <2>3. World'.picked = [x \in Queues |-> NULL]
    BY <1>4, Typed, WorldFields DEF Sound
  <2> QED
    BY <1>3, <1>4, <1>5, <2>1, <2>2, <2>3 DEF Sound, Timed
<1>7. LinkInv'
  BY <1>0, <1>3 DEF LinkInv
<1>8. Paired(att', tx', server', answers', sec')
  <2>1. Len(<<>>) = 0
    OBVIOUS
  <2> QED
    BY <1>0, <1>2, <1>3, <2>1, AttAssumption DEF Paired, Silent
<1>9. OwnTold' = OwnTold
  BY <1>0 DEF OwnTold
<1> QED
  BY <1>0, <1>1, <1>6, <1>7, <1>8, <1>9 DEF IInv, PairInv

(* bt_conn_disconnect and att_mtu_req: the bearer and its wire stay.       *)
LEMMA DisconnectStepInv ==
  ASSUME IInv, Disconnect
  PROVE  IInv'
<1>1. /\ conn' = "disconnecting"
      /\ UNCHANGED <<att, sec, tx, sent, server, answers, free, told, asked, picked, failed,
                     nests, long, links>>
  BY DEF Disconnect, WireUnchanged, linkVars
<1>2. World' = World
  BY <1>1 DEF World
<1>3. WireOK' /\ LinkInv' /\ PairInv' = PairInv /\ OwnTold' = OwnTold
  BY <1>1 DEF IInv, WireOK, LinkInv, PairInv, OwnTold
<1> QED
  BY <1>1, <1>2, <1>3 DEF IInv

LEMMA MtuReqInv ==
  ASSUME IInv, MtuReq
  PROVE  IInv'
<1>1. UNCHANGED <<att, conn, sec, tx, sent, server, answers, free, told, asked, picked,
                  failed, nests, links>>
  BY DEF MtuReq, WireUnchanged
<1>2. long' \subseteq Reqs
  <2>1. ASSUME NEW x \in ToSet(att.reqs) PROVE x \in Reqs
    <3>1. att.reqs \in Seq(Reqs) /\ Has(att.reqs, x)
      BY Typed, ToSetHas
    <3> QED
      BY <3>1, ElementOfSeq DEF Has
  <2> QED
    BY <2>1 DEF MtuReq, IInv, WireOK
<1>3. World' = World
  BY <1>1 DEF World
<1>4. WireOK' /\ LinkInv' /\ PairInv' = PairInv /\ OwnTold' = OwnTold
  BY <1>1, <1>2 DEF IInv, WireOK, LinkInv, PairInv, OwnTold
<1> QED
  BY <1>1, <1>3, <1>4 DEF IInv

-----------------------------------------------------------------------------
(* Every step keeps the invariant: one case per action.                    *)
LEMMA NextInv ==
  ASSUME IInv, ~Preempts, [Next]_vars
  PROVE  IInv'
<1>1. CASE UNCHANGED vars
  <2>1. World' = World
    BY <1>1 DEF vars, World
  <2>2. WireOK' /\ LinkInv' /\ PairInv' = PairInv /\ OwnTold' = OwnTold
    BY <1>1 DEF vars, linkVars, IInv, WireOK, LinkInv, PairInv, OwnTold
  <2> QED
    BY <1>1, <2>1, <2>2 DEF vars, IInv
<1>2. CASE Application
  BY <1>2, ReqSendInv, GattCancelInv, DisconnectStepInv DEF Application
<1>3. CASE Host
  BY <1>3, TransmitInv, OnSentCbInv, AttTimeoutInv, RecvInv, MtuReqInv DEF Host
<1> QED
  BY <1>1, <1>2, <1>3, AnswerInv, SecurityChangedInv, LinkDownInv, ConnectedInv DEF Next

LEMMA Invariance ==
  ASSUME ~Preempts
  PROVE  Spec => []IInv
<1>1. Init => IInv
  BY InitInv
<1>2. IInv /\ [Next]_vars => IInv'
  BY NextInv
<1> QED
  BY <1>1, <1>2, PTL DEF Spec

(* The variables of the bearer, its wire and its requests keep their types.*)
THEOREM TypeCorrect ==
  ASSUME ~Preempts
  PROVE  Spec => []TypeOK
<1>1. ASSUME IInv PROVE TypeOK
  <2>1. free \in 0..Slots
    <3>1. /\ free \in Nat /\ Len(att.reqs) \in Nat
          /\ free + Len(att.reqs) + (IF att.req \in Reqs THEN 1 ELSE 0) = Slots
      BY <1>1, Typed, WorldFields, LenProperties DEF Sound, Used
    <3>2. (IF att.req \in Reqs THEN 1 ELSE 0) \in Nat /\ Slots \in Nat
      BY AttAssumption
    <3> DEFINE k == IF att.req \in Reqs THEN 1 ELSE 0
    <3>3. free + Len(att.reqs) + k = Slots /\ k \in Nat
      BY <3>1, <3>2
    <3> HIDE DEF k
    <3> QED
      BY <3>1, <3>2, <3>3
  <2>2. picked \in [Queues -> Reqs \cup {NULL}]
    BY <1>1, Typed, WorldFields DEF Worlds
  <2> QED
    BY <1>1, <2>1, <2>2, Typed DEF TypeOK, IInv, WireOK, Ends
<1> QED
  BY <1>1, Invariance, PTL

(* gatt_req_send and its ends: every block of req_slab is free, queued or   *)
(* with the outstanding request, through cancels, timeouts and lost links. *)
THEOREM SlotsConserved ==
  ASSUME ~Preempts
  PROVE  Spec => []SlotsExact
<1>1. ASSUME IInv PROVE SlotsExact
  <2>1. /\ free \in Nat /\ Len(att.reqs) \in Nat
        /\ free + Len(att.reqs) + (IF att.req \in Reqs THEN 1 ELSE 0) = Slots
    BY <1>1, Typed, WorldFields, LenProperties DEF Sound, Used
  <2>2. {q \in Queues : picked[q] # NULL} = {}
    BY <1>1, Typed, WorldFields DEF Sound
  <2>3. Cardinality({q \in Queues : picked[q] # NULL}) = 0
    BY <2>2, FS_EmptySet
  <2> DEFINE k == IF att.req \in Reqs THEN 1 ELSE 0
             c == Cardinality({q \in Queues : picked[q] # NULL})
  <2>4. k \in Nat /\ c = 0 /\ free + Len(att.reqs) + k = Slots
    BY <2>1, <2>3
  <2>5. SlotsExact <=> free + Len(att.reqs) + c + k = Slots
    BY DEF SlotsExact
  <2> HIDE DEF k, c
  <2> QED
    BY <2>1, <2>4, <2>5
<1> QED
  BY <1>1, Invariance, PTL

(* att_handle_rsp gives a request its own answer, once: while a bearer is  *)
(* up one request at most is unanswered, and a cancelled one keeps its     *)
(* place.  Security changes only when ATT asked for it.                    *)
THEOREM AnswersPaired ==
  ASSUME ~Preempts, "rekey" \notin Rash
  PROVE  Spec => []AnswersMatch
<1>1. ASSUME IInv PROVE AnswersMatch
  <2>1. OneOutstanding
    BY <1>1 DEF IInv, PairInv, Paired, OneOutstanding
  <2>2. \A r \in Reqs : Len(told[r]) <= 1
    BY <1>1, Typed, WorldFields DEF Sound, Placed
  <2> QED
    BY <1>1, <2>1, <2>2 DEF IInv, OwnTold, Owned, OwnAnswer, AnswersMatch
<1> QED
  BY <1>1, Invariance, PTL

(* att_timeout never runs on a detached channel, and bt_gatt_cancel finds a *)
(* transaction when it is called while one is outstanding.                 *)
THEOREM NoNullUsed ==
  ASSUME ~Preempts, "late" \notin Rash
  PROVE  Spec => []NothingBreaks
<1>1. ASSUME IInv PROVE NothingBreaks
  BY <1>1 DEF IInv, NothingBreaks
<1> QED
  BY <1>1, Invariance, PTL

===============================================================================
