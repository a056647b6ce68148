--------------------------------- MODULE BtBuf ---------------------------------
(***************************************************************************)
(* base/bt_buf.c: a pool of buffers with fixed data, counted references,   *)
(* and fragments.                                                          *)
(*                                                                         *)
(* Allocation looks at uninit_count with the mutex of the pool, then waits *)
(* on the queue of free buffers without it.  The reference count is an     *)
(* ordinary field: bt_buf_ref and bt_buf_unref load it and store it, in    *)
(* two steps.  Threads pass buffers to each other with bt_buf_slist_put    *)
(* and bt_buf_slist_get.                                                   *)
(*                                                                         *)
(* The variable own is the account of the callers: how many references of  *)
(* each buffer a thread has and must give up, by the word of bt_buf.h.     *)
(***************************************************************************)
EXTENDS Integers, Sequences, FiniteSets

CONSTANTS
  BufCount,   (* pool->buf_count                                            *)
  Threads,
  Timeouts,   (* the timeouts threads pass: "nowait", "forever"; a timed    *)
              (* wait that ends is an allocation with "nowait"              *)
  MaxRef,     (* bound: nobody takes a reference of a buffer that has MaxRef*)
  Shares,     (* may two threads have references of one buffer?             *)
  Headless,   (* is bt_buf_frag_add called without a head?  No code of the  *)
              (* repository does                                            *)
  NULL

VARIABLES
  uninit,    (* pool->uninit_count                                          *)
  free,      (* pool->free                                                  *)
  ref,       (* the reference count of each buffer                          *)
  frags,     (* its next fragment, or NULL                                  *)
  external,  (* the buffers with BT_BUF_EXTERNAL_DATA                       *)
  list,      (* the list of bt_buf_slist_put                                *)
  pc,        (* where each thread is                                        *)
  call,      (* of an allocation: who asks, for which buffer, how long      *)
  cur,       (* the buffer bt_buf_ref, bt_buf_unref or the destroy works on *)
  val,       (* the reference count they have loaded                        *)
  rest,      (* the local variable frags of bt_buf_unref                    *)
  own

bufVars == <<ref, frags, external>>
locals  == <<call, cur, val, rest>>
vars    == <<uninit, free, bufVars, list, pc, locals, own>>

Bufs == 1..BufCount
NoCall == [kind |-> "alloc", src |-> NULL, how |-> "nowait"]

Init ==
  /\ uninit = BufCount /\ free = <<>>
  /\ ref = [b \in Bufs |-> 0]
  /\ frags = [b \in Bufs |-> NULL]
  /\ external = {} /\ list = <<>>
  /\ pc = [t \in Threads |-> "idle"]
  /\ call = [t \in Threads |-> NoCall]
  /\ cur = [t \in Threads |-> NULL]
  /\ val = [t \in Threads |-> 0]
  /\ rest = [t \in Threads |-> NULL]
  /\ own = [t \in Threads |-> [b \in Bufs |-> 0]]

(* The buffers of the chain that starts at b: those in every set that has  *)
(* b and the next fragment of each of its buffers.                         *)
Closed == {S \in SUBSET Bufs : \A c \in S : frags[c] \in S \cup {NULL}}
Chain(b) == {c \in Bufs : \A S \in Closed : b \in S => c \in S}

bt_buf_frag_last(b) == CHOOSE c \in Chain(b) : frags[c] = NULL

(* The call of thread t returns, and its local variables are gone.         *)
Done(t) ==
  /\ pc' = [pc EXCEPT ![t] = "idle"]
  /\ call' = [call EXCEPT ![t] = NoCall]
  /\ cur' = [cur EXCEPT ![t] = NULL]
  /\ val' = [val EXCEPT ![t] = 0]
  /\ rest' = [rest EXCEPT ![t] = NULL]

Owns(t, b) == pc[t] = "idle" /\ own[t][b] > 0

-----------------------------------------------------------------------------
(* Allocation.  It is asked for by a user, with data of the pool or of its *)
(* own, by bt_buf_clone, and by bt_buf_append_bytes for a new fragment.    *)
CallAlloc(t, kind, src, how) ==
  /\ pc[t] = "idle" /\ how \in Timeouts
  /\ IF kind \in {"clone", "append"} THEN src \in Bufs /\ Owns(t, src) ELSE src = NULL
  /\ pc' = [pc EXCEPT ![t] = "alloc"]
  /\ call' = [call EXCEPT ![t] = [kind |-> kind, src |-> src, how |-> how]]
  /\ UNCHANGED <<uninit, free, bufVars, list, cur, val, rest, own>>

(* The caller gets buffer b and goes on: bt_buf_clone destroys it again if *)
(* the data of the original does not fit, bt_buf_append_bytes adds it to   *)
(* the end of the chain.                                                   *)
Success(t, b) ==
  LET kind == call[t].kind
      src == call[t].src
  IN /\ ref' = [ref EXCEPT ![b] = 1]
     /\ external' = IF kind = "data" THEN external \cup {b} ELSE external \ {b}
     /\ \/ /\ kind # "append"
           /\ own' = [own EXCEPT ![t][b] = @ + 1]
           /\ frags' = [frags EXCEPT ![b] = NULL]
           /\ Done(t)
        \/ /\ kind = "clone" /\ src \in external
           /\ pc' = [pc EXCEPT ![t] = "destroy"]
           /\ cur' = [cur EXCEPT ![t] = b]
           /\ frags' = [frags EXCEPT ![b] = NULL]
           /\ UNCHANGED <<own, call, val, rest>>
        \/ /\ kind = "append"
           /\ frags' = [frags EXCEPT ![b] = NULL, ![bt_buf_frag_last(src)] = b]
           /\ Done(t)
           /\ UNCHANGED own
     /\ UNCHANGED list

(* The part with the mutex: a buffer that was used before, or else one     *)
(* that was never used, or else the wait.                                  *)
bt_buf_alloc_len(t) ==
  /\ pc[t] = "alloc"
  /\ \/ /\ uninit > 0 /\ uninit < BufCount /\ free # <<>>
        /\ free' = Tail(free)
        /\ Success(t, Head(free))
        /\ UNCHANGED uninit
     \/ /\ uninit > 0 /\ ~(uninit < BufCount /\ free # <<>>)
        /\ uninit' = uninit - 1
        /\ Success(t, BufCount - uninit + 1)
        /\ UNCHANGED free
     \/ /\ uninit = 0
        /\ pc' = [pc EXCEPT ![t] = "get"]
        /\ UNCHANGED <<uninit, free, bufVars, list, locals, own>>

(* bt_queue_get without the mutex.                                         *)
GetFree(t) ==
  /\ pc[t] = "get"
  /\ \/ /\ free # <<>>
        /\ free' = Tail(free)
        /\ Success(t, Head(free))
        /\ UNCHANGED uninit
     \/ /\ free = <<>> /\ call[t].how = "nowait"
        /\ Done(t)
        /\ UNCHANGED <<uninit, free, bufVars, list, own>>

-----------------------------------------------------------------------------
(* bt_buf_ref: load, then store.                                           *)
RefLoad(t, b, at) ==
  /\ Owns(t, b) /\ ref[b] < MaxRef
  /\ pc' = [pc EXCEPT ![t] = at]
  /\ cur' = [cur EXCEPT ![t] = b]
  /\ val' = [val EXCEPT ![t] = ref[b]]
  /\ UNCHANGED <<uninit, free, bufVars, list, call, rest, own>>

bt_buf_ref(t, b) == RefLoad(t, b, "ref")

(* The caller of bt_buf_ref has one more to give up.  The caller of        *)
(* bt_buf_frag_add gave its reference to the chain it gets back.           *)
RefStore(t) ==
  /\ pc[t] \in {"ref", "add"}
  /\ ref' = [ref EXCEPT ![cur[t]] = val[t] + 1]
  /\ own' = IF pc[t] = "ref" THEN [own EXCEPT ![t][cur[t]] = @ + 1] ELSE own
  /\ Done(t)
  /\ UNCHANGED <<uninit, free, frags, external, list>>

bt_buf_unref(t, b) ==
  /\ Owns(t, b)
  /\ own' = [own EXCEPT ![t][b] = @ - 1]
  /\ pc' = [pc EXCEPT ![t] = "unref"]
  /\ cur' = [cur EXCEPT ![t] = b]
  /\ UNCHANGED <<uninit, free, bufVars, list, call, val, rest>>

(* A round of the loop of bt_buf_unref: a count of zero is a double free   *)
(* and ends the call, or else the count is loaded,                         *)
UnrefLoad(t) ==
  /\ pc[t] = "unref"
  /\ rest' = [rest EXCEPT ![t] = frags[cur[t]]]
  /\ val' = [val EXCEPT ![t] = ref[cur[t]]]
  /\ pc' = [pc EXCEPT ![t] = IF ref[cur[t]] = 0 THEN "double free" ELSE "store"]
  /\ UNCHANGED <<uninit, free, bufVars, list, call, cur, own>>

(* stored, and the buffer is destroyed when nobody is left.                *)
UnrefStore(t) ==
  /\ pc[t] = "store"
  /\ ref' = [ref EXCEPT ![cur[t]] = val[t] - 1]
  /\ \/ /\ val[t] = 1
        /\ pc' = [pc EXCEPT ![t] = "destroy"]
        /\ UNCHANGED locals
     \/ /\ val[t] # 1
        /\ Done(t)
  /\ UNCHANGED <<uninit, free, frags, external, list, own>>

(* bt_buf_destroy gives the buffer back, and bt_buf_unref turns to what    *)
(* was its next fragment.                                                  *)
bt_buf_destroy(t) ==
  /\ pc[t] = "destroy"
  /\ frags' = [frags EXCEPT ![cur[t]] = NULL]
  /\ free' = <<cur[t]>> \o free
  /\ \/ /\ rest[t] = NULL
        /\ Done(t)
     \/ /\ rest[t] # NULL
        /\ pc' = [pc EXCEPT ![t] = "unref"]
        /\ cur' = [cur EXCEPT ![t] = rest[t]]
        /\ UNCHANGED <<call, val, rest>>
  /\ UNCHANGED <<uninit, ref, external, list, own>>

-----------------------------------------------------------------------------
(* Fragments.  A thread joins two chains of its own that have no buffer in *)
(* common.                                                                 *)
Joinable(t, b, c) ==
  /\ Owns(t, b) /\ Owns(t, c)
  /\ Chain(b) \cap Chain(c) = {}

(* The fragments that followed the parent are dropped.                     *)
InsertForgets(t, parent, frag) ==
  /\ Joinable(t, parent, frag)
  /\ frags' = [frags EXCEPT ![parent] = frag]
  /\ own' = [own EXCEPT ![t][frag] = @ - 1]
  /\ UNCHANGED <<uninit, free, ref, external, list, pc, locals>>

bt_buf_frag_insert(t, parent, frag) ==
  /\ Joinable(t, parent, frag)
  /\ frags' = IF frags[parent] # NULL
                THEN [frags EXCEPT ![bt_buf_frag_last(frag)] = frags[parent], ![parent] = frag]
                ELSE [frags EXCEPT ![parent] = frag]
  /\ own' = [own EXCEPT ![t][frag] = @ - 1]
  /\ UNCHANGED <<uninit, free, ref, external, list, pc, locals>>

(* With a head it is the insertion after the last fragment.  Without one   *)
(* it takes a reference of its own of the fragment (bt_buf.c:475), though  *)
(* bt_buf.h:2480 says that it takes the caller's.                          *)
bt_buf_frag_add(t, head, frag) ==
  \/ /\ head # NULL /\ Joinable(t, head, frag)
     /\ frags' = [frags EXCEPT ![bt_buf_frag_last(head)] = frag]
     /\ own' = [own EXCEPT ![t][frag] = @ - 1]
     /\ UNCHANGED <<uninit, free, ref, external, list, pc, locals>>
  \/ head = NULL /\ Headless /\ RefLoad(t, frag, "add")

(* The fragment after a parent, or the head of a chain, is cut out; what   *)
(* follows it goes to the parent, or to the caller.                        *)
bt_buf_frag_del(t, parent, frag) ==
  /\ IF parent # NULL THEN Owns(t, parent) /\ frags[parent] = frag
                      ELSE Owns(t, frag)
  /\ frags' = [b \in Bufs |-> IF b = frag THEN NULL
                              ELSE IF b = parent THEN frags[frag] ELSE frags[b]]
  /\ own' = IF parent # NULL THEN own
            ELSE [own EXCEPT ![t] = [b \in Bufs |-> @[b] - (IF b = frag THEN 1 ELSE 0)
                                                         + (IF b = frags[frag] THEN 1 ELSE 0)]]
  /\ pc' = [pc EXCEPT ![t] = "unref"]
  /\ cur' = [cur EXCEPT ![t] = frag]
  /\ UNCHANGED <<uninit, free, ref, external, list, call, val, rest>>

-----------------------------------------------------------------------------
(* A thread puts a buffer in the list with one of its references.  Without *)
(* sharing it must have no other reference of the buffers of the chain.    *)
bt_buf_slist_put(t, b) ==
  /\ Owns(t, b) /\ \A i \in 1..Len(list) : list[i] # b
  /\ Shares \/ \A c \in Chain(b) : own[t][c] = IF c = b THEN 1 ELSE 0
  /\ Shares \/ \A c \in Bufs \ Chain(b) : frags[c] \notin Chain(b)
  /\ list' = Append(list, b)
  /\ own' = [own EXCEPT ![t][b] = @ - 1]
  /\ UNCHANGED <<uninit, free, bufVars, pc, locals>>

bt_buf_slist_get(t) ==
  /\ pc[t] = "idle" /\ list # <<>>
  /\ list' = Tail(list)
  /\ own' = [own EXCEPT ![t][Head(list)] = @ + 1]
  /\ UNCHANGED <<uninit, free, bufVars, pc, locals>>

Next ==
  \E t \in Threads :
    \/ \E how \in Timeouts :
         \/ \E kind \in {"alloc", "data"} : CallAlloc(t, kind, NULL, how)
         \/ \E kind \in {"clone", "append"}, b \in Bufs : CallAlloc(t, kind, b, how)
    \/ bt_buf_alloc_len(t) \/ GetFree(t)
    \/ RefStore(t) \/ UnrefLoad(t) \/ UnrefStore(t) \/ bt_buf_destroy(t)
    \/ \E b \in Bufs : bt_buf_ref(t, b) \/ bt_buf_unref(t, b) \/ bt_buf_slist_put(t, b)
    \/ \E b, c \in Bufs : bt_buf_frag_insert(t, b, c)
    \/ \E b \in Bufs \cup {NULL}, c \in Bufs : bt_buf_frag_add(t, b, c) \/ bt_buf_frag_del(t, b, c)
    \/ bt_buf_slist_get(t)

Spec == Init /\ [][Next]_vars

-----------------------------------------------------------------------------
(* Properties.                                                             *)

Positions(s, b) == {i \in 1..Len(s) : s[i] = b}

(* The references of b that exist: those threads have, the one of its      *)
(* place in the list, the one of each buffer it is the next fragment of,   *)
(* and those that an unref is about to give up.                            *)
Held(b) == UNION {{t} \X (1..own[t][b]) : t \in Threads}
References(b) ==
  Cardinality(Held(b))
    + Cardinality(Positions(list, b))
    + Cardinality({c \in Bufs : frags[c] = b})
    + Cardinality({t \in Threads : pc[t] \in {"unref", "store"} /\ cur[t] = b})

NeverUsed == {b \in Bufs : b > BufCount - uninit}
Destroyed == {b \in Bufs : \E t \in Threads : pc[t] = "destroy" /\ cur[t] = b}
Freed     == {b \in Bufs : Positions(free, b) # {}}
InUse     == Bufs \ (NeverUsed \cup Destroyed \cup Freed)

(* The count of a buffer is the number of the references that exist, in    *)
(* every chain, list and account, through fragment insertion and deletion: *)
(* a buffer is not freed early and not kept for ever.                      *)
RefExact == \A b \in InUse : ref[b] = References(b)

(* A buffer is in one place: never used, free once, destroyed by one       *)
(* thread, or in use; and nobody refers to one that is not in use.         *)
OnePlace ==
  /\ NeverUsed \cap (Destroyed \cup Freed) = {} /\ Destroyed \cap Freed = {}
  /\ \A b \in Bufs :
       /\ Cardinality(Positions(free, b)) <= 1
       /\ Cardinality({t \in Threads : pc[t] = "destroy" /\ cur[t] = b}) <= 1
       /\ b \notin InUse => References(b) = 0

(* No buffers are tied into a ring: every chain of fragments ends, so that *)
(* bt_buf_frag_last and the loop of bt_buf_unref do.                       *)
ChainEnds == \A S \in SUBSET Bufs : S # {} => \E c \in S : frags[c] \notin S

(* Together: no buffer is lost, freed early, given out twice or tied into  *)
(* a ring.                                                                 *)
BufsExact == RefExact /\ OnePlace /\ ChainEnds

(* bt_buf_unref never meets a count of zero, which it asserts.             *)
NoDoubleFree == \A t \in Threads : pc[t] # "double free"
=============================================================================
