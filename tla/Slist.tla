-------------------------------- MODULE Slist --------------------------------
(***************************************************************************)
(* include/utils/bt_slist.h: the intrusive singly linked list under every  *)
(* queue of the stack, at the level of its pointers.                       *)
(*                                                                         *)
(* A list is the record [head, tail, next], where next holds the link of   *)
(* every node, in the list or not: a node that no list has used yet has an *)
(* arbitrary link.  The loops that walk a list are stepped one node at a   *)
(* time; callers hold a lock around them, so nothing runs in between.      *)
(*                                                                         *)
(* The history variable seq is what the list should hold: the sequence     *)
(* that each operation's comment describes.  The operators named after a   *)
(* fault, just before the operator they spoil, are used by no definition.  *)
(***************************************************************************)
EXTENDS Integers, Sequences, SequencesExt

CONSTANTS Nodes, NULL

ASSUME NullAssumption == NULL \notin Nodes

VARIABLES
  list,    (* bt_slist_t and the links of all nodes                         *)
  pc,      (* the loop in progress: "idle", "find", "remove" or "len"       *)
  target,  (* the node that find looks for                                  *)
  prev,    (* the loop's prev                                               *)
  cur,     (* the loop's cur                                                *)
  len,     (* the counter of bt_slist_len                                   *)
  seq      (* history: the abstract contents                                *)

walkVars == <<pc, target, prev, cur, len>>
vars     == <<list, walkVars, seq>>

Links == [Nodes -> Nodes \cup {NULL}]
Lists == [head : Nodes \cup {NULL}, tail : Nodes \cup {NULL}, next : Links]

(* Every pointer is a node or NULL.                                        *)
TypeOK ==
  /\ list \in Lists
  /\ pc \in {"idle", "find", "remove", "len"}
  /\ target \in Nodes \cup {NULL}
  /\ prev \in Nodes \cup {NULL}
  /\ cur \in Nodes \cup {NULL}
  /\ len \in Nat
  /\ seq \in Seq(Nodes)

Init ==
  /\ list \in [head : {NULL}, tail : {NULL}, next : Links]
  /\ pc = "idle"
  /\ target = NULL /\ prev = NULL /\ cur = NULL
  /\ len = 0
  /\ seq = <<>>

-----------------------------------------------------------------------------
(* The operations that do not loop.                                        *)

prepend(l, n) ==
  [head |-> n,
   tail |-> IF l.tail = NULL THEN n ELSE l.tail,
   next |-> [l.next EXCEPT ![n] = l.head]]

(* The link the node came with is left in place.                           *)
AppendKeepsLink(l, n) ==
  IF l.tail # NULL
    THEN [l EXCEPT !.next[l.tail] = n, !.tail = n]
    ELSE [l EXCEPT !.head = n, !.tail = n]

append(l, n) ==
  LET link == [l.next EXCEPT ![n] = NULL] IN
    IF l.tail # NULL
      THEN [head |-> l.head, tail |-> n, next |-> [link EXCEPT ![l.tail] = n]]
      ELSE [head |-> n, tail |-> n, next |-> link]

insert(l, p, n) ==
  IF p = NULL
    THEN prepend(l, n)
    ELSE [head |-> l.head,
          tail |-> IF l.tail = p THEN n ELSE l.tail,
          next |-> [[l.next EXCEPT ![n] = l.next[p]] EXCEPT ![p] = n]]

(* For a list that is not empty; bt_slist_get_not_empty does the same.     *)
get(l) ==
  LET h == l.next[l.head] IN
    [head |-> h,
     tail |-> IF h = NULL THEN NULL ELSE l.tail,
     next |-> [l.next EXCEPT ![l.head] = NULL]]

(* The node is detached also when p is not its predecessor.                *)
remove(l, p, n) ==
  LET after == l.next[n]
      first == p = NULL /\ l.head = n
      inner == p # NULL /\ l.next[p] = n
      links == IF inner THEN [l.next EXCEPT ![p] = after] ELSE l.next
  IN [head |-> IF first THEN after ELSE l.head,
      tail |-> IF first /\ after = NULL THEN NULL
               ELSE IF inner /\ after = NULL THEN p ELSE l.tail,
      next |-> [links EXCEPT ![n] = NULL]]

-----------------------------------------------------------------------------
(* The operations as steps.  A node that is added sits in no list.         *)

InList(n) == \E i \in DOMAIN seq : seq[i] = n

Prepend(n) ==
  /\ pc = "idle" /\ ~InList(n)
  /\ list' = prepend(list, n)
  /\ seq' = Cons(n, seq)
  /\ UNCHANGED walkVars

Append_(n) ==
  /\ pc = "idle" /\ ~InList(n)
  /\ list' = append(list, n)
  /\ seq' = Append(seq, n)
  /\ UNCHANGED walkVars

(* Insert after the i-th node, or in front for i = 0.                      *)
Insert(i, n) ==
  /\ pc = "idle" /\ ~InList(n) /\ i \in 0..Len(seq)
  /\ list' = insert(list, IF i = 0 THEN NULL ELSE seq[i], n)
  /\ seq' = InsertAt(seq, i + 1, n)
  /\ UNCHANGED walkVars

Get ==
  /\ pc = "idle" /\ list.head # NULL
  /\ list' = get(list)
  /\ seq' = Tail(seq)
  /\ UNCHANGED walkVars

(* bt_slist_find, find_and_remove and bt_slist_len set out at the head.    *)
Walk(op, n) ==
  /\ pc = "idle"
  /\ op \in {"find", "remove", "len"}
  /\ pc' = op /\ target' = n
  /\ prev' = NULL /\ cur' = list.head
  /\ len' = 0
  /\ UNCHANGED <<list, seq>>

Step ==
  /\ pc # "idle" /\ cur # NULL
  /\ pc \in {"find", "remove"} => cur # target
  /\ prev' = cur /\ cur' = list.next[cur]
  /\ len' = len + 1
  /\ UNCHANGED <<list, pc, target, seq>>

(* The node is found: find reports it, find_and_remove unlinks it.         *)
Hit ==
  /\ pc \in {"find", "remove"} /\ cur # NULL /\ cur = target
  /\ IF pc = "remove"
       THEN /\ list' = remove(list, prev, cur)
            /\ \E i \in DOMAIN seq : seq[i] = target /\ seq' = RemoveAt(seq, i)
       ELSE UNCHANGED <<list, seq>>
  /\ pc' = "idle"
  /\ UNCHANGED <<target, prev, cur, len>>

(* The end of the list: not found, or the length is known.                 *)
End ==
  /\ pc # "idle" /\ cur = NULL
  /\ pc' = "idle"
  /\ UNCHANGED <<list, target, prev, cur, len, seq>>

Next ==
  \/ \E n \in Nodes : \/ Prepend(n)
                      \/ Append_(n)
                      \/ \E i \in 0..Len(seq) : Insert(i, n)
                      \/ \E op \in {"find", "remove", "len"} : Walk(op, n)
  \/ Get
  \/ Step
  \/ Hit
  \/ End

Spec == Init /\ [][Next]_vars

-----------------------------------------------------------------------------
(* Properties.                                                             *)

(* The pointers of l spell out exactly the sequence s.                     *)
Represents(l, s) ==
  /\ l.head = IF s = <<>> THEN NULL ELSE s[1]
  /\ l.tail = IF s = <<>> THEN NULL ELSE s[Len(s)]
  /\ \A i \in 1..Len(s) : l.next[s[i]] = IF i = Len(s) THEN NULL ELSE s[i + 1]

(* Whatever sequence of operations has run, the head, the tail and the     *)
(* links are those of the list the operations describe, however the links  *)
(* of fresh nodes were set before.                                         *)
ListShape == Represents(list, seq)

(* A node that find or find_and_remove reports as absent is in the list    *)
(* nowhere, and prev is the predecessor of the node they stop at.          *)
FindExact ==
  pc \in {"find", "remove"} =>
    /\ cur = NULL => \A i \in 1..Len(seq) : seq[i] # target
    /\ cur # NULL /\ prev = NULL => list.head = cur
    /\ prev # NULL => list.next[prev] = cur

(* bt_slist_len counts every node, each once.                              *)
LenExact == pc = "len" /\ cur = NULL => len = Len(seq)
=============================================================================
