------------------------------ MODULE ListHead ------------------------------
(***************************************************************************)
(* The intrusive list of simpleOSD_list.h: every node has two pointers, a  *)
(* list is a ring through its head.  The stores of a function happen in    *)
(* the order written: in an EXCEPT a later store to the same node wins,    *)
(* which matters when prev and next are the same node.                     *)
(*                                                                         *)
(* Callers keep to the contract of the functions: an entry that is added   *)
(* is on no list, an entry that is deleted is on one or was left by        *)
(* INIT_LIST_HEAD, and a list is not spliced into itself.  A loop of       *)
(* list_for_each_entry_safe runs alone and may delete the entry it is at.  *)
(* An access through NULL would find NULL here and so lose the list.       *)
(***************************************************************************)
EXTENDS Naturals, FiniteSets

CONSTANTS Heads, Entries, NULL

Nodes == Heads \cup Entries
Pointers == Nodes \cup {NULL}

ASSUME ListAssumption ==
  /\ Heads \cap Entries = {}
  /\ NULL \notin Nodes
  /\ IsFiniteSet(Nodes)

VARIABLES
  next, prev,
  pos, n,       \* the loop's variables, NULL outside of a loop
  head,         \* list of the loop
  at,           \* "none", or the loop is at its "test" or after its body
  called        \* history: the last call and its arguments

vars == <<next, prev, pos, n, head, at, called>>
loop == <<pos, n, head, at>>

list_empty(h) == next[h] = h
Linked(e) == next[e] # NULL /\ ~list_empty(e)
OutsideLoop == at = "none"

Init ==
  /\ next = [x \in Pointers |-> IF x \in Heads THEN x ELSE NULL]
  /\ prev = [x \in Pointers |-> IF x \in Heads THEN x ELSE NULL]
  /\ pos = NULL /\ n = NULL /\ head = NULL
  /\ at = "none"
  /\ called = <<"none">>

(***************************************************************************)
(* __list_add(new, prev, next) and the two functions that call it.         *)
(***************************************************************************)
(* Seeded fault: the back pointer of the following node is not set. *)
Insert_OneWay(new, before, after) ==
  /\ prev' = [prev EXCEPT ![new] = before]
  /\ next' = [next EXCEPT ![new] = after, ![before] = new]

Insert(new, before, after) ==
  /\ prev' = [prev EXCEPT ![after] = new, ![new] = before]
  /\ next' = [next EXCEPT ![new] = after, ![before] = new]

list_add(e, h) ==
  /\ OutsideLoop
  /\ called' = <<"list_add", e, h>>
  /\ ~Linked(e)
  /\ Insert(e, h, next[h])
  /\ UNCHANGED loop

(* Seeded fault: the arguments of list_add. *)
list_add_tail_AtFront(e, h) ==
  /\ OutsideLoop
  /\ called' = <<"list_add_tail", e, h>>
  /\ ~Linked(e)
  /\ Insert(e, h, next[h])
  /\ UNCHANGED loop

list_add_tail(e, h) ==
  /\ OutsideLoop
  /\ called' = <<"list_add_tail", e, h>>
  /\ ~Linked(e)
  /\ Insert(e, prev[h], h)
  /\ UNCHANGED loop

(***************************************************************************)
(* __list_del of an entry, whose own pointers become own: NULL in          *)
(* list_del, the entry itself in list_del_init.                            *)
(***************************************************************************)
Unlink(e, own) ==
  /\ prev' = [prev EXCEPT ![next[e]] = prev[e], ![e] = own]
  /\ next' = [next EXCEPT ![prev[e]] = next[e], ![e] = own]

list_del(e) == Unlink(e, NULL)
list_del_init(e) == Unlink(e, e)

Delete(e) ==
  /\ OutsideLoop
  /\ called' = <<"list_del", e>>
  /\ next[e] # NULL
  /\ list_del(e) \/ list_del_init(e)
  /\ UNCHANGED loop

(***************************************************************************)
(* The entries of list l move to the front of list h.                      *)
(***************************************************************************)
list_splice_init(l, h) ==
  /\ OutsideLoop
  /\ called' = <<"list_splice_init", l, h>>
  /\ l # h
  /\ ~list_empty(l)
  /\ prev' = [prev EXCEPT ![next[l]] = h, ![next[h]] = prev[l], ![l] = l]
  /\ next' = [next EXCEPT ![h] = next[l], ![prev[l]] = next[h], ![l] = l]
  /\ UNCHANGED loop

(***************************************************************************)
(* list_for_each_entry_safe: n is read before the body runs for pos.       *)
(***************************************************************************)
LoopStart(h) ==
  /\ OutsideLoop
  /\ called' = <<"loop", h>>
  /\ head' = h
  /\ pos' = next[h]
  /\ n' = next[next[h]]
  /\ at' = "test"
  /\ UNCHANGED <<next, prev>>

(* The body runs while pos is not the head: it keeps or deletes pos. *)
LoopBody ==
  /\ at = "test"
  /\ pos # head
  /\ \/ UNCHANGED <<next, prev>>
     \/ list_del(pos)
     \/ list_del_init(pos)
  /\ at' = "advance"
  /\ UNCHANGED <<pos, n, head, called>>

(* Seeded fault: the successor is read after the body, the way of list_for_each_entry. *)
LoopAdvance_Late ==
  /\ at = "advance"
  /\ pos' = next[pos]
  /\ n' = next[next[pos]]
  /\ at' = "test"
  /\ UNCHANGED <<next, prev, head, called>>

LoopAdvance ==
  /\ at = "advance"
  /\ pos' = n
  /\ n' = next[n]
  /\ at' = "test"
  /\ UNCHANGED <<next, prev, head, called>>

LoopEnd ==
  /\ at = "test"
  /\ pos = head
  /\ at' = "none"
  /\ pos' = NULL /\ n' = NULL
  /\ UNCHANGED <<next, prev, head, called>>

LoopStep == LoopBody \/ LoopAdvance \/ LoopEnd

Next ==
  \/ \E e \in Entries, h \in Heads : list_add(e, h) \/ list_add_tail(e, h)
  \/ \E e \in Entries : Delete(e)
  \/ \E l, h \in Heads : list_splice_init(l, h)
  \/ \E h \in Heads : LoopStart(h)
  \/ LoopStep

Spec == Init /\ [][Next]_vars

(* Nothing but the loop's own steps runs while a loop does. *)
FairSpec == Spec /\ WF_vars(LoopStep)

-----------------------------------------------------------------------------
(***************************************************************************)
(* The pointers of every node that is linked agree in both directions, a   *)
(* head is never left without pointers, and a node has both or none.       *)
(***************************************************************************)
RingsConsistent ==
  /\ next \in [Pointers -> Pointers] /\ prev \in [Pointers -> Pointers]
  /\ next[NULL] = NULL /\ prev[NULL] = NULL
  /\ \A h \in Heads : next[h] # NULL
  /\ \A x \in Nodes : /\ next[x] = NULL <=> prev[x] = NULL
                      /\ next[x] # NULL => prev[next[x]] = x /\ next[prev[x]] = x

(***************************************************************************)
(* A loop that deletes as it goes never follows NULL, and its body never   *)
(* runs for the head of another list.                                      *)
(***************************************************************************)
LoopOnList ==
  /\ at = "test" => pos \in Entries \cup {head} /\ n = next[pos]
  /\ at = "advance" => n \in Entries \cup {head} /\ next[n] # NULL

(***************************************************************************)
(* What a walk along the links from node x to head h meets, in order.      *)
(***************************************************************************)
Walk(links, x, h) ==
  LET after[k \in 0 .. Cardinality(Nodes)] == IF k = 0 THEN x ELSE links[after[k - 1]]
      ends == {k \in DOMAIN after : after[k] = h}
      length == IF ends = {} THEN Cardinality(Nodes) ELSE CHOOSE k \in ends : \A l \in ends : k <= l
  IN  [k \in 1 .. length |-> after[k - 1]]

RingLists == [h \in Heads |-> Walk(next, next[h], h)]
Ahead == CASE at = "none" -> << >>
           [] at = "test" -> Walk(next, pos, head)
           [] at = "advance" -> Walk(next, n, head)

(***************************************************************************)
(* The rings are sequences: each function does to them what its name says  *)
(* and nothing to the other lists, and the loop's body runs once for each  *)
(* entry the list had, in order, whatever it deletes.                      *)
(***************************************************************************)
AbstractLists == INSTANCE Lists WITH lists <- RingLists, ahead <- Ahead
ImplementsLists == AbstractLists!Spec

(***************************************************************************)
(* A list_for_each_entry_safe loop ends, also when its body deletes.       *)
(***************************************************************************)
LoopsFinish == at # "none" ~> at = "none"
=============================================================================
