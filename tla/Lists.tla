-------------------------------- MODULE Lists --------------------------------
(***************************************************************************)
(* What simpleOSD_list.h promises: lists of entries, an entry on at most   *)
(* one of them, and a loop that runs through the entries of one list and   *)
(* may remove the one it is at.                                            *)
(***************************************************************************)
EXTENDS Naturals, Sequences

CONSTANTS Heads, Entries

VARIABLES
  lists,   \* the entries of each list, in order
  ahead,   \* the entries a running loop has not come to yet
  called   \* the last call and its arguments

vars == <<lists, ahead, called>>

Listed(e) == \E h \in Heads : \E i \in DOMAIN lists[h] : lists[h][i] = e
Cut(s, i) == [j \in 1 .. Len(s) - 1 |-> IF j < i THEN s[j] ELSE s[j + 1]]

(* Entry e leaves the list it is on, if any. *)
Remove(e) ==
  \/ \E h \in Heads : \E i \in DOMAIN lists[h] :
       lists[h][i] = e /\ lists' = [lists EXCEPT ![h] = Cut(@, i)]
  \/ ~Listed(e) /\ UNCHANGED lists

Init ==
  /\ lists = [h \in Heads |-> << >>]
  /\ ahead = << >>
  /\ called = <<"none">>

(* Calls are made while no loop runs. *)
Call(c) ==
  /\ called' = c
  /\ ahead = << >>

list_add(e, h) ==
  /\ Call(<<"list_add", e, h>>)
  /\ ~Listed(e)
  /\ lists' = [lists EXCEPT ![h] = <<e>> \o @]
  /\ UNCHANGED ahead

list_add_tail(e, h) ==
  /\ Call(<<"list_add_tail", e, h>>)
  /\ ~Listed(e)
  /\ lists' = [lists EXCEPT ![h] = Append(@, e)]
  /\ UNCHANGED ahead

list_del(e) ==
  /\ Call(<<"list_del", e>>)
  /\ Remove(e)
  /\ UNCHANGED ahead

list_splice_init(l, h) ==
  /\ Call(<<"list_splice_init", l, h>>)
  /\ l # h
  /\ lists' = [lists EXCEPT ![h] = lists[l] \o @, ![l] = << >>]
  /\ UNCHANGED ahead

LoopStart(h) ==
  /\ Call(<<"loop", h>>)
  /\ ahead' = lists[h]
  /\ UNCHANGED lists

Visit ==
  /\ ahead # << >>
  /\ ahead' = Tail(ahead)
  /\ UNCHANGED lists \/ Remove(Head(ahead))
  /\ UNCHANGED called

Next ==
  \/ \E e \in Entries, h \in Heads : list_add(e, h) \/ list_add_tail(e, h)
  \/ \E e \in Entries : list_del(e)
  \/ \E l, h \in Heads : list_splice_init(l, h)
  \/ \E h \in Heads : LoopStart(h)
  \/ Visit

Spec == Init /\ [][Next]_vars
=============================================================================
