------------------------------ MODULE MCTwoLuns ------------------------------
(***************************************************************************)
(* Instances of TwoLuns for TLC.                                           *)
(***************************************************************************)
EXTENDS TwoLuns, Sequences

(* A byte tells who wrote it. *)
ThreadBuffers(t, r) == {[i \in 0 .. r.buf_len - 1 |-> t]}

(* All of a LUN of one byte. *)
LunRequests == [op : {"read", "write"}, offset : {0}, buf_len : {1}]

OneNode == <<[start_oid |-> 0, range |-> 3]>>
=============================================================================
