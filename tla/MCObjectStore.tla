---------------------------- MODULE MCObjectStore ----------------------------
(***************************************************************************)
(* Instances of ObjectStore for TLC.                                       *)
(***************************************************************************)
EXTENDS ObjectStore, TLC

(* Every byte a thread writes tells who wrote it and to which address.     *)
TaggedBuffers(t, r) == {[i \in 0 .. r.buf_len - 1 |-> <<t, r.offset + i>>]}

(* One byte per address: with one thread the writer is known. *)
AddressBuffers(t, r) == {[i \in 0 .. r.buf_len - 1 |-> r.offset + i + 1]}

(* Two objects of two bytes: requests across the boundary and inside each. *)
BoundaryRequests ==
  {[op |-> "read",  offset |-> 1, buf_len |-> 2],
   [op |-> "write", offset |-> 1, buf_len |-> 2]}

(* ... and in the second object only, one of them an empty request. *)
MixedRequests ==
  BoundaryRequests \cup
  {[op |-> "write", offset |-> 3, buf_len |-> 1],
   [op |-> "read",  offset |-> 2, buf_len |-> 0]}

(* Every span that starts in the LUN or just behind it. *)
AllRequests ==
  [op : {"read", "write"}, offset : 0 .. Capacity, buf_len : 0 .. Capacity]

(* The placement maps: all objects on two nodes whose ranges share their   *)
(* ends, as in the test data of the MDS helper, and one that leaves the    *)
(* last object out.                                                        *)
TwoNodes == <<[start_oid |-> 0, range |-> 1], [start_oid |-> 1, range |-> 1]>>
FirstNodeOnly == <<[start_oid |-> 0, range |-> 1]>>

ThreadSymmetry == Permutations(Threads)
==============================================================================
