------------------------------ MODULE MCFdCache ------------------------------
(***************************************************************************)
(* Instances of FdCache for TLC.                                           *)
(***************************************************************************)
EXTENDS FdCache

(* Zeroed memory, and a left-over entry whose index is that of an object. *)
Memory == {[object_index |-> 0, oid |-> NoOid, file_fd |-> 0],
           [object_index |-> 1, oid |-> NoOid, file_fd |-> -1]}
ZeroedMemory == {[object_index |-> 0, oid |-> NoOid, file_fd |-> 0]}

Span(op, first, last) == [op |-> op, first |-> first, last |-> last]

(* Objects 0 and 2 share an entry, 1 and 3 another; 3 has no node. *)
SpanRequests == {Span("write", 0, 1), Span("read", 2, 3)}

(* Two objects, one entry. *)
TwoObjectRequests == {Span("write", 0, 0), Span("write", 1, 1), Span("read", 0, 1)}
=============================================================================
