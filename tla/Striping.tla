------------------------------ MODULE Striping ------------------------------
(***************************************************************************)
(* The address arithmetic of an OSD collection: how a byte offset of a LUN *)
(* is turned into an object and an offset in it, which requests are        *)
(* accepted, how a request is cut at object boundaries, which object id an *)
(* object index has and which data-placement node holds it.                *)
(*                                                                         *)
(* Only fixed size objects exist in the code: the branches for objects of  *)
(* different sizes are empty (osd_op.c:221-223, 345-348, 464-466).         *)
(***************************************************************************)
EXTENDS Integers, Sequences

CONSTANTS
  nb_objects,    \* objects of the collection
  object_size,   \* bytes of every object
  start_object,  \* value of the counter in the collection's first object id
  CounterMod,    \* 2^32: the counter is the last four bytes of an object id
  dp_data        \* data-placement map: sequence of [start_oid, range]

ASSUME StripingAssumption ==
  /\ nb_objects \in Nat \ {0}
  /\ object_size \in Nat \ {0}
  /\ CounterMod \in Nat \ {0}
  /\ nb_objects <= CounterMod
  /\ start_object \in 0 .. CounterMod - 1
  /\ dp_data \in Seq([start_oid : Nat, range : Nat])

(* lun_capacity, as mds_get_blk_device_info computes it. *)
Capacity == nb_objects * object_size

Addresses == 0 .. Capacity - 1
Indexes == 0 .. nb_objects - 1
LocalOffsets == 0 .. object_size - 1
Oids == 0 .. CounterMod - 1

(***************************************************************************)
(* osd_offset_to_object: range check, object index, offset in the object.  *)
(***************************************************************************)
OffsetInRange(offset) == offset < Capacity
ObjectIndex(offset) == offset \div object_size
LocalOffset(offset) == offset - object_size * ObjectIndex(offset)

(***************************************************************************)
(* The checks osd_op_read and osd_op_write make before they transfer: the  *)
(* first offset, and, when the request leaves its first object, the offset *)
(* one past its last byte.                                                 *)
(***************************************************************************)
SpanAccepted(offset, len) ==
  /\ OffsetInRange(offset)
  /\ LocalOffset(offset) + len > object_size => OffsetInRange(offset + len)

(* Seeded fault: the offset in the first object is forgotten. *)
ChunkLen_IgnoresOffset(len, done, osd_offset) ==
  IF len - done >= object_size THEN object_size ELSE len - done

(* local_buf_len: the part of the rest of the request that this object has. *)
ChunkLen(len, done, osd_offset) ==
  IF len - done >= object_size - osd_offset
  THEN object_size - osd_offset
  ELSE len - done

(* Seeded fault: the counter is wider than four bytes and does not wrap. *)
Oid_NoWrap(index) == start_object + index

(***************************************************************************)
(* osd_get_index_to_object: the index is added to the 32 bit counter at    *)
(* the end of the first object's id, so it wraps.  The path of an object   *)
(* file (osd_object_to_dc_path) spells out the whole id: one path per id.  *)
(***************************************************************************)
Oid(index) == (start_object + index) % CounterMod

(* get_dpnode_ip_from_index finds a node whose range has the index; both   *)
(* ends of a range count.                                                  *)
DpNodeFound(index) ==
  \E k \in DOMAIN dp_data :
    /\ index >= dp_data[k].start_oid
    /\ index <= dp_data[k].start_oid + dp_data[k].range
=============================================================================
