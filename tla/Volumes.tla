------------------------------- MODULE Volumes -------------------------------
(***************************************************************************)
(* What names the files of a volume in the GET_INFO_FROM_MDS_DB build: the *)
(* library's parameters, the id that mds_generate_test_data gives to the   *)
(* first object, the counter that osd_get_index_to_object adds to it, the  *)
(* path made of both, and the data-placement map.                          *)
(*                                                                         *)
(* An id is its bytes.  The clock is copied little-endian behind byte 0,   *)
(* the counter is read big-endian from the end, and the two overlap in one *)
(* byte: 8 and 4 of 12 bytes in the code.  Byte has Base values.           *)
(***************************************************************************)
EXTENDS Integers

CONSTANTS
  VolumeNames,
  nb_objects,
  Base, MAXOIDLEN, TimeLen, CounterLen,
  TEST_NB_OBJECTS, TEST_DP_NODES,
  Touched,      \* bound: indexes that are read or written
  MaxTime,      \* bound: last value of the clock
  conf          \* Cache_Directory in the configuration file

None == "none"
Bytes == 0 .. MAXOIDLEN - 1
Indexes == 0 .. nb_objects - 1

(* Weight of a byte of a number: 256^k in the code. *)
Power[k \in 0 .. MAXOIDLEN] == IF k = 0 THEN 1 ELSE Base * Power[k - 1]

CounterMod == Power[CounterLen]
CounterBytes == {b \in Bytes : b >= MAXOIDLEN - CounterLen}

ASSUME VolumesAssumption ==
  /\ nb_objects \in Nat \ {0} /\ Touched \subseteq Indexes
  /\ Base \in Nat \ {0, 1} /\ TimeLen \in Nat \ {0} /\ CounterLen \in Nat \ {0}
  /\ MAXOIDLEN = TimeLen + CounterLen
  /\ TEST_NB_OBJECTS \in Nat /\ TEST_DP_NODES \in Nat \ {0}
  /\ nb_objects <= TEST_NB_OBJECTS
  \* the clock stays clear of the byte that it shares with the counter
  /\ MaxTime \in Nat /\ MaxTime < Power[TimeLen - 1]
  /\ nb_objects <= CounterMod

VARIABLES
  phase,        \* "load" until the library's constructors ran, then "run"
  dc_path,      \* global_blk_frontend_parameters.dc_path
  clock,        \* time(NULL)
  lun,          \* [start_object, opened]; opened is -1 if the volume is closed
  files,        \* paths of the object files that exist
  \* history, for the properties only
  owner,        \* <<path, volume, clock at the open, index>> of each use of a file
  refused       \* indexes for which no data-placement node was found

vars == <<phase, dc_path, clock, lun, files, owner, refused>>

Closed == [start_object |-> [b \in Bytes |-> 0], opened |-> -1]
IsOpen(v) == lun[v].opened >= 0

Init ==
  /\ phase = "load"
  /\ dc_path = None
  /\ clock = 0
  /\ lun = [v \in VolumeNames |-> Closed]
  /\ files = {}
  /\ owner = {}
  /\ refused = {}

(***************************************************************************)
(* The constructor of the block layer asks for the configuration.          *)
(* blk_parse_conf answers ERROR whatever the file says, and                *)
(* get_dc_parameters_from_conf returns before it sets the default values.  *)
(***************************************************************************)
blk_parse_conf(file) == [ret |-> "ERROR", path |-> None]

Construct ==
  /\ phase = "load"
  /\ phase' = "run"
  /\ dc_path' = IF blk_parse_conf(conf).ret = "ERROR" THEN dc_path ELSE blk_parse_conf(conf).path
  /\ UNCHANGED <<clock, lun, files, owner, refused>>

(***************************************************************************)
(* The first id of a volume, and the id of one of its objects.             *)
(***************************************************************************)
(* Seeded fault: a byte of the clock is not cut to its width. *)
StartOid_NotCut(time) ==
  [b \in Bytes |-> IF b \in 1 .. TimeLen THEN time \div Power[b - 1] ELSE 0]

StartOid(time) ==
  [b \in Bytes |-> IF b \in 1 .. TimeLen THEN (time \div Power[b - 1]) % Base ELSE 0]

(* start_index: the last CounterLen bytes of the id. *)
Counter(oid) ==
  LET value[k \in 0 .. CounterLen] ==  \* of the last k bytes
        IF k = 0 THEN 0 ELSE value[k - 1] + oid[MAXOIDLEN - k] * Power[k - 1]
  IN  value[CounterLen]

CounterByte(n, b) == (n \div Power[MAXOIDLEN - 1 - b]) % Base

(* Seeded fault: the index is added to the last byte without a carry. *)
IndexToOid_NoCarry(start, index) ==
  [start EXCEPT ![MAXOIDLEN - 1] = (@ + index) % Base]

IndexToOid(start, index) ==
  [b \in Bytes |-> IF b \in CounterBytes
                   THEN CounterByte((Counter(start) + index) % CounterMod, b) ELSE start[b]]

(* Seeded fault: the volume is not part of the path. *)
DcPath_NoVolume(volume, oid) == <<dc_path, oid[MAXOIDLEN - 1], oid[MAXOIDLEN - 2], oid>>

(* osd_object_to_dc_path: two directory levels, named by the last bytes.  *)
DcPath(volume, oid) == <<dc_path, volume, oid[MAXOIDLEN - 1], oid[MAXOIDLEN - 2], oid>>

(***************************************************************************)
(* The test data's placement: TEST_DP_NODES nodes with equal ranges, and   *)
(* the lookup, which counts both ends of a range.                          *)
(***************************************************************************)
Nodes == 0 .. TEST_DP_NODES - 1
NodeStart(loop) == (loop * TEST_NB_OBJECTS) \div TEST_DP_NODES
NodeRange == TEST_NB_OBJECTS \div TEST_DP_NODES

(* Seeded fault: the end of a range does not count. *)
DpNodeFound_EndExclusive(index) ==
  \E loop \in Nodes : NodeStart(loop) <= index /\ index < NodeStart(loop) + NodeRange

DpNodeFound(index) ==
  \E loop \in Nodes : NodeStart(loop) <= index /\ index <= NodeStart(loop) + NodeRange

(***************************************************************************)
(* Volumes are opened with the metadata of that moment and closed; their   *)
(* objects are used and, the first time, created; the target restarts.     *)
(***************************************************************************)
Open(v) ==
  /\ phase = "run"
  /\ ~IsOpen(v)
  /\ lun' = [lun EXCEPT ![v] = [start_object |-> StartOid(clock), opened |-> clock]]
  /\ UNCHANGED <<phase, dc_path, clock, files, owner, refused>>

Close(v) ==
  /\ IsOpen(v)
  /\ lun' = [lun EXCEPT ![v] = Closed]
  /\ UNCHANGED <<phase, dc_path, clock, files, owner, refused>>

PathOf(v, index) == DcPath(v, IndexToOid(lun[v].start_object, index))

(* osd_recache_object: a file that is missing is created if a node has it. *)
Use(v, index) ==
  /\ IsOpen(v)
  /\ IF PathOf(v, index) \in files \/ DpNodeFound(index)
     THEN /\ files' = files \cup {PathOf(v, index)}
          /\ owner' = owner \cup {<<PathOf(v, index), v, lun[v].opened, index>>}
          /\ refused' = refused
     ELSE /\ refused' = refused \cup {index}
          /\ UNCHANGED <<files, owner>>
  /\ UNCHANGED <<phase, dc_path, clock, lun>>

Tick ==
  /\ clock < MaxTime
  /\ clock' = clock + 1
  /\ UNCHANGED <<phase, dc_path, lun, files, owner, refused>>

Restart ==
  /\ phase = "run"
  /\ phase' = "load"
  /\ dc_path' = None
  /\ lun' = [v \in VolumeNames |-> Closed]
  /\ UNCHANGED <<clock, files, owner, refused>>

Next ==
  \/ Construct \/ Tick \/ Restart
  \/ \E v \in VolumeNames : Open(v) \/ Close(v) \/ \E i \in Touched : Use(v, i)

Spec == Init /\ [][Next]_vars

-----------------------------------------------------------------------------
(* Types; every file that exists was used by the object that made it. *)
VolumesTypeOK ==
  /\ phase \in {"load", "run"} /\ dc_path \in {None, conf}
  /\ clock \in 0 .. MaxTime
  /\ lun \in [VolumeNames -> [start_object : [Bytes -> 0 .. Base - 1], opened : -1 .. clock]]
  /\ files = {o[1] : o \in owner}

(***************************************************************************)
(* No two objects share a file: not those of two volumes, of one volume    *)
(* opened at two times, or of two indexes, although the clock and the      *)
(* counter overlap in the bytes of an id.                                  *)
(***************************************************************************)
NoSharedFile == \A o, p \in owner : o[1] = p[1] => o = p

(***************************************************************************)
(* What osd_get_index_to_object does to the bytes is an addition to the    *)
(* counter, modulo its width, that leaves the rest alone: the definition   *)
(* that Striping!Oid abstracts it to.                                      *)
(***************************************************************************)
AddsToCounter ==
  \A v \in VolumeNames : IsOpen(v) =>
    \A n \in 0 .. CounterMod :
      LET start == lun[v].start_object
          oid == IndexToOid(start, n)
      IN  /\ Counter(oid) = (Counter(start) + n) % CounterMod
          /\ \A b \in Bytes \ CounterBytes : oid[b] = start[b]

(***************************************************************************)
(* The placement map has a node for every object of a volume, also when    *)
(* the nodes do not divide the objects evenly.                             *)
(***************************************************************************)
EveryObjectPlaced == refused = {}
=============================================================================
