------------------------------ MODULE LunTable ------------------------------
(***************************************************************************)
(* The table of LUNs, p_simpleOSD_lun_list: simpleOSD_lun_open hands out   *)
(* an index of it as the descriptor of a volume, simpleOSD_lun_close takes *)
(* it back.  The target calls both from its main thread, one call at a     *)
(* time, and stops a device's worker threads before it closes the device,  *)
(* so a call is one step.                                                  *)
(*                                                                         *)
(* A slot's memory comes from malloc and nothing sets its cache of object  *)
(* descriptors: the loop that would do so is behind                        *)
(* #ifndef INTIAL_OBJECT_CACHE / goto end (osd_op.c:524-526).  Its first   *)
(* content is any of Garbage.                                              *)
(***************************************************************************)
EXTENDS Integers, FiniteSets

CONSTANTS
  NB_MAX_LUN,   \* slots of the table
  Volumes,      \* names of volumes
  NoVolume,     \* the name in a slot that was never used
  Fds,          \* descriptors of the target's own, all above the reserved
  NBMAXOBJECTS, \* entries of a slot's cache
  Sizes,        \* nb_objects a lookup may report
  Garbage,      \* what malloc may leave in file_fd of a cache entry
  MdsReplies    \* how the metadata lookup may end, see Replies

RESERVED_FDS == 3

(* "error": the lookup fails.  "zero": it succeeds and fills nothing in,   *)
(* as the provider that is not implemented does, so object_size is 0.      *)
(* "geometry": it succeeds with the volume's geometry.                     *)
Replies == {"error", "zero", "geometry"}

ASSUME LunAssumption ==
  /\ NB_MAX_LUN \in Nat \ {0}
  /\ NoVolume \notin Volumes
  /\ Fds \subseteq Int /\ \A fd \in Fds : fd > RESERVED_FDS
  /\ NBMAXOBJECTS \in Nat \ {0}
  /\ Sizes \subseteq Nat
  /\ Garbage \subseteq Int
  /\ MdsReplies \subseteq Replies

Slots == 0 .. NB_MAX_LUN - 1
Entries == 1 .. NBMAXOBJECTS

VARIABLES
  lun_list,     \* NULL, or a pointer whose low bit says FREE or USED
  lun_vol,      \* volume name in the slot's memory
  is_fs_done,   \* formatted flag in the slot's memory
  nb_objects,   \* number of objects in the slot's memory
  file_fd,      \* p_object_attr_cache[].file_fd in the slot's memory
  lus,          \* the target's open devices: [fd, path] records
  fds,          \* which of Fds are open
  \* history, for the properties only
  wrote,        \* devices a write was asked of since they were opened
  hits          \* how often close(2) was called for each cache entry

vars == <<lun_list, lun_vol, is_fs_done, nb_objects, file_fd, lus, fds, wrote, hits>>
cache == <<file_fd, fds, hits>>

Init ==
  /\ lun_list = [s \in Slots |-> "NULL"]
  /\ lun_vol = [s \in Slots |-> NoVolume]
  /\ is_fs_done = [s \in Slots |-> FALSE]
  /\ nb_objects = [s \in Slots |-> 0]
  /\ file_fd = [s \in Slots |-> [i \in Entries |-> 0]]
  /\ lus = {}
  /\ fds = Fds
  /\ wrote = {}
  /\ hits = [s \in Slots |-> [i \in Entries |-> 0]]

(***************************************************************************)
(* simpleOSD_lun_open.                                                     *)
(***************************************************************************)

(* Seeded fault: IS_FREE is tested the wrong way round. *)
IsNextFree_Inverted(s) ==
  /\ lun_list[s] # "FREE"
  /\ \A r \in Slots : r < s => lun_list[r] = "FREE"

(* The search stops at the first slot that is NULL or free. *)
IsNextFree(s) ==
  /\ lun_list[s] # "USED"
  /\ \A r \in Slots : r < s => lun_list[r] = "USED"

TableFull == \A s \in Slots : lun_list[s] = "USED"

(* Seeded fault: the volume's name is not copied into the slot. *)
TakeSlot_NoName(s, path) ==
  /\ IsNextFree(s)
  /\ lun_list' = [lun_list EXCEPT ![s] = "USED"]
  /\ IF lun_list[s] = "NULL"
     THEN \E g \in [Entries -> Garbage] : file_fd' = [file_fd EXCEPT ![s] = g]
     ELSE file_fd' = file_fd
  /\ UNCHANGED lun_vol

(* GET_MEMORY for a NULL slot, USE_LUN, and the volume's name: all before  *)
(* the metadata is asked for.                                              *)
TakeSlot(s, path) ==
  /\ IsNextFree(s)
  /\ lun_list' = [lun_list EXCEPT ![s] = "USED"]
  /\ lun_vol' = [lun_vol EXCEPT ![s] = path]
  /\ IF lun_list[s] = "NULL"
     THEN \E g \in [Entries -> Garbage] : file_fd' = [file_fd EXCEPT ![s] = g]
     ELSE file_fd' = file_fd

(* is_fs_flag of a lookup: no provider ever sets it, and there is no call  *)
(* that would tell the metadata server about a written volume.             *)
IsFsFlag == FALSE

OpenTableFull(path) ==
  /\ TableFull
  /\ UNCHANGED vars

(* mds_get_blk_device_info fails: error, the slot stays taken. *)
OpenMdsError(path) ==
  /\ "error" \in MdsReplies
  /\ \E s \in Slots : TakeSlot(s, path)
  /\ UNCHANGED <<is_fs_done, nb_objects, lus, fds, wrote, hits>>

(* What the lookup reported, with n objects, goes into the slot. *)
SetInfo(s, n) ==
  /\ is_fs_done' = [is_fs_done EXCEPT ![s] = IsFsFlag]
  /\ nb_objects' = [nb_objects EXCEPT ![s] = n]

(* osd_init_collection refuses object_size 0: error, the slot stays taken. *)
OpenNoGeometry(path) ==
  /\ "zero" \in MdsReplies
  /\ \E s \in Slots : TakeSlot(s, path) /\ SetInfo(s, 0)
  /\ UNCHANGED <<lus, fds, wrote, hits>>

(* Seeded fault: the slot's flag is not set from the lookup. *)
OpenSucceeds_KeepsFlag(path) ==
  /\ "geometry" \in MdsReplies
  /\ \E s \in Slots, n \in Sizes :
       /\ TakeSlot(s, path)
       /\ nb_objects' = [nb_objects EXCEPT ![s] = n]
       /\ lus' = lus \cup {[fd |-> s, path |-> path]}
  /\ UNCHANGED <<is_fs_done, fds, wrote, hits>>

OpenSucceeds(path) ==
  /\ "geometry" \in MdsReplies
  /\ \E s \in Slots, n \in Sizes :
       /\ TakeSlot(s, path)
       /\ SetInfo(s, n)
       /\ lus' = lus \cup {[fd |-> s, path |-> path]}
  /\ UNCHANGED <<fds, wrote, hits>>

(***************************************************************************)
(* simpleOSD_lun_close: osd_free_collection closes what the cache entries  *)
(* name, in order, and stops at the first close(2) that fails; only then   *)
(* is the slot freed.  It looks at as many entries as this LUN has objects *)
(* (or the cache entries).  The target drops the device either way.        *)
(***************************************************************************)
Named(s) == {i \in Entries : i <= nb_objects[s] /\ file_fd[s][i] > RESERVED_FDS}

(* The descriptor is open when the loop comes to entry i. *)
FindsOpen(s, i) ==
  /\ file_fd[s][i] \in fds
  /\ \A j \in Named(s) : j < i => file_fd[s][j] # file_fd[s][i]

(* close was called for some entries, and succeeded for those in closed.   *)
(* When it fails it has released an open descriptor all the same.          *)
FreeEntries(s, called, closed) ==
  /\ fds' = fds \ {file_fd[s][i] : i \in called}
  /\ hits' = [hits EXCEPT ![s] = [i \in Entries |-> IF i \in called THEN @[i] + 1 ELSE @[i]]]
  /\ file_fd' = [file_fd EXCEPT ![s] = [i \in Entries |-> IF i \in closed THEN 0 ELSE @[i]]]

(* The target's descriptor is gone. *)
DropDevice(lu) ==
  /\ lus' = lus \ {lu}
  /\ wrote' = wrote \ {lu}
  /\ UNCHANGED <<lun_vol, is_fs_done, nb_objects>>

CloseFrees(lu) ==
  /\ \A i \in Named(lu.fd) : FindsOpen(lu.fd, i)
  /\ FreeEntries(lu.fd, Named(lu.fd), Named(lu.fd))
  /\ lun_list' = [lun_list EXCEPT ![lu.fd] = "FREE"]
  /\ DropDevice(lu)

(* Seeded fault: the slot is freed also when the collection is not. *)
CloseFails_Frees(lu) ==
  /\ \E failed \in Named(lu.fd) :
       /\ \A i \in Named(lu.fd) : i < failed => FindsOpen(lu.fd, i)
       /\ FreeEntries(lu.fd, {i \in Named(lu.fd) : i <= failed},
                             {i \in Named(lu.fd) : i < failed})
  /\ lun_list' = [lun_list EXCEPT ![lu.fd] = "FREE"]
  /\ DropDevice(lu)

(* The close of an entry fails, for a descriptor that is not open or for   *)
(* another reason.                                                         *)
CloseFails(lu) ==
  /\ \E failed \in Named(lu.fd) :
       /\ \A i \in Named(lu.fd) : i < failed => FindsOpen(lu.fd, i)
       /\ FreeEntries(lu.fd, {i \in Named(lu.fd) : i <= failed},
                             {i \in Named(lu.fd) : i < failed})
  /\ DropDevice(lu)
  /\ UNCHANGED lun_list

(***************************************************************************)
(* A write through the descriptor: simpleOSD_blk_write finds the slot by   *)
(* index and sets the flag in it, before osd_op_write transfers anything   *)
(* or fails.  What becomes of the objects is in ObjectStore.               *)
(***************************************************************************)
Write(lu) ==
  /\ lun_list[lu.fd] # "NULL"
  /\ is_fs_done' = [is_fs_done EXCEPT ![lu.fd] = TRUE]
  /\ wrote' = wrote \cup {lu}
  /\ UNCHANGED <<lun_list, lun_vol, nb_objects, cache, lus>>

(* The target opens and closes descriptors of its own (connections). *)
TargetOpens(fd) ==
  /\ fd \notin fds
  /\ fds' = fds \cup {fd}
  /\ UNCHANGED <<lun_list, lun_vol, is_fs_done, nb_objects, file_fd, lus, wrote, hits>>

TargetCloses(fd) ==
  /\ fd \in fds
  /\ fds' = fds \ {fd}
  /\ UNCHANGED <<lun_list, lun_vol, is_fs_done, nb_objects, file_fd, lus, wrote, hits>>

Next ==
  \/ \E path \in Volumes :
       \/ OpenTableFull(path)
       \/ OpenMdsError(path)
       \/ OpenNoGeometry(path)
       \/ OpenSucceeds(path)
  \/ \E lu \in lus : CloseFrees(lu) \/ CloseFails(lu) \/ Write(lu)
  \/ \E fd \in Fds : TargetOpens(fd) \/ TargetCloses(fd)

Spec == Init /\ [][Next]_vars

-----------------------------------------------------------------------------
(* The type of the state; the memory of a slot in the table has a name. *)
TypeOK ==
  /\ lun_list \in [Slots -> {"NULL", "FREE", "USED"}]
  /\ lun_vol \in [Slots -> Volumes \cup {NoVolume}]
  /\ \A s \in Slots : lun_list[s] # "NULL" => lun_vol[s] \in Volumes
  /\ is_fs_done \in [Slots -> BOOLEAN]
  /\ nb_objects \in [Slots -> Nat]
  /\ file_fd \in [Slots -> [Entries -> Int]]
  /\ lus \subseteq [fd : Slots, path : Volumes]
  /\ fds \subseteq Fds
  /\ wrote \subseteq lus
  /\ hits \in [Slots -> [Entries -> Nat]]

(* Open devices do not share a slot, whatever failed before: each one's    *)
(* slot is in use and still names the volume the device was opened with,   *)
(* so its reads and writes reach that volume and no other.                 *)
HandlesOwnSlots ==
  /\ \A lu \in lus : lun_list[lu.fd] = "USED" /\ lun_vol[lu.fd] = lu.path
  /\ \A lu, mu \in lus : lu.fd = mu.fd => lu = mu

(* A device counts as formatted exactly when a write was asked of it since *)
(* it was opened, whether or not the write succeeded: it does not take     *)
(* over the flag of a volume that used the slot before, nor of its own     *)
(* volume's earlier opening.                                               *)
FormattedByOwnWrite == \A lu \in lus : is_fs_done[lu.fd] <=> lu \in wrote

(* What malloc left in the cache of a slot can make a close hit one of the *)
(* target's descriptors, but only once for each entry of each slot,        *)
(* however often the slot is used again and by volumes of whatever sizes:  *)
(* an entry that was closed is reset, or its slot is never closed again.   *)
GarbageClosedOnce == \A s \in Slots, i \in Entries : hits[s][i] <= 1
=============================================================================
