------------------------------- MODULE FdCache -------------------------------
(***************************************************************************)
(* Reads and writes of a LUN in the build with RECACHE_FD_ENABLED: the     *)
(* threads of a LUN share p_object_attr_cache, where object i has the      *)
(* entry i % NBMAXOBJECTS with the object's id, index and open descriptor. *)
(* ObjectStore is the build without it.                                    *)
(*                                                                         *)
(* A step is one system call with the memory accesses that follow it; the  *)
(* accesses to shared entries have no lock.  The fetch, which has one, is  *)
(* one step (its inside is in ObjectStore), a chunk is one transfer, and   *)
(* an object id is the pair of the volume's first id and the index.        *)
(***************************************************************************)
EXTENDS Integers

CONSTANTS
  Threads,
  nb_objects,
  NBMAXOBJECTS,    \* entries of the cache
  Placed,          \* indexes that have a data-placement node
  Requests,        \* [op, first, last]: the objects a request goes through
  Garbage,         \* what malloc may leave in an entry
  FirstFd, LastFd, \* descriptors free for the library: FirstFd .. LastFd
  Starts,          \* first ids the provider may report for the volume
  MaxOpens,        \* bound: how often the LUN is opened
  MaxMade,         \* bound: how often the file of an object is created
  Faults           \* what may fail, see FaultKinds

RESERVED_FDS == 3
FaultKinds == {"stat", "creat", "fallocate", "open", "io", "close"}

NoOid == <<0, 0>>                  \* the id of an entry after memset
Indexes == 0 .. nb_objects - 1
Slots == 0 .. NBMAXOBJECTS - 1
Fds == FirstFd .. LastFd
Oids == Starts \X Indexes
NoRequest == [op |-> "none", first |-> 0, last |-> 0]

ASSUME CacheAssumption ==
  /\ nb_objects \in Nat \ {0} /\ NBMAXOBJECTS \in Nat \ {0}
  /\ Placed \subseteq Indexes
  /\ \A r \in Requests : /\ r.op \in {"read", "write"}
                         /\ r.first \in Indexes /\ r.last \in Indexes /\ r.first <= r.last
  /\ Garbage \subseteq [object_index : Int, oid : {NoOid}, file_fd : Int]
  /\ FirstFd \in Nat /\ LastFd \in Nat /\ FirstFd > RESERVED_FDS
  /\ Starts \subseteq Nat \ {0}
  /\ MaxOpens \in Nat \ {0} /\ MaxMade \in Nat \ {0}
  /\ Faults \subseteq FaultKinds

VARIABLES
  cache,           \* p_object_attr_cache: [object_index, oid, file_fd] records
  start,           \* first id of the open volume
  lun_state,       \* "open", "closed", or "lost" by a close that failed half way
  opens,
  present, made,   \* files that exist; how many files each id has had so far
  fdtab,           \* open file of each descriptor: set of at most one entry
  pc, req, ret,
  traverse_index,
  path,            \* object_path of the cached entry's id
  \* history, for the properties only
  hit,             \* objects of the request whose chunk went to a file of theirs
  evicted,         \* the object's file was deleted since the thread looked at it
  spoiled          \* a failed fetch or close has left an entry that looks
                   \* valid with a number that is not its object's

vars == <<cache, start, lun_state, opens, present, made, fdtab, pc, req, ret,
          traverse_index, path, hit, evicted, spoiled>>
lun == <<start, lun_state, opens, spoiled>>
files == <<present, made>>
call == <<req, traverse_index, hit>>

Init ==
  /\ cache \in [Slots -> Garbage]
  /\ start \in Starts
  /\ lun_state = "open"
  /\ opens = 1
  /\ present = {}
  /\ made = [o \in Oids |-> 0]
  /\ fdtab = [fd \in Fds |-> {}]
  /\ pc = [t \in Threads |-> "idle"]
  /\ req = [t \in Threads |-> NoRequest]
  /\ ret = [t \in Threads |-> "none"]
  /\ traverse_index = [t \in Threads |-> 0]
  /\ path = [t \in Threads |-> NoOid]
  /\ hit = [t \in Threads |-> {}]
  /\ evicted = [t \in Threads |-> FALSE]
  /\ spoiled = FALSE

(***************************************************************************)
(* The entry of a thread's current object, and the object's id.            *)
(***************************************************************************)
Slot(t) == traverse_index[t] % NBMAXOBJECTS
Entry(t) == cache[Slot(t)]
CurrentOid(t) == <<start, traverse_index[t]>>

SetEntry(t, e) == cache' = [cache EXCEPT ![Slot(t)] = e]
Goto(t, label) == pc' = [pc EXCEPT ![t] = label]

Return(t, result) ==
  /\ Goto(t, "idle")
  /\ ret' = [ret EXCEPT ![t] = result]
  /\ path' = [path EXCEPT ![t] = NoOid]
  /\ evicted' = [evicted EXCEPT ![t] = FALSE]
  /\ traverse_index' = [traverse_index EXCEPT ![t] = 0]
  /\ UNCHANGED <<req, hit>>

(***************************************************************************)
(* The kernel: lowest free descriptor; an entry of the table names the     *)
(* object, which of its files, and what it was opened for.                 *)
(***************************************************************************)
LowestFree(fd) ==
  /\ fd \in Fds
  /\ fdtab[fd] = {}
  /\ \A g \in Fds : g < fd => fdtab[g] # {}

NoFreeFd == \A fd \in Fds : fdtab[fd] # {}
OpenFile(fd) == IF fd \in Fds THEN fdtab[fd] ELSE {}
FileOf(t, use) == [oid |-> CurrentOid(t), made |-> made'[CurrentOid(t)], use |-> use]

(* close(fd) for a descriptor above the reserved ones.  A failing close    *)
(* has released the descriptor all the same.                               *)
CloseFd(fd, ok) ==
  /\ IF ok THEN OpenFile(fd) # {} ELSE OpenFile(fd) = {} \/ "close" \in Faults
  /\ fdtab' = [g \in Fds |-> IF g = fd THEN {} ELSE fdtab[g]]

(***************************************************************************)
(* osd_op_read / osd_op_write: a request, and the check of the entry for   *)
(* each of its objects.                                                    *)
(***************************************************************************)
Submit(t, r) ==
  /\ pc[t] = "idle"
  /\ lun_state = "open"
  /\ req' = [req EXCEPT ![t] = r]
  /\ ret' = [ret EXCEPT ![t] = "none"]
  /\ traverse_index' = [traverse_index EXCEPT ![t] = r.first]
  /\ hit' = [hit EXCEPT ![t] = {}]
  /\ Goto(t, "check")
  /\ UNCHANGED <<cache, lun, files, fdtab, path, evicted>>

(* The path comes from the id in the entry, before its index is compared.  *)
Check(t) ==
  /\ pc[t] = "check"
  /\ path' = [path EXCEPT ![t] = Entry(t).oid]
  /\ evicted' = [evicted EXCEPT ![t] = FALSE]
  /\ Goto(t, IF Entry(t).object_index = traverse_index[t] THEN "cached_stat" ELSE "recache")
  /\ UNCHANGED <<cache, lun, files, fdtab, call, ret>>

(* Seeded fault: an entry with the right index is used without a stat. *)
CachedStat_Skipped(t) ==
  /\ pc[t] = "cached_stat"
  /\ Goto(t, IF path[t] = NoOid THEN "recache" ELSE "io")
  /\ UNCHANGED <<cache, lun, files, fdtab, call, ret, path, evicted>>

(* "Do recache if new object or old object is deleted via eviction etc" *)
CachedStat(t) ==
  /\ pc[t] = "cached_stat"
  /\ \/ path[t] \in present /\ Goto(t, "io")
     \/ (path[t] \notin present \/ "stat" \in Faults) /\ Goto(t, "recache")
  /\ UNCHANGED <<cache, lun, files, fdtab, call, ret, path, evicted>>

(***************************************************************************)
(* osd_recache_object on the shared entry.                                 *)
(***************************************************************************)
Fresh(t) == [object_index |-> traverse_index[t], oid |-> CurrentOid(t), file_fd |-> 0]

(* Seeded fault: the entry's descriptor is not closed. *)
Recache_Leaks(t) ==
  /\ pc[t] = "recache"
  /\ SetEntry(t, Fresh(t))
  /\ evicted' = [evicted EXCEPT ![t] = FALSE]
  /\ Goto(t, "stat")
  /\ UNCHANGED <<lun, files, fdtab, call, ret, path>>

(* Close what the entry has open, memset it, give it the object's id, size *)
(* and index.                                                              *)
Recache(t) ==
  /\ pc[t] = "recache"
  /\ IF Entry(t).file_fd > RESERVED_FDS THEN CloseFd(Entry(t).file_fd, TRUE)
                                        ELSE fdtab' = fdtab
  /\ SetEntry(t, Fresh(t))
  /\ evicted' = [evicted EXCEPT ![t] = FALSE]
  /\ Goto(t, "stat")
  /\ UNCHANGED <<lun, files, call, ret, path>>

(* close fails: the entry stays as it is, with the descriptor's number. *)
RecacheCloseFails(t) ==
  /\ pc[t] = "recache"
  /\ Entry(t).file_fd > RESERVED_FDS
  /\ CloseFd(Entry(t).file_fd, FALSE)
  /\ Return(t, "OSD_ERROR")
  /\ spoiled' = TRUE
  /\ UNCHANGED <<cache, start, lun_state, opens, files>>

StatFound(t) ==
  /\ pc[t] = "stat"
  /\ CurrentOid(t) \in present
  /\ Goto(t, "open")
  /\ UNCHANGED <<cache, lun, files, fdtab, call, ret, path, evicted>>

StatMissing(t) ==
  /\ pc[t] = "stat"
  /\ CurrentOid(t) \notin present \/ "stat" \in Faults
  /\ IF traverse_index[t] \in Placed
     THEN Goto(t, "fetch") /\ UNCHANGED <<call, ret, path, evicted>>
     ELSE Return(t, "OSD_ERROR")
  /\ UNCHANGED <<cache, lun, files, fdtab>>

(* simpleOSD_get_object_to_dc; the file may exist by now. *)
FetchExists(t) ==
  /\ pc[t] = "fetch"
  /\ CurrentOid(t) \in present
  /\ Goto(t, "open")
  /\ UNCHANGED <<cache, lun, files, fdtab, call, ret, path, evicted>>

(* Its own stat does not find the file, or fails on one that exists. *)
FetchMisses(t) ==
  /\ pc[t] = "fetch"
  /\ CurrentOid(t) \notin present \/ "stat" \in Faults

(* Then it opens the file, which creates a missing one, and never closes   *)
(* the descriptor it did so with.  The entry has its index and descriptor  *)
(* 0 when fallocate fails, and the file is there.                          *)
FetchCreates(t) ==
  /\ FetchMisses(t)
  /\ present' = present \cup {CurrentOid(t)}
  /\ IF CurrentOid(t) \in present
     THEN made' = made
     ELSE /\ made[CurrentOid(t)] < MaxMade
          /\ made' = [made EXCEPT ![CurrentOid(t)] = @ + 1]
  /\ \E fd \in Fds : LowestFree(fd) /\ fdtab' = [fdtab EXCEPT ![fd] = {FileOf(t, "creat")}]
  /\ \/ Goto(t, "open") /\ UNCHANGED <<call, ret, path, evicted, spoiled>>
     \/ "fallocate" \in Faults /\ Return(t, "OSD_ERROR") /\ spoiled' = TRUE
  /\ UNCHANGED <<cache, start, lun_state, opens>>

(* The open fails, and so does fallocate on its -1; the entry is as above, *)
(* but there is a file only if the stat failed on it.                      *)
FetchFails(t) ==
  /\ FetchMisses(t)
  /\ NoFreeFd \/ "creat" \in Faults
  /\ Return(t, "OSD_ERROR")
  /\ spoiled' = (spoiled \/ CurrentOid(t) \in present)
  /\ UNCHANGED <<cache, start, lun_state, opens, files, fdtab>>

OpenObject(t) ==
  /\ pc[t] = "open"
  /\ CurrentOid(t) \in present
  /\ made' = made
  /\ \E fd \in Fds :
       /\ LowestFree(fd)
       /\ fdtab' = [fdtab EXCEPT ![fd] = {FileOf(t, "io")}]
       /\ SetEntry(t, [Entry(t) EXCEPT !.file_fd = fd])
  /\ Goto(t, "io")
  /\ UNCHANGED <<lun, present, call, ret, path, evicted>>

(* The entry has its index and descriptor -1. *)
OpenFails(t) ==
  /\ pc[t] = "open"
  /\ CurrentOid(t) \notin present \/ NoFreeFd \/ "open" \in Faults
  /\ SetEntry(t, [Entry(t) EXCEPT !.file_fd = -1])
  /\ Return(t, "OSD_ERROR")
  /\ UNCHANGED <<lun, files, fdtab>>

(***************************************************************************)
(* The transfer of a chunk uses the descriptor in the entry at that time.  *)
(* Descriptors 0 to 2 are the target's null device: a write succeeds, a    *)
(* read returns 0 and is tried again.                                      *)
(***************************************************************************)
IsNull(fd) == fd \in 0 .. 2

(* Seeded fault: the loop goes one object too far. *)
NextChunk_PastEnd(t) ==
  IF traverse_index[t] = req[t].last + 1
  THEN /\ Goto(t, "idle")
       /\ ret' = [ret EXCEPT ![t] = "OSD_SUCCESS"]
       /\ traverse_index' = [traverse_index EXCEPT ![t] = 0]
       /\ path' = [path EXCEPT ![t] = NoOid]
       /\ evicted' = [evicted EXCEPT ![t] = FALSE]
  ELSE /\ Goto(t, "check")
       /\ traverse_index' = [traverse_index EXCEPT ![t] = @ + 1]
       /\ UNCHANGED <<ret, path, evicted>>

NextChunk(t) ==
  IF traverse_index[t] = req[t].last
  THEN /\ Goto(t, "idle")
       /\ ret' = [ret EXCEPT ![t] = "OSD_SUCCESS"]
       /\ traverse_index' = [traverse_index EXCEPT ![t] = 0]
       /\ path' = [path EXCEPT ![t] = NoOid]
       /\ evicted' = [evicted EXCEPT ![t] = FALSE]
  ELSE /\ Goto(t, "check")
       /\ traverse_index' = [traverse_index EXCEPT ![t] = @ + 1]
       /\ UNCHANGED <<ret, path, evicted>>

Transfer(t) ==
  /\ pc[t] = "io"
  /\ \E e \in OpenFile(Entry(t).file_fd) :
       /\ req[t].op = "write" \/ e.use = "io"
       /\ hit' = [hit EXCEPT ![t] =
                    IF e.oid = CurrentOid(t) THEN @ \cup {traverse_index[t]} ELSE @]
  /\ NextChunk(t)
  /\ UNCHANGED <<cache, lun, files, fdtab, req>>

TransferNull(t) ==
  /\ pc[t] = "io"
  /\ IsNull(Entry(t).file_fd)
  /\ IF req[t].op = "write" THEN NextChunk(t) /\ UNCHANGED <<cache, lun, files, fdtab, req, hit>>
                            ELSE UNCHANGED vars

(* Seeded fault: the result of the object's operation is not checked. *)
TransferFails_Ignored(t) ==
  /\ pc[t] = "io"
  /\ "io" \in Faults
  /\ NextChunk(t)
  /\ UNCHANGED <<cache, lun, files, fdtab, req, hit>>

TransferFails(t) ==
  /\ pc[t] = "io"
  /\ \/ "io" \in Faults
     \/ /\ ~IsNull(Entry(t).file_fd)
        /\ \A e \in OpenFile(Entry(t).file_fd) : req[t].op = "read" /\ e.use = "creat"
  /\ Goto(t, "obj_reset")
  /\ UNCHANGED <<cache, lun, files, fdtab, call, ret, path, evicted>>

(***************************************************************************)
(* osd_reset_cache_object on the shared entry, called by the object's      *)
(* operation and again by osd_op_read / osd_op_write.                      *)
(***************************************************************************)

ResetEntry(t) ==
  \E ok \in BOOLEAN :
    /\ IF Entry(t).file_fd > RESERVED_FDS THEN CloseFd(Entry(t).file_fd, ok)
                                          ELSE ok /\ fdtab' = fdtab
    /\ SetEntry(t, IF ok THEN [object_index |-> -1, oid |-> NoOid, file_fd |-> 0]
                         ELSE [Entry(t) EXCEPT !.file_fd = -1])

ObjReset(t) ==
  /\ pc[t] = "obj_reset"
  /\ ResetEntry(t)
  /\ Goto(t, "op_reset")
  /\ UNCHANGED <<lun, files, call, ret, path, evicted>>

OpReset(t) ==
  /\ pc[t] = "op_reset"
  /\ ResetEntry(t)
  /\ Return(t, "OSD_ERROR")
  /\ UNCHANGED <<lun, files>>

(***************************************************************************)
(* The LUN is closed when its threads are gone: osd_free_collection closes *)
(* the descriptors of the entries in order and sets them to 0, nothing     *)
(* else; a close that fails ends it there, and the LUN's memory is not     *)
(* used again.  Otherwise an open finds the same memory.                   *)
(***************************************************************************)
CollectionSlots == {s \in Slots : s < nb_objects}
OpenSlots == {s \in CollectionSlots : cache[s].file_fd > RESERVED_FDS}

FreeSlots(called, closed) ==
  /\ fdtab' = [fd \in Fds |-> IF \E s \in called : cache[s].file_fd = fd THEN {} ELSE fdtab[fd]]
  /\ cache' = [s \in Slots |-> IF s \in closed THEN [cache[s] EXCEPT !.file_fd = 0] ELSE cache[s]]

(* The close of slot s finds its descriptor open. *)
CloseSucceeds(s) ==
  /\ OpenFile(cache[s].file_fd) # {}
  /\ \A r \in OpenSlots : r < s => cache[r].file_fd # cache[s].file_fd

CloseLun ==
  /\ lun_state = "open"
  /\ \A t \in Threads : pc[t] = "idle"
  /\ \A s \in OpenSlots : CloseSucceeds(s)
  /\ FreeSlots(OpenSlots, OpenSlots)
  /\ lun_state' = "closed"
  /\ ret' = [t \in Threads |-> "none"]
  /\ UNCHANGED <<start, opens, files, pc, call, path, evicted, spoiled>>

(* The close of slot failed has released the descriptor all the same; the  *)
(* entry keeps its number.                                                 *)
CloseLunFails ==
  /\ lun_state = "open"
  /\ \A t \in Threads : pc[t] = "idle"
  /\ \E failed \in OpenSlots :
       /\ ~CloseSucceeds(failed) \/ "close" \in Faults
       /\ \A s \in OpenSlots : s < failed => CloseSucceeds(s)
       /\ FreeSlots({s \in OpenSlots : s <= failed}, {s \in OpenSlots : s < failed})
  /\ lun_state' = "lost"
  /\ ret' = [t \in Threads |-> "none"]
  /\ UNCHANGED <<start, opens, files, pc, call, path, evicted, spoiled>>

OpenLun ==
  /\ lun_state = "closed"
  /\ opens < MaxOpens
  /\ opens' = opens + 1
  /\ start' \in Starts
  /\ lun_state' = "open"
  /\ UNCHANGED <<cache, files, fdtab, pc, call, ret, path, evicted, spoiled>>

(* Somebody else deletes an object's file ("via eviction etc"). *)
Evict(o) ==
  /\ o \in present
  /\ present' = present \ {o}
  /\ evicted' = [t \in Threads |-> evicted[t] \/ (pc[t] # "idle" /\ CurrentOid(t) = o)]
  /\ UNCHANGED <<cache, lun, made, fdtab, pc, call, ret, path>>

Step(t) ==
  \/ Check(t) \/ CachedStat(t) \/ Recache(t) \/ RecacheCloseFails(t)
  \/ StatFound(t) \/ StatMissing(t)
  \/ FetchExists(t) \/ FetchCreates(t) \/ FetchFails(t)
  \/ OpenObject(t) \/ OpenFails(t)
  \/ Transfer(t) \/ TransferNull(t) \/ TransferFails(t)
  \/ ObjReset(t) \/ OpReset(t)

Next ==
  \/ \E t \in Threads : Step(t) \/ \E r \in Requests : Submit(t, r)
  \/ CloseLun \/ CloseLunFails \/ OpenLun
  \/ \E o \in Oids : Evict(o)

Spec == Init /\ [][Next]_vars

-----------------------------------------------------------------------------
(***************************************************************************)
(* Types, for the variables of the cached build: an entry's index is an    *)
(* object's, -1 or garbage, and its id that of a volume that was opened.   *)
(***************************************************************************)
CacheTypeOK ==
  /\ \A s \in Slots : /\ cache[s].oid \in Oids \cup {NoOid}
                      /\ cache[s].object_index \in Indexes => cache[s].object_index % NBMAXOBJECTS = s
                                                              \/ cache[s].oid = NoOid
                      /\ cache[s].file_fd \in Fds \cup {-1, 0} \cup {g.file_fd : g \in Garbage}
  /\ lun_state \in {"open", "closed", "lost"}
  /\ opens \in 1 .. MaxOpens
  /\ present \subseteq Oids /\ made \in [Oids -> 0 .. MaxMade]
  /\ \A fd \in Fds : \A e \in fdtab[fd] : e.oid \in Oids /\ e.made \in 1 .. made[e.oid]
  /\ req \in [Threads -> Requests \cup {NoRequest}]
  /\ \A t \in Threads : pc[t] # "idle" => traverse_index[t] \in req[t].first .. req[t].last

(* The entries can be trusted: the LUN was not opened again in the memory  *)
(* of an earlier one, and no failure has left a false entry behind.        *)
Trusted == opens = 1 /\ ~spoiled

(***************************************************************************)
(* When a thread is about to transfer a chunk, the entry's descriptor is   *)
(* not the null device, and if it is open it is open on the current file   *)
(* of the thread's object (unless that file was deleted since the thread   *)
(* looked): what the index and stat checks of osd_op_read / osd_op_write   *)
(* are for.                                                                *)
(***************************************************************************)
TransfersOwnObject ==
  \A t \in Threads : Trusted /\ pc[t] = "io" =>
    /\ ~IsNull(Entry(t).file_fd)
    /\ \A e \in OpenFile(Entry(t).file_fd) :
         /\ e.oid = CurrentOid(t)
         /\ evicted[t] \/ e.made = made[e.oid]

(***************************************************************************)
(* A write that returned OSD_SUCCESS stored every chunk in a file of that  *)
(* chunk's object, if the entries could be trusted.                        *)
(***************************************************************************)
WritesReachObject ==
  \A t \in Threads :
    Trusted /\ ret[t] = "OSD_SUCCESS" /\ req[t].op = "write" => hit[t] = req[t].first .. req[t].last

(***************************************************************************)
(* Every descriptor opened for an entry is still named by an entry, so a   *)
(* recache, a reset or osd_free_collection can close it; after a complete  *)
(* close of the LUN none is left.  Failed closes included.                 *)
(***************************************************************************)
NoDescriptorLost ==
  \A fd \in Fds : \A e \in fdtab[fd] :
    e.use = "io" => /\ \E s \in CollectionSlots : cache[s].file_fd = fd
                    /\ lun_state # "closed"
=============================================================================
