----------------------------- MODULE ObjectStore -----------------------------
(***************************************************************************)
(* Reads and writes of one open LUN by concurrent worker threads, from     *)
(* simpleOSD_read/simpleOSD_write down to the system calls on the object   *)
(* files, in the default build (RECACHE_FD_ENABLED FALSE,                  *)
(* SUPPORT_UNFORMATTED_DISK TRUE, GET_OBJECT_FROM_DP_NODE undefined).      *)
(*                                                                         *)
(* A step of a thread is one system call or one mutex operation, with the  *)
(* thread-local computation that follows it.  The kernel's side (files,    *)
(* descriptor table, short transfers, failures) is modelled from how the   *)
(* code uses it.                                                           *)
(***************************************************************************)
EXTENDS Striping

CONSTANTS
  Threads,             \* worker threads of the target
  OtherThreads,        \* those that serve the process's other LUNs
  NoThread,            \* owner of a mutex nobody holds
  Zero, Junk,          \* byte of a fresh object; byte of an unread buffer
  Requests,            \* [op, offset, buf_len] records the callers submit
  WriteBuffers(_, _),  \* the buffers a thread may send with a write request
  IsFsFlag,            \* is_fs_flag the MDS reports when the LUN is opened
  MAX_GET_OBJECT_LOCK, \* number of fetch mutexes
  FirstFd, LastFd,     \* descriptors free for the library: FirstFd .. LastFd
  Faults               \* what may fail, see FaultKinds

RESERVED_FDS == 3

FaultKinds == {"stat", "creat", "fallocate", "open", "io", "close", "crash"}

ASSUME StoreAssumption ==
  /\ NoThread \notin Threads \cup OtherThreads
  /\ Threads \cap OtherThreads = {}
  /\ \A r \in Requests :
       /\ r \in [op : {"read", "write"}, offset : Nat, buf_len : Nat]
       /\ \A t \in Threads : \A b \in WriteBuffers(t, r) :
            DOMAIN b = 0 .. r.buf_len - 1
  /\ IsFsFlag \in BOOLEAN
  /\ MAX_GET_OBJECT_LOCK \in Nat \ {0}
  /\ FirstFd \in Nat /\ LastFd \in Nat
  /\ Faults \subseteq FaultKinds

Fds == FirstFd .. LastFd
Locks == 0 .. MAX_GET_OBJECT_LOCK - 1
NoRequest == [op |-> "none", offset |-> 0, buf_len |-> 0]

(* The bytes that may be on the medium. *)
Bytes ==
  {Zero} \cup UNION {UNION {{b[i] : i \in DOMAIN b} : b \in WriteBuffers(t, r)} :
                       t \in Threads, r \in Requests}

VARIABLES
  \* the object files, by object id
  present,         \* ids whose file exists
  size,            \* file size
  data,            \* file content, Zero where nothing was written
  \* the process
  fdtab,           \* open file of each descriptor: set of at most one entry
  fetch_locks,     \* owner of each fetch mutex
  is_fs_done,      \* p_lun->is_fs_done
  \* each thread's call
  pc, req, buf, ret,
  buf_done,        \* buf_read / buf_written of osd_op_read / osd_op_write
  traverse_index,
  osd_offset,
  moved,           \* buf_read / buf_write of simpleOSD_obj_read / _write
  file_fd          \* p_current_obj->file_fd

files == <<present, size, data>>
locals == <<buf_done, traverse_index, osd_offset, moved>>
vars == <<present, size, data, fdtab, fetch_locks, is_fs_done, pc, req, buf, ret,
          buf_done, traverse_index, osd_offset, moved, file_fd>>

(***************************************************************************)
(* Derived values of a thread's call.                                      *)
(***************************************************************************)
CurrentOid(t) == Oid(traverse_index[t])
LockOf(t) == traverse_index[t] % MAX_GET_OBJECT_LOCK
LocalBufLen(t) == ChunkLen(req[t].buf_len, buf_done[t], osd_offset[t])
FileOffset(t) == osd_offset[t] + moved[t]

(***************************************************************************)
(* Descriptors: the kernel hands out the lowest free one.  An entry names  *)
(* the thread that opened the file, the object and what it was opened for. *)
(***************************************************************************)
LowestFree(fd) ==
  /\ fd \in Fds
  /\ fdtab[fd] = {}
  /\ \A g \in Fds : g < fd => fdtab[g] # {}

NoFreeFd == \A fd \in Fds : fdtab[fd] # {}

OpenEntry(t, use) == [thread |-> t, oid |-> CurrentOid(t), use |-> use]

Goto(t, label) == pc' = [pc EXCEPT ![t] = label]

(* The call ends and its local variables are gone. *)
Return(t, result) ==
  /\ Goto(t, "idle")
  /\ ret' = [ret EXCEPT ![t] = result]
  /\ buf_done' = [buf_done EXCEPT ![t] = 0]
  /\ traverse_index' = [traverse_index EXCEPT ![t] = 0]
  /\ osd_offset' = [osd_offset EXCEPT ![t] = 0]
  /\ moved' = [moved EXCEPT ![t] = 0]
  /\ file_fd' = [file_fd EXCEPT ![t] = 0]

Init ==
  /\ present = {}
  /\ size = [o \in Oids |-> 0]
  /\ data = [o \in Oids |-> [i \in LocalOffsets |-> Zero]]
  /\ fdtab = [fd \in Fds |-> {}]
  /\ fetch_locks = [l \in Locks |-> NoThread]
  /\ is_fs_done = IsFsFlag
  /\ pc = [t \in Threads |-> "idle"]
  /\ req = [t \in Threads |-> NoRequest]
  /\ buf = [t \in Threads |-> << >>]
  /\ ret = [t \in Threads |-> "none"]
  /\ buf_done = [t \in Threads |-> 0]
  /\ traverse_index = [t \in Threads |-> 0]
  /\ osd_offset = [t \in Threads |-> 0]
  /\ moved = [t \in Threads |-> 0]
  /\ file_fd = [t \in Threads |-> 0]

(***************************************************************************)
(* simpleOSD_read / simpleOSD_write -> simpleOSD_blk_read / _write -> the  *)
(* head of osd_op_read / osd_op_write, up to the transfer loop.            *)
(***************************************************************************)
Buffers(t, r) ==
  IF r.op = "write" THEN WriteBuffers(t, r)
                    ELSE {[i \in 0 .. r.buf_len - 1 |-> Junk]}

Arrive(t, r) ==
  /\ pc[t] = "idle"
  /\ req' = [req EXCEPT ![t] = r]
  /\ \E b \in Buffers(t, r) : buf' = [buf EXCEPT ![t] = b]

(* Seeded fault: a write does not mark the LUN. *)
MarkFormatted_Never(r) == UNCHANGED is_fs_done

(* A write marks the LUN formatted before it does anything else. *)
MarkFormatted(r) == is_fs_done' = (is_fs_done \/ r.op = "write")

(* A read of an unformatted LUN: success, the buffer is not touched. *)
ReadUnformatted(t, r) ==
  /\ r.op = "read"
  /\ ~is_fs_done
  /\ Arrive(t, r)
  /\ MarkFormatted(r)
  /\ Return(t, "OSD_SUCCESS")
  /\ UNCHANGED <<files, fdtab, fetch_locks>>

Reject(t, r) ==
  /\ r.op = "write" \/ is_fs_done
  /\ ~SpanAccepted(r.offset, r.buf_len)
  /\ Arrive(t, r)
  /\ MarkFormatted(r)
  /\ Return(t, "OSD_ERROR")
  /\ UNCHANGED <<files, fdtab, fetch_locks>>

(* An empty request: while(buf_read != buf_len) is not entered. *)
AcceptEmpty(t, r) ==
  /\ r.op = "write" \/ is_fs_done
  /\ SpanAccepted(r.offset, r.buf_len)
  /\ r.buf_len = 0
  /\ Arrive(t, r)
  /\ MarkFormatted(r)
  /\ Return(t, "OSD_SUCCESS")
  /\ UNCHANGED <<files, fdtab, fetch_locks>>

Accept(t, r) ==
  /\ r.op = "write" \/ is_fs_done
  /\ SpanAccepted(r.offset, r.buf_len)
  /\ r.buf_len # 0
  /\ Arrive(t, r)
  /\ MarkFormatted(r)
  /\ Goto(t, "stat")
  /\ ret' = [ret EXCEPT ![t] = "none"]
  /\ buf_done' = [buf_done EXCEPT ![t] = 0]
  /\ traverse_index' = [traverse_index EXCEPT ![t] = ObjectIndex(r.offset)]
  /\ osd_offset' = [osd_offset EXCEPT ![t] = LocalOffset(r.offset)]
  /\ moved' = [moved EXCEPT ![t] = 0]
  /\ UNCHANGED <<files, fdtab, fetch_locks, file_fd>>

Submit(t) ==
  \E r \in Requests :
    \/ ReadUnformatted(t, r)
    \/ Reject(t, r)
    \/ AcceptEmpty(t, r)
    \/ Accept(t, r)

(***************************************************************************)
(* osd_recache_object: look the object file up, without a lock; if it is   *)
(* missing find its data-placement node and fetch it.                      *)
(***************************************************************************)
StatFound(t) ==
  /\ pc[t] = "stat"
  /\ CurrentOid(t) \in present
  /\ Goto(t, "open")
  /\ UNCHANGED <<files, fdtab, fetch_locks, is_fs_done, req, buf, ret, locals, file_fd>>

StatMissing(t) ==
  /\ pc[t] = "stat"
  /\ CurrentOid(t) \notin present \/ "stat" \in Faults
  /\ DpNodeFound(traverse_index[t])
  /\ Goto(t, "fetch_lock")
  /\ UNCHANGED <<files, fdtab, fetch_locks, is_fs_done, req, buf, ret, locals, file_fd>>

StatUnplaced(t) ==
  /\ pc[t] = "stat"
  /\ CurrentOid(t) \notin present \/ "stat" \in Faults
  /\ ~DpNodeFound(traverse_index[t])
  /\ Return(t, "OSD_ERROR")
  /\ UNCHANGED <<files, fdtab, fetch_locks, is_fs_done, req, buf>>

(***************************************************************************)
(* simpleOSD_get_object_to_dc: create the object file under the mutex of   *)
(* its index.  The descriptor it opens for that is never closed.           *)
(***************************************************************************)
FetchLock(t) ==
  /\ pc[t] = "fetch_lock"
  /\ fetch_locks[LockOf(t)] = NoThread
  /\ fetch_locks' = [fetch_locks EXCEPT ![LockOf(t)] = t]
  /\ Goto(t, "fetch_stat")
  /\ UNCHANGED <<files, fdtab, is_fs_done, req, buf, ret, locals, file_fd>>

(* Seeded fault: no second stat under the mutex. *)
FetchStat_NoRecheck(t) ==
  /\ pc[t] = "fetch_stat"
  /\ Goto(t, "fetch_creat")
  /\ UNCHANGED <<files, fdtab, fetch_locks, is_fs_done, req, buf, ret, locals, file_fd>>

FetchStat(t) ==
  /\ pc[t] = "fetch_stat"
  /\ \/ /\ CurrentOid(t) \in present
        /\ Goto(t, "fetch_unlock")
     \/ /\ CurrentOid(t) \notin present \/ "stat" \in Faults
        /\ Goto(t, "fetch_creat")
  /\ UNCHANGED <<files, fdtab, fetch_locks, is_fs_done, req, buf, ret, locals, file_fd>>

(* open(O_WRONLY | O_CREAT): an existing file keeps its content. *)
FetchCreat(t) ==
  /\ pc[t] = "fetch_creat"
  /\ \E fd \in Fds :
       /\ LowestFree(fd)
       /\ fdtab' = [fdtab EXCEPT ![fd] = {OpenEntry(t, "creat")}]
  /\ present' = present \cup {CurrentOid(t)}
  /\ Goto(t, "fetch_alloc")
  /\ UNCHANGED <<size, data, fetch_locks, is_fs_done, req, buf, ret, locals, file_fd>>

(* open fails; fallocate is called with -1 and fails as well. *)
FetchCreatFails(t) ==
  /\ pc[t] = "fetch_creat"
  /\ NoFreeFd \/ "creat" \in Faults
  /\ Goto(t, "fetch_fail")
  /\ UNCHANGED <<files, fdtab, fetch_locks, is_fs_done, req, buf, ret, locals, file_fd>>

(* Seeded fault: the new file is not allocated. *)
FetchAlloc_Skipped(t) ==
  /\ pc[t] = "fetch_alloc"
  /\ Goto(t, "fetch_unlock")
  /\ UNCHANGED <<files, fdtab, fetch_locks, is_fs_done, req, buf, ret, locals, file_fd>>

FetchAlloc(t) ==
  /\ pc[t] = "fetch_alloc"
  /\ size' = [size EXCEPT ![CurrentOid(t)] = object_size]
  /\ Goto(t, "fetch_unlock")
  /\ UNCHANGED <<present, data, fdtab, fetch_locks, is_fs_done, req, buf, ret, locals, file_fd>>

FetchAllocFails(t) ==
  /\ pc[t] = "fetch_alloc"
  /\ "fallocate" \in Faults
  /\ Goto(t, "fetch_fail")
  /\ UNCHANGED <<files, fdtab, fetch_locks, is_fs_done, req, buf, ret, locals, file_fd>>

(* Seeded faults: a return path that leaves the mutex locked. *)
FetchUnlock_Missing(t) ==
  /\ pc[t] = "fetch_unlock"
  /\ Goto(t, "open")
  /\ UNCHANGED <<files, fdtab, fetch_locks, is_fs_done, req, buf, ret, locals, file_fd>>

FetchUnlockFail_Missing(t) ==
  /\ pc[t] = "fetch_fail"
  /\ Return(t, "OSD_ERROR")
  /\ UNCHANGED <<files, fdtab, fetch_locks, is_fs_done, req, buf>>

FetchUnlock(t) ==
  /\ pc[t] = "fetch_unlock"
  /\ fetch_locks' = [fetch_locks EXCEPT ![LockOf(t)] = NoThread]
  /\ Goto(t, "open")
  /\ UNCHANGED <<files, fdtab, is_fs_done, req, buf, ret, locals, file_fd>>

FetchUnlockFail(t) ==
  /\ pc[t] = "fetch_fail"
  /\ fetch_locks' = [fetch_locks EXCEPT ![LockOf(t)] = NoThread]
  /\ Return(t, "OSD_ERROR")
  /\ UNCHANGED <<files, fdtab, is_fs_done, req, buf>>

(***************************************************************************)
(* The end of osd_recache_object: open the object file.                    *)
(***************************************************************************)
OpenObject(t) ==
  /\ pc[t] = "open"
  /\ CurrentOid(t) \in present
  /\ \E fd \in Fds :
       /\ LowestFree(fd)
       /\ fdtab' = [fdtab EXCEPT ![fd] = {OpenEntry(t, "io")}]
       /\ file_fd' = [file_fd EXCEPT ![t] = fd]
  /\ Goto(t, "io")
  /\ UNCHANGED <<files, fetch_locks, is_fs_done, req, buf, ret, locals>>

OpenObjectFails(t) ==
  /\ pc[t] = "open"
  /\ CurrentOid(t) \notin present \/ NoFreeFd \/ "open" \in Faults
  /\ Return(t, "OSD_ERROR")
  /\ UNCHANGED <<files, fdtab, fetch_locks, is_fs_done, req, buf>>

(***************************************************************************)
(* simpleOSD_obj_read / simpleOSD_obj_write: pread64 and pwrite64 on the   *)
(* file behind the descriptor until the chunk is complete.  The kernel may *)
(* move fewer bytes than asked; a larger transfer that interleaves with    *)
(* another thread's is several of these steps.                             *)
(***************************************************************************)
Left(t) == LocalBufLen(t) - moved[t]

(* Seeded fault: the next object is not started at its first byte. *)
Advance_KeepsOffset(t, n) ==
  IF n = Left(t)
  THEN /\ buf_done' = [buf_done EXCEPT ![t] = @ + LocalBufLen(t)]
       /\ traverse_index' = [traverse_index EXCEPT ![t] = @ + 1]
       /\ moved' = [moved EXCEPT ![t] = 0]
       /\ Goto(t, "reset")
       /\ UNCHANGED osd_offset
  ELSE /\ moved' = [moved EXCEPT ![t] = @ + n]
       /\ UNCHANGED <<buf_done, traverse_index, osd_offset, pc>>

(* After n bytes: the chunk goes on, or osd_op_read/_write passes to the   *)
(* next object.                                                            *)
Advance(t, n) ==
  IF n = Left(t)
  THEN /\ buf_done' = [buf_done EXCEPT ![t] = @ + LocalBufLen(t)]
       /\ traverse_index' = [traverse_index EXCEPT ![t] = @ + 1]
       /\ osd_offset' = [osd_offset EXCEPT ![t] = 0]
       /\ moved' = [moved EXCEPT ![t] = 0]
       /\ Goto(t, "reset")
  ELSE /\ moved' = [moved EXCEPT ![t] = @ + n]
       /\ UNCHANGED <<buf_done, traverse_index, osd_offset, pc>>

ObjRead(t, n) ==
  /\ pc[t] = "io"
  /\ req[t].op = "read"
  /\ n \in 1 .. Left(t)
  /\ \E e \in fdtab[file_fd[t]] :
       /\ FileOffset(t) + n <= size[e.oid]
       /\ buf' = [buf EXCEPT ![t] =
            [i \in 0 .. req[t].buf_len - 1 |->
               IF i - (buf_done[t] + moved[t]) \in 0 .. n - 1
               THEN data[e.oid][FileOffset(t) + i - (buf_done[t] + moved[t])]
               ELSE buf[t][i]]]
  /\ Advance(t, n)
  /\ UNCHANGED <<files, fdtab, fetch_locks, is_fs_done, req, ret, file_fd>>

(* At the end of the file pread64 returns 0 and the loop calls it again. *)
ObjReadEof(t) ==
  /\ pc[t] = "io"
  /\ req[t].op = "read"
  /\ \E e \in fdtab[file_fd[t]] : FileOffset(t) >= size[e.oid]
  /\ UNCHANGED vars

ObjWrite(t, n) ==
  /\ pc[t] = "io"
  /\ req[t].op = "write"
  /\ n \in 1 .. Left(t)
  /\ \E e \in fdtab[file_fd[t]] :
       /\ data' = [data EXCEPT ![e.oid] =
            [i \in LocalOffsets |->
               IF i - FileOffset(t) \in 0 .. n - 1
               THEN buf[t][buf_done[t] + moved[t] + i - FileOffset(t)]
               ELSE data[e.oid][i]]]
       /\ size' = [size EXCEPT ![e.oid] =
            IF FileOffset(t) + n > @ THEN FileOffset(t) + n ELSE @]
  /\ Advance(t, n)
  /\ UNCHANGED <<present, fdtab, fetch_locks, is_fs_done, req, buf, ret, file_fd>>

ObjIoFails(t) ==
  /\ pc[t] = "io"
  /\ "io" \in Faults \/ fdtab[file_fd[t]] = {}
  /\ Goto(t, "obj_reset")
  /\ UNCHANGED <<files, fdtab, fetch_locks, is_fs_done, req, buf, ret, locals, file_fd>>

(***************************************************************************)
(* osd_reset_cache_object: closes the object's descriptor unless it is one *)
(* of the reserved ones, and forgets it.  A failing close(2) has released  *)
(* the descriptor all the same.  ok says whether the reset succeeds.       *)
(***************************************************************************)
(* Seeded fault: the descriptor is forgotten and not closed. *)
ResetClose_Leaks(t, ok) == ok /\ UNCHANGED fdtab

ResetClose(t, ok) ==
  IF file_fd[t] > RESERVED_FDS
  THEN /\ IF ok THEN fdtab[file_fd[t]] # {}
                ELSE fdtab[file_fd[t]] = {} \/ "close" \in Faults
       /\ fdtab' = [fdtab EXCEPT ![file_fd[t]] = {}]
  ELSE /\ ok
       /\ fdtab' = fdtab

(* Seeded fault: after a failed close the object keeps its descriptor. *)
ResetFd_Kept(t, ok) == IF ok THEN 0 ELSE file_fd[t]

ResetFd(t, ok) == IF ok THEN 0 ELSE -1

(* The reset in simpleOSD_obj_read / _write after a failed transfer ... *)
ObjReset(t) ==
  /\ pc[t] = "obj_reset"
  /\ \E ok \in BOOLEAN :
       /\ ResetClose(t, ok)
       /\ file_fd' = [file_fd EXCEPT ![t] = ResetFd(t, ok)]
  /\ Goto(t, "op_reset")
  /\ UNCHANGED <<files, fetch_locks, is_fs_done, req, buf, ret, locals>>

(* Seeded fault: the failed transfer is reported as a success. *)
OpReset_ReportsSuccess(t) ==
  /\ pc[t] = "op_reset"
  /\ \E ok \in BOOLEAN : ResetClose(t, ok)
  /\ Return(t, "OSD_SUCCESS")
  /\ UNCHANGED <<files, fetch_locks, is_fs_done, req, buf>>

(* ... and the second one, in osd_op_read / osd_op_write. *)
OpReset(t) ==
  /\ pc[t] = "op_reset"
  /\ \E ok \in BOOLEAN : ResetClose(t, ok)
  /\ Return(t, "OSD_ERROR")
  /\ UNCHANGED <<files, fetch_locks, is_fs_done, req, buf>>

(* The reset after a complete chunk. *)
NextObject(t) ==
  /\ pc[t] = "reset"
  /\ buf_done[t] # req[t].buf_len
  /\ ResetClose(t, TRUE)
  /\ file_fd' = [file_fd EXCEPT ![t] = ResetFd(t, TRUE)]
  /\ Goto(t, "stat")
  /\ UNCHANGED <<files, fetch_locks, is_fs_done, req, buf, ret, locals>>

Complete(t) ==
  /\ pc[t] = "reset"
  /\ buf_done[t] = req[t].buf_len
  /\ ResetClose(t, TRUE)
  /\ Return(t, "OSD_SUCCESS")
  /\ UNCHANGED <<files, fetch_locks, is_fs_done, req, buf>>

ResetFails(t) ==
  /\ pc[t] = "reset"
  /\ ResetClose(t, FALSE)
  /\ Return(t, "OSD_ERROR")
  /\ UNCHANGED <<files, fetch_locks, is_fs_done, req, buf>>

(***************************************************************************)
(* The process is killed and started again and the LUN is opened again.    *)
(* The object files stay as they are; is_fs_done is what the MDS reports.  *)
(***************************************************************************)
Crash ==
  /\ "crash" \in Faults
  /\ fdtab' = [fd \in Fds |-> {}]
  /\ fetch_locks' = [l \in Locks |-> NoThread]
  /\ is_fs_done' = IsFsFlag
  /\ pc' = [t \in Threads |-> "idle"]
  /\ req' = [t \in Threads |-> NoRequest]
  /\ buf' = [t \in Threads |-> << >>]
  /\ ret' = [t \in Threads |-> "none"]
  /\ buf_done' = [t \in Threads |-> 0]
  /\ traverse_index' = [t \in Threads |-> 0]
  /\ osd_offset' = [t \in Threads |-> 0]
  /\ moved' = [t \in Threads |-> 0]
  /\ file_fd' = [t \in Threads |-> 0]
  /\ UNCHANGED files

(* The steps of a call that has started. *)
Step(t) ==
  \/ StatFound(t) \/ StatMissing(t) \/ StatUnplaced(t)
  \/ FetchLock(t) \/ FetchStat(t)
  \/ FetchCreat(t) \/ FetchCreatFails(t)
  \/ FetchAlloc(t) \/ FetchAllocFails(t)
  \/ FetchUnlock(t) \/ FetchUnlockFail(t)
  \/ OpenObject(t) \/ OpenObjectFails(t)
  \/ \E n \in 1 .. object_size : ObjRead(t, n) \/ ObjWrite(t, n)
  \/ ObjReadEof(t) \/ ObjIoFails(t)
  \/ ObjReset(t) \/ OpReset(t)
  \/ NextObject(t) \/ Complete(t) \/ ResetFails(t)

Next ==
  \/ \E t \in Threads : Submit(t) \/ Step(t)
  \/ Crash

Spec == Init /\ [][Next]_vars

(* Every thread that is in a call is scheduled again and again. *)
Fairness == \A t \in Threads : WF_vars(Step(t))
FairSpec == Spec /\ Fairness

-----------------------------------------------------------------------------
(***************************************************************************)
(* Properties.                                                             *)
(***************************************************************************)
Labels == {"idle", "stat", "fetch_lock", "fetch_stat", "fetch_creat",
           "fetch_alloc", "fetch_unlock", "fetch_fail", "open", "io",
           "obj_reset", "op_reset", "reset"}

Results == {"none", "OSD_SUCCESS", "OSD_ERROR"}

(* An entry of the descriptor table. *)
Entries == [thread : Threads \cup OtherThreads, oid : Oids, use : {"io", "creat"}]

(* The type of the state. *)
TypeOK ==
  /\ present \subseteq Oids
  /\ size \in [Oids -> 0 .. object_size]
  /\ data \in [Oids -> [LocalOffsets -> Bytes]]
  /\ fdtab \in [Fds -> SUBSET Entries]
  /\ fetch_locks \in [Locks -> Threads \cup OtherThreads \cup {NoThread}]
  /\ is_fs_done \in BOOLEAN
  /\ pc \in [Threads -> Labels]
  /\ req \in [Threads -> Requests \cup {NoRequest}]
  /\ DOMAIN buf = Threads
  /\ ret \in [Threads -> Results]
  /\ buf_done \in [Threads -> Nat]
  /\ traverse_index \in [Threads -> Nat]
  /\ osd_offset \in [Threads -> Nat]
  /\ moved \in [Threads -> Nat]
  /\ file_fd \in [Threads -> Fds \cup {0, -1}]

(***************************************************************************)
(* What this LUN meets of the process's other LUNs: their threads open and *)
(* close descriptors and take and release the mutexes of                   *)
(* simpleOSD_get_object_to_dc, which all LUNs share, but not those that    *)
(* threads of this LUN hold.                                               *)
(***************************************************************************)
OtherLuns ==
  /\ fdtab' \in [Fds -> SUBSET Entries]
  /\ \A fd \in Fds :
       \/ fdtab'[fd] = fdtab[fd]
       \/ \A e \in fdtab[fd] \cup fdtab'[fd] : e.thread \in OtherThreads
  /\ fetch_locks' \in [Locks -> Threads \cup OtherThreads \cup {NoThread}]
  /\ \A l \in Locks :
       \/ fetch_locks'[l] = fetch_locks[l]
       \/ {fetch_locks[l], fetch_locks'[l]} \subseteq OtherThreads \cup {NoThread}
  /\ UNCHANGED <<files, is_fs_done, pc, req, buf, ret, locals, file_fd>>

(* The LUN in a process that serves others as well. *)
SharedNext == Next \/ OtherLuns
SharedSpec == Init /\ [][SharedNext]_vars

(* Between pthread_mutex_lock and the unlock of simpleOSD_get_object_to_dc. *)
InFetch(t) == pc[t] \in {"fetch_stat", "fetch_creat", "fetch_alloc",
                         "fetch_unlock", "fetch_fail"}

(* The fetch mutex of an object index is held exactly by a thread that is  *)
(* between lock and unlock in simpleOSD_get_object_to_dc, so two threads   *)
(* never create objects of one mutex at once, and no return path, the      *)
(* failing fallocate's included, leaves a mutex locked.                    *)
LockDiscipline ==
  /\ \A t \in Threads : InFetch(t) => fetch_locks[LockOf(t)] = t
  /\ \A l \in Locks : fetch_locks[l] \in Threads =>
       InFetch(fetch_locks[l]) /\ LockOf(fetch_locks[l]) = l

(* The loop invariant of osd_op_read/osd_op_write: while bytes are left,   *)
(* the object and the offset in it are those of the next byte of the       *)
(* request, and the chunk in hand stays inside the object and the request. *)
CursorInv ==
  \A t \in Threads : pc[t] # "idle" =>
    /\ req[t].op \in {"read", "write"}
    /\ SpanAccepted(req[t].offset, req[t].buf_len)
    /\ buf_done[t] <= req[t].buf_len
    /\ pc[t] # "reset" => buf_done[t] < req[t].buf_len
    /\ buf_done[t] < req[t].buf_len =>
         /\ traverse_index[t] = ObjectIndex(req[t].offset + buf_done[t])
         /\ osd_offset[t] = LocalOffset(req[t].offset + buf_done[t])
         /\ traverse_index[t] \in Indexes
         /\ moved[t] < LocalBufLen(t)
         /\ FileOffset(t) < object_size
    /\ moved[t] # 0 => pc[t] \in {"io", "obj_reset", "op_reset"}

(* A thread that has the object open, and the object it has open: when the *)
(* chunk is complete traverse_index already names the next one.            *)
OwnsFd(t) == pc[t] \in {"io", "obj_reset", "reset"}
OpenOid(t) == IF pc[t] = "reset" THEN Oid(traverse_index[t] - 1)
                                 ELSE CurrentOid(t)

(* A thread that transfers or resets holds a descriptor it opened itself   *)
(* on the very object it means, a thread that does not holds none, and     *)
(* every object descriptor above the reserved ones has such a holder: no   *)
(* error path, a failing close included, closes another thread's           *)
(* descriptor or forgets to close its own.                                 *)
FdAccounting ==
  /\ \A t \in Threads :
       IF OwnsFd(t)
       THEN /\ file_fd[t] \in Fds
            /\ fdtab[file_fd[t]] =
                 {[thread |-> t, oid |-> OpenOid(t), use |-> "io"]}
       ELSE file_fd[t] \in {0, -1}
  /\ \A fd \in Fds : \A e \in fdtab[fd] :
       e.thread \in Threads /\ e.use = "io" /\ fd > RESERVED_FDS =>
         OwnsFd(e.thread) /\ file_fd[e.thread] = fd

(* Stat outside the lock, stat again inside it: an object is created at    *)
(* most once however many threads miss it, so the descriptors that         *)
(* simpleOSD_get_object_to_dc leaves open are at most one for an object.   *)
CreatedOnce ==
  \A fd, gd \in Fds : \A e \in fdtab[fd], f \in fdtab[gd] :
    /\ e.thread \in Threads /\ f.thread \in Threads
    /\ e.use = "creat" /\ f.use = "creat" /\ e.oid = f.oid
    => fd = gd

(* Every object file has the collection's object_size, except while the    *)
(* thread that has just created it allocates it under its mutex.           *)
FixedSizeObjects ==
  \A o \in present :
    \/ size[o] = object_size
    \/ \E t \in Threads : pc[t] = "fetch_alloc" /\ CurrentOid(t) = o

(* With a kernel that fails nothing, a request fails only if its span is   *)
(* refused or an object it needs has no data-placement node: no order of   *)
(* two threads' steps makes one of them fail.                              *)
NoSpuriousError ==
  \A t \in Threads : ret[t] = "OSD_ERROR" =>
    \/ ~SpanAccepted(req[t].offset, req[t].buf_len)
    \/ \E i \in Indexes :
         /\ ~DpNodeFound(i)
         /\ i \in ObjectIndex(req[t].offset) ..
                  ObjectIndex(req[t].offset + req[t].buf_len - 1)

(* A LUN whose is_fs_done is FALSE has no object yet: a read that is       *)
(* answered without looking at the objects misses nothing.                 *)
UnformattedIsEmpty == ~is_fs_done => present = {}

(* With a kernel that fails nothing, a request all of whose bytes (at      *)
(* least one) are inside the advertised capacity does not fail: none is    *)
(* rejected as beyond the range.                                           *)
InRangeSucceeds ==
  \A t \in Threads :
    ret[t] = "OSD_ERROR" /\ req[t].buf_len > 0 =>
      req[t].offset + req[t].buf_len > Capacity

(* The LUN is the flat array of bytes of BlockDevice: address a is byte    *)
(* LocalOffset(a) of object ObjectIndex(a).                                *)
Device == INSTANCE BlockDevice WITH
  medium <- [a \in Addresses |-> data[Oid(ObjectIndex(a))][LocalOffset(a)]],
  formatted <- is_fs_done,
  done <- [t \in Threads |-> buf_done[t] + moved[t]],
  busy <- [t \in Threads |-> pc[t] # "idle"]

(* Striping over object files, creation on demand, short transfers, error  *)
(* paths and restarts implement one flat device: a request touches exactly *)
(* its own bytes, succeeds only when all were moved, and what was written  *)
(* stays.                                                                  *)
ImplementsBlockDevice == Device!Spec

(* Every call returns: no interleaving of lock, creation and short         *)
(* transfers keeps a request of simpleOSD_read/simpleOSD_write for ever.   *)
EveryCallReturns ==
  \A t \in Threads : pc[t] # "idle" ~> pc[t] = "idle"
=============================================================================
