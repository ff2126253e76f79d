------------------------------- MODULE TwoLuns -------------------------------
(***************************************************************************)
(* Two open LUNs of one process.  Each is an ObjectStore with threads and  *)
(* object files of its own (same first id, other directory); they share    *)
(* the process's descriptor table and the mutexes of                       *)
(* simpleOSD_get_object_to_dc, which are picked by the object index alone. *)
(***************************************************************************)
EXTENDS Striping

CONSTANTS
  ThreadsA, ThreadsB,  \* worker threads of each LUN
  NoThread, Zero, Junk, Requests, WriteBuffers(_, _), IsFsFlag,
  MAX_GET_OBJECT_LOCK, FirstFd, LastFd, Faults

ASSUME LunsAssumption ==
  /\ ThreadsA \cap ThreadsB = {}
  /\ NoThread \notin ThreadsA \cup ThreadsB
  /\ \A r \in Requests :
       /\ r \in [op : {"read", "write"}, offset : Nat, buf_len : Nat]
       /\ \A t \in ThreadsA \cup ThreadsB : \A b \in WriteBuffers(t, r) :
            DOMAIN b = 0 .. r.buf_len - 1
  /\ IsFsFlag \in BOOLEAN
  /\ MAX_GET_OBJECT_LOCK \in Nat \ {0}
  /\ FirstFd \in Nat /\ LastFd \in Nat
  /\ Faults \subseteq {"stat", "creat", "fallocate", "open", "io", "close", "crash"}

VARIABLES
  fdtab, fetch_locks,  \* of the process
  presentA, sizeA, dataA, is_fs_doneA, pcA, reqA, bufA, retA, buf_doneA,
  traverse_indexA, osd_offsetA, movedA, file_fdA,
  presentB, sizeB, dataB, is_fs_doneB, pcB, reqB, bufB, retB, buf_doneB,
  traverse_indexB, osd_offsetB, movedB, file_fdB

process == <<fdtab, fetch_locks>>
lunA == <<presentA, sizeA, dataA, is_fs_doneA, pcA, reqA, bufA, retA,
          buf_doneA, traverse_indexA, osd_offsetA, movedA, file_fdA>>
lunB == <<presentB, sizeB, dataB, is_fs_doneB, pcB, reqB, bufB, retB,
          buf_doneB, traverse_indexB, osd_offsetB, movedB, file_fdB>>

A == INSTANCE ObjectStore WITH
  Threads <- ThreadsA, OtherThreads <- ThreadsB,
  present <- presentA, size <- sizeA, data <- dataA, is_fs_done <- is_fs_doneA,
  pc <- pcA, req <- reqA, buf <- bufA, ret <- retA, buf_done <- buf_doneA,
  traverse_index <- traverse_indexA, osd_offset <- osd_offsetA,
  moved <- movedA, file_fd <- file_fdA

B == INSTANCE ObjectStore WITH
  Threads <- ThreadsB, OtherThreads <- ThreadsA,
  present <- presentB, size <- sizeB, data <- dataB, is_fs_done <- is_fs_doneB,
  pc <- pcB, req <- reqB, buf <- bufB, ret <- retB, buf_done <- buf_doneB,
  traverse_index <- traverse_indexB, osd_offset <- osd_offsetB,
  moved <- movedB, file_fd <- file_fdB

Init == A!Init /\ B!Init

(* The caller's lun_index selects the LUN and with it what a thread uses. *)
StepA(t) == A!Step(t) /\ UNCHANGED lunB
StepB(t) == B!Step(t) /\ UNCHANGED lunA

Submit ==
  \/ \E t \in ThreadsA : A!Submit(t) /\ UNCHANGED lunB
  \/ \E t \in ThreadsB : B!Submit(t) /\ UNCHANGED lunA

(* The process dies with both LUNs. *)
Crash == A!Crash /\ B!Crash

Next ==
  \/ Submit
  \/ \E t \in ThreadsA : StepA(t)
  \/ \E t \in ThreadsB : StepB(t)
  \/ Crash

vars == <<process, lunA, lunB>>
Spec == Init /\ [][Next]_vars

(* The target schedules every worker that is in a call. *)
Fairness ==
  /\ \A t \in ThreadsA : WF_vars(StepA(t))
  /\ \A t \in ThreadsB : WF_vars(StepB(t))
FairSpec == Spec /\ Fairness

-----------------------------------------------------------------------------
(***************************************************************************)
(* A worker that transfers or resets holds a descriptor it opened itself,  *)
(* on its own LUN's object, and every descriptor opened for a transfer has *)
(* such a holder: no error path of one LUN closes or uses a descriptor     *)
(* that the kernel has meanwhile given to the other.                       *)
(***************************************************************************)
Holder(e, fd) ==
  IF e.thread \in ThreadsA
  THEN A!OwnsFd(e.thread) /\ file_fdA[e.thread] = fd /\ e.oid = A!OpenOid(e.thread)
  ELSE B!OwnsFd(e.thread) /\ file_fdB[e.thread] = fd /\ e.oid = B!OpenOid(e.thread)

OwnDescriptors ==
  /\ \A fd \in FirstFd .. LastFd : \A e \in fdtab[fd] :
       e.use = "io" /\ fd > A!RESERVED_FDS => Holder(e, fd)
  /\ \A t \in ThreadsA : A!OwnsFd(t) => \E e \in fdtab[file_fdA[t]] : e.thread = t
  /\ \A t \in ThreadsB : B!OwnsFd(t) => \E e \in fdtab[file_fdB[t]] : e.thread = t

(***************************************************************************)
(* To each LUN the other one is a user of the process's descriptors and    *)
(* mutexes that leaves alone what this LUN's threads hold: no path of      *)
(* either closes a descriptor or unlocks a fetch mutex of the other.       *)
(***************************************************************************)
LunsShareProcess == A!SharedSpec /\ B!SharedSpec

(***************************************************************************)
(* Each LUN is a flat device of its own: what the other one does, and the  *)
(* descriptors it takes, shows at most as an error.                        *)
(***************************************************************************)
LunsImplementDevices == A!ImplementsBlockDevice /\ B!ImplementsBlockDevice

(***************************************************************************)
(* Every call returns although workers of one LUN wait for mutexes that    *)
(* workers of the other hold; only a file that a failed fallocate or a     *)
(* crash left short may keep calls of its own LUN, never of the other one. *)
(***************************************************************************)
EveryLunCallReturns ==
  /\ \A t \in ThreadsA : pcA[t] # "idle" ~> pcA[t] = "idle" \/ ~A!FixedSizeObjects
  /\ \A t \in ThreadsB : pcB[t] # "idle" ~> pcB[t] = "idle" \/ ~B!FixedSizeObjects
=============================================================================
