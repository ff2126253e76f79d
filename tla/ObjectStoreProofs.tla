-------------------------- MODULE ObjectStoreProofs --------------------------
(***************************************************************************)
(* Safety of reads and writes by any number of threads, for every geometry *)
(* of the LUN, every set of requests and every set of faults, and beside   *)
(* any other LUNs of the process, in five parts: the address arithmetic;   *)
(* types, descriptors and mutexes; the place of each loop in its request;  *)
(* the refinement of the flat device; the creation of objects.             *)
(***************************************************************************)
EXTENDS ObjectStore, FiniteSetTheorems, TLAPS

-----------------------------------------------------------------------------
(***************************************************************************)
(* What the address arithmetic of Striping guarantees for every number and *)
(* size of objects and every counter width.                                *)
(***************************************************************************)
(* Division with remainder: quotient and remainder are those of a. *)
LEMMA DivFacts ==
  ASSUME NEW a \in Nat, NEW s \in Nat \ {0}
  PROVE  /\ a \div s \in Nat
         /\ a - s * (a \div s) \in 0 .. s - 1
  BY SMTT(30)

(* The quotient is below the number of objects for an address in range. *)
LEMMA DivBound ==
  ASSUME NEW a \in Nat, NEW s \in Nat \ {0}, NEW n \in Nat, a < n * s
  PROVE  a \div s < n
  BY DivFacts, SMTT(30)

(* Quotient and remainder determine each other. *)
LEMMA DivUnique ==
  ASSUME NEW a \in Nat, NEW s \in Nat \ {0}, NEW q \in Nat, NEW r \in 0 .. s - 1,
         a = s * q + r
  PROVE  a \div s = q
  BY DivFacts, SMTT(30)

(* The two results of osd_offset_to_object, and the address they stand     *)
(* for.                                                                    *)
LEMMA OffsetFacts ==
  ASSUME NEW a \in Nat
  PROVE  /\ ObjectIndex(a) \in Nat
         /\ LocalOffset(a) \in LocalOffsets
         /\ a = object_size * ObjectIndex(a) + LocalOffset(a)
<1>1. object_size \in Nat \ {0}
  BY StripingAssumption
<1>2. /\ a \div object_size \in Nat
      /\ a - object_size * (a \div object_size) \in 0 .. object_size - 1
  BY <1>1, DivFacts
<1>3. /\ ObjectIndex(a) \in Nat
      /\ LocalOffset(a) \in LocalOffsets
  BY <1>2 DEF ObjectIndex, LocalOffset, LocalOffsets
<1>4. LocalOffset(a) = a - object_size * ObjectIndex(a)
  BY DEF LocalOffset
<1>5. object_size * ObjectIndex(a) \in Nat
  BY <1>1, <1>3
<1> QED BY <1>3, <1>4, <1>5, <1>1 DEF LocalOffsets

(* osd_offset_to_object on an accepted offset: the index is one of the     *)
(* collection's, the local offset is inside the object.                    *)
THEOREM OffsetInObject ==
  ASSUME NEW a \in Nat, OffsetInRange(a)
  PROVE  ObjectIndex(a) \in Indexes /\ LocalOffset(a) \in LocalOffsets
<1>1. a < nb_objects * object_size
  BY DEF OffsetInRange, Capacity
<1>2. ObjectIndex(a) < nb_objects
  BY <1>1, StripingAssumption, DivBound DEF ObjectIndex
<1> QED BY <1>2, OffsetFacts, StripingAssumption DEF Indexes

(* Two addresses never share an index and an offset, so two bytes of a LUN *)
(* are two bytes of the object files.                                      *)
THEOREM AddressInjective ==
  ASSUME NEW a \in Nat, NEW b \in Nat,
         ObjectIndex(a) = ObjectIndex(b), LocalOffset(a) = LocalOffset(b)
  PROVE  a = b
  BY OffsetFacts

(* Only one pair of index and offset names an address. *)
LEMMA OffsetUnique ==
  ASSUME NEW q \in Nat, NEW r \in LocalOffsets
  PROVE  /\ ObjectIndex(object_size * q + r) = q
         /\ LocalOffset(object_size * q + r) = r
<1> DEFINE a == object_size * q + r
<1>1. a \in Nat
  BY StripingAssumption DEF LocalOffsets
<1>2. a \div object_size = q
  <2> HIDE DEF a
  <2>1. a = object_size * q + r
    BY DEF a
  <2> QED BY <1>1, <2>1, StripingAssumption, DivUnique DEF LocalOffsets
<1> QED BY <1>1, <1>2, StripingAssumption DEF ObjectIndex, LocalOffset, LocalOffsets

(* The ids of a collection's objects are ids of four counter bytes.        *)
LEMMA OidType ==
  ASSUME NEW i \in Nat
  PROVE  Oid(i) \in Oids
  BY StripingAssumption, SMTT(30) DEF Oid, Oids

(* Adding a number below m and taking the remainder by m loses nothing.    *)
LEMMA ModCases ==
  ASSUME NEW m \in Nat \ {0}, NEW x \in 0 .. 2 * m - 1
  PROVE  x % m = IF x < m THEN x ELSE x - m
  BY SMTT(30)

(* Two objects of a collection never share an object id, hence no file,    *)
(* although the 32 bit counter wraps: there are no more objects than       *)
(* counter values.                                                         *)
THEOREM OidInjective ==
  ASSUME NEW i \in Indexes, NEW j \in Indexes, Oid(i) = Oid(j)
  PROVE  i = j
<1>1. /\ CounterMod \in Nat \ {0}
      /\ start_object \in 0 .. CounterMod - 1
      /\ i \in 0 .. CounterMod - 1
      /\ j \in 0 .. CounterMod - 1
  BY StripingAssumption DEF Indexes
<1> DEFINE x == start_object + i
           y == start_object + j
<1>2. x \in 0 .. 2 * CounterMod - 1 /\ y \in 0 .. 2 * CounterMod - 1
  BY <1>1
<1>3. x % CounterMod = y % CounterMod
  BY DEF Oid
<1> HIDE DEF x, y
<1>4. x % CounterMod = IF x < CounterMod THEN x ELSE x - CounterMod
  BY <1>1, <1>2, ModCases
<1>5. y % CounterMod = IF y < CounterMod THEN y ELSE y - CounterMod
  BY <1>1, <1>2, ModCases
<1>6. x = y \/ x = y + CounterMod \/ y = x + CounterMod
  BY <1>1, <1>2, <1>3, <1>4, <1>5
<1> QED BY <1>1, <1>6 DEF x, y

(* A request osd_op_read/osd_op_write accepts ends inside the LUN.         *)
THEOREM AcceptedSpanFits ==
  ASSUME NEW offset \in Nat, NEW len \in Nat, SpanAccepted(offset, len)
  PROVE  offset + len <= Capacity
<1>1. CASE LocalOffset(offset) + len > object_size
  BY <1>1, StripingAssumption DEF SpanAccepted, OffsetInRange, Capacity
<1>2. CASE LocalOffset(offset) + len <= object_size
  <2> DEFINE q == ObjectIndex(offset)
             r == LocalOffset(offset)
  <2>1. q \in 0 .. nb_objects - 1
    BY OffsetInObject DEF SpanAccepted, Indexes
  <2>2. offset = object_size * q + r /\ r \in 0 .. object_size - 1 /\ q \in Nat
    BY OffsetFacts DEF LocalOffsets
  <2>3. object_size \in Nat /\ nb_objects \in Nat
    BY StripingAssumption
  <2>4. r + len <= object_size
    BY <1>2
  <2> HIDE DEF q, r
  <2>5. object_size * q \in Nat
    BY <2>2, <2>3
  <2>6. offset + len <= object_size * q + object_size
    BY <2>2, <2>3, <2>4, <2>5
  <2>7. object_size * q + object_size <= nb_objects * object_size
    BY <2>1, <2>2, <2>3, SMTT(30)
  <2>8. nb_objects * object_size \in Nat
    BY <2>3
  <2> QED BY <2>3, <2>5, <2>6, <2>7, <2>8 DEF Capacity
<1>3. LocalOffset(offset) + len \in Int /\ object_size \in Int
  BY OffsetFacts, StripingAssumption DEF LocalOffsets
<1> QED BY <1>1, <1>2, <1>3

(* A chunk is not empty while bytes are left, and ends neither behind the  *)
(* request nor behind the object.                                          *)
LEMMA ChunkFacts ==
  ASSUME NEW len \in Nat, NEW done \in Nat, NEW off \in Nat
  PROVE  /\ ChunkLen(len, done, off) \in Int
         /\ ChunkLen(len, done, off) <= len - done
         /\ ChunkLen(len, done, off) <= object_size - off
         /\ \/ ChunkLen(len, done, off) = len - done
            \/ ChunkLen(len, done, off) = object_size - off
  BY StripingAssumption DEF ChunkLen

-----------------------------------------------------------------------------
(***************************************************************************)
(* Types, descriptors and mutexes.                                         *)
(***************************************************************************)
(* A thread in a call works for one of the callers' requests, and a writer *)
(* still has the buffer it was given.                                      *)
BufferInv ==
  \A t \in Threads : pc[t] # "idle" =>
    /\ req[t] \in Requests
    /\ req[t].op = "write" => buf[t] \in WriteBuffers(t, req[t])

TypeInv == TypeOK /\ BufferInv

-----------------------------------------------------------------------------
(* Facts about the parts of an action.                                     *)

(* What the assumptions say of a request and its buffer. *)
LEMMA RequestType ==
  ASSUME NEW r \in Requests
  PROVE  r.op \in {"read", "write"} /\ r.offset \in Nat /\ r.buf_len \in Nat
  BY StoreAssumption

(* A byte of a write buffer may be on the medium. *)
LEMMA BufferBytes ==
  ASSUME NEW t \in Threads, NEW r \in Requests, NEW b \in WriteBuffers(t, r),
         NEW i \in 0 .. r.buf_len - 1
  PROVE  b[i] \in Bytes
<1>1. i \in DOMAIN b
  BY StoreAssumption
<1> DEFINE Of(u, q) == UNION {{c[k] : k \in DOMAIN c} : c \in WriteBuffers(u, q)}
<1>2. b[i] \in Of(t, r)
  BY <1>1
<1>3. Of(t, r) \in {Of(u, q) : u \in Threads, q \in Requests}
  OBVIOUS
<1> HIDE DEF Of
<1>4. b[i] \in UNION {Of(u, q) : u \in Threads, q \in Requests}
  BY <1>2, <1>3
<1> QED BY <1>4 DEF Bytes, Of

(* The counter of an object id wraps, so it is always an id. *)
LEMMA CurrentOidType ==
  ASSUME TypeOK, NEW t \in Threads
  PROVE  CurrentOid(t) \in Oids
  BY OidType DEF TypeOK, CurrentOid

(* The end of a call leaves its variables well typed ... *)
LEMMA ReturnType ==
  ASSUME TypeOK, NEW t \in Threads, NEW result \in Results, Return(t, result)
  PROVE  /\ pc' \in [Threads -> Labels]
         /\ ret' \in [Threads -> Results]
         /\ buf_done' \in [Threads -> Nat]
         /\ traverse_index' \in [Threads -> Nat]
         /\ osd_offset' \in [Threads -> Nat]
         /\ moved' \in [Threads -> Nat]
         /\ file_fd' \in [Threads -> Fds \cup {0, -1}]
  BY DEF TypeOK, Return, Goto, Labels

(* ... and the thread idle, with no descriptor. *)
LEMMA ReturnIdle ==
  ASSUME TypeOK, NEW t \in Threads, NEW result, Return(t, result)
  PROVE  /\ pc'[t] = "idle"
         /\ \A u \in Threads : u # t => pc'[u] = pc[u]
  BY DEF TypeOK, Return, Goto

(* osd_reset_cache_object keeps the descriptor table well typed. *)
LEMMA ResetCloseType ==
  ASSUME TypeOK, NEW t \in Threads, NEW ok \in BOOLEAN, ResetClose(t, ok)
  PROVE  fdtab' \in [Fds -> SUBSET Entries]
  BY DEF TypeOK, ResetClose

(* The rest of the chunk lies inside the request and the object. *)
LEMMA LeftFacts ==
  ASSUME TypeInv, NEW t \in Threads, pc[t] # "idle", NEW n \in 1 .. Left(t)
  PROVE  /\ n \in Nat \ {0}
         /\ LocalBufLen(t) \in Nat
         /\ Left(t) \in Nat
         /\ FileOffset(t) \in Nat
         /\ FileOffset(t) + n <= object_size
         /\ buf_done[t] + moved[t] + n <= req[t].buf_len
<1>1. /\ req[t].buf_len \in Nat
      /\ buf_done[t] \in Nat /\ osd_offset[t] \in Nat /\ moved[t] \in Nat
  BY RequestType DEF TypeInv, TypeOK, BufferInv
<1> DEFINE c == ChunkLen(req[t].buf_len, buf_done[t], osd_offset[t])
<1>2. /\ c \in Int
      /\ c <= req[t].buf_len - buf_done[t]
      /\ c <= object_size - osd_offset[t]
  BY <1>1, ChunkFacts
<1>3. Left(t) = c - moved[t] /\ FileOffset(t) = osd_offset[t] + moved[t]
      /\ LocalBufLen(t) = c
  BY DEF Left, LocalBufLen, FileOffset
<1>4. n \in 1 .. c - moved[t]
  BY <1>3
<1> HIDE DEF c
<1>5. /\ n \in Nat \ {0} /\ c \in Nat /\ c - moved[t] \in Nat
      /\ buf_done[t] + moved[t] + n <= req[t].buf_len
  BY <1>1, <1>2, <1>4
<1>6. object_size \in Nat
  BY StripingAssumption
<1>7. osd_offset[t] + moved[t] \in Nat
  BY <1>1
<1>8. osd_offset[t] + moved[t] + n <= object_size
  BY <1>1, <1>2, <1>4, <1>6
<1> QED BY <1>3, <1>5, <1>7, <1>8

(* So does the bookkeeping after a transfer for the call's variables. *)
LEMMA AdvanceType ==
  ASSUME TypeInv, NEW t \in Threads, pc[t] = "io", NEW n \in 1 .. Left(t),
         Advance(t, n)
  PROVE  /\ pc' \in [Threads -> Labels]
         /\ buf_done' \in [Threads -> Nat]
         /\ traverse_index' \in [Threads -> Nat]
         /\ osd_offset' \in [Threads -> Nat]
         /\ moved' \in [Threads -> Nat]
         /\ pc'[t] # "idle"
         /\ \A u \in Threads : u # t => pc'[u] = pc[u]
<1>1. LocalBufLen(t) \in Nat /\ n \in Nat
  BY LeftFacts
<1>2. TypeOK
  BY DEF TypeInv
<1> QED BY <1>1, <1>2, SMTT(30) DEF Advance, TypeOK, Goto, Labels

-----------------------------------------------------------------------------
(* Types, one lemma per group of actions.                                  *)

(* A new request keeps the types. *)
LEMMA SubmitType ==
  ASSUME TypeInv, NEW t \in Threads, Submit(t)
  PROVE  TypeInv'
<1>1. TypeOK
  BY DEF TypeInv
<1>2. PICK r \in Requests :
        ReadUnformatted(t, r) \/ Reject(t, r) \/ AcceptEmpty(t, r) \/ Accept(t, r)
  BY DEF Submit
<1>3. r.op \in {"read", "write"} /\ r.offset \in Nat /\ r.buf_len \in Nat
  BY RequestType
<1>4. CASE ReadUnformatted(t, r) \/ Reject(t, r) \/ AcceptEmpty(t, r)
  <2>1. /\ Arrive(t, r) /\ MarkFormatted(r)
        /\ Return(t, "OSD_SUCCESS") \/ Return(t, "OSD_ERROR")
        /\ UNCHANGED <<files, fdtab, fetch_locks>>
    BY <1>4 DEF ReadUnformatted, Reject, AcceptEmpty
  <2>2. TypeOK'
    BY <1>1, <2>1, ReturnType DEF TypeOK, Arrive, MarkFormatted, files, Results
  <2>3. BufferInv'
    BY <1>1, <2>1, ReturnIdle DEF TypeInv, TypeOK, BufferInv, Arrive
  <2> QED BY <2>2, <2>3 DEF TypeInv
<1>5. CASE Accept(t, r)
  <2>1. ObjectIndex(r.offset) \in Nat /\ LocalOffset(r.offset) \in Nat
    BY <1>3, OffsetFacts DEF LocalOffsets
  <2>2. TypeOK'
    BY <1>1, <1>5, <2>1
    DEF TypeOK, Accept, Arrive, MarkFormatted, Goto, Labels, Results, files
  <2>3. PICK b \in Buffers(t, r) : buf' = [buf EXCEPT ![t] = b]
    BY <1>5 DEF Accept, Arrive
  <2>4. BufferInv'
    BY <1>1, <1>5, <2>3
    DEF TypeInv, TypeOK, BufferInv, Accept, Arrive, Goto, Buffers
  <2> QED BY <2>2, <2>4 DEF TypeInv
<1> QED BY <1>2, <1>4, <1>5

(* The steps that move from one label to another and return nothing.       *)
LEMMA GotoBuffer ==
  ASSUME TypeInv, NEW t \in Threads, pc[t] # "idle", NEW label, Goto(t, label),
         UNCHANGED <<req, buf>>
  PROVE  BufferInv'
  BY DEF TypeInv, TypeOK, BufferInv, Goto

(* The steps that end a call. *)
LEMMA ReturnBuffer ==
  ASSUME TypeInv, NEW t \in Threads, NEW result, Return(t, result),
         UNCHANGED <<req, buf>>
  PROVE  BufferInv'
  BY ReturnIdle DEF TypeInv, BufferInv

(* The lookup and simpleOSD_get_object_to_dc keep the types. *)
LEMMA FetchType ==
  ASSUME TypeInv, NEW t \in Threads,
         \/ StatFound(t) \/ StatMissing(t) \/ StatUnplaced(t)
         \/ FetchLock(t) \/ FetchStat(t)
         \/ FetchCreat(t) \/ FetchCreatFails(t)
         \/ FetchAlloc(t) \/ FetchAllocFails(t)
         \/ FetchUnlock(t) \/ FetchUnlockFail(t)
  PROVE  TypeInv'
<1>1. TypeOK
  BY DEF TypeInv
<1>2. /\ CurrentOid(t) \in Oids
      /\ object_size \in 0 .. object_size
  BY <1>1, CurrentOidType, StripingAssumption
<1> USE DEF files, locals
<1>3. CASE StatFound(t)
  BY <1>1, <1>3, GotoBuffer DEF StatFound, TypeOK, TypeInv, Goto, Labels
<1>4. CASE StatMissing(t)
  BY <1>1, <1>4, GotoBuffer DEF StatMissing, TypeOK, TypeInv, Goto, Labels
<1>5. CASE StatUnplaced(t)
  BY <1>1, <1>5, ReturnType, ReturnBuffer DEF StatUnplaced, TypeOK, TypeInv, Results
<1>6. CASE FetchLock(t)
  BY <1>1, <1>6, GotoBuffer DEF FetchLock, TypeOK, TypeInv, Goto, Labels
<1>7. CASE FetchStat(t)
  BY <1>1, <1>7, GotoBuffer DEF FetchStat, TypeOK, TypeInv, Goto, Labels
<1>8. CASE FetchCreat(t)
  <2>1. OpenEntry(t, "creat") \in Entries
    BY <1>2 DEF OpenEntry, Entries
  <2>2. fdtab' \in [Fds -> SUBSET Entries]
    BY <1>1, <1>8, <2>1 DEF FetchCreat, TypeOK
  <2> QED BY <1>1, <1>2, <1>8, <2>2, GotoBuffer
          DEF FetchCreat, TypeOK, TypeInv, Goto, Labels
<1>9. CASE FetchCreatFails(t)
  BY <1>1, <1>9, GotoBuffer DEF FetchCreatFails, TypeOK, TypeInv, Goto, Labels
<1>10. CASE FetchAlloc(t)
  BY <1>1, <1>2, <1>10, GotoBuffer DEF FetchAlloc, TypeOK, TypeInv, Goto, Labels
<1>11. CASE FetchAllocFails(t)
  BY <1>1, <1>11, GotoBuffer DEF FetchAllocFails, TypeOK, TypeInv, Goto, Labels
<1>12. CASE FetchUnlock(t)
  BY <1>1, <1>12, GotoBuffer DEF FetchUnlock, TypeOK, TypeInv, Goto, Labels
<1>13. CASE FetchUnlockFail(t)
  BY <1>1, <1>13, ReturnType, ReturnBuffer
  DEF FetchUnlockFail, TypeOK, TypeInv, Results
<1> QED BY <1>3, <1>4, <1>5, <1>6, <1>7, <1>8, <1>9, <1>10, <1>11, <1>12, <1>13

(* Opening the object file and the resets keep the types. *)
LEMMA OpenResetType ==
  ASSUME TypeInv, NEW t \in Threads,
         \/ OpenObject(t) \/ OpenObjectFails(t)
         \/ ObjReadEof(t) \/ ObjIoFails(t)
         \/ ObjReset(t) \/ OpReset(t)
         \/ NextObject(t) \/ Complete(t) \/ ResetFails(t)
  PROVE  TypeInv'
<1>1. TypeOK
  BY DEF TypeInv
<1>2. CurrentOid(t) \in Oids
  BY <1>1, CurrentOidType
<1> USE DEF files, locals
<1>3. CASE OpenObject(t)
  <2>1. OpenEntry(t, "io") \in Entries
    BY <1>2 DEF OpenEntry, Entries
  <2>2. fdtab' \in [Fds -> SUBSET Entries]
    BY <1>1, <1>3, <2>1 DEF OpenObject, TypeOK
  <2>3. file_fd' \in [Threads -> Fds \cup {0, -1}]
    BY <1>1, <1>3 DEF OpenObject, TypeOK
  <2> QED BY <1>1, <1>3, <2>2, <2>3, GotoBuffer
          DEF OpenObject, TypeOK, TypeInv, Goto, Labels
<1>4. CASE OpenObjectFails(t)
  BY <1>1, <1>4, ReturnType, ReturnBuffer
  DEF OpenObjectFails, TypeOK, TypeInv, Results
<1>5. CASE ObjReadEof(t)
  BY <1>5 DEF ObjReadEof, vars, TypeInv, TypeOK, BufferInv
<1>6. CASE ObjIoFails(t)
  BY <1>1, <1>6, GotoBuffer DEF ObjIoFails, TypeOK, TypeInv, Goto, Labels
<1>7. CASE ObjReset(t)
  <2>1. fdtab' \in [Fds -> SUBSET Entries]
    BY <1>1, <1>7, ResetCloseType DEF ObjReset
  <2>2. file_fd' \in [Threads -> Fds \cup {0, -1}]
    BY <1>1, <1>7 DEF ObjReset, ResetFd, TypeOK
  <2> QED BY <1>1, <1>7, <2>1, <2>2, GotoBuffer
          DEF ObjReset, TypeOK, TypeInv, Goto, Labels
<1>8. CASE OpReset(t)
  <2>1. fdtab' \in [Fds -> SUBSET Entries]
    BY <1>1, <1>8, ResetCloseType DEF OpReset
  <2> QED BY <1>1, <1>8, <2>1, ReturnType, ReturnBuffer
          DEF OpReset, TypeOK, TypeInv, Results
<1>9. CASE NextObject(t)
  <2>1. fdtab' \in [Fds -> SUBSET Entries]
    BY <1>1, <1>9, ResetCloseType DEF NextObject
  <2>2. file_fd' \in [Threads -> Fds \cup {0, -1}]
    BY <1>1, <1>9 DEF NextObject, ResetFd, TypeOK
  <2> QED BY <1>1, <1>9, <2>1, <2>2, GotoBuffer
          DEF NextObject, TypeOK, TypeInv, Goto, Labels
<1>10. CASE Complete(t)
  <2>1. fdtab' \in [Fds -> SUBSET Entries]
    BY <1>1, <1>10, ResetCloseType DEF Complete
  <2> QED BY <1>1, <1>10, <2>1, ReturnType, ReturnBuffer
          DEF Complete, TypeOK, TypeInv, Results
<1>11. CASE ResetFails(t)
  <2>1. fdtab' \in [Fds -> SUBSET Entries]
    BY <1>1, <1>11, ResetCloseType DEF ResetFails
  <2> QED BY <1>1, <1>11, <2>1, ReturnType, ReturnBuffer
          DEF ResetFails, TypeOK, TypeInv, Results
<1> QED BY <1>3, <1>4, <1>5, <1>6, <1>7, <1>8, <1>9, <1>10, <1>11

(* pread64 and pwrite64 keep the types: nothing outside an object moves. *)
LEMMA TransferType ==
  ASSUME TypeInv, NEW t \in Threads, NEW n \in 1 .. object_size,
         ObjRead(t, n) \/ ObjWrite(t, n)
  PROVE  TypeInv'
<1>1. TypeOK /\ BufferInv
  BY DEF TypeInv
<1>2. pc[t] = "io" /\ n \in 1 .. Left(t) /\ Advance(t, n)
  BY DEF ObjRead, ObjWrite
<1>3. /\ pc' \in [Threads -> Labels]
      /\ buf_done' \in [Threads -> Nat]
      /\ traverse_index' \in [Threads -> Nat]
      /\ osd_offset' \in [Threads -> Nat]
      /\ moved' \in [Threads -> Nat]
      /\ pc'[t] # "idle"
      /\ \A u \in Threads : u # t => pc'[u] = pc[u]
  BY <1>2, AdvanceType
<1>4. CASE ObjRead(t, n)
  <2>1. TypeOK'
    BY <1>1, <1>3, <1>4 DEF ObjRead, TypeOK, files
  <2>2. BufferInv'
    BY <1>1, <1>2, <1>3, <1>4 DEF ObjRead, TypeOK, BufferInv
  <2> QED BY <2>1, <2>2 DEF TypeInv
<1>5. CASE ObjWrite(t, n)
  <2>1. PICK e \in fdtab[file_fd[t]] :
          /\ data' = [data EXCEPT ![e.oid] =
               [i \in LocalOffsets |->
                  IF i - FileOffset(t) \in 0 .. n - 1
                  THEN buf[t][buf_done[t] + moved[t] + i - FileOffset(t)]
                  ELSE data[e.oid][i]]]
          /\ size' = [size EXCEPT ![e.oid] =
               IF FileOffset(t) + n > @ THEN FileOffset(t) + n ELSE @]
    BY <1>5 DEF ObjWrite
  <2>2. /\ req[t] \in Requests /\ req[t].buf_len \in Nat
        /\ buf[t] \in WriteBuffers(t, req[t])
    BY <1>1, <1>2, <1>5, RequestType DEF ObjWrite, BufferInv
  <2>3. /\ n \in Nat /\ FileOffset(t) \in Nat
        /\ FileOffset(t) + n <= object_size
        /\ buf_done[t] + moved[t] + n <= req[t].buf_len
    BY <1>2, LeftFacts
  <2>4. buf_done[t] \in Nat /\ moved[t] \in Nat
    BY <1>1 DEF TypeOK
  <2>5. ASSUME NEW i \in LocalOffsets, i - FileOffset(t) \in 0 .. n - 1
        PROVE  buf[t][buf_done[t] + moved[t] + i - FileOffset(t)] \in Bytes
    <3>1. buf_done[t] + moved[t] + i - FileOffset(t) \in 0 .. req[t].buf_len - 1
      <4>1. i \in Nat
        BY StripingAssumption DEF LocalOffsets
      <4> QED BY <2>2, <2>3, <2>4, <2>5, <4>1
    <3> QED BY <2>2, <3>1, BufferBytes
  <2>6. data' \in [Oids -> [LocalOffsets -> Bytes]]
    BY <1>1, <2>1, <2>5 DEF TypeOK
  <2>7. size' \in [Oids -> 0 .. object_size]
    <3>1. FileOffset(t) + n \in 0 .. object_size
      BY <2>3, StripingAssumption
    <3> QED BY <1>1, <2>1, <3>1 DEF TypeOK
  <2>8. TypeOK'
    BY <1>1, <1>3, <1>5, <2>6, <2>7 DEF ObjWrite, TypeOK
  <2>9. BufferInv'
    BY <1>1, <1>2, <1>3, <1>5 DEF ObjWrite, TypeOK, BufferInv
  <2> QED BY <2>8, <2>9 DEF TypeInv
<1> QED BY <1>4, <1>5

(* A restart keeps the types. *)
LEMMA CrashType ==
  ASSUME TypeInv, Crash
  PROVE  TypeInv'
  BY StoreAssumption
  DEF Crash, TypeInv, TypeOK, BufferInv, Labels, Results, files

(* TypeInv is inductive. *)
LEMMA TypeStep ==
  ASSUME TypeInv, [SharedNext]_vars
  PROVE  TypeInv'
<1>1. ASSUME NEW t \in Threads, Submit(t) PROVE TypeInv'
  BY <1>1, SubmitType
<1>2. ASSUME NEW t \in Threads, Step(t) PROVE TypeInv'
  BY <1>2, FetchType, OpenResetType, TransferType DEF Step
<1>3. CASE Crash
  BY <1>3, CrashType
<1>4. CASE UNCHANGED vars
  BY <1>4 DEF vars, TypeInv, TypeOK, BufferInv
<1>5. CASE OtherLuns
  BY <1>5 DEF OtherLuns, TypeInv, TypeOK, BufferInv, files, locals
<1> QED BY <1>1, <1>2, <1>3, <1>4, <1>5 DEF SharedNext, Next

(* TypeInv holds at the start. *)
LEMMA TypeInit ==
  ASSUME Init
  PROVE  TypeInv
<1>1. Zero \in Bytes
  BY DEF Bytes
<1> QED BY <1>1, StripingAssumption, StoreAssumption
        DEF Init, TypeInv, TypeOK, BufferInv, Labels, Results

(* A LUN that has the process to itself is one whose other LUNs do         *)
(* nothing: what holds beside other LUNs holds alone.                      *)
LEMMA AloneIsShared == Spec => SharedSpec
<1>1. [Next]_vars => [SharedNext]_vars
  BY DEF SharedNext
<1> QED BY <1>1, PTL DEF Spec, SharedSpec

(* Reads and writes keep the types of the whole state beside any number of *)
(* other LUNs; in particular no object file grows beyond object_size and   *)
(* only bytes of write buffers get onto the medium.                        *)
THEOREM TypeShared == SharedSpec => []TypeOK
<1>1. Init => TypeInv
  BY TypeInit
<1>2. TypeInv /\ [SharedNext]_vars => TypeInv'
  BY TypeStep
<1>3. TypeInv => TypeOK
  BY DEF TypeInv
<1> QED BY <1>1, <1>2, <1>3, PTL DEF SharedSpec

(* The same for a LUN alone in its process. *)
THEOREM TypeCorrect == Spec => []TypeOK
  BY AloneIsShared, TypeShared, PTL

-----------------------------------------------------------------------------
(* A thread's step leaves the locals of the other threads' calls alone.    *)
SameCall(u) ==
  /\ pc'[u] = pc[u] /\ req'[u] = req[u] /\ buf'[u] = buf[u]
  /\ buf_done'[u] = buf_done[u] /\ moved'[u] = moved[u]
  /\ traverse_index'[u] = traverse_index[u] /\ osd_offset'[u] = osd_offset[u]
  /\ file_fd'[u] = file_fd[u]

(* A step of one thread leaves the other threads' calls alone. *)
LEMMA OthersKeepTheirCall ==
  ASSUME TypeOK, NEW t \in Threads, Submit(t) \/ Step(t),
         NEW u \in Threads, u # t
  PROVE  SameCall(u)
<1> USE DEF TypeOK, SameCall, locals, Goto
<1>1. CASE Submit(t)
  <2>1. PICK r \in Requests :
          ReadUnformatted(t, r) \/ Reject(t, r) \/ AcceptEmpty(t, r) \/ Accept(t, r)
    BY <1>1 DEF Submit
  <2>2. CASE ReadUnformatted(t, r) \/ Reject(t, r) \/ AcceptEmpty(t, r)
    BY <2>2 DEF ReadUnformatted, Reject, AcceptEmpty, Arrive, Return
  <2>3. CASE Accept(t, r)
    BY <2>3 DEF Accept, Arrive
  <2> QED BY <2>1, <2>2, <2>3
<1>2. CASE StatFound(t) \/ StatMissing(t) \/ StatUnplaced(t)
  BY <1>2 DEF StatFound, StatMissing, StatUnplaced, Return
<1>3. CASE FetchLock(t) \/ FetchStat(t) \/ FetchCreat(t) \/ FetchCreatFails(t)
  BY <1>3 DEF FetchLock, FetchStat, FetchCreat, FetchCreatFails
<1>4. CASE FetchAlloc(t) \/ FetchAllocFails(t) \/ FetchUnlock(t) \/ FetchUnlockFail(t)
  BY <1>4 DEF FetchAlloc, FetchAllocFails, FetchUnlock, FetchUnlockFail, Return
<1>5. CASE OpenObject(t) \/ OpenObjectFails(t)
  BY <1>5 DEF OpenObject, OpenObjectFails, Return
<1>6. CASE \E n \in 1 .. object_size : ObjRead(t, n) \/ ObjWrite(t, n)
  BY <1>6 DEF ObjRead, ObjWrite, Advance
<1>7. CASE ObjReadEof(t) \/ ObjIoFails(t)
  BY <1>7 DEF ObjReadEof, ObjIoFails, vars
<1>8. CASE ObjReset(t) \/ OpReset(t)
  BY <1>8 DEF ObjReset, OpReset, Return
<1>9. CASE NextObject(t) \/ Complete(t) \/ ResetFails(t)
  BY <1>9 DEF NextObject, Complete, ResetFails, Return
<1> QED BY <1>1, <1>2, <1>3, <1>4, <1>5, <1>6, <1>7, <1>8, <1>9 DEF Step

-----------------------------------------------------------------------------
(* The fetch mutexes.                                                      *)

(* The mutex of a thread's object index exists. *)
LEMMA LockOfType ==
  ASSUME TypeOK, NEW t \in Threads
  PROVE  LockOf(t) \in Locks
  BY StoreAssumption, SMTT(30) DEF TypeOK, LockOf, Locks

(* The mutexes: a step of t outside the critical section, one inside it,   *)
(* the lock and the unlock.                                                *)
LEMMA OutsideFetch ==
  ASSUME TypeOK, LockDiscipline, NEW t \in Threads,
         \A u \in Threads : u # t => SameCall(u),
         ~InFetch(t), ~InFetch(t)', UNCHANGED fetch_locks
  PROVE  LockDiscipline'
  BY DEF TypeOK, LockDiscipline, InFetch, LockOf, SameCall

(* Steps that neither lock nor unlock keep the lock discipline. *)
LEMMA InsideFetch ==
  ASSUME TypeOK, LockDiscipline, NEW t \in Threads,
         \A u \in Threads : u # t => SameCall(u),
         InFetch(t), InFetch(t)', UNCHANGED <<fetch_locks, traverse_index>>
  PROVE  LockDiscipline'
  BY DEF TypeOK, LockDiscipline, InFetch, LockOf, SameCall

(* pthread_mutex_lock keeps it. *)
LEMMA EnterFetch ==
  ASSUME TypeOK, LockDiscipline, NEW t \in Threads,
         \A u \in Threads : u # t => SameCall(u),
         ~InFetch(t), InFetch(t)', UNCHANGED traverse_index,
         fetch_locks[LockOf(t)] = NoThread,
         fetch_locks' = [fetch_locks EXCEPT ![LockOf(t)] = t]
  PROVE  LockDiscipline'
<1> DEFINE l == LockOf(t)
<1>1. l \in Locks /\ LockOf(t)' = l
  BY LockOfType DEF LockOf
<1>2. NoThread \notin Threads
  BY StoreAssumption
<1> HIDE DEF l
<1>3. fetch_locks[l] = NoThread /\ fetch_locks' = [fetch_locks EXCEPT ![l] = t]
  BY DEF l
<1>4. ASSUME NEW u \in Threads, InFetch(u)' PROVE fetch_locks'[LockOf(u)'] = u
  BY <1>1, <1>2, <1>3, <1>4, LockOfType DEF TypeOK, LockDiscipline, InFetch, LockOf, SameCall
<1>5. ASSUME NEW k \in Locks, fetch_locks'[k] \in Threads
      PROVE  (InFetch(fetch_locks[k]) /\ LockOf(fetch_locks[k]) = k)'
  BY <1>1, <1>2, <1>3, <1>5 DEF TypeOK, LockDiscipline, InFetch, LockOf, SameCall
<1> QED BY <1>4, <1>5 DEF LockDiscipline, InFetch, LockOf

(* Both unlocks keep it. *)
LEMMA LeaveFetch ==
  ASSUME TypeOK, LockDiscipline, NEW t \in Threads,
         \A u \in Threads : u # t => SameCall(u),
         InFetch(t), ~InFetch(t)',
         fetch_locks' = [fetch_locks EXCEPT ![LockOf(t)] = NoThread]
  PROVE  LockDiscipline'
<1> DEFINE l == LockOf(t)
<1>1. l \in Locks /\ fetch_locks[l] = t
  BY LockOfType DEF LockDiscipline
<1> HIDE DEF l
<1>2. fetch_locks' = [fetch_locks EXCEPT ![l] = NoThread]
  BY DEF l
<1>3. ASSUME NEW u \in Threads, InFetch(u)' PROVE fetch_locks'[LockOf(u)'] = u
  <2>1. u # t /\ InFetch(u) /\ LockOf(u)' = LockOf(u)
    BY <1>3 DEF InFetch, SameCall, LockOf
  <2> QED BY <1>1, <1>2, <2>1, LockOfType DEF TypeOK, LockDiscipline
<1>4. ASSUME NEW k \in Locks, fetch_locks'[k] \in Threads
      PROVE  (InFetch(fetch_locks[k]) /\ LockOf(fetch_locks[k]) = k)'
  <2>1. k # l /\ fetch_locks'[k] = fetch_locks[k]
    BY <1>1, <1>2, <1>4, StoreAssumption DEF TypeOK
  <2>2. fetch_locks[k] \in Threads /\ fetch_locks[k] # t
    BY <1>1, <1>4, <2>1 DEF TypeOK, LockDiscipline, l
  <2> QED BY <1>4, <2>1, <2>2 DEF LockDiscipline, InFetch, LockOf, SameCall
<1> QED BY <1>3, <1>4 DEF LockDiscipline, InFetch, LockOf

(* LockDiscipline is inductive, given the types. *)
LEMMA LockStep ==
  ASSUME TypeInv, LockDiscipline, [SharedNext]_vars
  PROVE  LockDiscipline'
<1>1. TypeOK
  BY DEF TypeInv
<1>2. ASSUME NEW t \in Threads, Submit(t) \/ Step(t) PROVE LockDiscipline'
  <2>1. \A u \in Threads : u # t => SameCall(u)
    BY <1>1, <1>2, OthersKeepTheirCall
  <2> USE DEF InFetch, Goto, TypeOK, locals
  <2>2. CASE Submit(t)
    <3>1. pc[t] = "idle" /\ pc'[t] \in {"idle", "stat"} /\ UNCHANGED fetch_locks
      BY <1>1, <2>2
      DEF Submit, ReadUnformatted, Reject, AcceptEmpty, Accept, Arrive, Return
    <3> QED BY <1>1, <2>1, <3>1, OutsideFetch
  <2>3. CASE StatFound(t) \/ StatMissing(t) \/ StatUnplaced(t)
    <3>1. /\ pc[t] = "stat" /\ pc'[t] \in {"idle", "open", "fetch_lock"}
          /\ UNCHANGED fetch_locks
      BY <1>1, <2>3 DEF StatFound, StatMissing, StatUnplaced, Return
    <3> QED BY <1>1, <2>1, <3>1, OutsideFetch
  <2>4. CASE FetchLock(t)
    <3>1. /\ pc[t] = "fetch_lock" /\ pc'[t] = "fetch_stat"
          /\ fetch_locks[LockOf(t)] = NoThread
          /\ fetch_locks' = [fetch_locks EXCEPT ![LockOf(t)] = t]
          /\ UNCHANGED traverse_index
      BY <1>1, <2>4 DEF FetchLock
    <3> QED BY <1>1, <2>1, <3>1, EnterFetch
  <2>5. CASE \/ FetchStat(t) \/ FetchCreat(t) \/ FetchCreatFails(t)
             \/ FetchAlloc(t) \/ FetchAllocFails(t)
    <3>1. InFetch(t) /\ InFetch(t)' /\ UNCHANGED <<fetch_locks, traverse_index>>
      BY <1>1, <2>5
      DEF FetchStat, FetchCreat, FetchCreatFails, FetchAlloc, FetchAllocFails
    <3> QED BY <1>1, <2>1, <3>1, InsideFetch
  <2>6. CASE FetchUnlock(t) \/ FetchUnlockFail(t)
    <3>1. /\ InFetch(t) /\ ~InFetch(t)'
          /\ fetch_locks' = [fetch_locks EXCEPT ![LockOf(t)] = NoThread]
      BY <1>1, <2>6 DEF FetchUnlock, FetchUnlockFail, Return
    <3> QED BY <1>1, <2>1, <3>1, LeaveFetch
  <2>7. CASE OpenObject(t) \/ OpenObjectFails(t) \/ ObjIoFails(t)
    <3>1. ~InFetch(t) /\ ~InFetch(t)' /\ UNCHANGED fetch_locks
      BY <1>1, <2>7 DEF OpenObject, OpenObjectFails, ObjIoFails, Return
    <3> QED BY <1>1, <2>1, <3>1, OutsideFetch
  <2>8. CASE \E n \in 1 .. object_size : ObjRead(t, n) \/ ObjWrite(t, n)
    <3>1. ~InFetch(t) /\ ~InFetch(t)' /\ UNCHANGED fetch_locks
      BY <1>1, <2>8 DEF ObjRead, ObjWrite, Advance
    <3> QED BY <1>1, <2>1, <3>1, OutsideFetch
  <2>9. CASE ObjReadEof(t)
    BY <2>9 DEF ObjReadEof, vars, LockDiscipline, LockOf
  <2>10. CASE \/ ObjReset(t) \/ OpReset(t)
              \/ NextObject(t) \/ Complete(t) \/ ResetFails(t)
    <3>1. ~InFetch(t) /\ ~InFetch(t)' /\ UNCHANGED fetch_locks
      BY <1>1, <2>10
      DEF ObjReset, OpReset, NextObject, Complete, ResetFails, Return
    <3> QED BY <1>1, <2>1, <3>1, OutsideFetch
  <2> QED BY <1>2, <2>2, <2>3, <2>4, <2>5, <2>6, <2>7, <2>8, <2>9, <2>10 DEF Step
<1>3. CASE Crash
  BY <1>3, StoreAssumption DEF Crash, LockDiscipline, InFetch
<1>4. CASE UNCHANGED vars
  BY <1>4 DEF vars, LockDiscipline, InFetch, LockOf
<1>5. CASE OtherLuns
  <2>1. UNCHANGED <<pc, traverse_index>>
    BY <1>5 DEF OtherLuns, locals
  <2>2. ASSUME NEW l \in Locks
        PROVE  \/ fetch_locks'[l] = fetch_locks[l]
               \/ fetch_locks[l] \notin Threads /\ fetch_locks'[l] \notin Threads
    BY <1>5, StoreAssumption DEF OtherLuns
  <2>3. ASSUME NEW t \in Threads PROVE LockOf(t) \in Locks
    BY <1>1, LockOfType
  <2> QED BY <2>1, <2>2, <2>3 DEF LockDiscipline, InFetch, LockOf
<1> QED BY <1>2, <1>3, <1>4, <1>5 DEF SharedNext, Next

(* The initial state has no mutex locked. *)
LEMMA LockInit ==
  ASSUME Init
  PROVE  LockDiscipline
  BY StoreAssumption DEF Init, LockDiscipline, InFetch

(* A thread of the LUN holds a fetch mutex exactly between lock and unlock *)
(* of simpleOSD_get_object_to_dc, on every path through it, although the   *)
(* mutexes are shared with the threads of the other LUNs: creations of     *)
(* objects that share a mutex exclude each other.                          *)
THEOREM LockDisciplineShared == SharedSpec => []LockDiscipline
<1>1. Init => TypeInv /\ LockDiscipline
  BY TypeInit, LockInit
<1>2. TypeInv /\ LockDiscipline /\ [SharedNext]_vars => TypeInv' /\ LockDiscipline'
  BY TypeStep, LockStep
<1> QED BY <1>1, <1>2, PTL DEF SharedSpec

(* The same for a LUN alone in its process. *)
THEOREM LockDisciplineAlways == Spec => []LockDiscipline
  BY AloneIsShared, LockDisciplineShared, PTL

-----------------------------------------------------------------------------
(* The descriptors.                                                        *)

(* FdAccounting speaks of one thread and of one descriptor at a time. *)
ThreadFd(t) ==
  IF OwnsFd(t)
  THEN /\ file_fd[t] \in Fds
       /\ fdtab[file_fd[t]] = {[thread |-> t, oid |-> OpenOid(t), use |-> "io"]}
  ELSE file_fd[t] \in {0, -1}

FdHolder(fd) ==
  \A e \in fdtab[fd] :
    e.thread \in Threads /\ e.use = "io" /\ fd > RESERVED_FDS =>
      OwnsFd(e.thread) /\ file_fd[e.thread] = fd

(* FdAccounting, one part for each thread and one for each descriptor. *)
LEMMA FdAccountingParts ==
  FdAccounting <=> /\ \A t \in Threads : ThreadFd(t)
                   /\ \A fd \in Fds : FdHolder(fd)
  BY DEF FdAccounting, ThreadFd, FdHolder

(* Two threads that have objects open have different descriptors. *)
LEMMA FdsDiffer ==
  ASSUME FdAccounting, NEW t \in Threads, NEW u \in Threads, t # u,
         OwnsFd(t), OwnsFd(u)
  PROVE  file_fd[t] # file_fd[u]
<1>1. /\ fdtab[file_fd[t]] = {[thread |-> t, oid |-> OpenOid(t), use |-> "io"]}
      /\ fdtab[file_fd[u]] = {[thread |-> u, oid |-> OpenOid(u), use |-> "io"]}
  BY DEF FdAccounting
<1>2. SUFFICES ASSUME file_fd[t] = file_fd[u] PROVE FALSE
  OBVIOUS
<1>3. [thread |-> t, oid |-> OpenOid(t), use |-> "io"] =
      [thread |-> u, oid |-> OpenOid(u), use |-> "io"]
  BY <1>1, <1>2
<1> QED BY <1>3

(* A descriptor a thread owns is open and not free to hand out. *)
LEMMA OwnedIsOpen ==
  ASSUME FdAccounting, NEW t \in Threads, OwnsFd(t)
  PROVE  fdtab[file_fd[t]] # {}
<1>1. fdtab[file_fd[t]] = {[thread |-> t, oid |-> OpenOid(t), use |-> "io"]}
  BY DEF FdAccounting
<1> QED BY <1>1

(* A step that leaves the table alone, and the owner's descriptor. *)
LEMMA KeepTable ==
  ASSUME TypeOK, FdAccounting, NEW t \in Threads,
         \A u \in Threads : u # t => SameCall(u),
         UNCHANGED fdtab,
         OwnsFd(t) <=> OwnsFd(t)', OwnsFd(t) => OpenOid(t)' = OpenOid(t),
         file_fd'[t] = file_fd[t] \/ (~OwnsFd(t)' /\ file_fd'[t] \in {0, -1})
  PROVE  FdAccounting'
<1>1. ASSUME NEW u \in Threads PROVE ThreadFd(u)'
  BY DEF FdAccounting, ThreadFd, OwnsFd, OpenOid, CurrentOid, SameCall
<1>2. ASSUME NEW fd \in Fds PROVE FdHolder(fd)'
  BY DEF TypeOK, Entries, FdAccounting, FdHolder, OwnsFd, SameCall
<1> QED BY <1>1, <1>2 DEF FdAccounting, ThreadFd, FdHolder

(* A descriptor nobody has is opened: to create an object, ... *)
LEMMA OpenForCreat ==
  ASSUME TypeOK, FdAccounting, NEW t \in Threads, NEW fd \in Fds,
         \A u \in Threads : SameCall(u) \/ (u = t /\ file_fd'[t] = file_fd[t]),
         ~OwnsFd(t), ~OwnsFd(t)', fdtab[fd] = {},
         fdtab' = [fdtab EXCEPT ![fd] = {OpenEntry(t, "creat")}]
  PROVE  FdAccounting'
<1>1. ASSUME NEW u \in Threads PROVE ThreadFd(u)'
  <2>1. OwnsFd(u)' <=> OwnsFd(u)
    BY DEF OwnsFd, SameCall
  <2>2. CASE ~OwnsFd(u)
    BY <2>1, <2>2 DEF FdAccounting, ThreadFd, SameCall
  <2>3. CASE OwnsFd(u)
    <3>1. u # t /\ SameCall(u)
      BY <2>3
    <3>2. file_fd[u] # fd
      BY <2>3, OwnedIsOpen
    <3> QED BY <2>1, <2>3, <3>1, <3>2
            DEF TypeOK, FdAccounting, ThreadFd, SameCall, OwnsFd, OpenOid, CurrentOid
  <2> QED BY <2>2, <2>3
<1>2. ASSUME NEW g \in Fds PROVE FdHolder(g)'
  <2>1. CASE g = fd
    BY <2>1 DEF TypeOK, FdHolder, OpenEntry
  <2>2. CASE g # fd
    <3>1. fdtab'[g] = fdtab[g]
      BY <2>2 DEF TypeOK
    <3>2. ASSUME NEW e \in fdtab[g], e.thread \in Threads, e.use = "io", g > RESERVED_FDS
          PROVE  OwnsFd(e.thread)' /\ file_fd'[e.thread] = g
      <4>1. e.thread \in Threads /\ OwnsFd(e.thread) /\ file_fd[e.thread] = g
        BY <3>2 DEF TypeOK, Entries, FdAccounting
      <4> QED BY <4>1 DEF SameCall, OwnsFd
    <3> QED BY <3>1, <3>2 DEF FdHolder, OwnsFd
  <2> QED BY <2>1, <2>2
<1> QED BY <1>1, <1>2 DEF FdAccounting, ThreadFd, FdHolder

(* ... or to read and write one. *)
LEMMA OpenForIo ==
  ASSUME TypeOK, FdAccounting, NEW t \in Threads, NEW fd \in Fds,
         \A u \in Threads : u # t => SameCall(u),
         ~OwnsFd(t), pc'[t] = "io", traverse_index'[t] = traverse_index[t],
         fdtab[fd] = {},
         fdtab' = [fdtab EXCEPT ![fd] = {OpenEntry(t, "io")}],
         file_fd' = [file_fd EXCEPT ![t] = fd]
  PROVE  FdAccounting'
<1>1. ASSUME NEW u \in Threads PROVE ThreadFd(u)'
  <2>1. CASE u = t
    BY <2>1
    DEF TypeOK, ThreadFd, OwnsFd, OpenOid, CurrentOid, OpenEntry
  <2>2. CASE u # t /\ ~OwnsFd(u)
    BY <2>2 DEF FdAccounting, ThreadFd, SameCall, OwnsFd
  <2>3. CASE u # t /\ OwnsFd(u)
    <3>1. file_fd[u] # fd
      BY <2>3, OwnedIsOpen
    <3> QED BY <2>3, <3>1
            DEF TypeOK, FdAccounting, ThreadFd, SameCall, OwnsFd, OpenOid, CurrentOid
  <2> QED BY <2>1, <2>2, <2>3
<1>2. ASSUME NEW g \in Fds PROVE FdHolder(g)'
  <2>1. CASE g = fd
    BY <2>1 DEF TypeOK, FdHolder, OpenEntry, OwnsFd
  <2>2. CASE g # fd
    <3>1. fdtab'[g] = fdtab[g]
      BY <2>2 DEF TypeOK
    <3>2. ASSUME NEW e \in fdtab[g], e.thread \in Threads, e.use = "io", g > RESERVED_FDS
          PROVE  OwnsFd(e.thread)' /\ file_fd'[e.thread] = g
      <4>1. e.thread \in Threads /\ OwnsFd(e.thread) /\ file_fd[e.thread] = g
        BY <3>2 DEF TypeOK, Entries, FdAccounting
      <4> QED BY <4>1 DEF SameCall, OwnsFd
    <3> QED BY <3>1, <3>2 DEF FdHolder, OwnsFd
  <2> QED BY <2>1, <2>2
<1> QED BY <1>1, <1>2 DEF FdAccounting, ThreadFd, FdHolder

(* A thread gives its descriptor up: osd_reset_cache_object closes it, or  *)
(* leaves it open if it is a reserved one.                                 *)
LEMMA CloseOwn ==
  ASSUME TypeOK, FdAccounting, NEW t \in Threads, NEW ok \in BOOLEAN,
         \A u \in Threads : u # t => SameCall(u),
         OwnsFd(t), ~OwnsFd(t)', file_fd'[t] \in {0, -1}, ResetClose(t, ok)
  PROVE  FdAccounting'
<1>1. file_fd[t] \in Fds
  BY DEF FdAccounting
<1>2. \A g \in Fds : g # file_fd[t] => fdtab'[g] = fdtab[g]
  BY DEF TypeOK, ResetClose
<1>3. \/ fdtab'[file_fd[t]] = {}
      \/ ~(file_fd[t] > RESERVED_FDS)
  BY <1>1 DEF TypeOK, ResetClose
<1>4. ASSUME NEW u \in Threads PROVE ThreadFd(u)'
  <2>1. CASE u = t
    BY <2>1 DEF ThreadFd
  <2>2. CASE u # t /\ ~OwnsFd(u)
    BY <2>2 DEF FdAccounting, ThreadFd, SameCall, OwnsFd
  <2>3. CASE u # t /\ OwnsFd(u)
    <3>1. file_fd[u] # file_fd[t]
      BY <2>3, FdsDiffer
    <3> QED BY <1>2, <2>3, <3>1
            DEF FdAccounting, ThreadFd, SameCall, OwnsFd, OpenOid, CurrentOid
  <2> QED BY <2>1, <2>2, <2>3
<1>5. ASSUME NEW g \in Fds PROVE FdHolder(g)'
  <2>1. CASE g = file_fd[t]
    BY <1>3, <2>1 DEF FdHolder
  <2>2. CASE g # file_fd[t]
    <3>1. ASSUME NEW e \in fdtab[g], e.thread \in Threads, e.use = "io", g > RESERVED_FDS
          PROVE  OwnsFd(e.thread)' /\ file_fd'[e.thread] = g
      <4>1. /\ e.thread \in Threads /\ OwnsFd(e.thread)
            /\ file_fd[e.thread] = g /\ e.thread # t
        BY <2>2, <3>1 DEF TypeOK, Entries, FdAccounting
      <4> QED BY <4>1 DEF SameCall, OwnsFd
    <3> QED BY <1>2, <2>2, <3>1 DEF FdHolder, OwnsFd
  <2> QED BY <2>1, <2>2
<1> QED BY <1>4, <1>5 DEF FdAccounting, ThreadFd, FdHolder

(* FdAccounting is inductive, given the types. *)
LEMMA FdStep ==
  ASSUME TypeInv, FdAccounting, [SharedNext]_vars
  PROVE  FdAccounting'
<1>1. TypeOK
  BY DEF TypeInv
<1>2. ASSUME NEW t \in Threads, Submit(t) \/ Step(t) PROVE FdAccounting'
  <2>1. \A u \in Threads : u # t => SameCall(u)
    BY <1>1, <1>2, OthersKeepTheirCall
  <2> USE DEF OwnsFd, Goto, TypeOK, locals
  <2>2. CASE Submit(t)
    <3>1. /\ ~OwnsFd(t) /\ ~OwnsFd(t)' /\ UNCHANGED fdtab
          /\ file_fd'[t] = file_fd[t] \/ file_fd'[t] = 0
      BY <1>1, <2>2
      DEF Submit, ReadUnformatted, Reject, AcceptEmpty, Accept, Arrive, Return
    <3> QED BY <1>1, <2>1, <3>1, KeepTable
  <2>3. CASE \/ StatFound(t) \/ StatMissing(t)
             \/ FetchLock(t) \/ FetchStat(t) \/ FetchCreatFails(t)
             \/ FetchAlloc(t) \/ FetchAllocFails(t) \/ FetchUnlock(t)
    <3>1. /\ ~OwnsFd(t) /\ ~OwnsFd(t)' /\ UNCHANGED fdtab
          /\ file_fd'[t] = file_fd[t]
      BY <1>1, <2>3
      DEF StatFound, StatMissing, FetchLock, FetchStat, FetchCreatFails,
          FetchAlloc, FetchAllocFails, FetchUnlock
    <3> QED BY <1>1, <2>1, <3>1, KeepTable
  <2>4. CASE StatUnplaced(t) \/ FetchUnlockFail(t) \/ OpenObjectFails(t)
    <3>1. /\ ~OwnsFd(t) /\ ~OwnsFd(t)' /\ UNCHANGED fdtab
          /\ file_fd'[t] = 0
      BY <1>1, <2>4 DEF StatUnplaced, FetchUnlockFail, OpenObjectFails, Return
    <3> QED BY <1>1, <2>1, <3>1, KeepTable
  <2>5. CASE FetchCreat(t)
    <3>1. PICK fd \in Fds :
            /\ fdtab[fd] = {}
            /\ fdtab' = [fdtab EXCEPT ![fd] = {OpenEntry(t, "creat")}]
      BY <2>5 DEF FetchCreat, LowestFree
    <3>2. ~OwnsFd(t) /\ ~OwnsFd(t)' /\ file_fd'[t] = file_fd[t]
      BY <1>1, <2>5 DEF FetchCreat
    <3> QED BY <1>1, <2>1, <3>1, <3>2, OpenForCreat
  <2>6. CASE OpenObject(t)
    <3>1. PICK fd \in Fds :
            /\ fdtab[fd] = {}
            /\ fdtab' = [fdtab EXCEPT ![fd] = {OpenEntry(t, "io")}]
            /\ file_fd' = [file_fd EXCEPT ![t] = fd]
      BY <2>6 DEF OpenObject, LowestFree
    <3>2. ~OwnsFd(t) /\ pc'[t] = "io" /\ traverse_index'[t] = traverse_index[t]
      BY <1>1, <2>6 DEF OpenObject
    <3> QED BY <1>1, <2>1, <3>1, <3>2, OpenForIo
  <2>7. CASE \E n \in 1 .. object_size : ObjRead(t, n) \/ ObjWrite(t, n)
    <3>1. /\ pc[t] = "io" /\ UNCHANGED <<fdtab, file_fd>>
          /\ \/ pc'[t] = "io" /\ traverse_index'[t] = traverse_index[t]
             \/ pc'[t] = "reset" /\ traverse_index'[t] = traverse_index[t] + 1
      BY <1>1, <2>7 DEF ObjRead, ObjWrite, Advance
    <3>2. OpenOid(t)' = OpenOid(t)
      BY <1>1, <3>1 DEF OpenOid, CurrentOid
    <3> QED BY <1>1, <2>1, <3>1, <3>2, KeepTable
  <2>8. CASE ObjReadEof(t)
    BY <2>8 DEF ObjReadEof, vars, FdAccounting, OpenOid, CurrentOid
  <2>9. CASE ObjIoFails(t)
    <3>1. /\ OwnsFd(t) /\ OwnsFd(t)' /\ UNCHANGED <<fdtab, file_fd>>
          /\ OpenOid(t)' = OpenOid(t)
      BY <1>1, <2>9 DEF ObjIoFails, OpenOid, CurrentOid
    <3> QED BY <1>1, <2>1, <3>1, KeepTable
  <2>10. CASE ObjReset(t) \/ NextObject(t) \/ Complete(t) \/ ResetFails(t)
    <3>1. /\ OwnsFd(t) /\ ~OwnsFd(t)' /\ file_fd'[t] \in {0, -1}
          /\ \E ok \in BOOLEAN : ResetClose(t, ok)
      BY <1>1, <2>10 DEF ObjReset, NextObject, Complete, ResetFails, ResetFd, Return
    <3> QED BY <1>1, <2>1, <3>1, CloseOwn
  <2>11. CASE OpReset(t)
    <3>1. ~OwnsFd(t) /\ ~OwnsFd(t)' /\ file_fd'[t] = 0
      BY <1>1, <2>11 DEF OpReset, Return
    <3>2. file_fd[t] \in {0, -1}
      BY <3>1 DEF FdAccounting
    <3>3. UNCHANGED fdtab
      BY <2>11, <3>2 DEF OpReset, ResetClose, RESERVED_FDS
    <3> QED BY <1>1, <2>1, <3>1, <3>3, KeepTable
  <2> QED BY <1>2, <2>2, <2>3, <2>4, <2>5, <2>6, <2>7, <2>8, <2>9, <2>10, <2>11
          DEF Step
<1>3. CASE Crash
  BY <1>3 DEF Crash, FdAccounting, OwnsFd
<1>4. CASE UNCHANGED vars
  BY <1>4 DEF vars, FdAccounting, OwnsFd, OpenOid, CurrentOid
<1>5. CASE OtherLuns
  <2>1. UNCHANGED <<pc, traverse_index, file_fd>>
    BY <1>5 DEF OtherLuns, locals
  <2>2. ASSUME NEW fd \in Fds
        PROVE  \/ fdtab'[fd] = fdtab[fd]
               \/ \A e \in fdtab[fd] \cup fdtab'[fd] : e.thread \notin Threads
    BY <1>5, StoreAssumption DEF OtherLuns
  <2>3. ASSUME NEW t \in Threads PROVE ThreadFd(t)'
    <3>1. CASE ~OwnsFd(t)
      BY <2>1, <3>1 DEF FdAccounting, ThreadFd, OwnsFd
    <3>2. CASE OwnsFd(t)
      <4> DEFINE own == [thread |-> t, oid |-> OpenOid(t), use |-> "io"]
      <4>1. file_fd[t] \in Fds /\ fdtab[file_fd[t]] = {own}
        BY <3>2 DEF FdAccounting
      <4>2. own \in fdtab[file_fd[t]] /\ own.thread \in Threads
        BY <4>1
      <4>3. fdtab'[file_fd[t]] = {own}
        BY <2>2, <4>1, <4>2
      <4> QED BY <2>1, <3>2, <4>1, <4>3 DEF ThreadFd, OwnsFd, OpenOid, CurrentOid
    <3> QED BY <3>1, <3>2
  <2>4. ASSUME NEW fd \in Fds PROVE FdHolder(fd)'
    BY <2>1, <2>2 DEF FdAccounting, FdHolder, OwnsFd
  <2> QED BY <2>3, <2>4 DEF FdAccounting, ThreadFd, FdHolder
<1> QED BY <1>2, <1>3, <1>4, <1>5 DEF SharedNext, Next

(* No thread ever transfers through or closes a descriptor that is not the *)
(* one it opened on its own object, and none but a reserved one is left    *)
(* open behind a finished transfer, whatever system calls fail and         *)
(* whichever descriptors the other LUNs of the process take and give back. *)
THEOREM FdAccountingShared == SharedSpec => []FdAccounting
<1>1. Init => TypeInv /\ FdAccounting
  BY TypeInit DEF Init, FdAccounting, OwnsFd
<1>2. TypeInv /\ FdAccounting /\ [SharedNext]_vars => TypeInv' /\ FdAccounting'
  BY TypeStep, FdStep
<1> QED BY <1>1, <1>2, PTL DEF SharedSpec

(* The same for a LUN alone in its process. *)
THEOREM FdAccountingAlways == Spec => []FdAccounting
  BY AloneIsShared, FdAccountingShared, PTL

-----------------------------------------------------------------------------
(***************************************************************************)
(* The loop of osd_op_read/osd_op_write is always at the object and the    *)
(* offset of the next byte of the request.                                 *)
(***************************************************************************)
(* The next byte of an accepted request: its object is one of the          *)
(* collection's, and at least one byte of the request is in it.            *)
LEMMA CursorAt ==
  ASSUME NEW o \in Nat, NEW len \in Nat, SpanAccepted(o, len),
         NEW d \in Nat, d < len
  PROVE  /\ ObjectIndex(o + d) \in Indexes
         /\ LocalOffset(o + d) \in LocalOffsets
         /\ ChunkLen(len, d, LocalOffset(o + d)) \in 1 .. len - d
<1>1. o + len <= Capacity
  BY AcceptedSpanFits
<1>2. Capacity \in Nat /\ object_size \in Nat
  BY StripingAssumption DEF Capacity
<1>3. OffsetInRange(o + d) /\ o + d \in Nat
  BY <1>1, <1>2 DEF OffsetInRange
<1>4. ObjectIndex(o + d) \in Indexes /\ LocalOffset(o + d) \in LocalOffsets
  BY <1>3, OffsetInObject
<1> DEFINE off == LocalOffset(o + d)
           c == ChunkLen(len, d, off)
<1>5. off \in Nat /\ off < object_size
  BY <1>2, <1>4 DEF LocalOffsets
<1> HIDE DEF off
<1>6. /\ c \in Int
      /\ c <= len - d
      /\ c = len - d \/ c = object_size - off
  BY <1>5, ChunkFacts
<1> HIDE DEF c
<1>7. c \in 1 .. len - d
  BY <1>2, <1>5, <1>6
<1> QED BY <1>4, <1>7 DEF off, c

(* Past a chunk that is not the last one the next byte is the first of the *)
(* next object.                                                            *)
LEMMA NextCursor ==
  ASSUME NEW o \in Nat, NEW len \in Nat, SpanAccepted(o, len),
         NEW d \in Nat, d < len,
         NEW c, c = ChunkLen(len, d, LocalOffset(o + d)), d + c < len
  PROVE  /\ ObjectIndex(o + d + c) = ObjectIndex(o + d) + 1
         /\ LocalOffset(o + d + c) = 0
<1> DEFINE q == ObjectIndex(o + d)
           off == LocalOffset(o + d)
<1>1. /\ q \in Nat /\ off \in LocalOffsets
      /\ o + d = object_size * q + off
  BY OffsetFacts
<1>2. object_size \in Nat \ {0}
  BY StripingAssumption
<1>3. off \in Nat
  BY <1>1 DEF LocalOffsets
<1>4. /\ c \in Int
      /\ c = len - d \/ c = object_size - off
  BY <1>3, ChunkFacts
<1> HIDE DEF q, off
<1>5. c = object_size - off
  BY <1>4
<1>6. object_size * q \in Nat
  BY <1>1, <1>2
<1>7. o + d + c = object_size * q + object_size
  BY <1>1, <1>2, <1>3, <1>5, <1>6
<1>8. object_size * (q + 1) + 0 = object_size * q + object_size
  BY <1>1, <1>2, SMTT(30)
<1>9. q + 1 \in Nat /\ 0 \in LocalOffsets
  BY <1>1, <1>2 DEF LocalOffsets
<1>10. o + d + c = object_size * (q + 1) + 0
  BY <1>7, <1>8
<1>11. /\ ObjectIndex(object_size * (q + 1) + 0) = q + 1
       /\ LocalOffset(object_size * (q + 1) + 0) = 0
  BY <1>9, OffsetUnique
<1> QED BY <1>10, <1>11 DEF q

(* CursorInv speaks of one thread at a time. *)
Cursor(t) ==
  /\ req[t].op \in {"read", "write"}
  /\ SpanAccepted(req[t].offset, req[t].buf_len)
  /\ buf_done[t] <= req[t].buf_len
  /\ pc[t] # "reset" => buf_done[t] < req[t].buf_len
  /\ buf_done[t] < req[t].buf_len =>
       /\ traverse_index[t] = ObjectIndex(req[t].offset + buf_done[t])
       /\ osd_offset[t] = LocalOffset(req[t].offset + buf_done[t])
       /\ traverse_index[t] \in Indexes
       /\ moved[t] < LocalBufLen(t)
       /\ FileOffset(t) < object_size
  /\ moved[t] # 0 => pc[t] \in {"io", "obj_reset", "op_reset"}

(* CursorInv is the cursor of every thread that is in a call. *)
LEMMA CursorParts ==
  CursorInv <=> \A t \in Threads : pc[t] # "idle" => Cursor(t)
  BY DEF CursorInv, Cursor

(* A thread whose call is left alone keeps its cursor. *)
LEMMA SameCursor ==
  ASSUME NEW u \in Threads, Cursor(u), SameCall(u)
  PROVE  Cursor(u)'
  BY DEF Cursor, SameCall, LocalBufLen, FileOffset

(* So does one that only goes on to another call of the kernel. *)
LEMMA StepCursor ==
  ASSUME TypeInv, NEW t \in Threads, Cursor(t),
         UNCHANGED <<req, buf_done, traverse_index, osd_offset, moved>>,
         \/ pc'[t] = pc[t]
         \/ /\ pc[t] # "reset" /\ pc'[t] # "reset"
            /\ pc'[t] \in {"io", "obj_reset", "op_reset"} \/ pc[t] \notin {"io", "obj_reset", "op_reset"}
         \/ pc[t] = "reset" /\ pc'[t] = "stat" /\ buf_done[t] # req[t].buf_len
  PROVE  Cursor(t)'
<1>1. (req[t].buf_len \in Nat /\ buf_done[t] \in Nat) \/ pc[t] = "idle"
  BY RequestType DEF TypeInv, TypeOK, BufferInv
<1> QED BY <1>1 DEF Cursor, LocalBufLen, FileOffset

(* osd_op_read/osd_op_write start at the first byte of the request. *)
LEMMA AcceptCursor ==
  ASSUME TypeInv, NEW t \in Threads, NEW r \in Requests, Accept(t, r)
  PROVE  Cursor(t)'
<1>1. /\ r.op \in {"read", "write"} /\ r.offset \in Nat /\ r.buf_len \in Nat
      /\ r.buf_len # 0 /\ SpanAccepted(r.offset, r.buf_len)
  BY RequestType DEF Accept
<1>2. /\ req'[t] = r /\ pc'[t] = "stat" /\ buf_done'[t] = 0 /\ moved'[t] = 0
      /\ traverse_index'[t] = ObjectIndex(r.offset)
      /\ osd_offset'[t] = LocalOffset(r.offset)
  BY DEF TypeInv, TypeOK, Accept, Arrive, Goto
<1>3. /\ ObjectIndex(r.offset + 0) \in Indexes
      /\ LocalOffset(r.offset + 0) \in LocalOffsets
      /\ ChunkLen(r.buf_len, 0, LocalOffset(r.offset + 0)) \in 1 .. r.buf_len - 0
  BY <1>1, CursorAt
<1>4. r.offset + 0 = r.offset
  BY <1>1
<1>5. object_size \in Nat
  BY StripingAssumption
<1> QED BY <1>1, <1>2, <1>3, <1>4, <1>5
        DEF Cursor, LocalBufLen, FileOffset, LocalOffsets

(* A transfer moves the cursor inside the object, or to the next one. *)
LEMMA AdvanceCursor ==
  ASSUME TypeInv, NEW t \in Threads, pc[t] = "io", Cursor(t),
         NEW n \in 1 .. Left(t), Advance(t, n), req' = req
  PROVE  Cursor(t)'
<1> DEFINE o == req[t].offset
           len == req[t].buf_len
           d == buf_done[t]
           c == LocalBufLen(t)
<1>1. /\ o \in Nat /\ len \in Nat /\ d \in Nat /\ moved[t] \in Nat
      /\ osd_offset[t] \in Nat
  BY RequestType DEF TypeInv, TypeOK, BufferInv
<1>2. /\ d < len /\ SpanAccepted(o, len)
      /\ osd_offset[t] = LocalOffset(o + d)
      /\ traverse_index[t] = ObjectIndex(o + d)
  BY DEF Cursor
<1>3. c = ChunkLen(len, d, LocalOffset(o + d)) /\ c \in 1 .. len - d
  BY <1>1, <1>2, CursorAt DEF LocalBufLen
<1>4. /\ n \in Nat \ {0} /\ FileOffset(t) \in Nat
      /\ FileOffset(t) + n <= object_size
      /\ Left(t) \in Nat
  BY LeftFacts
<1>5. object_size \in Nat \ {0}
  BY StripingAssumption
<1>6. CASE n = Left(t)
  <2>1. /\ pc'[t] = "reset" /\ moved'[t] = 0 /\ osd_offset'[t] = 0
        /\ buf_done'[t] = d + c
        /\ traverse_index'[t] = ObjectIndex(o + d) + 1
        /\ req'[t] = req[t]
    BY <1>2, <1>6 DEF Advance, TypeInv, TypeOK, Goto
  <2>2. d + c \in Nat /\ d + c <= len /\ o + d + c = o + (d + c)
    BY <1>1, <1>3
  <2>3. ASSUME d + c < len
        PROVE  /\ ObjectIndex(o + (d + c)) = ObjectIndex(o + d) + 1
               /\ LocalOffset(o + (d + c)) = 0
               /\ ObjectIndex(o + (d + c)) \in Indexes
               /\ ChunkLen(len, d + c, 0) \in 1 .. len - (d + c)
    <3> HIDE DEF o, len, d, c
    <3>1. /\ ObjectIndex(o + d + c) = ObjectIndex(o + d) + 1
          /\ LocalOffset(o + d + c) = 0
      BY <1>1, <1>2, <1>3, <2>3, NextCursor
    <3>2. /\ ObjectIndex(o + (d + c)) \in Indexes
          /\ ChunkLen(len, d + c, LocalOffset(o + (d + c))) \in 1 .. len - (d + c)
      BY <1>1, <1>2, <2>2, <2>3, CursorAt
    <3> QED BY <2>2, <3>1, <3>2
  <2>4. req[t].op \in {"read", "write"}
    BY DEF Cursor
  <2> QED BY <1>1, <1>2, <1>5, <2>1, <2>2, <2>3, <2>4
          DEF Cursor, LocalBufLen, FileOffset
<1>7. CASE n # Left(t)
  <2>1. /\ pc'[t] = "io" /\ moved'[t] = moved[t] + n
        /\ UNCHANGED <<buf_done, traverse_index, osd_offset>>
        /\ req'[t] = req[t]
    BY <1>7 DEF Advance, TypeInv, TypeOK
  <2>2. moved[t] + n < c
    <3>1. n < Left(t)
      BY <1>4, <1>7
    <3>2. Left(t) = c - moved[t]
      BY DEF Left
    <3> HIDE DEF c
    <3> QED BY <1>1, <1>3, <1>4, <3>1, <3>2
  <2>3. osd_offset[t] + (moved[t] + n) < object_size
    <3>1. c <= object_size - osd_offset[t]
      BY <1>1, ChunkFacts DEF LocalBufLen
    <3> QED BY <1>1, <1>3, <1>4, <1>5, <2>2, <3>1
  <2> QED BY <1>1, <1>2, <2>1, <2>2, <2>3
          DEF Cursor, LocalBufLen, FileOffset
<1> QED BY <1>6, <1>7

(* Every step of a thread that stays in its call keeps its cursor. *)
LEMMA OwnCursor ==
  ASSUME TypeInv, CursorInv, NEW t \in Threads, Submit(t) \/ Step(t),
         pc'[t] # "idle"
  PROVE  Cursor(t)'
<1> USE DEF Goto, locals
<1>1. TypeOK
  BY DEF TypeInv
<1>2. pc[t] # "idle" => Cursor(t)
  BY CursorParts
<1>3. CASE Submit(t)
  <2>1. PICK r \in Requests :
          ReadUnformatted(t, r) \/ Reject(t, r) \/ AcceptEmpty(t, r) \/ Accept(t, r)
    BY <1>3 DEF Submit
  <2>2. Accept(t, r)
    BY <1>1, <2>1, ReturnIdle DEF ReadUnformatted, Reject, AcceptEmpty, Results
  <2> QED BY <2>2, AcceptCursor
<1>4. CASE StatFound(t) \/ StatMissing(t) \/ StatUnplaced(t)
  BY <1>1, <1>2, <1>4, StepCursor, ReturnIdle
     DEF StatFound, StatMissing, StatUnplaced, TypeOK
<1>5. CASE FetchLock(t) \/ FetchStat(t) \/ FetchCreat(t) \/ FetchCreatFails(t)
  BY <1>1, <1>2, <1>5, StepCursor
     DEF FetchLock, FetchStat, FetchCreat, FetchCreatFails, TypeOK
<1>6. CASE FetchAlloc(t) \/ FetchAllocFails(t) \/ FetchUnlock(t) \/ FetchUnlockFail(t)
  BY <1>1, <1>2, <1>6, StepCursor, ReturnIdle
     DEF FetchAlloc, FetchAllocFails, FetchUnlock, FetchUnlockFail, TypeOK
<1>7. CASE OpenObject(t) \/ OpenObjectFails(t)
  BY <1>1, <1>2, <1>7, StepCursor, ReturnIdle DEF OpenObject, OpenObjectFails, TypeOK
<1>8. CASE \E n \in 1 .. object_size : ObjRead(t, n) \/ ObjWrite(t, n)
  BY <1>2, <1>8, AdvanceCursor DEF ObjRead, ObjWrite
<1>9. CASE ObjReadEof(t) \/ ObjIoFails(t)
  <2>1. CASE ObjReadEof(t)
    BY <1>2, <2>1, StepCursor DEF ObjReadEof, vars
  <2>2. CASE ObjIoFails(t)
    BY <1>1, <1>2, <2>2, StepCursor DEF ObjIoFails, TypeOK
  <2> QED BY <1>9, <2>1, <2>2
<1>10. CASE ObjReset(t) \/ OpReset(t)
  BY <1>1, <1>2, <1>10, StepCursor, ReturnIdle DEF ObjReset, OpReset, TypeOK
<1>11. CASE NextObject(t) \/ Complete(t) \/ ResetFails(t)
  BY <1>1, <1>2, <1>11, StepCursor, ReturnIdle
     DEF NextObject, Complete, ResetFails, TypeOK
<1> QED BY <1>3, <1>4, <1>5, <1>6, <1>7, <1>8, <1>9, <1>10, <1>11 DEF Step

(* CursorInv is inductive, given the types. *)
LEMMA CursorStep ==
  ASSUME TypeInv, CursorInv, [SharedNext]_vars
  PROVE  CursorInv'
<1>1. CASE UNCHANGED vars
  BY <1>1 DEF vars, CursorInv, LocalBufLen, FileOffset
<1>2. CASE Crash
  BY <1>2 DEF Crash, CursorInv
<1>3. ASSUME NEW t \in Threads, Submit(t) \/ Step(t)
      PROVE  CursorInv'
  <2>1. TypeOK
    BY DEF TypeInv
  <2>2. pc'[t] # "idle" => Cursor(t)'
    BY <1>3, OwnCursor
  <2>3. ASSUME NEW u \in Threads, u # t, pc'[u] # "idle"
        PROVE  Cursor(u)'
    <3>1. SameCall(u)
      BY <1>3, <2>1, <2>3, OthersKeepTheirCall
    <3>2. pc[u] # "idle"
      BY <2>3, <3>1 DEF SameCall
    <3> QED BY <3>1, <3>2, CursorParts, SameCursor
  <2>4. \A u \in Threads : pc'[u] # "idle" => Cursor(u)'
    BY <2>2, <2>3
  <2> QED BY <2>4 DEF CursorInv, Cursor
<1>4. CASE OtherLuns
  BY <1>4 DEF OtherLuns, locals, CursorInv, LocalBufLen, FileOffset
<1> QED BY <1>1, <1>2, <1>3, <1>4 DEF SharedNext, Next

(* The loop of osd_op_read/osd_op_write never loses its place: while bytes *)
(* are left the object and the offset in it are those of the next byte of  *)
(* the request, through short transfers, boundaries and failed calls, and  *)
(* beside any other LUNs.                                                  *)
THEOREM CursorShared == SharedSpec => []CursorInv
<1>1. Init => TypeInv /\ CursorInv
  BY TypeInit DEF Init, CursorInv
<1>2. TypeInv /\ CursorInv /\ [SharedNext]_vars => TypeInv' /\ CursorInv'
  BY TypeStep, CursorStep
<1> QED BY <1>1, <1>2, PTL DEF SharedSpec

(* The same for a LUN alone in its process. *)
THEOREM CursorAlways == Spec => []CursorInv
  BY AloneIsShared, CursorShared, PTL

-----------------------------------------------------------------------------
(***************************************************************************)
(* The object store implements the flat device of BlockDevice, a crash     *)
(* between any two steps included.                                         *)
(***************************************************************************)
(* The state the refinement needs: the loops are at the byte they mean and *)
(* the descriptors are of the objects they mean.                           *)
StoreInv == TypeInv /\ CursorInv /\ FdAccounting

(* The variables of the device, as Device maps them. *)
Medium == [a \in Addresses |-> data[Oid(ObjectIndex(a))][LocalOffset(a)]]
Done == [t \in Threads |-> buf_done[t] + moved[t]]
Busy == [t \in Threads |-> pc[t] # "idle"]

(* The n bytes a thread moves next and the addresses they have: all of     *)
(* them in the object at hand, in order from the offset in the file.       *)
LEMMA ByteAddress ==
  ASSUME StoreInv, NEW t \in Threads, pc[t] = "io", NEW n \in 1 .. Left(t),
         NEW a \in Addresses
  PROVE  LET i == a - req[t].offset - (buf_done[t] + moved[t]) IN
         /\ i \in 0 .. n - 1 => ObjectIndex(a) = traverse_index[t]
         /\ ObjectIndex(a) = traverse_index[t] =>
              LocalOffset(a) - FileOffset(t) = i
<1> DEFINE o == req[t].offset
           d == buf_done[t]
           m == moved[t]
           q == traverse_index[t]
           off == osd_offset[t]
           P == object_size * q
<1>1. /\ o \in Nat /\ d \in Nat /\ m \in Nat /\ q \in Nat /\ off \in Nat
  BY RequestType DEF StoreInv, TypeInv, TypeOK, BufferInv
<1>2. q = ObjectIndex(o + d) /\ off = LocalOffset(o + d)
  BY DEF StoreInv, CursorInv
<1>3. o + d = P + off
  BY <1>1, <1>2, OffsetFacts
<1>4. /\ n \in Nat \ {0} /\ FileOffset(t) = off + m
      /\ off + m + n <= object_size
  BY LeftFacts DEF StoreInv, FileOffset
<1>5. object_size \in Nat \ {0} /\ a \in Nat
  BY StripingAssumption DEF Addresses
<1>6. P \in Nat
  BY <1>1, <1>5
<1>7. ASSUME a - o - (d + m) \in 0 .. n - 1
      PROVE  ObjectIndex(a) = q
  <2> DEFINE r == off + m + (a - o - (d + m))
  <2> HIDE DEF P, o, d, m, q, off
  <2>1. r \in LocalOffsets
    BY <1>1, <1>4, <1>5, <1>7 DEF LocalOffsets
  <2>2. a = P + r
    BY <1>1, <1>3, <1>5, <1>6
  <2> HIDE DEF r
  <2>3. ObjectIndex(object_size * q + r) = q
    BY <1>1, <2>1, OffsetUnique
  <2> QED BY <2>2, <2>3 DEF P
<1>8. ASSUME ObjectIndex(a) = q
      PROVE  LocalOffset(a) - (off + m) = a - o - (d + m)
  <2>1. /\ a = object_size * ObjectIndex(a) + LocalOffset(a)
        /\ LocalOffset(a) \in Nat
    BY <1>5, OffsetFacts DEF LocalOffsets
  <2>2. a = P + LocalOffset(a)
    BY <1>8, <2>1
  <2> HIDE DEF P, o, d, m, q, off
  <2> QED BY <1>1, <1>3, <1>5, <1>6, <2>1, <2>2
<1> QED BY <1>4, <1>7, <1>8

(* What the step of a transfer does to the count of bytes moved. *)
LEMMA DoneAdvances ==
  ASSUME StoreInv, NEW t \in Threads, pc[t] = "io", NEW n \in 1 .. Left(t),
         Advance(t, n)
  PROVE  Done' = [Done EXCEPT ![t] = @ + n] /\ Busy' = Busy
<1>1. TypeOK
  BY DEF StoreInv, TypeInv
<1>2. /\ n \in Nat /\ LocalBufLen(t) \in Nat /\ buf_done[t] \in Nat /\ moved[t] \in Nat
  BY <1>1, LeftFacts DEF StoreInv, TypeOK
<1>3. ASSUME NEW u \in Threads
      PROVE  /\ buf_done'[u] + moved'[u] =
                  IF u = t THEN buf_done[t] + moved[t] + n ELSE buf_done[u] + moved[u]
             /\ (pc'[u] = "idle") <=> (pc[u] = "idle")
  <2>1. CASE n = Left(t)
    <3>1. /\ buf_done' = [buf_done EXCEPT ![t] = @ + LocalBufLen(t)]
          /\ moved' = [moved EXCEPT ![t] = 0]
          /\ pc' = [pc EXCEPT ![t] = "reset"]
      BY <2>1 DEF Advance, Goto
    <3>2. LocalBufLen(t) = moved[t] + n
      BY <1>2, <2>1 DEF Left
    <3> QED BY <1>1, <1>2, <3>1, <3>2 DEF TypeOK
  <2>2. CASE n # Left(t)
    <3>1. buf_done' = buf_done /\ moved' = [moved EXCEPT ![t] = @ + n] /\ pc' = pc
      BY <2>2 DEF Advance
    <3> QED BY <1>1, <1>2, <3>1 DEF TypeOK
  <2> QED BY <2>1, <2>2
<1>4. Done' = [Done EXCEPT ![t] = @ + n]
  BY <1>3 DEF Done
<1>5. Busy' = Busy
  BY <1>3, Zenon DEF Busy
<1> QED BY <1>4, <1>5

(* The descriptor of a transfer is of the object at hand. *)
LEMMA OwnEntry ==
  ASSUME StoreInv, NEW t \in Threads, pc[t] = "io", NEW e \in fdtab[file_fd[t]]
  PROVE  e.oid = Oid(traverse_index[t])
<1>1. fdtab[file_fd[t]] = {[thread |-> t, oid |-> OpenOid(t), use |-> "io"]}
  BY DEF StoreInv, FdAccounting, OwnsFd
<1>2. OpenOid(t) = Oid(traverse_index[t])
  BY DEF OpenOid, CurrentOid
<1> QED BY <1>1, <1>2

(* The part of a transfer that a read and a write share. *)
LEMMA TransferBounds ==
  ASSUME StoreInv, NEW t \in Threads, pc[t] = "io", NEW n \in 1 .. Left(t)
  PROVE  /\ n \in 1 .. Capacity
         /\ buf_done[t] + moved[t] + n <= req[t].buf_len
         /\ req[t].offset + req[t].buf_len <= Capacity
         /\ req[t].offset \in Nat /\ req[t].buf_len \in Nat
         /\ buf_done[t] + moved[t] \in Nat
<1>1. /\ req[t].offset \in Nat /\ req[t].buf_len \in Nat
      /\ buf_done[t] \in Nat /\ moved[t] \in Nat
  BY RequestType DEF StoreInv, TypeInv, TypeOK, BufferInv
<1>2. n \in Nat \ {0} /\ buf_done[t] + moved[t] + n <= req[t].buf_len
  BY LeftFacts DEF StoreInv
<1>3. req[t].offset + req[t].buf_len <= Capacity
  BY <1>1, AcceptedSpanFits DEF StoreInv, CursorInv
<1>4. Capacity \in Nat
  BY StripingAssumption DEF Capacity
<1> QED BY <1>1, <1>2, <1>3, <1>4

-----------------------------------------------------------------------------
(* One lemma for each kind of step of the device.                          *)

(* pread64 of n bytes is a transfer of n bytes from the device. *)
LEMMA ReadTransfers ==
  ASSUME StoreInv, NEW t \in Threads, NEW n \in 1 .. object_size, ObjRead(t, n)
  PROVE  Device!Transfer(t, n) /\ n \in 1 .. Capacity
<1> DEFINE o == req[t].offset
           d == buf_done[t] + moved[t]
<1>1. pc[t] = "io" /\ n \in 1 .. Left(t) /\ req[t].op = "read" /\ Advance(t, n)
  BY DEF ObjRead
<1>2. /\ n \in 1 .. Capacity /\ d + n <= req[t].buf_len
      /\ o + req[t].buf_len <= Capacity
      /\ o \in Nat /\ req[t].buf_len \in Nat /\ d \in Nat
  BY <1>1, TransferBounds
<1>3. PICK e \in fdtab[file_fd[t]] :
        buf' = [buf EXCEPT ![t] =
          [i \in 0 .. req[t].buf_len - 1 |->
             IF i - d \in 0 .. n - 1
             THEN data[e.oid][FileOffset(t) + i - d]
             ELSE buf[t][i]]]
  BY DEF ObjRead
<1>4. e.oid = Oid(traverse_index[t])
  BY <1>1, OwnEntry
<1>5. FileOffset(t) \in Nat /\ Capacity \in Nat
  BY <1>1, LeftFacts, StripingAssumption DEF StoreInv, Capacity
<1>6. ASSUME NEW i \in 0 .. req[t].buf_len - 1
      PROVE  /\ (i - d \in 0 .. n - 1) <=> (i \in d .. d + n - 1)
             /\ i \in d .. d + n - 1 =>
                  data[e.oid][FileOffset(t) + i - d] = Medium[o + i]
  <2> DEFINE a == o + i
  <2>1. a \in Addresses /\ a - o - d = i - d
    BY <1>2, <1>5 DEF Addresses
  <2>2. /\ a - o - d \in 0 .. n - 1 => ObjectIndex(a) = traverse_index[t]
        /\ ObjectIndex(a) = traverse_index[t] =>
             LocalOffset(a) - FileOffset(t) = a - o - d
    <3> HIDE DEF a
    <3> QED BY <1>1, <2>1, ByteAddress
  <2>3. LocalOffset(a) \in Nat
    BY <2>1, OffsetFacts DEF Addresses, LocalOffsets
  <2>4. (i - d \in 0 .. n - 1) <=> (i \in d .. d + n - 1)
    BY <1>2
  <2>5. ASSUME i - d \in 0 .. n - 1
        PROVE  data[e.oid][FileOffset(t) + i - d] = Medium[a]
    <3>1. ObjectIndex(a) = traverse_index[t]
      BY <2>1, <2>2, <2>5
    <3>2. LocalOffset(a) - FileOffset(t) = i - d
      BY <2>1, <2>2, <3>1
    <3>3. LocalOffset(a) = FileOffset(t) + i - d
      <4> HIDE DEF a, d
      <4> QED BY <1>2, <1>5, <2>3, <3>2
    <3> QED BY <1>4, <2>1, <3>1, <3>3 DEF Medium
  <2> QED BY <2>4, <2>5
<1>7. buf' = [buf EXCEPT ![t] = [i \in 0 .. req[t].buf_len - 1 |->
                                   IF i \in d .. d + n - 1 THEN Medium[o + i]
                                                           ELSE buf[t][i]]]
  <2> HIDE DEF d, o
  <2> QED BY <1>3, <1>6
<1>8. UNCHANGED <<data, is_fs_done, req, ret>>
  BY DEF ObjRead, files
<1>9. Done' = [Done EXCEPT ![t] = @ + n] /\ Busy' = Busy
  BY <1>1, DoneAdvances
<1>10. Medium' = Medium
  BY <1>8 DEF Medium
<1>11. Done[t] = d /\ Busy[t]
  BY <1>1 DEF Done, Busy
<1>12. Device!Transfer(t, n)
  <2>1. Done[t] + n <= req[t].buf_len
    BY <1>2, <1>11
  <2>2. buf' = [buf EXCEPT ![t] = [i \in 0 .. req[t].buf_len - 1 |->
                  IF i \in Done[t] .. Done[t] + n - 1 THEN Medium[req[t].offset + i]
                                                      ELSE buf[t][i]]]
    BY <1>7, <1>11
  <2>3. req[t].op # "write"
    BY <1>1
  <2> QED BY <1>8, <1>9, <1>10, <1>11, <2>1, <2>2, <2>3
          DEF Device!Transfer, Medium, Done, Busy
<1> QED BY <1>2, <1>12

(* pwrite64 of n bytes is a transfer of n bytes to the device: it changes  *)
(* the bytes of its own addresses and no others, whichever object files    *)
(* they are in.                                                            *)
LEMMA WriteTransfers ==
  ASSUME StoreInv, NEW t \in Threads, NEW n \in 1 .. object_size, ObjWrite(t, n)
  PROVE  Device!Transfer(t, n) /\ n \in 1 .. Capacity
<1> DEFINE o == req[t].offset
           d == buf_done[t] + moved[t]
<1>1. pc[t] = "io" /\ n \in 1 .. Left(t) /\ req[t].op = "write" /\ Advance(t, n)
  BY DEF ObjWrite
<1>2. /\ n \in 1 .. Capacity /\ d + n <= req[t].buf_len
      /\ o \in Nat /\ d \in Nat
  BY <1>1, TransferBounds
<1>3. PICK e \in fdtab[file_fd[t]] :
        data' = [data EXCEPT ![e.oid] =
          [i \in LocalOffsets |->
             IF i - FileOffset(t) \in 0 .. n - 1
             THEN buf[t][d + i - FileOffset(t)]
             ELSE data[e.oid][i]]]
  BY DEF ObjWrite
<1>4. /\ e.oid = Oid(traverse_index[t]) /\ traverse_index[t] \in Indexes
      /\ FileOffset(t) \in Nat
  BY <1>1, OwnEntry, LeftFacts DEF StoreInv, CursorInv
<1>5. /\ data \in [Oids -> [LocalOffsets -> Bytes]]
      /\ e.oid \in Oids
  BY <1>4, OidType, StripingAssumption DEF StoreInv, TypeInv, TypeOK, Indexes
<1>6. ASSUME NEW a \in Addresses
      PROVE  data'[Oid(ObjectIndex(a))][LocalOffset(a)] =
               IF a - o \in d .. d + n - 1 THEN buf[t][a - o] ELSE Medium[a]
  <2> DEFINE i == ObjectIndex(a)
             l == LocalOffset(a)
  <2>1. a \in Nat /\ OffsetInRange(a)
    BY StripingAssumption DEF Addresses, OffsetInRange, Capacity
  <2>2. i \in Indexes /\ l \in LocalOffsets /\ l \in Nat
    BY <2>1, OffsetInObject DEF LocalOffsets
  <2>3. Oid(i) \in Oids
    BY <2>2, OidType, StripingAssumption DEF Indexes
  <2>4. /\ a - o - d \in 0 .. n - 1 => i = traverse_index[t]
        /\ i = traverse_index[t] => l - FileOffset(t) = a - o - d
    BY <1>1, ByteAddress
  <2>5. (a - o \in d .. d + n - 1) <=> (a - o - d \in 0 .. n - 1)
    <3> HIDE DEF o, d
    <3> QED BY <1>2, <2>1
  <2>6. Medium[a] = data[Oid(i)][l]
    BY DEF Medium
  <2> HIDE DEF i, l, o, d
  <2>7. CASE i = traverse_index[t]
    <3>1. l - FileOffset(t) = a - o - d
      BY <2>4, <2>7
    <3>2. d + l - FileOffset(t) = a - o
      BY <1>2, <1>4, <2>1, <2>2, <3>1
    <3>3. data'[Oid(i)][l] = IF l - FileOffset(t) \in 0 .. n - 1
                             THEN buf[t][d + l - FileOffset(t)]
                             ELSE data[Oid(i)][l]
      BY <1>3, <1>4, <1>5, <2>2, <2>7
    <3>4. data'[Oid(i)][l] = IF a - o \in d .. d + n - 1 THEN buf[t][a - o] ELSE Medium[a]
      BY <2>5, <2>6, <3>1, <3>2, <3>3
    <3> QED BY <3>4 DEF i, l
  <2>8. CASE i # traverse_index[t]
    <3>1. Oid(i) # e.oid
      BY <1>4, <2>2, <2>8, OidInjective
    <3>2. data'[Oid(i)][l] = data[Oid(i)][l]
      BY <1>3, <1>5, <2>3, <3>1
    <3>3. ~(a - o \in d .. d + n - 1)
      BY <2>4, <2>5, <2>8
    <3>4. data'[Oid(i)][l] = IF a - o \in d .. d + n - 1 THEN buf[t][a - o] ELSE Medium[a]
      BY <2>6, <3>2, <3>3
    <3> QED BY <3>4 DEF i, l
  <2> QED BY <2>7, <2>8
<1>7. Medium' = [a \in 0 .. Capacity - 1 |->
                   IF a - o \in d .. d + n - 1 THEN buf[t][a - o] ELSE Medium[a]]
  <2> HIDE DEF o, d
  <2> QED BY <1>6 DEF Medium, Addresses
<1>8. UNCHANGED <<is_fs_done, req, buf, ret>>
  BY DEF ObjWrite
<1>9. Done' = [Done EXCEPT ![t] = @ + n] /\ Busy' = Busy
  BY <1>1, DoneAdvances
<1>10. Done[t] = d /\ Busy[t]
  BY <1>1 DEF Done, Busy
<1>11. Device!Transfer(t, n)
  <2>1. Done[t] + n <= req[t].buf_len
    BY <1>2, <1>10
  <2>2. Medium' = [a \in 0 .. Capacity - 1 |->
                     IF a - req[t].offset \in Done[t] .. Done[t] + n - 1
                     THEN buf[t][a - req[t].offset] ELSE Medium[a]]
    BY <1>7, <1>10
  <2> QED BY <1>1, <1>8, <1>9, <1>10, <2>1, <2>2
          DEF Device!Transfer, Medium, Done, Busy
<1> QED BY <1>2, <1>11

(* The end of a call is the end of a request, with success only when all   *)
(* of it was moved.                                                        *)
LEMMA ReturnFinishes ==
  ASSUME TypeOK, NEW t \in Threads, pc[t] # "idle", NEW result, Return(t, result),
         \/ result = "OSD_ERROR"
         \/ result = "OSD_SUCCESS" /\ buf_done[t] + moved[t] = req[t].buf_len,
         UNCHANGED <<data, is_fs_done, req, buf>>
  PROVE  Device!Finish(t)
<1>1. ASSUME NEW u \in Threads
      PROVE  /\ buf_done'[u] + moved'[u] = IF u = t THEN 0 ELSE buf_done[u] + moved[u]
             /\ pc'[u] # "idle" <=> IF u = t THEN FALSE ELSE pc[u] # "idle"
  BY DEF TypeOK, Return, Goto
<1>2. Done' = [Done EXCEPT ![t] = 0]
  BY <1>1 DEF Done
<1>3. Busy' = [Busy EXCEPT ![t] = FALSE]
  BY <1>1, Zenon DEF Busy
<1>4. Busy[t] /\ Done[t] = buf_done[t] + moved[t]
  BY DEF Busy, Done
<1>5. Medium' = Medium
  BY DEF Medium
<1>6. ret' = [ret EXCEPT ![t] = result]
  BY DEF Return
<1> QED BY <1>2, <1>3, <1>4, <1>5, <1>6 DEF Device!Finish, Medium, Done, Busy

(* A new request: refused, answered at once or started. *)
LEMMA SubmitAccepts ==
  ASSUME StoreInv, NEW t \in Threads, Submit(t)
  PROVE  Device!Submit(t)
<1>1. TypeOK
  BY DEF StoreInv, TypeInv
<1>2. PICK r \in Requests :
        ReadUnformatted(t, r) \/ Reject(t, r) \/ AcceptEmpty(t, r) \/ Accept(t, r)
  BY DEF Submit
<1>3. PICK b \in Buffers(t, r) : buf' = [buf EXCEPT ![t] = b]
  BY <1>2 DEF ReadUnformatted, Reject, AcceptEmpty, Accept, Arrive
<1>4. /\ pc[t] = "idle" /\ req' = [req EXCEPT ![t] = r]
      /\ is_fs_done' = (is_fs_done \/ r.op = "write") /\ data' = data
  BY <1>2 DEF ReadUnformatted, Reject, AcceptEmpty, Accept, Arrive, MarkFormatted, files
<1>5. Medium' = Medium
  BY <1>4 DEF Medium
<1>6. ~Busy[t]
  BY <1>4 DEF Busy
<1>7. Done' = [Done EXCEPT ![t] = 0]
  <2>1. ASSUME NEW u \in Threads
        PROVE  buf_done'[u] + moved'[u] = IF u = t THEN 0 ELSE buf_done[u] + moved[u]
    BY <1>1, <1>2 DEF ReadUnformatted, Reject, AcceptEmpty, Accept, Return, TypeOK
  <2> QED BY <2>1 DEF Done
<1>8. CASE ReadUnformatted(t, r) \/ Reject(t, r) \/ AcceptEmpty(t, r)
  <2>1. ASSUME NEW u \in Threads PROVE pc'[u] # "idle" <=> pc[u] # "idle"
    BY <1>1, <1>4, <1>8 DEF ReadUnformatted, Reject, AcceptEmpty, Return, Goto, TypeOK
  <2>2. Busy' = Busy
    BY <2>1, Zenon DEF Busy
  <2>3. \/ /\ (r.op = "read" /\ ~is_fs_done) \/ r.buf_len = 0
           /\ ret' = [ret EXCEPT ![t] = "OSD_SUCCESS"]
        \/ ret' = [ret EXCEPT ![t] = "OSD_ERROR"]
    BY <1>8 DEF ReadUnformatted, Reject, AcceptEmpty, Return
  <2>4. Device!Accept(t, r, b)
    BY <1>3, <1>4, <1>5, <1>6, <1>7, <2>2, <2>3
       DEF Device!Accept, Medium, Done, Busy
  <2> QED BY <1>3, <2>4 DEF Device!Submit, Device!Buffers, Buffers
<1>9. CASE Accept(t, r)
  <2>1. ASSUME NEW u \in Threads
        PROVE  pc'[u] # "idle" <=> IF u = t THEN TRUE ELSE pc[u] # "idle"
    BY <1>1, <1>9 DEF Accept, Goto, TypeOK
  <2>2. Busy' = [Busy EXCEPT ![t] = TRUE]
    BY <2>1, Zenon DEF Busy
  <2>3. is_fs_done'
    BY <1>4, <1>9 DEF Accept
  <2>4. r.offset + r.buf_len <= Capacity
    BY <1>9, RequestType, AcceptedSpanFits DEF Accept
  <2>5. ret' = [ret EXCEPT ![t] = "none"]
    BY <1>9 DEF Accept
  <2>6. Device!Accept(t, r, b)
    BY <1>3, <1>4, <1>5, <1>6, <1>7, <2>2, <2>3, <2>4, <2>5
       DEF Device!Accept, Medium, Done, Busy
  <2> QED BY <1>3, <2>6 DEF Device!Submit, Device!Buffers, Buffers
<1> QED BY <1>2, <1>8, <1>9

(* A step the caller cannot see. *)
LEMMA Invisible ==
  ASSUME UNCHANGED <<data, is_fs_done, req, buf, buf_done, moved, ret>>,
         \A u \in Threads : pc'[u] # "idle" <=> pc[u] # "idle"
  PROVE  UNCHANGED Device!vars
<1>1. Medium' = Medium /\ Done' = Done
  BY DEF Medium, Done
<1>2. Busy' = Busy
  BY Zenon DEF Busy
<1> QED BY <1>1, <1>2 DEF Device!vars, Medium, Done, Busy

(* A crash is a restart of the device. *)
LEMMA CrashRestarts ==
  ASSUME Crash
  PROVE  Device!Restart
<1>1. Medium' = Medium
  BY DEF Crash, files, Medium
<1>2. Done' = [t \in Threads |-> 0]
  BY DEF Crash, Done
<1>3. \A t \in Threads : ~(pc'[t] # "idle")
  BY DEF Crash
<1>4. Busy' = [t \in Threads |-> FALSE]
  BY <1>3, Zenon DEF Busy
<1> QED BY <1>1, <1>2, <1>4
        DEF Crash, Device!Restart, Medium, Done, Busy, NoRequest, Device!NoRequest

(* Every step of a call moves bytes of the device, ends a request of it or *)
(* cannot be seen.                                                         *)
LEMMA StepImplements ==
  ASSUME StoreInv, NEW t \in Threads, Step(t)
  PROVE  \/ \E n \in 1 .. Capacity : Device!Transfer(t, n)
         \/ Device!Finish(t)
         \/ UNCHANGED Device!vars
<1> USE DEF files, locals
<1>1. TypeOK
  BY DEF StoreInv, TypeInv
<1>2. CASE \E n \in 1 .. object_size : ObjRead(t, n) \/ ObjWrite(t, n)
  BY <1>2, ReadTransfers, WriteTransfers
<1>3. CASE StatUnplaced(t) \/ FetchUnlockFail(t) \/ OpenObjectFails(t) \/ OpReset(t)
           \/ ResetFails(t)
  <2>1. /\ pc[t] # "idle" /\ Return(t, "OSD_ERROR")
        /\ UNCHANGED <<data, is_fs_done, req, buf>>
    BY <1>3 DEF StatUnplaced, FetchUnlockFail, OpenObjectFails, OpReset, ResetFails
  <2> QED BY <1>1, <2>1, ReturnFinishes
<1>4. CASE Complete(t)
  <2>1. /\ pc[t] = "reset" /\ Return(t, "OSD_SUCCESS")
        /\ UNCHANGED <<data, is_fs_done, req, buf>>
        /\ buf_done[t] = req[t].buf_len
    BY <1>4 DEF Complete
  <2>2. moved[t] = 0
    BY <2>1 DEF StoreInv, CursorInv
  <2>3. buf_done[t] + moved[t] = req[t].buf_len
    BY <1>1, <2>1, <2>2 DEF TypeOK
  <2> QED BY <1>1, <2>1, <2>3, ReturnFinishes
<1>5. CASE ObjReadEof(t)
  BY <1>5, Invisible DEF ObjReadEof, vars
<1>6. CASE \/ StatFound(t) \/ StatMissing(t) \/ FetchLock(t) \/ FetchStat(t)
           \/ FetchCreat(t) \/ FetchCreatFails(t) \/ FetchAlloc(t) \/ FetchAllocFails(t)
           \/ FetchUnlock(t)
  <2>1. /\ pc[t] # "idle"
        /\ \E l \in Labels \ {"idle"} : Goto(t, l)
        /\ UNCHANGED <<data, is_fs_done, req, buf, buf_done, moved, ret>>
    BY <1>6 DEF StatFound, StatMissing, FetchLock, FetchStat, FetchCreat,
                FetchCreatFails, FetchAlloc, FetchAllocFails, FetchUnlock, Labels
  <2>2. \A u \in Threads : pc'[u] # "idle" <=> pc[u] # "idle"
    BY <1>1, <2>1 DEF TypeOK, Goto
  <2> QED BY <2>1, <2>2, Invisible
<1>7. CASE OpenObject(t) \/ ObjIoFails(t) \/ ObjReset(t) \/ NextObject(t)
  <2>1. /\ pc[t] # "idle"
        /\ \E l \in Labels \ {"idle"} : Goto(t, l)
        /\ UNCHANGED <<data, is_fs_done, req, buf, buf_done, moved, ret>>
    BY <1>7 DEF OpenObject, ObjIoFails, ObjReset, NextObject, Labels
  <2>2. \A u \in Threads : pc'[u] # "idle" <=> pc[u] # "idle"
    BY <1>1, <2>1 DEF TypeOK, Goto
  <2> QED BY <2>1, <2>2, Invisible
<1> QED BY <1>2, <1>3, <1>4, <1>5, <1>6, <1>7 DEF Step

(* The initial states and the steps of the store are those of the device.  *)
LEMMA InitImplements ==
  ASSUME Init
  PROVE  Device!Init
<1>1. ASSUME NEW a \in Addresses
      PROVE  data[Oid(ObjectIndex(a))][LocalOffset(a)] = Zero
  <2>1. a \in Nat /\ OffsetInRange(a)
    BY StripingAssumption DEF Addresses, OffsetInRange, Capacity
  <2>2. /\ ObjectIndex(a) \in Nat /\ LocalOffset(a) \in LocalOffsets
    BY <2>1, OffsetFacts
  <2> QED BY <2>2, OidType DEF Init
<1>2. Medium = [a \in 0 .. Capacity - 1 |-> Zero]
  BY <1>1 DEF Medium, Addresses
<1>3. Done = [t \in Threads |-> 0]
  BY DEF Init, Done
<1>4. \A t \in Threads : ~(pc[t] # "idle")
  BY DEF Init
<1>5. Busy = [t \in Threads |-> FALSE]
  BY <1>4, Zenon DEF Busy
<1> QED BY <1>2, <1>3, <1>5
        DEF Init, Device!Init, Medium, Done, Busy, NoRequest, Device!NoRequest

(* A step of the store is a step of the device or changes nothing of it. *)
LEMMA NextImplements ==
  ASSUME StoreInv, [SharedNext]_vars
  PROVE  [Device!Next]_(Device!vars)
<1>1. CASE UNCHANGED vars
  BY <1>1, Invisible DEF vars
<1>2. CASE Crash
  BY <1>2, CrashRestarts DEF Device!Next
<1>3. ASSUME NEW t \in Threads, Submit(t)
      PROVE  Device!Next
  BY <1>3, SubmitAccepts DEF Device!Next
<1>4. ASSUME NEW t \in Threads, Step(t)
      PROVE  [Device!Next]_(Device!vars)
  BY <1>4, StepImplements DEF Device!Next
<1>5. CASE OtherLuns
  BY <1>5, Invisible DEF OtherLuns, files, locals
<1> QED BY <1>1, <1>2, <1>3, <1>4, <1>5 DEF SharedNext, Next

(* A LUN in a process that serves others as well, whose threads share its  *)
(* descriptor table and its fetch mutexes, implements a flat device of its *)
(* own: nothing of the other LUNs shows but as an error.                   *)
THEOREM SharedStoreImplementsBlockDevice == SharedSpec => ImplementsBlockDevice
<1>1. Init => StoreInv /\ Device!Init
  BY TypeInit, InitImplements DEF Init, StoreInv, CursorInv, FdAccounting, OwnsFd
<1>2. StoreInv /\ [SharedNext]_vars => StoreInv'
  BY TypeStep, CursorStep, FdStep DEF StoreInv
<1>3. StoreInv /\ [SharedNext]_vars => [Device!Next]_(Device!vars)
  BY NextImplements
<1> QED BY <1>1, <1>2, <1>3, PTL DEF SharedSpec, ImplementsBlockDevice, Device!Spec

(* Striping, creation on demand, short transfers, error paths, restarts    *)
(* and any interleaving of them implement one flat array of bytes: a       *)
(* request of simpleOSD_read/simpleOSD_write touches exactly its own       *)
(* bytes, in order, succeeds only when all were moved, and what was        *)
(* written stays.                                                          *)
THEOREM StoreImplementsBlockDevice == Spec => ImplementsBlockDevice
  BY AloneIsShared, SharedStoreImplementsBlockDevice, PTL

-----------------------------------------------------------------------------
(***************************************************************************)
(* Object files are created once and at full size, a LUN that counts as    *)
(* unformatted has none, and no call fails without a reason.  Each theorem *)
(* names the faults it excludes; everything else may fail, and any number  *)
(* of threads may race.                                                    *)
(***************************************************************************)
(* Created once.                                                           *)

(* What simpleOSD_get_object_to_dc created exists, and a thread about to   *)
(* create an object creates one that does not.                             *)
CreatInv ==
  /\ \A fd \in Fds : \A e \in fdtab[fd] :
       e.thread \in Threads /\ e.use = "creat" => e.oid \in present
  /\ \A t \in Threads : pc[t] = "fetch_creat" => CurrentOid(t) \notin present

(* Two threads that are about to create objects create different ones: the *)
(* mutex of an index is held by one of them only.                          *)
LEMMA CreatorsDiffer ==
  ASSUME CursorInv, LockDiscipline,
         NEW t \in Threads, NEW u \in Threads, t # u,
         pc[t] = "fetch_creat", pc[u] = "fetch_creat"
  PROVE  CurrentOid(t) # CurrentOid(u)
<1>1. traverse_index[t] \in Indexes /\ traverse_index[u] \in Indexes
  BY DEF CursorInv
<1>2. fetch_locks[LockOf(t)] = t /\ fetch_locks[LockOf(u)] = u
  BY DEF LockDiscipline, InFetch
<1>3. traverse_index[t] # traverse_index[u]
  BY <1>2 DEF LockOf
<1> QED BY <1>1, <1>3, OidInjective DEF CurrentOid

(* A step that creates nothing. *)
LEMMA NothingCreated ==
  ASSUME TypeOK, CreatInv, CreatedOnce, NEW t \in Threads,
         \A u \in Threads : u # t => SameCall(u),
         present' = present,
         \A fd \in Fds : \A e \in fdtab'[fd] :
           e.thread \in Threads /\ e.use = "creat" => e \in fdtab[fd],
         pc'[t] = "fetch_creat" => CurrentOid(t)' \notin present
  PROVE  CreatInv' /\ CreatedOnce'
<1>1. \A fd \in Fds : \A e \in fdtab'[fd] :
        e.thread \in Threads /\ e.use = "creat" => e.oid \in present'
  BY DEF CreatInv
<1>2. ASSUME NEW u \in Threads, pc'[u] = "fetch_creat"
      PROVE  CurrentOid(u)' \notin present'
  <2>1. CASE u = t
    BY <1>2, <2>1
  <2>2. CASE u # t
    BY <1>2, <2>2 DEF SameCall, CreatInv, CurrentOid
  <2> QED BY <2>1, <2>2
<1>3. CreatedOnce'
  BY DEF CreatedOnce
<1> QED BY <1>1, <1>2, <1>3 DEF CreatInv

(* The step that creates. *)
LEMMA OneCreated ==
  ASSUME TypeOK, CursorInv, LockDiscipline, CreatInv, CreatedOnce,
         NEW t \in Threads, FetchCreat(t)
  PROVE  CreatInv' /\ CreatedOnce'
<1> DEFINE o == CurrentOid(t)
<1>1. PICK fd \in Fds : fdtab' = [fdtab EXCEPT ![fd] = {OpenEntry(t, "creat")}]
  BY DEF FetchCreat
<1>2. /\ present' = present \cup {o} /\ o \notin present
      /\ pc[t] = "fetch_creat" /\ pc' = [pc EXCEPT ![t] = "fetch_alloc"]
      /\ traverse_index' = traverse_index
  BY DEF FetchCreat, CreatInv, Goto, locals
<1>3. OpenEntry(t, "creat").oid = o
  BY DEF OpenEntry
<1>4. /\ fdtab'[fd] = {OpenEntry(t, "creat")}
      /\ \A gd \in Fds : gd # fd => fdtab'[gd] = fdtab[gd]
  BY <1>1 DEF TypeOK
<1>5. \A gd \in Fds : \A e \in fdtab'[gd] :
        e.thread \in Threads /\ e.use = "creat" => e.oid \in present'
  BY <1>2, <1>3, <1>4 DEF CreatInv
<1>6. ASSUME NEW u \in Threads, pc'[u] = "fetch_creat"
      PROVE  CurrentOid(u)' \notin present'
  <2>1. u # t /\ pc[u] = "fetch_creat"
    BY <1>2, <1>6 DEF TypeOK
  <2>2. CurrentOid(u) # o /\ CurrentOid(u) \notin present
    BY <1>2, <2>1, CreatorsDiffer DEF CreatInv
  <2>3. CurrentOid(u)' = CurrentOid(u)
    BY <1>2 DEF CurrentOid
  <2> QED BY <1>2, <2>2, <2>3
<1>7. \A gd \in Fds : gd # fd =>
        \A e \in fdtab'[gd] : e.thread \in Threads /\ e.use = "creat" => e.oid # o
  BY <1>2, <1>4 DEF CreatInv
<1>8. CreatedOnce'
  BY <1>3, <1>4, <1>7 DEF CreatedOnce
<1> QED BY <1>5, <1>6, <1>8 DEF CreatInv

(* A reset only takes entries away. *)
LEMMA ResetCloseShrinks ==
  ASSUME TypeOK, NEW t \in Threads, NEW ok \in BOOLEAN, ResetClose(t, ok)
  PROVE  \A fd \in Fds : fdtab'[fd] \subseteq fdtab[fd]
  BY DEF TypeOK, ResetClose

(* CreatInv and CreatedOnce are inductive, given the cursor and the locks, *)
(* as long as stat tells the truth.                                        *)
LEMMA CreatStep ==
  ASSUME "stat" \notin Faults, TypeInv, CursorInv, LockDiscipline,
         CreatInv, CreatedOnce, [SharedNext]_vars
  PROVE  CreatInv' /\ CreatedOnce'
<1>0. TypeOK
  BY DEF TypeInv
<1>1. CASE UNCHANGED vars
  BY <1>1 DEF vars, CreatInv, CreatedOnce, CurrentOid
<1>2. CASE Crash
  BY <1>2 DEF Crash, CreatInv, CreatedOnce
<1>3. ASSUME NEW t \in Threads, Submit(t) \/ Step(t)
      PROVE  CreatInv' /\ CreatedOnce'
  <2>0. \A u \in Threads : u # t => SameCall(u)
    BY <1>0, <1>3, OthersKeepTheirCall
  <2> DEFINE Kept == /\ present' = present
                     /\ \A fd \in Fds : \A e \in fdtab'[fd] :
                          e.thread \in Threads /\ e.use = "creat" => e \in fdtab[fd]
                     /\ pc'[t] = "fetch_creat" => CurrentOid(t)' \notin present
  <2>1. CASE Submit(t)
    <3>1. PICK r \in Requests :
            ReadUnformatted(t, r) \/ Reject(t, r) \/ AcceptEmpty(t, r) \/ Accept(t, r)
      BY <2>1 DEF Submit
    <3>2. Kept
      BY <1>0, <3>1 DEF ReadUnformatted, Reject, AcceptEmpty, Accept, Return, Goto,
                        files, TypeOK
    <3> QED BY <1>0, <2>0, <3>2, NothingCreated
  <2>2. CASE StatFound(t) \/ StatMissing(t) \/ StatUnplaced(t) \/ FetchLock(t)
    <3>1. Kept
      BY <1>0, <2>2 DEF StatFound, StatMissing, StatUnplaced, FetchLock, Return, Goto,
                        files, TypeOK
    <3> QED BY <1>0, <2>0, <3>1, NothingCreated
  <2>3. CASE FetchStat(t)
    <3>1. Kept
      BY <1>0, <2>3 DEF FetchStat, Goto, files, locals, TypeOK, CurrentOid
    <3> QED BY <1>0, <2>0, <3>1, NothingCreated
  <2>4. CASE FetchCreat(t)
    BY <1>0, <2>4, OneCreated
  <2>5. CASE FetchCreatFails(t) \/ FetchAlloc(t) \/ FetchAllocFails(t)
             \/ FetchUnlock(t) \/ FetchUnlockFail(t)
    <3>1. Kept
      BY <1>0, <2>5 DEF FetchCreatFails, FetchAlloc, FetchAllocFails, FetchUnlock,
                        FetchUnlockFail, Return, Goto, files, TypeOK
    <3> QED BY <1>0, <2>0, <3>1, NothingCreated
  <2>6. CASE OpenObject(t) \/ OpenObjectFails(t)
    <3>1. OpenEntry(t, "io").use = "io"
      BY DEF OpenEntry
    <3>2. Kept
      BY <1>0, <2>6, <3>1 DEF OpenObject, OpenObjectFails, Return, Goto, files, TypeOK
    <3> QED BY <1>0, <2>0, <3>2, NothingCreated
  <2>7. CASE \E n \in 1 .. object_size : ObjRead(t, n) \/ ObjWrite(t, n)
    <3>1. Kept
      BY <1>0, <2>7 DEF ObjRead, ObjWrite, Advance, Goto, files, TypeOK
    <3> QED BY <1>0, <2>0, <3>1, NothingCreated
  <2>8. CASE ObjReadEof(t) \/ ObjIoFails(t)
    <3>1. Kept
      BY <1>0, <2>8 DEF ObjReadEof, ObjIoFails, Goto, files, vars, TypeOK
    <3> QED BY <1>0, <2>0, <3>1, NothingCreated
  <2>9. CASE ObjReset(t) \/ OpReset(t) \/ NextObject(t) \/ Complete(t) \/ ResetFails(t)
    <3>1. present' = present /\ \E ok \in BOOLEAN : ResetClose(t, ok)
      BY <2>9 DEF ObjReset, OpReset, NextObject, Complete, ResetFails, files
    <3>2. pc'[t] # "fetch_creat"
      BY <1>0, <2>9 DEF ObjReset, OpReset, NextObject, Complete, ResetFails, Return,
                        Goto, TypeOK
    <3>3. Kept
      BY <1>0, <3>1, <3>2, ResetCloseShrinks
    <3> QED BY <1>0, <2>0, <3>3, NothingCreated
  <2> QED BY <1>3, <2>1, <2>2, <2>3, <2>4, <2>5, <2>6, <2>7, <2>8, <2>9 DEF Step
<1>4. CASE OtherLuns
  <2>1. UNCHANGED <<present, pc, traverse_index>>
    BY <1>4 DEF OtherLuns, files, locals
  <2>2. ASSUME NEW fd \in Fds, NEW e \in fdtab'[fd], e.thread \in Threads
        PROVE  e \in fdtab[fd]
    BY <1>4, <2>2, StoreAssumption DEF OtherLuns
  <2>3. CreatInv'
    BY <2>1, <2>2 DEF CreatInv, CurrentOid
  <2>4. CreatedOnce'
    BY <2>2 DEF CreatedOnce
  <2> QED BY <2>3, <2>4
<1> QED BY <1>1, <1>2, <1>3, <1>4 DEF SharedNext, Next

(* However many threads find an object missing, simpleOSD_get_object_to_dc *)
(* creates it once, so it leaves at most one descriptor open for it, also  *)
(* when threads of other LUNs compete for its mutex.                       *)
THEOREM CreatedOnceShared == "stat" \notin Faults /\ SharedSpec => []CreatedOnce
<1> SUFFICES ASSUME "stat" \notin Faults PROVE SharedSpec => []CreatedOnce
  OBVIOUS
<1> DEFINE I == TypeInv /\ CursorInv /\ LockDiscipline /\ CreatInv /\ CreatedOnce
<1>1. Init => I
  BY TypeInit, LockInit DEF Init, CursorInv, CreatInv, CreatedOnce
<1>2. I /\ [SharedNext]_vars => I'
  BY TypeStep, CursorStep, LockStep, CreatStep
<1>3. I => CreatedOnce
  OBVIOUS
<1> HIDE DEF I
<1> QED BY <1>1, <1>2, <1>3, PTL DEF SharedSpec

(* The same for a LUN alone in its process. *)
THEOREM CreatedOnceAlways == "stat" \notin Faults /\ Spec => []CreatedOnce
  BY AloneIsShared, CreatedOnceShared, PTL

-----------------------------------------------------------------------------
(* Full size.                                                              *)

(* An object that is complete stays so, and one that is not is still being *)
(* allocated, when sizes do not shrink and no allocation is given up.      *)
LEMMA SizesKept ==
  ASSUME FixedSizeObjects, present' = present,
         \A o \in present : size[o] = object_size => size'[o] = object_size,
         \A u \in Threads : pc[u] = "fetch_alloc" =>
           \/ pc'[u] = "fetch_alloc" /\ traverse_index'[u] = traverse_index[u]
           \/ size'[CurrentOid(u)] = object_size
  PROVE  FixedSizeObjects'
<1> SUFFICES ASSUME NEW o \in present, size'[o] # object_size
             PROVE  \E u \in Threads : pc'[u] = "fetch_alloc" /\ CurrentOid(u)' = o
  BY DEF FixedSizeObjects
<1>1. PICK u \in Threads : pc[u] = "fetch_alloc" /\ CurrentOid(u) = o
  BY DEF FixedSizeObjects
<1>2. pc'[u] = "fetch_alloc" /\ traverse_index'[u] = traverse_index[u]
  BY <1>1
<1> QED BY <1>1, <1>2 DEF CurrentOid

(* pwrite64 never makes a complete object longer. *)
LEMMA WriteKeepsSize ==
  ASSUME TypeInv, NEW t \in Threads, NEW n \in 1 .. object_size, ObjWrite(t, n),
         NEW o \in Oids, size[o] = object_size
  PROVE  size'[o] = object_size
<1>1. pc[t] = "io" /\ n \in 1 .. Left(t)
  BY DEF ObjWrite
<1>2. /\ FileOffset(t) + n <= object_size
      /\ FileOffset(t) \in Nat /\ n \in Nat
  BY <1>1, LeftFacts
<1>3. PICK e \in fdtab[file_fd[t]] :
        size' = [size EXCEPT ![e.oid] =
                   IF FileOffset(t) + n > @ THEN FileOffset(t) + n ELSE @]
  BY DEF ObjWrite
<1>4. object_size \in Nat
  BY StripingAssumption
<1> QED BY <1>2, <1>3, <1>4 DEF TypeInv, TypeOK

(* FixedSizeObjects is inductive as long as fallocate works and nothing    *)
(* stops the process between open and fallocate.                           *)
LEMMA SizeStep ==
  ASSUME "fallocate" \notin Faults, "crash" \notin Faults,
         TypeInv, FixedSizeObjects, [SharedNext]_vars
  PROVE  FixedSizeObjects'
<1>0. TypeOK
  BY DEF TypeInv
<1>1. CASE UNCHANGED vars
  BY <1>1 DEF vars, FixedSizeObjects, CurrentOid
<1>2. ~Crash
  BY DEF Crash
<1>3. ASSUME NEW t \in Threads, Submit(t) \/ Step(t)
      PROVE  FixedSizeObjects'
  <2>0. \A u \in Threads : u # t =>
          pc'[u] = pc[u] /\ traverse_index'[u] = traverse_index[u]
    BY <1>0, <1>3, OthersKeepTheirCall DEF SameCall
  <2>1. CASE FetchCreat(t)
    <3>1. /\ present' = present \cup {CurrentOid(t)} /\ size' = size
          /\ pc[t] = "fetch_creat" /\ pc'[t] = "fetch_alloc"
          /\ traverse_index' = traverse_index
      BY <1>0, <2>1 DEF FetchCreat, Goto, locals, TypeOK
    <3>2. CurrentOid(t)' = CurrentOid(t)
      BY <3>1 DEF CurrentOid
    <3>3. ASSUME NEW o \in present
          PROVE  \/ size'[o] = object_size
                 \/ \E u \in Threads : pc'[u] = "fetch_alloc" /\ CurrentOid(u)' = o
      <4>1. CASE size[o] = object_size
        BY <3>1, <4>1
      <4>2. CASE \E u \in Threads : pc[u] = "fetch_alloc" /\ CurrentOid(u) = o
        BY <2>0, <3>1, <4>2 DEF CurrentOid
      <4> QED BY <4>1, <4>2 DEF FixedSizeObjects
    <3> QED BY <3>1, <3>2, <3>3 DEF FixedSizeObjects
  <2>2. CASE FetchAlloc(t)
    <3>1. /\ present' = present
          /\ size' = [size EXCEPT ![CurrentOid(t)] = object_size]
      BY <2>2 DEF FetchAlloc
    <3>2. present \subseteq Oids /\ size \in [Oids -> 0 .. object_size]
      BY <1>0 DEF TypeOK
    <3>3. CurrentOid(t) \in Oids
      BY <1>0, CurrentOidType
    <3> QED BY <2>0, <3>1, <3>2, <3>3, SizesKept
  <2>3. CASE \E n \in 1 .. object_size : ObjWrite(t, n)
    <3>1. PICK n \in 1 .. object_size : ObjWrite(t, n)
      BY <2>3
    <3>2. present' = present /\ pc[t] = "io" /\ present \subseteq Oids
      BY <1>0, <3>1 DEF ObjWrite, TypeOK
    <3>3. \A o \in present : size[o] = object_size => size'[o] = object_size
      BY <3>1, <3>2, WriteKeepsSize
    <3> QED BY <2>0, <3>2, <3>3, SizesKept
  <2>4. CASE /\ ~FetchCreat(t) /\ ~FetchAlloc(t)
             /\ ~\E n \in 1 .. object_size : ObjWrite(t, n)
    <3>1. UNCHANGED <<present, size>> /\ pc[t] # "fetch_alloc"
      <4> USE DEF files
      <4>1. CASE Submit(t)
        BY <4>1 DEF Submit, ReadUnformatted, Reject, AcceptEmpty, Accept, Arrive
      <4>2. CASE Step(t)
        BY <2>4, <4>2
           DEF Step, StatFound, StatMissing, StatUnplaced, FetchLock, FetchStat,
               FetchCreatFails, FetchAllocFails, FetchUnlock, FetchUnlockFail,
               OpenObject, OpenObjectFails, ObjRead, ObjReadEof, ObjIoFails, ObjReset,
               OpReset, NextObject, Complete, ResetFails, vars
      <4> QED BY <1>3, <4>1, <4>2
    <3> QED BY <2>0, <3>1, SizesKept
  <2> QED BY <2>1, <2>2, <2>3, <2>4
<1>4. CASE OtherLuns
  BY <1>4 DEF OtherLuns, files, locals, FixedSizeObjects, CurrentOid
<1> QED BY <1>1, <1>2, <1>3, <1>4 DEF SharedNext, Next

(* Every object file has the size of the collection's objects, but for the *)
(* one its creator is allocating at this moment, beside any other LUNs.    *)
THEOREM FixedSizeShared ==
  "fallocate" \notin Faults /\ "crash" \notin Faults /\ SharedSpec => []FixedSizeObjects
<1> SUFFICES ASSUME "fallocate" \notin Faults, "crash" \notin Faults
             PROVE  SharedSpec => []FixedSizeObjects
  OBVIOUS
<1>1. Init => TypeInv /\ FixedSizeObjects
  BY TypeInit DEF Init, FixedSizeObjects
<1>2. TypeInv /\ FixedSizeObjects /\ [SharedNext]_vars => TypeInv' /\ FixedSizeObjects'
  BY TypeStep, SizeStep
<1> QED BY <1>1, <1>2, PTL DEF SharedSpec

(* The same for a LUN alone in its process. *)
THEOREM FixedSizeAlways ==
  "fallocate" \notin Faults /\ "crash" \notin Faults /\ Spec => []FixedSizeObjects
  BY AloneIsShared, FixedSizeShared, PTL

-----------------------------------------------------------------------------
(* Unformatted means empty.                                                *)

(* As long as no write came, no call got past the check of the flag. *)
NothingYet == ~is_fs_done => present = {} /\ \A t \in Threads : pc[t] = "idle"

(* NothingYet is inductive while the process lives. *)
LEMMA NothingYetStep ==
  ASSUME "crash" \notin Faults, TypeInv, NothingYet, [SharedNext]_vars
  PROVE  NothingYet'
<1>0. TypeOK
  BY DEF TypeInv
<1>1. CASE UNCHANGED vars
  BY <1>1 DEF vars, NothingYet
<1>2. ~Crash
  BY DEF Crash
<1>3. ASSUME NEW t \in Threads, Submit(t)
      PROVE  NothingYet'
  <2>1. PICK r \in Requests :
          ReadUnformatted(t, r) \/ Reject(t, r) \/ AcceptEmpty(t, r) \/ Accept(t, r)
    BY <1>3 DEF Submit
  <2>2. CASE Accept(t, r)
    BY <1>0, <2>2 DEF Accept, MarkFormatted, NothingYet, TypeOK
  <2>3. CASE ReadUnformatted(t, r) \/ Reject(t, r) \/ AcceptEmpty(t, r)
    BY <1>0, <2>3 DEF ReadUnformatted, Reject, AcceptEmpty, MarkFormatted, Return, Goto,
                      files, NothingYet, TypeOK
  <2> QED BY <2>1, <2>2, <2>3
<1>4. ASSUME NEW t \in Threads, Step(t)
      PROVE  NothingYet'
  <2>1. pc[t] # "idle" /\ is_fs_done' = is_fs_done
    BY <1>4
       DEF Step, StatFound, StatMissing, StatUnplaced, FetchLock, FetchStat, FetchCreat,
           FetchCreatFails, FetchAlloc, FetchAllocFails, FetchUnlock, FetchUnlockFail,
           OpenObject, OpenObjectFails, ObjRead, ObjWrite, ObjReadEof, ObjIoFails,
           ObjReset, OpReset, NextObject, Complete, ResetFails, vars
  <2> QED BY <2>1 DEF NothingYet
<1>5. CASE OtherLuns
  BY <1>5 DEF OtherLuns, files, NothingYet
<1> QED BY <1>1, <1>2, <1>3, <1>4, <1>5 DEF SharedNext, Next

(* A read that simpleOSD_blk_read answers without looking at the objects   *)
(* misses nothing: while is_fs_done is FALSE there are none, whatever the  *)
(* other LUNs do.                                                          *)
THEOREM UnformattedIsEmptyShared ==
  "crash" \notin Faults /\ SharedSpec => []UnformattedIsEmpty
<1> SUFFICES ASSUME "crash" \notin Faults PROVE SharedSpec => []UnformattedIsEmpty
  OBVIOUS
<1>1. Init => TypeInv /\ NothingYet
  BY TypeInit DEF Init, NothingYet
<1>2. TypeInv /\ NothingYet /\ [SharedNext]_vars => TypeInv' /\ NothingYet'
  BY TypeStep, NothingYetStep
<1>3. NothingYet => UnformattedIsEmpty
  BY DEF NothingYet, UnformattedIsEmpty
<1> QED BY <1>1, <1>2, <1>3, PTL DEF SharedSpec

(* The same for a LUN alone in its process. *)
THEOREM UnformattedIsEmptyAlways ==
  "crash" \notin Faults /\ Spec => []UnformattedIsEmpty
  BY AloneIsShared, UnformattedIsEmptyShared, PTL

-----------------------------------------------------------------------------
(* No spurious errors.                                                     *)

(* The descriptors that osd_reset_cache_object closes again.               *)
ClosableFds == {fd \in Fds : fd > RESERVED_FDS}

(* One for every object, which simpleOSD_get_object_to_dc leaves open, and *)
(* one for every thread, in a process without other LUNs.                  *)
EnoughFds ==
  /\ OtherThreads = {}
  /\ IsFiniteSet(Threads)
  /\ Cardinality(ClosableFds) >= nb_objects + Cardinality(Threads)

(* The process has created objects of the collection only, no call is on   *)
(* an error path, and the object a call is about to open exists.           *)
Served ==
  /\ present \subseteq {Oid(i) : i \in Indexes}
  /\ \A t \in Threads :
       /\ pc[t] \notin {"fetch_fail", "obj_reset", "op_reset"}
       /\ pc[t] \in {"fetch_alloc", "fetch_unlock", "open"} => CurrentOid(t) \in present

(* The descriptors of transfers are no more than the threads in transfers. *)
LEMMA FewIoFds ==
  ASSUME OtherThreads = {}, TypeOK, FdAccounting, IsFiniteSet(Threads), NEW t \in Threads, ~OwnsFd(t)
  PROVE  LET Io == {fd \in ClosableFds : \E e \in fdtab[fd] : e.use = "io"} IN
         /\ IsFiniteSet(Io)
         /\ Cardinality(Io) <= Cardinality(Threads) - 1
<1> DEFINE Io == {fd \in ClosableFds : \E e \in fdtab[fd] : e.use = "io"}
           Others == Threads \ {t}
           Owners == {u \in Others : OwnsFd(u)}
           Held == {file_fd[u] : u \in Owners}
           f == [u \in Owners |-> file_fd[u]]
<1>1. IsFiniteSet(Others) /\ Cardinality(Others) = Cardinality(Threads) - 1
  BY FS_RemoveElement
<1>2. Owners \subseteq Others
  OBVIOUS
<1>3. IsFiniteSet(Owners) /\ Cardinality(Owners) <= Cardinality(Others)
  <2> HIDE DEF Owners, Others
  <2> QED BY <1>1, <1>2, FS_Subset
<1>4. f \in Surjection(Owners, Held)
  BY DEF Surjection
<1>5. IsFiniteSet(Held) /\ Cardinality(Held) <= Cardinality(Owners)
  <2> HIDE DEF f, Owners, Held
  <2> QED BY <1>3, <1>4, FS_Surjection
<1>6. Io \subseteq Held
  <2> SUFFICES ASSUME NEW fd \in Io PROVE fd \in Held
    OBVIOUS
  <2>1. PICK e \in fdtab[fd] : e.use = "io"
    OBVIOUS
  <2>2. fd \in Fds /\ fd > RESERVED_FDS
    BY DEF ClosableFds
  <2>3. e.thread \in Threads
    BY <2>2 DEF TypeOK, Entries
  <2>4. OwnsFd(e.thread) /\ file_fd[e.thread] = fd
    BY <2>1, <2>2, <2>3 DEF FdAccounting
  <2> QED BY <2>3, <2>4
<1>7. IsFiniteSet(Io) /\ Cardinality(Io) <= Cardinality(Held)
  <2> HIDE DEF Io, Held
  <2> QED BY <1>5, <1>6, FS_Subset
<1>8. /\ Cardinality(Io) \in Nat /\ Cardinality(Held) \in Nat
      /\ Cardinality(Owners) \in Nat /\ Cardinality(Others) \in Nat
  BY <1>1, <1>3, <1>5, <1>7, FS_CardinalityType
<1> HIDE DEF Io, Held, Owners, Others
<1>9. Cardinality(Io) <= Cardinality(Threads) - 1
  BY <1>1, <1>3, <1>5, <1>7, <1>8
<1> QED BY <1>7, <1>9 DEF Io

(* The descriptors left open by creations are no more than the objects. *)
LEMMA FewCreatFds ==
  ASSUME OtherThreads = {}, TypeOK, CreatInv, CreatedOnce, Served
  PROVE  LET Creat == {fd \in ClosableFds : \E e \in fdtab[fd] : e.use = "creat"} IN
         /\ IsFiniteSet(Creat)
         /\ Cardinality(Creat) <= nb_objects
<1> DEFINE Creat == {fd \in ClosableFds : \E e \in fdtab[fd] : e.use = "creat"}
           Made(fd, i) == \E e \in fdtab[fd] : e.use = "creat" /\ e.oid = Oid(i)
           g == [fd \in Creat |-> CHOOSE i \in Indexes : Made(fd, i)]
<1>1. ASSUME NEW fd \in Creat PROVE \E i \in Indexes : Made(fd, i)
  <2>1. PICK e \in fdtab[fd] : e.use = "creat"
    OBVIOUS
  <2>2. e.oid \in present
    BY <2>1 DEF CreatInv, ClosableFds, TypeOK, Entries
  <2> QED BY <2>1, <2>2 DEF Served
<1>2. ASSUME NEW fd \in Creat PROVE g[fd] \in Indexes /\ Made(fd, g[fd])
  <2> HIDE DEF Made
  <2> QED BY <1>1
<1>3. ASSUME NEW fd \in Creat, NEW gd \in Creat, g[fd] = g[gd] PROVE fd = gd
  <2>1. Made(fd, g[fd]) /\ Made(gd, g[fd])
    BY <1>2, <1>3
  <2>2. fd \in Fds /\ gd \in Fds
    BY DEF ClosableFds
  <2> HIDE DEF g
  <2>3. \A e \in fdtab[fd] \cup fdtab[gd] : e.thread \in Threads
    BY <2>2 DEF TypeOK, Entries
  <2> QED BY <2>1, <2>2, <2>3 DEF CreatedOnce
<1>4. g \in Injection(Creat, Indexes)
  <2>1. g \in [Creat -> Indexes]
    <3> HIDE DEF Made, Creat
    <3> QED BY <1>2
  <2> HIDE DEF g, Creat
  <2> QED BY <1>3, <2>1 DEF Injection, IsInjective
<1>5. IsFiniteSet(Indexes) /\ Cardinality(Indexes) = nb_objects
  BY FS_Interval, StripingAssumption DEF Indexes
<1> HIDE DEF g, Creat
<1>6. IsFiniteSet(Creat) /\ Cardinality(Creat) <= nb_objects
  BY <1>4, <1>5, FS_Injection
<1> QED BY <1>6 DEF Creat

(* So a thread that is about to open a file finds a free descriptor. *)
LEMMA FreeFd ==
  ASSUME EnoughFds, TypeOK, FdAccounting, CreatInv, CreatedOnce, Served,
         NEW t \in Threads, ~OwnsFd(t)
  PROVE  ~NoFreeFd
<1> DEFINE Io == {fd \in ClosableFds : \E e \in fdtab[fd] : e.use = "io"}
           Creat == {fd \in ClosableFds : \E e \in fdtab[fd] : e.use = "creat"}
<1>1. /\ IsFiniteSet(Io) /\ Cardinality(Io) <= Cardinality(Threads) - 1
      /\ IsFiniteSet(Creat) /\ Cardinality(Creat) <= nb_objects
  BY FewIoFds, FewCreatFds DEF EnoughFds
<1>2. SUFFICES ASSUME NoFreeFd PROVE FALSE
  OBVIOUS
<1>3. ClosableFds \subseteq Io \cup Creat
  BY <1>2 DEF NoFreeFd, ClosableFds, TypeOK, Entries
<1> HIDE DEF Io, Creat
<1>4. /\ IsFiniteSet(Io \cup Creat) /\ IsFiniteSet(Io \cap Creat)
      /\ Cardinality(Io \cup Creat) =
           Cardinality(Io) + Cardinality(Creat) - Cardinality(Io \cap Creat)
  BY <1>1, FS_Union, FS_Intersection
<1>5. Cardinality(ClosableFds) <= Cardinality(Io \cup Creat)
  BY <1>3, <1>4, FS_Subset
<1>6. /\ Cardinality(Io) \in Nat /\ Cardinality(Creat) \in Nat
      /\ Cardinality(Io \cap Creat) \in Nat /\ Cardinality(ClosableFds) \in Nat
      /\ Cardinality(Threads) \in Nat /\ nb_objects \in Nat
  BY <1>1, <1>3, <1>4, FS_Subset, FS_CardinalityType, StripingAssumption DEF EnoughFds
<1> QED BY <1>1, <1>4, <1>5, <1>6 DEF EnoughFds

(* What the theorem below rests on. *)
ServedInv ==
  /\ TypeInv /\ CursorInv /\ LockDiscipline /\ FdAccounting
  /\ CreatInv /\ CreatedOnce /\ Served

(* A thread about to create or to open a file finds a descriptor for it, a *)
(* thread in a transfer has its file open.                                 *)
LEMMA NoFailure ==
  ASSUME EnoughFds, Faults \subseteq {"crash"}, ServedInv, NEW t \in Threads
  PROVE  /\ ~FetchCreatFails(t) /\ ~FetchAllocFails(t) /\ ~FetchUnlockFail(t)
         /\ ~OpenObjectFails(t) /\ ~ObjIoFails(t)
         /\ ~ObjReset(t) /\ ~OpReset(t) /\ ~ResetFails(t)
<1>1. "stat" \notin Faults /\ "creat" \notin Faults /\ "fallocate" \notin Faults
      /\ "open" \notin Faults /\ "io" \notin Faults /\ "close" \notin Faults
  OBVIOUS
<1>2. TypeOK /\ FdAccounting /\ CreatInv /\ CreatedOnce /\ Served
  BY DEF ServedInv, TypeInv
<1>3. pc[t] \in {"fetch_creat", "open"} => ~NoFreeFd
  BY <1>2, FreeFd DEF OwnsFd
<1>4. OwnsFd(t) => fdtab[file_fd[t]] # {}
  BY <1>2, OwnedIsOpen
<1>5. ~FetchCreatFails(t) /\ ~FetchAllocFails(t) /\ ~FetchUnlockFail(t)
  BY <1>1, <1>2, <1>3 DEF FetchCreatFails, FetchAllocFails, FetchUnlockFail, Served
<1>6. ~OpenObjectFails(t)
  BY <1>1, <1>2, <1>3 DEF OpenObjectFails, Served
<1>7. ~ObjIoFails(t) /\ ~ObjReset(t) /\ ~OpReset(t) /\ ~ResetFails(t)
  BY <1>1, <1>2, <1>4
     DEF ObjIoFails, ObjReset, OpReset, ResetFails, ResetClose, OwnsFd, Served
<1> QED BY <1>5, <1>6, <1>7

(* A step that opens nothing new keeps Served if the thread stays off the  *)
(* error paths.                                                            *)
LEMMA KeepServed ==
  ASSUME Served, NEW t \in Threads, \A u \in Threads : u # t => SameCall(u),
         present' = present,
         pc'[t] \notin {"fetch_fail", "obj_reset", "op_reset"},
         pc'[t] \in {"fetch_alloc", "fetch_unlock", "open"} => CurrentOid(t)' \in present
  PROVE  Served'
  BY DEF Served, SameCall, CurrentOid

(* Served is inductive, given the rest. *)
LEMMA ServedStep ==
  ASSUME EnoughFds, Faults \subseteq {"crash"}, ServedInv, [Next]_vars
  PROVE  Served'
<1> USE DEF files, locals, Goto
<1>0. TypeOK /\ Served /\ CursorInv
  BY DEF ServedInv, TypeInv
<1>1. CASE UNCHANGED vars
  BY <1>0, <1>1 DEF vars, Served, CurrentOid
<1>2. CASE Crash
  BY <1>0, <1>2 DEF Crash, Served
<1>3. ASSUME NEW t \in Threads, Submit(t) \/ Step(t)
      PROVE  Served'
  <2>0. \A u \in Threads : u # t => SameCall(u)
    BY <1>0, <1>3, OthersKeepTheirCall
  <2>1. CASE Submit(t)
    <3>1. present' = present /\ pc'[t] \in {"idle", "stat"}
      BY <1>0, <2>1
         DEF Submit, ReadUnformatted, Reject, AcceptEmpty, Accept, Return, TypeOK
    <3> QED BY <1>0, <2>0, <3>1, KeepServed
  <2>2. CASE StatFound(t) \/ StatMissing(t) \/ StatUnplaced(t) \/ FetchLock(t) \/ FetchStat(t)
    <3>1. /\ present' = present
          /\ \/ pc'[t] \in {"idle", "fetch_lock", "fetch_stat", "fetch_creat"}
             \/ /\ pc'[t] \in {"open", "fetch_unlock"}
                /\ CurrentOid(t) \in present
                /\ CurrentOid(t)' = CurrentOid(t)
      BY <1>0, <2>2 DEF StatFound, StatMissing, StatUnplaced, FetchLock, FetchStat, Return,
                        CurrentOid, TypeOK
    <3> QED BY <1>0, <2>0, <3>1, KeepServed
  <2>3. CASE FetchCreat(t)
    <3>1. /\ present' = present \cup {CurrentOid(t)} /\ pc'[t] = "fetch_alloc"
          /\ traverse_index' = traverse_index /\ pc[t] = "fetch_creat"
      BY <1>0, <2>3 DEF FetchCreat, TypeOK
    <3>2. traverse_index[t] \in Indexes
      BY <1>0, <3>1 DEF CursorInv
    <3>3. present' \subseteq {Oid(i) : i \in Indexes}
      BY <1>0, <3>1, <3>2 DEF Served, CurrentOid
    <3>4. \A u \in Threads : CurrentOid(u)' = CurrentOid(u)
      BY <3>1 DEF CurrentOid
    <3> QED BY <1>0, <2>0, <3>1, <3>3, <3>4 DEF Served, SameCall
  <2>4. CASE FetchAlloc(t) \/ FetchUnlock(t)
    <3>1. /\ present' = present /\ CurrentOid(t)' = CurrentOid(t)
          /\ pc[t] \in {"fetch_alloc", "fetch_unlock"}
          /\ pc'[t] \in {"fetch_unlock", "open"}
      BY <1>0, <2>4 DEF FetchAlloc, FetchUnlock, CurrentOid, TypeOK
    <3>2. CurrentOid(t) \in present
      BY <1>0, <3>1 DEF Served
    <3> QED BY <1>0, <2>0, <3>1, <3>2, KeepServed
  <2>5. CASE OpenObject(t) \/ \E n \in 1 .. object_size : ObjRead(t, n) \/ ObjWrite(t, n)
    <3>1. present' = present /\ pc'[t] \in {"io", "reset"}
      BY <1>0, <2>5 DEF OpenObject, ObjRead, ObjWrite, Advance, TypeOK
    <3> QED BY <1>0, <2>0, <3>1, KeepServed
  <2>6. CASE ObjReadEof(t)
    BY <1>0, <2>6 DEF ObjReadEof, vars, Served, CurrentOid
  <2>7. CASE NextObject(t) \/ Complete(t)
    <3>1. present' = present /\ pc'[t] \in {"idle", "stat"}
      BY <1>0, <2>7 DEF NextObject, Complete, Return, TypeOK
    <3> QED BY <1>0, <2>0, <3>1, KeepServed
  <2> QED BY <1>3, <2>1, <2>2, <2>3, <2>4, <2>5, <2>6, <2>7, NoFailure DEF Step
<1> QED BY <1>1, <1>2, <1>3 DEF Next

(* A later byte is not in an earlier object. *)
LEMMA IndexMonotone ==
  ASSUME NEW a \in Nat, NEW b \in Nat, a <= b
  PROVE  ObjectIndex(a) <= ObjectIndex(b)
<1> DEFINE p == ObjectIndex(a)
           q == ObjectIndex(b)
<1>1. /\ p \in Nat /\ q \in Nat
      /\ \E r \in 0 .. object_size - 1 : a = object_size * p + r
      /\ \E r \in 0 .. object_size - 1 : b = object_size * q + r
  BY OffsetFacts DEF LocalOffsets
<1>2. object_size \in Nat \ {0}
  BY StripingAssumption
<1> HIDE DEF p, q
<1>3. ASSUME q < p PROVE FALSE
  <2>1. p >= q + 1
    BY <1>1, <1>3
  <2>2. object_size * p >= object_size * q + object_size
    <3>1. object_size * p >= object_size * (q + 1)
      BY <1>1, <1>2, <2>1, SMTT(30)
    <3>2. object_size * (q + 1) = object_size * q + object_size
      BY <1>1, <1>2, SMTT(30)
    <3> QED BY <3>1, <3>2
  <2>3. object_size * p \in Nat /\ object_size * q \in Nat
    BY <1>1, <1>2
  <2> QED BY <1>1, <1>2, <2>2, <2>3
<1>4. p <= q
  BY <1>1, <1>3
<1> QED BY <1>4 DEF p, q

(* NoSpuriousError speaks of one thread at a time. *)
Excused(t) ==
  \/ ~SpanAccepted(req[t].offset, req[t].buf_len)
  \/ \E i \in Indexes :
       /\ ~DpNodeFound(i)
       /\ i \in ObjectIndex(req[t].offset) ..
                ObjectIndex(req[t].offset + req[t].buf_len - 1)

(* A call that stops at an object without a node needed that object. *)
LEMMA UnplacedExcused ==
  ASSUME TypeInv, CursorInv, NEW t \in Threads, StatUnplaced(t)
  PROVE  Excused(t)
<1> DEFINE o == req[t].offset
           len == req[t].buf_len
           d == buf_done[t]
<1>1. pc[t] = "stat" /\ ~DpNodeFound(traverse_index[t])
  BY DEF StatUnplaced
<1>2. o \in Nat /\ len \in Nat /\ d \in Nat
  BY <1>1, RequestType DEF TypeInv, TypeOK, BufferInv
<1>3. d < len /\ traverse_index[t] = ObjectIndex(o + d) /\ traverse_index[t] \in Indexes
  BY <1>1 DEF CursorInv
<1>4. /\ ObjectIndex(o) <= ObjectIndex(o + d)
      /\ ObjectIndex(o + d) <= ObjectIndex(o + len - 1)
  <2> HIDE DEF o, len, d
  <2>1. o + d \in Nat /\ o + len - 1 \in Nat /\ o <= o + d /\ o + d <= o + len - 1
    BY <1>2, <1>3
  <2> QED BY <1>2, <2>1, IndexMonotone
<1>5. /\ ObjectIndex(o) \in Int /\ ObjectIndex(o + d) \in Int
      /\ ObjectIndex(o + len - 1) \in Int
  <2> HIDE DEF o, len, d
  <2>1. o + d \in Nat /\ o + len - 1 \in Nat
    BY <1>2, <1>3
  <2> QED BY <1>2, <2>1, OffsetFacts
<1>6. traverse_index[t] \in ObjectIndex(o) .. ObjectIndex(o + len - 1)
  BY <1>3, <1>4, <1>5
<1> QED BY <1>1, <1>3, <1>6 DEF Excused

(* NoSpuriousError is inductive, given the rest. *)
LEMMA ErrorStep ==
  ASSUME EnoughFds, Faults \subseteq {"crash"}, ServedInv, NoSpuriousError, [Next]_vars
  PROVE  NoSpuriousError'
<1> USE DEF files, locals, Goto
<1>0. TypeOK /\ TypeInv /\ CursorInv
  BY DEF ServedInv, TypeInv
<1>1. CASE UNCHANGED vars
  BY <1>1 DEF vars, NoSpuriousError
<1>2. CASE Crash
  BY <1>2 DEF Crash, NoSpuriousError
<1>3. ASSUME NEW t \in Threads, Submit(t) \/ Step(t)
      PROVE  NoSpuriousError'
  <2>1. \A u \in Threads : u # t => ret'[u] = ret[u] /\ req'[u] = req[u]
    <3>1. \A u \in Threads : u # t => req'[u] = req[u]
      BY <1>0, <1>3, OthersKeepTheirCall DEF SameCall
    <3>2. ret' = ret \/ \E x \in Results : ret' = [ret EXCEPT ![t] = x]
      <4>1. CASE Submit(t)
        BY <4>1 DEF Submit, ReadUnformatted, Reject, AcceptEmpty, Accept, Return, Results
      <4>2. CASE Step(t)
        BY <4>2
           DEF Step, StatFound, StatMissing, StatUnplaced, FetchLock, FetchStat,
               FetchCreat, FetchCreatFails, FetchAlloc, FetchAllocFails, FetchUnlock,
               FetchUnlockFail, OpenObject, OpenObjectFails, ObjRead, ObjWrite,
               ObjReadEof, ObjIoFails, ObjReset, OpReset, NextObject, Complete,
               ResetFails, Return, vars, Results
      <4> QED BY <1>3, <4>1, <4>2
    <3> QED BY <1>0, <3>1, <3>2 DEF TypeOK
  <2>2. ret'[t] = "OSD_ERROR" => Excused(t)'
    <3>1. CASE Submit(t)
      <4>1. PICK r \in Requests :
              ReadUnformatted(t, r) \/ Reject(t, r) \/ AcceptEmpty(t, r) \/ Accept(t, r)
        BY <3>1 DEF Submit
      <4>2. CASE Reject(t, r)
        BY <1>0, <4>2 DEF Reject, Arrive, TypeOK, Excused
      <4>3. CASE ReadUnformatted(t, r) \/ AcceptEmpty(t, r) \/ Accept(t, r)
        BY <1>0, <4>3 DEF ReadUnformatted, AcceptEmpty, Accept, Return, TypeOK
      <4> QED BY <4>1, <4>2, <4>3
    <3>2. CASE StatUnplaced(t)
      <4>1. req' = req
        BY <3>2 DEF StatUnplaced
      <4> QED BY <1>0, <3>2, <4>1, UnplacedExcused DEF Excused
    <3>3. CASE Complete(t)
      BY <1>0, <3>3 DEF Complete, Return, TypeOK
    <3>4. CASE Step(t) /\ ~StatUnplaced(t) /\ ~Complete(t)
      <4>1. ret' = ret /\ req' = req
        BY <3>4, NoFailure
           DEF Step, StatFound, StatMissing, FetchLock, FetchStat, FetchCreat, FetchAlloc,
               FetchUnlock, OpenObject, ObjRead, ObjWrite, ObjReadEof, NextObject, vars
      <4> QED BY <4>1 DEF NoSpuriousError, Excused
    <3> QED BY <1>3, <3>1, <3>2, <3>3, <3>4
  <2> QED BY <2>1, <2>2 DEF NoSpuriousError, Excused
<1> QED BY <1>1, <1>2, <1>3 DEF Next

(* With a descriptor for every object and every thread, and system calls   *)
(* that do not fail, no interleaving and no restart makes a request of     *)
(* simpleOSD_read/simpleOSD_write fail that is neither out of range nor on *)
(* an object without a data-placement node.                                *)
THEOREM NoSpuriousErrorAlways ==
  EnoughFds /\ Faults \subseteq {"crash"} /\ Spec => []NoSpuriousError
<1> SUFFICES ASSUME EnoughFds, Faults \subseteq {"crash"}
             PROVE  Spec => []NoSpuriousError
  OBVIOUS
<1> DEFINE I == ServedInv /\ NoSpuriousError
<1>1. Init => I
  BY TypeInit, LockInit
     DEF Init, ServedInv, CursorInv, FdAccounting, OwnsFd, CreatInv, CreatedOnce, Served,
         NoSpuriousError
<1>2. I /\ [Next]_vars => I'
  <2> SUFFICES ASSUME ServedInv, NoSpuriousError, [Next]_vars
               PROVE  ServedInv' /\ NoSpuriousError'
    OBVIOUS
  <2>1. "stat" \notin Faults /\ [SharedNext]_vars
    BY DEF SharedNext
  <2>2. TypeInv' /\ CursorInv' /\ LockDiscipline' /\ FdAccounting'
    BY <2>1, TypeStep, CursorStep, LockStep, FdStep DEF ServedInv
  <2>3. CreatInv' /\ CreatedOnce'
    BY <2>1, CreatStep DEF ServedInv
  <2>4. Served' /\ NoSpuriousError'
    BY ServedStep, ErrorStep
  <2> QED BY <2>2, <2>3, <2>4 DEF ServedInv
<1>3. I => NoSpuriousError
  OBVIOUS
<1> HIDE DEF I
<1> QED BY <1>1, <1>2, <1>3, PTL DEF Spec
=============================================================================
