---------------------------- MODULE FdCacheProofs ----------------------------
(***************************************************************************)
(* The descriptor cache of the RECACHE_FD_ENABLED build, for every number  *)
(* of objects, entries and descriptors and every set of failures.  Its     *)
(* types hold for any number of threads; that a chunk goes to its object,  *)
(* and that no descriptor is lost, is proved for a LUN with one worker     *)
(* thread, and fails with two, which share the entries without a lock.     *)
(***************************************************************************)
EXTENDS FdCache, TLAPS

Labels == {"idle", "check", "cached_stat", "recache", "stat", "fetch", "open", "io",
           "obj_reset", "op_reset"}

(* What an entry may hold. *)
EntryTypes(s) ==
  /\ cache[s] \in [object_index : Int, oid : Oids \cup {NoOid}, file_fd : Int]
  /\ cache[s].oid # NoOid => cache[s].object_index \in Indexes
  /\ cache[s].object_index \in Indexes => cache[s].object_index % NBMAXOBJECTS = s
                                          \/ cache[s].oid = NoOid
  /\ cache[s].file_fd \in Fds \cup {-1, 0} \cup {g.file_fd : g \in Garbage}

(* Where a thread is in its request. *)
ThreadTypes(t) ==
  pc[t] # "idle" => /\ req[t] \in Requests /\ lun_state = "open"
                    /\ traverse_index[t] \in req[t].first .. req[t].last

EntriesInv == DOMAIN cache = Slots /\ \A s \in Slots : EntryTypes(s)

LunInv ==
  start \in Starts /\ lun_state \in {"open", "closed", "lost"} /\ opens \in 1 .. MaxOpens

FilesInv ==
  /\ present \subseteq Oids /\ made \in [Oids -> 0 .. MaxMade]
  /\ \A o \in present : 1 <= made[o]
  /\ DOMAIN fdtab = Fds
  /\ \A fd \in Fds : \A e \in fdtab[fd] : e.oid \in Oids /\ e.made \in 1 .. made[e.oid]

CallsInv ==
  /\ pc \in [Threads -> Labels] /\ req \in [Threads -> Requests \cup {NoRequest}]
  /\ DOMAIN ret = Threads /\ traverse_index \in [Threads -> Int]
  /\ DOMAIN path = Threads /\ DOMAIN hit = Threads /\ DOMAIN evicted = Threads
  /\ \A t \in Threads : ThreadTypes(t)

CacheInv == EntriesInv /\ LunInv /\ FilesInv /\ CallsInv

(***************************************************************************)
(* One thread, in memory that names no descriptor of the library by        *)
(* chance.                                                                 *)
(***************************************************************************)
OneThread == \A t, u \in Threads : t = u
CleanMemory == \A g \in Garbage : g.file_fd \notin Fds

(* Between its recache and its open, a thread's entry has no descriptor. *)
Opening == {"stat", "fetch", "open"}
Cleared(t) == pc[t] \in Opening => Entry(t) = Fresh(t)

LostInv == NoDescriptorLost /\ \A t \in Threads : Cleared(t)

(* Only objects that have a node come to have a file. *)
PlacedInv ==
  /\ \A o \in present : o[2] \in Placed
  /\ \A t \in Threads : pc[t] = "fetch" => traverse_index[t] \in Placed

(* An entry with an id names the object of that id.  Its descriptor, if it *)
(* has one, is open on that object, and on the object's current file if    *)
(* there is one.                                                           *)
OwnEntry(s) ==
  /\ cache[s].oid # NoOid =>
       cache[s].oid = <<start, cache[s].object_index>> /\ cache[s].file_fd \in Fds \cup {-1, 0}
  /\ cache[s].file_fd \in Fds =>
       /\ cache[s].oid # NoOid /\ fdtab[cache[s].file_fd] # {}
       /\ \A e \in fdtab[cache[s].file_fd] :
            e.oid = cache[s].oid /\ (e.oid \in present => e.made = made[e.oid])

(* No two entries have the same descriptor. *)
OwnFds ==
  \A r, s \in Slots : cache[r].file_fd \in Fds /\ cache[r].file_fd = cache[s].file_fd => r = s

(* An entry that looks valid without a descriptor names no file, unless    *)
(* the thread is about to open it.                                         *)
Unopened(s) ==
  cache[s].oid \in present /\ cache[s].file_fd = 0 =>
    \E t \in Threads : pc[t] \in Opening /\ Slot(t) = s

(* What a thread knows of its entry. *)
OwnUse(t) ==
  /\ pc[t] = "cached_stat" =>
       Entry(t).object_index = traverse_index[t] /\ path[t] = Entry(t).oid
  /\ pc[t] = "io" =>
       /\ Entry(t).object_index = traverse_index[t] /\ Entry(t).oid = CurrentOid(t)
       /\ Entry(t).file_fd # 0
       /\ evicted[t] \/ CurrentOid(t) \in present

(* What the request has stored. *)
Stored(t) ==
  /\ pc[t] # "idle" => hit[t] = req[t].first .. traverse_index[t] - 1 /\ ret[t] = "none"
  /\ ret[t] = "OSD_SUCCESS" => hit[t] = req[t].first .. req[t].last

EntriesOwned == OwnFds /\ \A s \in Slots : OwnEntry(s)

TrustInv ==
  Trusted /\ lun_state = "open" =>
    EntriesOwned /\ (\A s \in Slots : Unopened(s)) /\ \A t \in Threads : OwnUse(t)

StoredInv == Trusted => \A t \in Threads : req[t].op = "write" => Stored(t)
-----------------------------------------------------------------------------
(* The constants, in the form the proofs need them. *)
LEMMA CacheConstants ==
  /\ nb_objects \in Nat \ {0} /\ NBMAXOBJECTS \in Nat \ {0} /\ 0 \in Slots
  /\ FirstFd \in Nat /\ LastFd \in Nat /\ FirstFd > 3
  /\ \A fd \in Fds : fd \in Int /\ fd > 3
  /\ NoOid \notin Oids
  /\ MaxOpens \in Nat \ {0} /\ MaxMade \in Nat \ {0}
<1>1. NoOid \notin Oids
  BY CacheAssumption DEF NoOid, Oids
<1> QED BY <1>1, CacheAssumption DEF Slots, Fds, RESERVED_FDS

(* A remainder is a slot, and at most the index it comes from. *)
LEMMA SlotOf ==
  ASSUME NEW i \in Nat, NEW n \in Nat \ {0}
  PROVE  i % n \in 0 .. n - 1 /\ i % n <= i
BY SMT

(* The object a thread is working on and its entry. *)
LEMMA ThreadFacts ==
  ASSUME CacheInv, NEW t \in Threads, pc[t] # "idle"
  PROVE  /\ req[t] \in Requests /\ req[t].first \in Indexes /\ req[t].last \in Indexes
         /\ traverse_index[t] \in Indexes /\ traverse_index[t] \in Nat
         /\ traverse_index[t] \in req[t].first .. req[t].last
         /\ Slot(t) \in Slots /\ Slot(t) \in CollectionSlots
         /\ CurrentOid(t) \in Oids /\ CurrentOid(t) # NoOid
         /\ EntryTypes(Slot(t)) /\ lun_state = "open"
<1>1. /\ req[t] \in Requests /\ lun_state = "open"
      /\ traverse_index[t] \in req[t].first .. req[t].last
  BY DEF CacheInv, CallsInv, ThreadTypes
<1>2. req[t].first \in Indexes /\ req[t].last \in Indexes
  BY <1>1, CacheAssumption
<1>3. traverse_index[t] \in Indexes /\ traverse_index[t] \in Nat
  BY <1>1, <1>2, CacheConstants DEF Indexes
<1>4. Slot(t) \in 0 .. NBMAXOBJECTS - 1 /\ Slot(t) <= traverse_index[t]
  BY <1>3, CacheConstants, SlotOf DEF Slot
<1>5. Slot(t) \in Slots /\ Slot(t) \in CollectionSlots
  BY <1>3, <1>4, CacheConstants DEF Slots, Indexes, CollectionSlots
<1>6. CurrentOid(t) \in Oids
  BY <1>3 DEF CacheInv, LunInv, CurrentOid, Oids
<1> QED BY <1>1, <1>2, <1>3, <1>5, <1>6, CacheConstants DEF CacheInv, EntriesInv

(* An entry that is replaced. *)
LEMMA SetEntryFacts ==
  ASSUME EntriesInv, NEW t \in Threads, Slot(t) \in Slots, NEW e, SetEntry(t, e)
  PROVE  /\ DOMAIN cache' = Slots /\ cache'[Slot(t)] = e
         /\ \A s \in Slots : s # Slot(t) => cache'[s] = cache[s]
BY DEF EntriesInv, SetEntry

(* An entry with a new descriptor. *)
LEMMA WithFd ==
  ASSUME NEW c \in [object_index : Int, oid : Oids \cup {NoOid}, file_fd : Int], NEW fd \in Int
  PROVE  LET d == [c EXCEPT !.file_fd = fd]
         IN  /\ d \in [object_index : Int, oid : Oids \cup {NoOid}, file_fd : Int]
             /\ d.object_index = c.object_index /\ d.oid = c.oid /\ d.file_fd = fd
OBVIOUS

(* An entry is replaced by one that is well formed. *)
LEMMA EntryTyped ==
  ASSUME EntriesInv, NEW t \in Threads, Slot(t) \in Slots, NEW e, SetEntry(t, e),
         e \in [object_index : Int, oid : Oids \cup {NoOid}, file_fd : Int],
         e.oid # NoOid => e.object_index \in Indexes,
         e.object_index \in Indexes => e.object_index % NBMAXOBJECTS = Slot(t) \/ e.oid = NoOid,
         e.file_fd \in Fds \cup {-1, 0}
  PROVE  EntriesInv'
<1>1. /\ DOMAIN cache' = Slots /\ cache'[Slot(t)] = e
      /\ \A s \in Slots : s # Slot(t) => cache'[s] = cache[s]
  BY SetEntryFacts
<1>2. ASSUME NEW s \in Slots PROVE EntryTypes(s)'
  <2>1. CASE s = Slot(t)
    BY <1>1, <2>1 DEF EntryTypes
  <2>2. CASE s # Slot(t)
    BY <1>1, <2>2 DEF EntriesInv, EntryTypes
  <2> QED BY <2>1, <2>2
<1> QED BY <1>1, <1>2 DEF EntriesInv

(* The entry of a reset. *)
Empty == [object_index |-> -1, oid |-> NoOid, file_fd |-> 0]

(* osd_reset_cache_object leaves a well-formed entry, whether or not its   *)
(* close succeeds.                                                         *)
LEMMA ResetTyped ==
  ASSUME EntriesInv, NEW t \in Threads, Slot(t) \in Slots, ResetEntry(t)
  PROVE  EntriesInv'
<1>1. EntryTypes(Slot(t)) /\ Entry(t) = cache[Slot(t)]
  BY DEF EntriesInv, Entry
<1>2. CASE SetEntry(t, Empty)
  <2>1. /\ Empty \in [object_index : Int, oid : Oids \cup {NoOid}, file_fd : Int]
        /\ Empty.oid = NoOid /\ Empty.file_fd \in Fds \cup {-1, 0}
    BY DEF Empty
  <2> HIDE DEF Empty
  <2> QED BY <1>2, <2>1, EntryTyped
<1>3. CASE SetEntry(t, [Entry(t) EXCEPT !.file_fd = -1])
  <2> DEFINE d == [Entry(t) EXCEPT !.file_fd = -1]
  <2>1. /\ d \in [object_index : Int, oid : Oids \cup {NoOid}, file_fd : Int]
        /\ d.object_index = Entry(t).object_index /\ d.oid = Entry(t).oid /\ d.file_fd = -1
    BY <1>1, WithFd DEF EntryTypes
  <2>2. SetEntry(t, d)
    BY <1>3
  <2> HIDE DEF d
  <2> QED BY <1>1, <2>1, <2>2, EntryTyped DEF EntryTypes
<1> QED BY <1>2, <1>3 DEF ResetEntry, Empty

(* Entries keep their form, whatever a thread finds in one. *)
LEMMA EntriesStep ==
  ASSUME CacheInv, Next
  PROVE  EntriesInv'
<1>0. EntriesInv
  BY DEF CacheInv
<1>1. ASSUME cache' = cache PROVE EntriesInv'
  BY <1>0, <1>1 DEF EntriesInv, EntryTypes
<1>2. ASSUME NEW t \in Threads, NEW r \in Requests, Submit(t, r) PROVE EntriesInv'
  BY <1>1, <1>2 DEF Submit
<1>3. ASSUME NEW t \in Threads, Recache(t) PROVE EntriesInv'
  <2>1. /\ Slot(t) \in Slots /\ traverse_index[t] \in Indexes /\ traverse_index[t] \in Nat
        /\ CurrentOid(t) \in Oids
    BY <1>3, ThreadFacts DEF Recache
  <2>2. /\ Fresh(t) \in [object_index : Int, oid : Oids \cup {NoOid}, file_fd : Int]
        /\ Fresh(t).object_index = traverse_index[t] /\ Fresh(t).file_fd = 0
    BY <2>1 DEF Fresh
  <2>3. traverse_index[t] % NBMAXOBJECTS = Slot(t)
    BY DEF Slot
  <2>4. SetEntry(t, Fresh(t))
    BY <1>3 DEF Recache
  <2> QED BY <1>0, <2>1, <2>2, <2>3, <2>4, EntryTyped
<1>4. ASSUME NEW t \in Threads, OpenObject(t) \/ OpenFails(t) PROVE EntriesInv'
  <2>1. Slot(t) \in Slots /\ EntryTypes(Slot(t)) /\ Entry(t) = cache[Slot(t)]
    BY <1>4, ThreadFacts DEF OpenObject, OpenFails, Entry
  <2>2. PICK fd \in Fds \cup {-1} : SetEntry(t, [Entry(t) EXCEPT !.file_fd = fd])
    BY <1>4 DEF OpenObject, OpenFails
  <2>3. fd \in Int
    BY CacheConstants
  <2> DEFINE d == [Entry(t) EXCEPT !.file_fd = fd]
  <2>4. /\ d \in [object_index : Int, oid : Oids \cup {NoOid}, file_fd : Int]
        /\ d.object_index = Entry(t).object_index /\ d.oid = Entry(t).oid /\ d.file_fd = fd
    BY <2>1, <2>3, WithFd DEF EntryTypes
  <2>5. SetEntry(t, d)
    BY <2>2
  <2> HIDE DEF d
  <2> QED BY <1>0, <2>1, <2>4, <2>5, EntryTyped DEF EntryTypes
<1>5. ASSUME NEW t \in Threads, ObjReset(t) \/ OpReset(t) PROVE EntriesInv'
  BY <1>0, <1>5, ThreadFacts, ResetTyped DEF ObjReset, OpReset
<1>6. ASSUME NEW t \in Threads, Step(t), ~Recache(t), ~OpenObject(t), ~OpenFails(t),
             ~ObjReset(t), ~OpReset(t)
      PROVE  EntriesInv'
  BY <1>1, <1>6
     DEF Step, Check, CachedStat, RecacheCloseFails, StatFound, StatMissing, FetchExists,
         FetchCreates, FetchFails, Transfer, TransferNull, TransferFails, vars
<1>7. ASSUME CloseLun \/ CloseLunFails PROVE EntriesInv'
  <2>1. PICK done : cache' = [s \in Slots |-> IF s \in done THEN [cache[s] EXCEPT !.file_fd = 0]
                                                          ELSE cache[s]]
    BY <1>7 DEF CloseLun, CloseLunFails, FreeSlots
  <2>2. ASSUME NEW s \in Slots PROVE EntryTypes(s)'
    <3>1. EntryTypes(s)
      BY <1>0 DEF EntriesInv
    <3>2. CASE s \in done
      <4>1. cache'[s] = [cache[s] EXCEPT !.file_fd = 0]
        BY <2>1, <3>2
      <4> DEFINE d == [cache[s] EXCEPT !.file_fd = 0]
      <4>2. /\ d \in [object_index : Int, oid : Oids \cup {NoOid}, file_fd : Int]
            /\ d.object_index = cache[s].object_index /\ d.oid = cache[s].oid /\ d.file_fd = 0
        BY <3>1, WithFd DEF EntryTypes
      <4>3. cache'[s] = d
        BY <4>1
      <4> HIDE DEF d
      <4> QED BY <3>1, <4>2, <4>3 DEF EntryTypes
    <3>3. CASE s \notin done
      BY <2>1, <3>1, <3>3 DEF EntryTypes
    <3> QED BY <3>2, <3>3
  <2> QED BY <2>1, <2>2 DEF EntriesInv
<1>8. ASSUME OpenLun \/ \E o \in Oids : Evict(o) PROVE EntriesInv'
  BY <1>1, <1>8 DEF OpenLun, Evict
<1> QED BY <1>2, <1>3, <1>4, <1>5, <1>6, <1>7, <1>8 DEF Next
(* The LUN is opened again only within the bound. *)
LEMMA LunStep ==
  ASSUME CacheInv, Next
  PROVE  LunInv'
<1>1. /\ start \in Starts /\ opens \in 1 .. MaxOpens /\ MaxOpens \in Nat
      /\ lun_state \in {"open", "closed", "lost"}
  BY CacheConstants DEF CacheInv, LunInv
<1>2. ASSUME NEW t \in Threads, Step(t) \/ \E r \in Requests : Submit(t, r)
      PROVE  UNCHANGED <<start, lun_state, opens>>
  BY <1>2
     DEF Step, Check, CachedStat, Recache, RecacheCloseFails, StatFound, StatMissing,
         FetchExists, FetchCreates, FetchFails, OpenObject, OpenFails, Transfer, TransferNull,
         TransferFails, ObjReset, OpReset, Submit, lun, vars
<1>3. ASSUME CloseLun \/ CloseLunFails \/ OpenLun PROVE LunInv'
  BY <1>1, <1>3 DEF CloseLun, CloseLunFails, OpenLun, LunInv
<1>4. ASSUME \E o \in Oids : Evict(o) PROVE LunInv'
  BY <1>1, <1>4 DEF Evict, lun, LunInv
<1> QED BY <1>1, <1>2, <1>3, <1>4 DEF Next, LunInv

(* Descriptors that are closed leave the table as it should be, and so     *)
(* does one that is opened on a file.                                      *)
LEMMA FdsClosed ==
  ASSUME FilesInv, UNCHANGED <<present, made>>, DOMAIN fdtab' = Fds,
         \A fd \in Fds : fdtab'[fd] = fdtab[fd] \/ fdtab'[fd] = {}
  PROVE  FilesInv'
BY DEF FilesInv

(* close frees one descriptor, whatever it returns. *)
LEMMA CloseFdFacts ==
  ASSUME NEW fd, NEW ok, CloseFd(fd, ok)
  PROVE  DOMAIN fdtab' = Fds /\ \A g \in Fds : fdtab'[g] = IF g = fd THEN {} ELSE fdtab[g]
BY DEF CloseFd

(* Files and descriptors keep their types: the only file made is that of   *)
(* the current object.                                                     *)
LEMMA FilesStep ==
  ASSUME CacheInv, Next
  PROVE  FilesInv'
<1>0. FilesInv
  BY DEF CacheInv
<1>1. ASSUME UNCHANGED <<present, made, fdtab>> PROVE FilesInv'
  BY <1>0, <1>1 DEF FilesInv
<1>2. ASSUME NEW t \in Threads, NEW r \in Requests, Submit(t, r) PROVE FilesInv'
  BY <1>1, <1>2 DEF Submit, files
<1>3. ASSUME NEW t \in Threads, Recache(t) \/ RecacheCloseFails(t) PROVE FilesInv'
  <2>1. UNCHANGED <<present, made>>
    BY <1>3 DEF Recache, RecacheCloseFails, files
  <2>2. fdtab' = fdtab \/ \E fd, ok : CloseFd(fd, ok)
    BY <1>3 DEF Recache, RecacheCloseFails
  <2>3. CASE fdtab' = fdtab
    BY <1>1, <2>1, <2>3
  <2>4. CASE \E fd, ok : CloseFd(fd, ok)
    BY <1>0, <2>1, <2>4, CloseFdFacts, FdsClosed
  <2> QED BY <2>2, <2>3, <2>4
<1>4. ASSUME NEW t \in Threads, ObjReset(t) \/ OpReset(t) PROVE FilesInv'
  <2>1. UNCHANGED <<present, made>>
    BY <1>4 DEF ObjReset, OpReset, files
  <2>2. fdtab' = fdtab \/ \E fd, ok : CloseFd(fd, ok)
    BY <1>4 DEF ObjReset, OpReset, ResetEntry
  <2>3. CASE fdtab' = fdtab
    BY <1>1, <2>1, <2>3
  <2>4. CASE \E fd, ok : CloseFd(fd, ok)
    BY <1>0, <2>1, <2>4, CloseFdFacts, FdsClosed
  <2> QED BY <2>2, <2>3, <2>4
<1>5. ASSUME NEW t \in Threads, FetchCreates(t) PROVE FilesInv'
  <2>1. CurrentOid(t) \in Oids
    BY <1>5, ThreadFacts DEF FetchCreates, FetchMisses
  <2>2. PICK o : o = CurrentOid(t)
    OBVIOUS
  <2>3. /\ made[o] \in 0 .. MaxMade /\ present' = present \cup {o} /\ o \in Oids
        /\ \/ o \in present /\ made' = made
           \/ made[o] < MaxMade /\ made' = [made EXCEPT ![o] = @ + 1]
    BY <1>0, <1>5, <2>1, <2>2 DEF FetchCreates, FilesInv
  <2>4. made' \in [Oids -> 0 .. MaxMade]
    BY <1>0, <2>3, CacheConstants DEF FilesInv
  <2>5. /\ \A p \in Oids : made[p] <= made'[p] /\ made[p] \in Nat /\ made'[p] \in Nat
        /\ 1 <= made'[o]
    BY <1>0, <2>3, <2>4, CacheConstants DEF FilesInv
  <2>6. PICK fd \in Fds : fdtab' = [fdtab EXCEPT ![fd] = {FileOf(t, "creat")}]
    BY <1>5 DEF FetchCreates
  <2>7. FileOf(t, "creat").oid = o /\ FileOf(t, "creat").made = made'[o]
    BY <2>2 DEF FileOf
  <2>8. ASSUME NEW g \in Fds, NEW e \in fdtab'[g]
        PROVE  e.oid \in Oids /\ e.made \in 1 .. made'[e.oid]
    <3>1. CASE g = fd
      <4>1. e.oid = o /\ e.made = made'[o]
        BY <1>0, <2>6, <2>7, <2>8, <3>1 DEF FilesInv
      <4> QED BY <2>3, <2>4, <2>5, <4>1
    <3>2. CASE g # fd
      <4>1. e.oid \in Oids /\ e.made \in 1 .. made[e.oid]
        BY <1>0, <2>6, <2>8, <3>2 DEF FilesInv
      <4> QED BY <2>5, <4>1
    <3> QED BY <3>1, <3>2
  <2>9. \A p \in present' : p \in Oids /\ 1 <= made'[p]
    BY <1>0, <2>3, <2>4, <2>5 DEF FilesInv
  <2>10. DOMAIN fdtab' = Fds
    BY <1>0, <2>6 DEF FilesInv
  <2> QED BY <2>4, <2>8, <2>9, <2>10 DEF FilesInv
<1>6. ASSUME NEW t \in Threads, OpenObject(t) PROVE FilesInv'
  <2>1. CurrentOid(t) \in present /\ present' = present /\ made' = made
    BY <1>6 DEF OpenObject
  <2>2. PICK fd \in Fds : fdtab' = [fdtab EXCEPT ![fd] = {FileOf(t, "io")}]
    BY <1>6 DEF OpenObject
  <2>3. FileOf(t, "io").oid = CurrentOid(t) /\ FileOf(t, "io").made = made[CurrentOid(t)]
    BY <2>1 DEF FileOf
  <2>4. /\ CurrentOid(t) \in Oids
        /\ made[CurrentOid(t)] \in 1 .. made[CurrentOid(t)]
    BY <1>0, <2>1, CacheConstants DEF FilesInv
  <2>5. ASSUME NEW g \in Fds, NEW e \in fdtab'[g]
        PROVE  e.oid \in Oids /\ e.made \in 1 .. made[e.oid]
    BY <1>0, <2>2, <2>3, <2>4, <2>5 DEF FilesInv
  <2> QED BY <1>0, <2>1, <2>2, <2>5 DEF FilesInv
<1>7. ASSUME NEW t \in Threads, Step(t), ~Recache(t), ~RecacheCloseFails(t), ~FetchCreates(t),
             ~OpenObject(t), ~ObjReset(t), ~OpReset(t)
      PROVE  FilesInv'
  BY <1>1, <1>7
     DEF Step, Check, CachedStat, StatFound, StatMissing, FetchExists, FetchFails, OpenFails,
         Transfer, TransferNull, TransferFails, vars, files
<1>8. ASSUME CloseLun \/ CloseLunFails PROVE FilesInv'
  <2>1. UNCHANGED <<present, made>>
    BY <1>8 DEF CloseLun, CloseLunFails, files
  <2>2. PICK done : fdtab' = [fd \in Fds |-> IF \E s \in done : cache[s].file_fd = fd THEN {}
                                             ELSE fdtab[fd]]
    BY <1>8 DEF CloseLun, CloseLunFails, FreeSlots
  <2> QED BY <1>0, <2>1, <2>2, FdsClosed
<1>9. ASSUME OpenLun PROVE FilesInv'
  BY <1>1, <1>9 DEF OpenLun, files
<1>10. ASSUME NEW o \in Oids, Evict(o) PROVE FilesInv'
  BY <1>0, <1>10 DEF Evict, FilesInv
<1> QED BY <1>2, <1>3, <1>4, <1>5, <1>6, <1>7, <1>8, <1>9, <1>10 DEF Next

(* A request goes through its objects one after the other. *)
LEMMA CallsStep ==
  ASSUME CacheInv, Next
  PROVE  CallsInv'
<1>0. CallsInv
  BY DEF CacheInv
<1>1. ASSUME NEW t \in Threads, NEW r \in Requests, Submit(t, r) PROVE CallsInv'
  <2>1. r.first \in r.first .. r.last /\ r.first \in Int
    BY CacheAssumption DEF Indexes
  <2> QED BY <1>0, <1>1, <2>1 DEF Submit, Goto, CallsInv, ThreadTypes, Labels, lun
<1>2. ASSUME NEW t \in Threads, NEW result, Return(t, result), lun_state' = lun_state
      PROVE  CallsInv'
  BY <1>0, <1>2 DEF Return, Goto, CallsInv, ThreadTypes, Labels
<1>3. ASSUME NEW t \in Threads, pc[t] # "idle", NEW label \in Labels, Goto(t, label),
             UNCHANGED <<lun_state, req, traverse_index, ret, hit>>,
             DOMAIN path' = Threads, DOMAIN evicted' = Threads
      PROVE  CallsInv'
  BY <1>0, <1>3 DEF Goto, CallsInv, ThreadTypes
<1>4. ASSUME NEW t \in Threads, pc[t] = "io", NextChunk(t), UNCHANGED <<lun_state, req>>,
             DOMAIN hit' = Threads
      PROVE  CallsInv'
  <2>1. /\ traverse_index[t] \in req[t].first .. req[t].last
        /\ req[t].first \in Int /\ req[t].last \in Int /\ req[t] \in Requests
        /\ lun_state = "open"
    BY <1>4, ThreadFacts DEF Indexes
  <2>2. CASE traverse_index[t] = req[t].last
    BY <1>0, <1>4, <2>2 DEF NextChunk, Goto, CallsInv, ThreadTypes, Labels
  <2>3. CASE traverse_index[t] # req[t].last
    BY <1>0, <1>4, <2>1, <2>3 DEF NextChunk, Goto, CallsInv, ThreadTypes, Labels
  <2> QED BY <2>2, <2>3
<1>5. ASSUME NEW t \in Threads, Check(t) \/ CachedStat(t) \/ Recache(t) \/ StatFound(t)
                                \/ FetchExists(t) \/ OpenObject(t) \/ TransferFails(t)
                                \/ ObjReset(t)
      PROVE  CallsInv'
  <2>1. /\ pc[t] # "idle" /\ UNCHANGED <<lun_state, req, traverse_index, ret, hit>>
        /\ DOMAIN path' = Threads /\ DOMAIN evicted' = Threads
    BY <1>0, <1>5 DEF Check, CachedStat, Recache, StatFound, FetchExists, OpenObject,
                      TransferFails, ObjReset, call, lun, CallsInv
  <2>2. \E label \in Labels : Goto(t, label)
    BY <1>5 DEF Check, CachedStat, Recache, StatFound, FetchExists, OpenObject,
                TransferFails, ObjReset, Labels
  <2> QED BY <1>3, <2>1, <2>2
<1>6. ASSUME NEW t \in Threads, StatMissing(t) \/ FetchCreates(t) PROVE CallsInv'
  <2>1. /\ pc[t] # "idle" /\ lun_state' = lun_state
        /\ \/ Return(t, "OSD_ERROR")
           \/ /\ Goto(t, "fetch") \/ Goto(t, "open")
              /\ UNCHANGED <<req, traverse_index, ret, hit, path, evicted>>
    BY <1>6 DEF StatMissing, FetchCreates, FetchMisses, call, lun
  <2>2. CASE Return(t, "OSD_ERROR")
    BY <1>2, <2>1, <2>2
  <2>3. CASE /\ Goto(t, "fetch") \/ Goto(t, "open")
             /\ UNCHANGED <<req, traverse_index, ret, hit, path, evicted>>
    BY <1>0, <1>3, <2>1, <2>3 DEF Labels, CallsInv
  <2> QED BY <2>1, <2>2, <2>3
<1>7. ASSUME NEW t \in Threads, RecacheCloseFails(t) \/ FetchFails(t) \/ OpenFails(t) \/ OpReset(t)
      PROVE  CallsInv'
  BY <1>2, <1>7 DEF RecacheCloseFails, FetchFails, OpenFails, OpReset, lun
<1>8. ASSUME NEW t \in Threads, Transfer(t) PROVE CallsInv'
  <2>1. DOMAIN hit' = Threads
    BY <1>0, <1>8 DEF Transfer, CallsInv
  <2> QED BY <1>4, <1>8, <2>1 DEF Transfer, lun
<1>9. ASSUME UNCHANGED vars PROVE CallsInv'
  BY <1>0, <1>9 DEF vars, CallsInv, ThreadTypes
<1>10. ASSUME NEW t \in Threads, TransferNull(t) PROVE CallsInv'
  <2>1. CASE req[t].op = "write"
    BY <1>0, <1>4, <1>10, <2>1 DEF TransferNull, lun, CallsInv
  <2>2. CASE req[t].op # "write"
    BY <1>9, <1>10, <2>2 DEF TransferNull
  <2> QED BY <2>1, <2>2
<1>11. ASSUME CloseLun \/ CloseLunFails PROVE CallsInv'
  <2>1. /\ \A t \in Threads : pc[t] = "idle"
        /\ UNCHANGED <<pc, req, traverse_index, hit, path, evicted>>
        /\ DOMAIN ret' = Threads
    BY <1>11 DEF CloseLun, CloseLunFails, call
  <2> QED BY <1>0, <2>1 DEF CallsInv, ThreadTypes
<1>12. ASSUME OpenLun PROVE CallsInv'
  <2>1. lun_state = "closed" /\ UNCHANGED <<pc, req, traverse_index, hit, path, evicted, ret>>
    BY <1>12 DEF OpenLun, call
  <2> QED BY <1>0, <2>1 DEF CallsInv, ThreadTypes
<1>13. ASSUME NEW o \in Oids, Evict(o) PROVE CallsInv'
  <2>1. /\ UNCHANGED <<lun_state, pc, req, traverse_index, hit, path, ret>>
        /\ DOMAIN evicted' = Threads
    BY <1>13 DEF Evict, call, lun
  <2> QED BY <1>0, <2>1 DEF CallsInv, ThreadTypes
<1> QED BY <1>1, <1>5, <1>6, <1>7, <1>8, <1>10, <1>11, <1>12, <1>13 DEF Next, Step

(* The invariant holds in the memory malloc returned. *)
LEMMA CacheInvInit == Init => CacheInv
<1> SUFFICES ASSUME Init PROVE CacheInv
  OBVIOUS
<1>1. ASSUME NEW s \in Slots PROVE EntryTypes(s)
  <2>1. cache[s] \in Garbage
    BY DEF Init
  <2> QED BY <2>1, CacheAssumption DEF EntryTypes
<1>2. EntriesInv
  BY <1>1 DEF Init, EntriesInv
<1>3. LunInv
  BY CacheConstants DEF Init, LunInv
<1>4. FilesInv
  BY CacheConstants DEF Init, FilesInv
<1>5. CallsInv
  BY DEF Init, CallsInv, ThreadTypes, Labels
<1> QED BY <1>2, <1>3, <1>4, <1>5 DEF CacheInv

(* Every step of any number of threads keeps it. *)
LEMMA CacheInvNext == CacheInv /\ [Next]_vars => CacheInv'
<1> SUFFICES ASSUME CacheInv, [Next]_vars PROVE CacheInv'
  OBVIOUS
<1>1. CASE Next
  BY <1>1, EntriesStep, LunStep, FilesStep, CallsStep DEF CacheInv
<1>2. CASE UNCHANGED vars
  BY <1>2 DEF vars, CacheInv, EntriesInv, EntryTypes, LunInv, FilesInv, CallsInv, ThreadTypes
<1> QED BY <1>1, <1>2

(* The entries, descriptors and requests of the cached build keep their    *)
(* types with any number of threads: also where threads overwrite each     *)
(* other's entries, an entry with an id is in its object's slot.           *)
THEOREM CacheTypes == Spec => []CacheTypeOK
<1>1. CacheInv => CacheTypeOK
  <2> SUFFICES ASSUME CacheInv PROVE CacheTypeOK
    OBVIOUS
  <2>1. EntriesInv /\ LunInv /\ FilesInv /\ CallsInv
    BY DEF CacheInv
  <2> QED BY <2>1 DEF CacheTypeOK, EntriesInv, EntryTypes, LunInv, FilesInv, CallsInv, ThreadTypes
<1> QED BY <1>1, CacheInvInit, CacheInvNext, PTL DEF Spec
-----------------------------------------------------------------------------
(* One thread: no descriptor is lost.                                      *)

(* An entry may be overwritten once its descriptor is closed. *)
LEMMA EntryDropped ==
  ASSUME CacheInv, NoDescriptorLost, NEW t \in Threads, Slot(t) \in Slots, NEW e, SetEntry(t, e),
         lun_state' = lun_state, \A g \in Fds : fdtab'[g] \subseteq fdtab[g],
         Entry(t).file_fd \in Fds => fdtab'[Entry(t).file_fd] = {}
  PROVE  NoDescriptorLost'
<1>1. \A s \in Slots : s # Slot(t) => cache'[s] = cache[s]
  BY SetEntryFacts DEF CacheInv
<1>2. ASSUME NEW g \in Fds, NEW f \in fdtab'[g], f.use = "io"
      PROVE  (\E s \in CollectionSlots : cache'[s].file_fd = g) /\ lun_state # "closed"
  <2>1. f \in fdtab[g]
    BY <1>2
  <2>2. PICK s \in CollectionSlots : cache[s].file_fd = g
    BY <1>2, <2>1 DEF NoDescriptorLost
  <2>3. s # Slot(t) /\ s \in Slots
    BY <1>2, <2>2 DEF Entry, CollectionSlots
  <2> QED BY <1>1, <1>2, <2>1, <2>2, <2>3 DEF NoDescriptorLost
<1> QED BY <1>2 DEF NoDescriptorLost, CollectionSlots

(* Recache and both resets close what the entry has open. *)
LEMMA EntryClosed ==
  ASSUME CacheInv, NEW t \in Threads, pc[t] # "idle", Recache(t) \/ ResetEntry(t)
  PROVE  /\ \A g \in Fds : fdtab'[g] \subseteq fdtab[g]
         /\ \A g \in Fds : g # Entry(t).file_fd => fdtab'[g] = fdtab[g]
         /\ Entry(t).file_fd \in Fds => fdtab'[Entry(t).file_fd] = {}
<1>1. CASE Entry(t).file_fd > RESERVED_FDS
  <2>1. \E ok : CloseFd(Entry(t).file_fd, ok)
    BY <1>1 DEF Recache, ResetEntry
  <2> QED BY <2>1, CloseFdFacts
<1>2. CASE ~(Entry(t).file_fd > RESERVED_FDS)
  <2>1. fdtab' = fdtab
    BY <1>2 DEF Recache, ResetEntry
  <2>2. Entry(t).file_fd \notin Fds
    BY <1>2, CacheConstants DEF RESERVED_FDS
  <2> QED BY <2>1, <2>2
<1> QED BY <1>1, <1>2

(* What a thread's entry is when it starts to open the object's file. *)
LEMMA ClearedStep ==
  ASSUME CacheInv, OneThread, \A u \in Threads : Cleared(u), Next, NEW t \in Threads
  PROVE  Cleared(t)'
<1>0. CallsInv /\ EntriesInv
  BY DEF CacheInv
<1>1. ASSUME pc'[t] \notin Opening PROVE Cleared(t)'
  BY <1>1 DEF Cleared
<1>2. ASSUME pc[t] \in Opening, UNCHANGED <<cache, traverse_index, start>> PROVE Cleared(t)'
  BY <1>2 DEF Cleared, Entry, Fresh, Slot, CurrentOid
<1>3. ASSUME NEW r \in Requests, Submit(t, r) PROVE Cleared(t)'
  BY <1>0, <1>1, <1>3 DEF Submit, Goto, CallsInv, Opening
<1>4. ASSUME Recache(t) PROVE Cleared(t)'
  <2>1. Slot(t) \in Slots
    BY <1>4, ThreadFacts DEF Recache
  <2>2. cache'[Slot(t)] = Fresh(t)
    BY <1>0, <1>4, <2>1, SetEntryFacts DEF Recache
  <2>3. traverse_index' = traverse_index /\ start' = start
    BY <1>4 DEF Recache, call, lun
  <2> QED BY <2>2, <2>3 DEF Cleared, Entry, Fresh, Slot, CurrentOid
<1>5. ASSUME StatFound(t) \/ FetchExists(t) PROVE Cleared(t)'
  BY <1>2, <1>5 DEF StatFound, FetchExists, call, lun, Opening
<1>6. ASSUME StatMissing(t) \/ FetchCreates(t) PROVE Cleared(t)'
  <2>1. pc[t] \in Opening /\ cache' = cache /\ start' = start
    BY <1>6 DEF StatMissing, FetchCreates, FetchMisses, lun, Opening
  <2>2. Return(t, "OSD_ERROR") \/ UNCHANGED <<req, traverse_index, hit>>
    BY <1>6 DEF StatMissing, FetchCreates, call
  <2>3. CASE Return(t, "OSD_ERROR")
    BY <1>0, <1>1, <2>3 DEF Return, Goto, CallsInv, Opening
  <2>4. CASE UNCHANGED <<req, traverse_index, hit>>
    BY <1>2, <2>1, <2>4
  <2> QED BY <2>2, <2>3, <2>4
<1>7. ASSUME Check(t) \/ CachedStat(t) \/ OpenObject(t) \/ TransferFails(t) \/ ObjReset(t)
      PROVE  Cleared(t)'
  BY <1>0, <1>1, <1>7 DEF Check, CachedStat, OpenObject, TransferFails, ObjReset, Goto,
                          CallsInv, Opening
<1>8. ASSUME RecacheCloseFails(t) \/ FetchFails(t) \/ OpenFails(t) \/ OpReset(t) PROVE Cleared(t)'
  BY <1>0, <1>1, <1>8 DEF RecacheCloseFails, FetchFails, OpenFails, OpReset, Return, Goto,
                          CallsInv, Opening
<1>9. ASSUME Transfer(t) \/ TransferNull(t) PROVE Cleared(t)'
  BY <1>0, <1>1, <1>9 DEF Transfer, TransferNull, NextChunk, Goto, CallsInv, Opening, vars
<1>10. ASSUME CloseLun \/ CloseLunFails PROVE Cleared(t)'
  BY <1>1, <1>10 DEF CloseLun, CloseLunFails, Opening
<1>11. ASSUME OpenLun PROVE Cleared(t)'
  BY <1>0, <1>1, <1>11 DEF OpenLun, CallsInv, ThreadTypes, Opening
<1>12. ASSUME NEW o \in Oids, Evict(o) PROVE Cleared(t)'
  <2>1. UNCHANGED <<pc, cache, traverse_index, start>>
    BY <1>12 DEF Evict, call, lun
  <2> QED BY <1>1, <1>2, <2>1
<1>13. \A u \in Threads : u = t
  BY DEF OneThread
<1>14. CASE \E u \in Threads : Step(u) \/ \E r \in Requests : Submit(u, r)
  BY <1>3, <1>4, <1>5, <1>6, <1>7, <1>8, <1>9, <1>13, <1>14 DEF Step
<1> QED BY <1>10, <1>11, <1>12, <1>14 DEF Next

(* No step of a single thread drops the number of an open descriptor. *)
LEMMA LostStep ==
  ASSUME CacheInv, OneThread, LostInv, Next
  PROVE  LostInv'
<1>0. NoDescriptorLost /\ \A t \in Threads : Cleared(t)
  BY DEF LostInv
<1>00. EntriesInv /\ FilesInv /\ CallsInv
  BY DEF CacheInv
<1>1. ASSUME cache' = cache, lun_state' = lun_state, \A g \in Fds : fdtab'[g] \subseteq fdtab[g]
      PROVE  NoDescriptorLost'
  BY <1>0, <1>1 DEF NoDescriptorLost, CollectionSlots
<1>2. ASSUME NEW t \in Threads, NEW r \in Requests, Submit(t, r) PROVE NoDescriptorLost'
  BY <1>1, <1>2 DEF Submit, lun
<1>3. ASSUME NEW t \in Threads, Recache(t) PROVE NoDescriptorLost'
  <2>1. /\ Slot(t) \in Slots /\ pc[t] # "idle" /\ SetEntry(t, Fresh(t))
        /\ lun_state' = lun_state
    BY <1>3, ThreadFacts DEF Recache, lun
  <2> QED BY <1>0, <1>3, <2>1, EntryClosed, EntryDropped
<1>4. ASSUME NEW t \in Threads, RecacheCloseFails(t) PROVE NoDescriptorLost'
  BY <1>1, <1>4, CloseFdFacts DEF RecacheCloseFails
<1>5. ASSUME NEW t \in Threads, ObjReset(t) \/ OpReset(t) PROVE NoDescriptorLost'
  <2>1. /\ Slot(t) \in Slots /\ pc[t] # "idle" /\ ResetEntry(t) /\ lun_state' = lun_state
    BY <1>5, ThreadFacts DEF ObjReset, OpReset, lun
  <2>2. \E e : SetEntry(t, e)
    BY <2>1 DEF ResetEntry
  <2> QED BY <1>0, <2>1, <2>2, EntryClosed, EntryDropped
<1>6. ASSUME NEW t \in Threads, OpenFails(t) PROVE NoDescriptorLost'
  <2>1. Slot(t) \in Slots /\ lun_state' = lun_state /\ fdtab' = fdtab
    BY <1>6, ThreadFacts DEF OpenFails, lun
  <2>2. Entry(t).file_fd = 0
    BY <1>0, <1>6 DEF OpenFails, Cleared, Opening, Fresh
  <2>3. \E e : SetEntry(t, e)
    BY <1>6 DEF OpenFails
  <2>4. Entry(t).file_fd \notin Fds
    BY <2>2, CacheConstants
  <2> QED BY <1>0, <2>1, <2>3, <2>4, EntryDropped
<1>7. ASSUME NEW t \in Threads, OpenObject(t) PROVE NoDescriptorLost'
  <2>1. /\ Slot(t) \in Slots /\ Slot(t) \in CollectionSlots /\ lun_state' = lun_state
        /\ lun_state = "open" /\ EntryTypes(Slot(t))
    BY <1>7, ThreadFacts DEF OpenObject, lun
  <2>2. Entry(t).file_fd = 0
    BY <1>0, <1>7 DEF OpenObject, Cleared, Opening, Fresh
  <2>3. PICK fd \in Fds : /\ fdtab' = [fdtab EXCEPT ![fd] = {FileOf(t, "io")}]
                          /\ SetEntry(t, [Entry(t) EXCEPT !.file_fd = fd])
    BY <1>7 DEF OpenObject
  <2>4. [Entry(t) EXCEPT !.file_fd = fd].file_fd = fd
    BY <2>1, CacheConstants, WithFd DEF EntryTypes, Entry
  <2>5. /\ cache'[Slot(t)].file_fd = fd
        /\ \A s \in Slots : s # Slot(t) => cache'[s] = cache[s]
    BY <1>00, <2>1, <2>3, <2>4, SetEntryFacts
  <2>6. ASSUME NEW g \in Fds, NEW e \in fdtab'[g], e.use = "io"
        PROVE  \E s \in CollectionSlots : cache'[s].file_fd = g
    <3>1. CASE g = fd
      BY <2>1, <2>5, <3>1
    <3>2. CASE g # fd
      <4>1. e \in fdtab[g]
        BY <1>00, <2>3, <2>6, <3>2 DEF FilesInv
      <4>2. PICK s \in CollectionSlots : cache[s].file_fd = g
        BY <1>0, <2>6, <4>1 DEF NoDescriptorLost
      <4>3. s # Slot(t) /\ s \in Slots
        BY <2>2, <4>2, CacheConstants DEF Entry, CollectionSlots
      <4> QED BY <2>5, <4>2, <4>3
    <3> QED BY <3>1, <3>2
  <2> QED BY <2>1, <2>6 DEF NoDescriptorLost, CollectionSlots
<1>8. ASSUME NEW t \in Threads, FetchCreates(t) PROVE NoDescriptorLost'
  <2>1. cache' = cache /\ lun_state' = lun_state
    BY <1>8 DEF FetchCreates
  <2>2. PICK fd \in Fds : fdtab' = [fdtab EXCEPT ![fd] = {FileOf(t, "creat")}]
    BY <1>8 DEF FetchCreates
  <2>3. FileOf(t, "creat").use = "creat"
    BY DEF FileOf
  <2>4. ASSUME NEW g \in Fds, NEW e \in fdtab'[g], e.use = "io" PROVE e \in fdtab[g]
    BY <1>00, <2>2, <2>3, <2>4 DEF FilesInv
  <2> QED BY <1>0, <2>1, <2>4 DEF NoDescriptorLost, CollectionSlots
<1>9. ASSUME NEW t \in Threads, Step(t), ~Recache(t), ~RecacheCloseFails(t), ~FetchCreates(t),
             ~OpenObject(t), ~OpenFails(t), ~ObjReset(t), ~OpReset(t)
      PROVE  NoDescriptorLost'
  <2>1. UNCHANGED <<cache, lun_state, fdtab>>
    BY <1>9
       DEF Step, Check, CachedStat, StatFound, StatMissing, FetchExists, FetchFails, Transfer,
           TransferNull, TransferFails, vars, lun
  <2> QED BY <1>1, <2>1
<1>10. ASSUME CloseLun PROVE NoDescriptorLost'
  <2>1. fdtab' = [fd \in Fds |-> IF \E s \in OpenSlots : cache[s].file_fd = fd THEN {}
                                 ELSE fdtab[fd]]
    BY <1>10 DEF CloseLun, FreeSlots
  <2>2. ASSUME NEW g \in Fds, NEW e \in fdtab'[g], e.use = "io" PROVE FALSE
    <3>1. e \in fdtab[g]
      BY <2>1, <2>2
    <3>2. PICK s \in CollectionSlots : cache[s].file_fd = g
      BY <1>0, <2>2, <3>1 DEF NoDescriptorLost
    <3>3. s \in OpenSlots
      BY <3>2, CacheConstants DEF OpenSlots, RESERVED_FDS
    <3> QED BY <2>1, <2>2, <3>2, <3>3
  <2> QED BY <2>2 DEF NoDescriptorLost
<1>11. ASSUME CloseLunFails PROVE NoDescriptorLost'
  <2>1. lun_state' = "lost"
    BY <1>11 DEF CloseLunFails
  <2>2. PICK done, closed :
          /\ closed \subseteq done
          /\ fdtab' = [fd \in Fds |-> IF \E s \in done : cache[s].file_fd = fd THEN {}
                                      ELSE fdtab[fd]]
          /\ cache' = [s \in Slots |-> IF s \in closed THEN [cache[s] EXCEPT !.file_fd = 0]
                                       ELSE cache[s]]
    <3>1. PICK failed \in OpenSlots : FreeSlots({s \in OpenSlots : s <= failed},
                                                {s \in OpenSlots : s < failed})
      BY <1>11 DEF CloseLunFails
    <3>2. failed \in Int /\ OpenSlots \subseteq Int
      <4>1. NBMAXOBJECTS \in Int
        BY CacheAssumption
      <4>2. Slots \subseteq Int
        BY <4>1 DEF Slots
      <4> QED BY <4>2 DEF OpenSlots, CollectionSlots
    <3>3. {s \in OpenSlots : s < failed} \subseteq {s \in OpenSlots : s <= failed}
      <4>1. ASSUME NEW s \in OpenSlots, s < failed PROVE s <= failed
        <5>1. s \in Int
          BY <3>2
        <5> QED BY <3>2, <4>1, <5>1
      <4> QED BY <4>1
    <3> QED BY <3>1, <3>3 DEF FreeSlots
  <2>3. ASSUME NEW g \in Fds, NEW e \in fdtab'[g], e.use = "io"
        PROVE  \E s \in CollectionSlots : cache'[s].file_fd = g
    <3>1. e \in fdtab[g] /\ ~\E s \in done : cache[s].file_fd = g
      BY <2>2, <2>3
    <3>2. PICK s \in CollectionSlots : cache[s].file_fd = g
      BY <1>0, <2>3, <3>1 DEF NoDescriptorLost
    <3>3. s \notin done /\ s \in Slots
      BY <3>1, <3>2 DEF CollectionSlots
    <3>4. cache'[s] = cache[s]
      BY <2>2, <3>3
    <3> QED BY <3>2, <3>4
  <2> QED BY <2>1, <2>3 DEF NoDescriptorLost, CollectionSlots
<1>12. ASSUME OpenLun PROVE NoDescriptorLost'
  BY <1>0, <1>12 DEF OpenLun, NoDescriptorLost, CollectionSlots
<1>13. ASSUME NEW o \in Oids, Evict(o) PROVE NoDescriptorLost'
  BY <1>1, <1>13 DEF Evict, lun
<1>14. NoDescriptorLost'
  BY <1>2, <1>3, <1>4, <1>5, <1>6, <1>7, <1>8, <1>9, <1>10, <1>11, <1>12, <1>13 DEF Next
<1>15. \A t \in Threads : Cleared(t)'
  BY <1>0, ClearedStep
<1> QED BY <1>14, <1>15 DEF LostInv

(* With one worker thread, every descriptor opened for an entry is named   *)
(* by an entry, so that a recache, a reset or the close of the LUN will    *)
(* close it; a complete close leaves none.  Whatever fails, also where a   *)
(* failed close leaves a stale number in an entry, and whatever malloc     *)
(* left in the memory of the entries.                                      *)
THEOREM NoDescriptorLostAlways == OneThread /\ Spec => []NoDescriptorLost
<1> SUFFICES ASSUME OneThread PROVE Spec => []NoDescriptorLost
  OBVIOUS
<1>1. Init => CacheInv /\ LostInv
  <2> SUFFICES ASSUME Init PROVE LostInv
    BY CacheInvInit
  <2> QED BY DEF Init, LostInv, NoDescriptorLost, Cleared, Opening
<1>2. CacheInv /\ LostInv /\ [Next]_vars => (CacheInv /\ LostInv)'
  <2> SUFFICES ASSUME CacheInv, LostInv, [Next]_vars PROVE LostInv'
    BY CacheInvNext
  <2>1. CASE Next
    BY <2>1, LostStep
  <2>2. CASE UNCHANGED vars
    BY <2>2 DEF vars, LostInv, NoDescriptorLost, CollectionSlots, Cleared, Entry, Fresh, Slot,
                CurrentOid
  <2> QED BY <2>1, <2>2
<1>3. LostInv => NoDescriptorLost
  BY DEF LostInv
<1> QED BY <1>1, <1>2, <1>3, PTL DEF Spec
-----------------------------------------------------------------------------
(* One thread: a chunk goes to its object.                                 *)

(* The file of an object is made by a thread that found a node for it. *)
LEMMA PlacedStep ==
  ASSUME CacheInv, PlacedInv, Next
  PROVE  PlacedInv'
<1>0. CallsInv
  BY DEF CacheInv
<1>1. ASSUME present' \subseteq present, traverse_index' = traverse_index,
             \A t \in Threads : pc'[t] = "fetch" => pc[t] = "fetch"
      PROVE  PlacedInv'
  BY <1>1 DEF PlacedInv
<1>2. ASSUME present' = present, NEW t \in Threads, NEW label, Goto(t, label), label # "fetch",
             \A u \in Threads : u # t => traverse_index'[u] = traverse_index[u]
      PROVE  PlacedInv'
  BY <1>0, <1>2 DEF PlacedInv, Goto, CallsInv
<1>3. ASSUME NEW t \in Threads, NEW r \in Requests, Submit(t, r) PROVE PlacedInv'
  BY <1>0, <1>2, <1>3 DEF Submit, files, CallsInv
<1>4. ASSUME NEW t \in Threads, Check(t) \/ CachedStat(t) \/ Recache(t) \/ StatFound(t)
                                \/ FetchExists(t) \/ OpenObject(t) \/ TransferFails(t)
                                \/ ObjReset(t)
      PROVE  PlacedInv'
  <2>1. present' = present /\ traverse_index' = traverse_index
    BY <1>4 DEF Check, CachedStat, Recache, StatFound, FetchExists, OpenObject, TransferFails,
                ObjReset, files, call
  <2>2. \E label \in Labels \ {"fetch"} : Goto(t, label)
    BY <1>4 DEF Check, CachedStat, Recache, StatFound, FetchExists, OpenObject, TransferFails,
                ObjReset, Labels
  <2> QED BY <1>2, <2>1, <2>2
<1>5. ASSUME NEW t \in Threads, NEW result, Return(t, result), present' = present
      PROVE  PlacedInv'
  BY <1>0, <1>2, <1>5 DEF Return, CallsInv
<1>6. ASSUME NEW t \in Threads, RecacheCloseFails(t) \/ FetchFails(t) \/ OpenFails(t) \/ OpReset(t)
      PROVE  PlacedInv'
  BY <1>5, <1>6 DEF RecacheCloseFails, FetchFails, OpenFails, OpReset, files
<1>7. ASSUME NEW t \in Threads, StatMissing(t) PROVE PlacedInv'
  <2>1. CASE traverse_index[t] \in Placed
    <3>1. present' = present /\ traverse_index' = traverse_index /\ Goto(t, "fetch")
      BY <1>7, <2>1 DEF StatMissing, files, call
    <3> QED BY <1>0, <2>1, <3>1 DEF PlacedInv, Goto, CallsInv
  <2>2. CASE traverse_index[t] \notin Placed
    BY <1>5, <1>7, <2>2 DEF StatMissing, files
  <2> QED BY <2>1, <2>2
<1>8. ASSUME NEW t \in Threads, FetchCreates(t) PROVE PlacedInv'
  <2>1. /\ present' = present \cup {CurrentOid(t)} /\ traverse_index[t] \in Placed
        /\ \E label : Goto(t, label) /\ label # "fetch"
    BY <1>8 DEF FetchCreates, FetchMisses, Return, PlacedInv
  <2>2. \A u \in Threads : u # t => traverse_index'[u] = traverse_index[u]
    BY <1>0, <1>8 DEF FetchCreates, Return, call, CallsInv
  <2>3. CurrentOid(t)[2] = traverse_index[t]
    BY DEF CurrentOid
  <2>4. \A o \in present' : o[2] \in Placed
    BY <2>1, <2>3 DEF PlacedInv
  <2>5. \A u \in Threads : pc'[u] = "fetch" => pc[u] = "fetch" /\ u # t
    BY <1>0, <2>1 DEF Goto, CallsInv
  <2> QED BY <2>2, <2>4, <2>5 DEF PlacedInv
<1>9. ASSUME NEW t \in Threads, NextChunk(t), present' = present PROVE PlacedInv'
  <2>1. \E label : Goto(t, label) /\ label # "fetch"
    BY <1>9 DEF NextChunk
  <2>2. \A u \in Threads : u # t => traverse_index'[u] = traverse_index[u]
    BY <1>0, <1>9 DEF NextChunk, CallsInv
  <2> QED BY <1>2, <1>9, <2>1, <2>2
<1>10. ASSUME NEW t \in Threads, Transfer(t) \/ TransferNull(t) PROVE PlacedInv'
  BY <1>1, <1>9, <1>10 DEF Transfer, TransferNull, files, vars
<1>11. ASSUME CloseLun \/ CloseLunFails \/ OpenLun \/ \E o \in Oids : Evict(o) PROVE PlacedInv'
  BY <1>1, <1>11 DEF CloseLun, CloseLunFails, OpenLun, Evict, files, call
<1> QED BY <1>3, <1>4, <1>6, <1>7, <1>8, <1>10, <1>11 DEF Next, Step

(* Nothing restores trust. *)
LEMMA TrustOnce ==
  ASSUME CacheInv, Next, Trusted'
  PROVE  Trusted /\ (lun_state' = "open" => lun_state = "open") /\ start' = start
<1>1. opens \in Nat \ {0}
  BY CacheConstants DEF CacheInv, LunInv
<1>2. ASSUME NEW t \in Threads, Step(t) \/ \E r \in Requests : Submit(t, r), ~FetchFails(t)
      PROVE  UNCHANGED <<start, lun_state, opens>> /\ (spoiled' = spoiled \/ spoiled' = TRUE)
  BY <1>2
     DEF Step, Check, CachedStat, Recache, RecacheCloseFails, StatFound, StatMissing,
         FetchExists, FetchCreates, OpenObject, OpenFails, Transfer, TransferNull,
         TransferFails, ObjReset, OpReset, Submit, lun, vars
<1>3. ASSUME CloseLun \/ CloseLunFails
      PROVE  UNCHANGED <<start, opens, spoiled>> /\ lun_state' # "open"
  BY <1>3 DEF CloseLun, CloseLunFails
<1>4. ASSUME OpenLun PROVE FALSE
  BY <1>1, <1>4 DEF OpenLun, Trusted
<1>5. ASSUME NEW o \in Oids, Evict(o) PROVE UNCHANGED <<start, opens, spoiled, lun_state>>
  BY <1>5 DEF Evict, lun
<1>6. opens' = 1 /\ ~spoiled'
  BY DEF Trusted
<1>7. CASE \E t \in Threads : Step(t) \/ \E r \in Requests : Submit(t, r)
  <2>1. PICK t \in Threads : Step(t) \/ \E r \in Requests : Submit(t, r)
    BY <1>7
  <2>2. UNCHANGED <<start, lun_state, opens>>
    BY <1>2, <2>1 DEF FetchFails
  <2>3. ~spoiled
    <3>1. CASE FetchFails(t)
      BY <1>6, <3>1, Zenon DEF FetchFails
    <3>2. CASE ~FetchFails(t)
      <4>1. spoiled' = spoiled \/ spoiled' = TRUE
        BY <1>2, <2>1, <3>2
      <4> QED BY <1>6, <4>1, Zenon
    <3> QED BY <3>1, <3>2
  <2> QED BY <1>6, <2>2, <2>3 DEF Trusted
<1>8. CASE CloseLun \/ CloseLunFails
  <2>1. spoiled' = spoiled
    BY <1>3, <1>8
  <2>2. ~spoiled
    BY <1>6, <2>1, Zenon
  <2> QED BY <1>3, <1>6, <1>8, <2>2 DEF Trusted
<1>9. CASE \E o \in Oids : Evict(o)
  <2>1. UNCHANGED <<start, opens, spoiled, lun_state>>
    BY <1>5, <1>9
  <2>2. ~spoiled
    BY <1>6, <2>1, Zenon
  <2> QED BY <1>6, <2>1, <2>2 DEF Trusted
<1> QED BY <1>4, <1>7, <1>8, <1>9 DEF Next

(* No thread is opening: an entry that names a file has a descriptor or    *)
(* -1.                                                                     *)
LEMMA NoOpening ==
  ASSUME OneThread, NEW t \in Threads, pc[t] \notin Opening, NEW s \in Slots, Unopened(s)
  PROVE  cache[s].oid \in present => cache[s].file_fd # 0
BY DEF OneThread, Unopened

(* A thread's entry is replaced by one without a descriptor. *)
LEMMA EntryReplaced ==
  ASSUME CacheInv, OwnFds, \A s \in Slots : OwnEntry(s), NEW t \in Threads, Slot(t) \in Slots,
         NEW e, SetEntry(t, e), UNCHANGED <<present, made, start>>,
         \A g \in Fds : g # Entry(t).file_fd => fdtab'[g] = fdtab[g],
         e.file_fd \notin Fds,
         e.oid # NoOid => e.oid = <<start, e.object_index>> /\ e.file_fd \in {-1, 0}
  PROVE  OwnFds' /\ \A s \in Slots : OwnEntry(s)'
<1>1. /\ cache'[Slot(t)] = e /\ Entry(t) = cache[Slot(t)]
      /\ \A s \in Slots : s # Slot(t) => cache'[s] = cache[s]
  BY SetEntryFacts DEF CacheInv, Entry
<1>2. OwnFds'
  BY <1>1 DEF OwnFds
<1>3. ASSUME NEW s \in Slots PROVE OwnEntry(s)'
  <2>1. CASE s = Slot(t)
    BY <1>1, <2>1 DEF OwnEntry
  <2>2. CASE s # Slot(t)
    <3>1. cache'[s] = cache[s] /\ OwnEntry(s)
      BY <1>1, <2>2
    <3>2. cache[s].file_fd \in Fds => fdtab'[cache[s].file_fd] = fdtab[cache[s].file_fd]
      BY <1>1, <2>2 DEF OwnFds
    <3> QED BY <3>1, <3>2 DEF OwnEntry
  <2> QED BY <2>1, <2>2
<1> QED BY <1>2, <1>3

(* Two entries are of two objects. *)
LEMMA OtherEntry ==
  ASSUME CacheInv, NEW t \in Threads, NEW s \in Slots, s # Slot(t), OwnEntry(s)
  PROVE  cache[s].oid # NoOid => cache[s].oid # CurrentOid(t)
<1> SUFFICES ASSUME cache[s].oid # NoOid, cache[s].oid = CurrentOid(t) PROVE FALSE
  OBVIOUS
<1>1. <<start, cache[s].object_index>> = <<start, traverse_index[t]>>
  BY DEF OwnEntry, CurrentOid
<1>2. cache[s].object_index = traverse_index[t]
  BY <1>1
<1>3. cache[s].object_index % NBMAXOBJECTS = s
  BY DEF CacheInv, EntriesInv, EntryTypes
<1> QED BY <1>2, <1>3 DEF Slot

(* A free descriptor is no entry's. *)
LEMMA FreeIsNobodys ==
  ASSUME EntriesOwned, NEW fd \in Fds, fdtab[fd] = {}, NEW s \in Slots
  PROVE  cache[s].file_fd # fd
BY DEF EntriesOwned, OwnEntry

(* An entry that is replaced, opened or reset is the current object's; no  *)
(* other has its descriptor.                                               *)
LEMMA OwnedStep ==
  ASSUME CacheInv, LostInv, EntriesOwned, Next, Trusted', start' = start,
         lun_state = "open", lun_state' = "open"
  PROVE  EntriesOwned'
<1>0. OwnFds /\ \A s \in Slots : OwnEntry(s)
  BY DEF EntriesOwned
<1>00. EntriesInv /\ FilesInv /\ CallsInv
  BY DEF CacheInv
<1>1. ASSUME UNCHANGED <<cache, fdtab, made>>, present' \subseteq present PROVE EntriesOwned'
  <2>1. \A s \in Slots : OwnEntry(s)'
    BY <1>0, <1>1 DEF OwnEntry
  <2> QED BY <1>0, <1>1, <2>1 DEF EntriesOwned, OwnFds
<1>2. ASSUME NEW t \in Threads, NEW r \in Requests, Submit(t, r) PROVE EntriesOwned'
  BY <1>1, <1>2 DEF Submit, files
<1>3. ASSUME NEW t \in Threads, Recache(t) PROVE EntriesOwned'
  <2>1. /\ Slot(t) \in Slots /\ pc[t] # "idle" /\ SetEntry(t, Fresh(t))
        /\ UNCHANGED <<present, made>>
    BY <1>3, ThreadFacts DEF Recache, files
  <2>2. \A g \in Fds : g # Entry(t).file_fd => fdtab'[g] = fdtab[g]
    BY <1>3, <2>1, EntryClosed
  <2>3. /\ Fresh(t).file_fd = 0 /\ Fresh(t).file_fd \notin Fds
        /\ Fresh(t).oid = <<start, Fresh(t).object_index>>
    BY CacheConstants DEF Fresh, CurrentOid
  <2> QED BY <1>0, <2>1, <2>2, <2>3, EntryReplaced DEF EntriesOwned
<1>4. ASSUME NEW t \in Threads, ObjReset(t) \/ OpReset(t) \/ OpenFails(t) PROVE EntriesOwned'
  <2>1. /\ Slot(t) \in Slots /\ pc[t] # "idle" /\ EntryTypes(Slot(t))
        /\ Entry(t) = cache[Slot(t)] /\ UNCHANGED <<present, made>>
    BY <1>4, ThreadFacts DEF ObjReset, OpReset, OpenFails, files, Entry
  <2>2. \A g \in Fds : g # Entry(t).file_fd => fdtab'[g] = fdtab[g]
    BY <1>4, <2>1, EntryClosed DEF ObjReset, OpReset, OpenFails
  <2>3. SetEntry(t, Empty) \/ SetEntry(t, [Entry(t) EXCEPT !.file_fd = -1])
    BY <1>4 DEF ObjReset, OpReset, OpenFails, ResetEntry, Empty
  <2>4. CASE SetEntry(t, Empty)
    <3>1. Empty.file_fd = 0 /\ Empty.file_fd \notin Fds /\ Empty.oid = NoOid
      BY CacheConstants DEF Empty
    <3> HIDE DEF Empty
    <3> QED BY <1>0, <2>1, <2>2, <2>4, <3>1, EntryReplaced DEF EntriesOwned
  <2>5. CASE SetEntry(t, [Entry(t) EXCEPT !.file_fd = -1])
    <3> DEFINE d == [Entry(t) EXCEPT !.file_fd = -1]
    <3>1. d.object_index = Entry(t).object_index /\ d.oid = Entry(t).oid /\ d.file_fd = -1
      BY <2>1, WithFd DEF EntryTypes
    <3>2. d.file_fd \notin Fds /\ (d.oid # NoOid => d.oid = <<start, d.object_index>>)
      BY <1>0, <2>1, <3>1, CacheConstants DEF OwnEntry
    <3>3. SetEntry(t, d)
      BY <2>5
    <3> HIDE DEF d
    <3> QED BY <1>0, <2>1, <2>2, <3>1, <3>2, <3>3, EntryReplaced DEF EntriesOwned
  <2> QED BY <2>3, <2>4, <2>5
<1>5. ASSUME NEW t \in Threads, RecacheCloseFails(t) PROVE FALSE
  BY <1>5 DEF RecacheCloseFails, Trusted
<1>6. ASSUME NEW t \in Threads, FetchCreates(t) PROVE EntriesOwned'
  <2>1. Slot(t) \in Slots /\ CurrentOid(t) \in Oids /\ cache' = cache
    BY <1>6, ThreadFacts DEF FetchCreates, FetchMisses
  <2>2. PICK o : o = CurrentOid(t)
    OBVIOUS
  <2>3. /\ present' = present \cup {o} /\ o \in Oids
        /\ made' = made \/ made' = [made EXCEPT ![o] = @ + 1]
    BY <1>6, <2>1, <2>2 DEF FetchCreates
  <2>4. \A p \in Oids : p # o => made'[p] = made[p]
    BY <1>00, <2>3 DEF FilesInv
  <2>5. PICK fd \in Fds : fdtab[fd] = {} /\ fdtab' = [fdtab EXCEPT ![fd] = {FileOf(t, "creat")}]
    BY <1>6 DEF FetchCreates, LowestFree
  <2>6. Entry(t) = Fresh(t)
    BY <1>6 DEF FetchCreates, FetchMisses, LostInv, Cleared, Opening
  <2>7. cache[Slot(t)].file_fd = 0 /\ cache[Slot(t)].oid = o
        /\ cache[Slot(t)].object_index = traverse_index[t]
    BY <2>2, <2>6 DEF Entry, Fresh
  <2>8. ASSUME NEW s \in Slots PROVE OwnEntry(s)'
    <3>1. OwnEntry(s)
      BY <1>0
    <3>2. CASE s = Slot(t)
      <4>1. cache[s].file_fd \notin Fds /\ o = <<start, cache[s].object_index>>
        BY <2>2, <2>7, <3>2, CacheConstants DEF CurrentOid
      <4> QED BY <2>1, <2>7, <3>2, <4>1 DEF OwnEntry
    <3>3. CASE s # Slot(t)
      <4>1. cache[s].oid # NoOid => cache[s].oid # o
        BY <2>2, <3>1, <3>3, OtherEntry
      <4>2. cache[s].file_fd # fd
        BY <2>5, FreeIsNobodys
      <4>3. cache[s].file_fd \in Fds =>
              /\ fdtab'[cache[s].file_fd] = fdtab[cache[s].file_fd]
              /\ \A e \in fdtab[cache[s].file_fd] :
                   e.oid = cache[s].oid /\ e.oid # o /\ e.oid \in Oids
        BY <1>00, <2>5, <3>1, <4>1, <4>2 DEF FilesInv, OwnEntry
      <4>4. cache[s].file_fd \in Fds =>
              \A e \in fdtab'[cache[s].file_fd] : e.oid \in present' => e.made = made'[e.oid]
        BY <2>3, <2>4, <3>1, <4>3 DEF OwnEntry
      <4> QED BY <2>1, <3>1, <4>3, <4>4 DEF OwnEntry
    <3> QED BY <3>2, <3>3
  <2>9. OwnFds'
    BY <1>0, <2>1 DEF OwnFds
  <2> QED BY <2>8, <2>9 DEF EntriesOwned
<1>7. ASSUME NEW t \in Threads, OpenObject(t) PROVE EntriesOwned'
  <2>1. /\ Slot(t) \in Slots /\ EntryTypes(Slot(t)) /\ Entry(t) = cache[Slot(t)]
        /\ present' = present /\ made' = made
    BY <1>7, ThreadFacts DEF OpenObject, Entry
  <2>2. PICK fd \in Fds : /\ fdtab[fd] = {} /\ fdtab' = [fdtab EXCEPT ![fd] = {FileOf(t, "io")}]
                          /\ SetEntry(t, [Entry(t) EXCEPT !.file_fd = fd])
    BY <1>7 DEF OpenObject, LowestFree
  <2>3. Entry(t) = Fresh(t)
    BY <1>7 DEF OpenObject, LostInv, Cleared, Opening
  <2>4. /\ Entry(t).oid = CurrentOid(t) /\ CurrentOid(t) # NoOid
        /\ CurrentOid(t) = <<start, Entry(t).object_index>>
    BY <1>7, <2>3, ThreadFacts DEF OpenObject, Fresh, CurrentOid
  <2> DEFINE d == [Entry(t) EXCEPT !.file_fd = fd]
  <2>5. d.object_index = Entry(t).object_index /\ d.oid = Entry(t).oid /\ d.file_fd = fd
    BY <2>1, CacheConstants, WithFd DEF EntryTypes
  <2>6. /\ cache'[Slot(t)] = d
        /\ \A s \in Slots : s # Slot(t) => cache'[s] = cache[s]
    BY <1>00, <2>1, <2>2, SetEntryFacts
  <2> HIDE DEF d
  <2>7. FileOf(t, "io").oid = CurrentOid(t) /\ FileOf(t, "io").made = made[CurrentOid(t)]
    BY <2>1 DEF FileOf
  <2>8. /\ fdtab'[fd] = {FileOf(t, "io")}
        /\ \A g \in Fds : g # fd => fdtab'[g] = fdtab[g]
    BY <1>00, <2>2 DEF FilesInv
  <2>9. \A s \in Slots : cache[s].file_fd # fd
    BY <2>2, FreeIsNobodys
  <2>10. OwnFds'
    <3> SUFFICES ASSUME NEW r \in Slots, NEW s \in Slots, cache'[r].file_fd \in Fds,
                        cache'[r].file_fd = cache'[s].file_fd
                 PROVE  r = s
      BY DEF OwnFds
    <3> QED BY <1>0, <2>5, <2>6, <2>9 DEF OwnFds
  <2>11. ASSUME NEW s \in Slots PROVE OwnEntry(s)'
    <3>1. CASE s = Slot(t)
      <4>1. cache'[s].file_fd = fd /\ cache'[s].oid = CurrentOid(t)
            /\ cache'[s].object_index = Entry(t).object_index
        BY <2>4, <2>5, <2>6, <3>1
      <4> QED BY <2>1, <2>4, <2>7, <2>8, <4>1 DEF OwnEntry
    <3>2. CASE s # Slot(t)
      <4>1. cache'[s] = cache[s] /\ OwnEntry(s)
        BY <1>0, <2>6, <3>2
      <4>2. cache[s].file_fd \in Fds => fdtab'[cache[s].file_fd] = fdtab[cache[s].file_fd]
        BY <2>8, <2>9
      <4> QED BY <2>1, <4>1, <4>2 DEF OwnEntry
    <3> QED BY <3>1, <3>2
  <2> QED BY <2>10, <2>11 DEF EntriesOwned
<1>8. ASSUME NEW t \in Threads, Step(t), ~Recache(t), ~RecacheCloseFails(t), ~FetchCreates(t),
             ~OpenObject(t), ~OpenFails(t), ~ObjReset(t), ~OpReset(t)
      PROVE  EntriesOwned'
  <2>1. UNCHANGED <<cache, fdtab, present, made>>
    BY <1>8
       DEF Step, Check, CachedStat, StatFound, StatMissing, FetchExists, FetchFails, Transfer,
           TransferNull, TransferFails, vars, files
  <2> QED BY <1>1, <2>1
<1>9. ASSUME CloseLun \/ CloseLunFails \/ OpenLun PROVE FALSE
  BY <1>9 DEF CloseLun, CloseLunFails, OpenLun
<1>10. ASSUME NEW o \in Oids, Evict(o) PROVE EntriesOwned'
  <2>1. UNCHANGED <<cache, fdtab, made>> /\ present' \subseteq present
    BY <1>10 DEF Evict
  <2> QED BY <1>1, <2>1
<1> QED BY <1>2, <1>3, <1>4, <1>5, <1>6, <1>7, <1>8, <1>9, <1>10 DEF Next
(* Where a step leaves the entries of the other slots alone, only the      *)
(* thread's own slot is to be looked at.                                   *)
LEMMA UnopenedStep ==
  ASSUME CacheInv, OneThread, LostInv, PlacedInv, EntriesOwned, \A s \in Slots : Unopened(s),
         Next, Trusted', start' = start, lun_state = "open", lun_state' = "open"
  PROVE  \A s \in Slots : Unopened(s)'
<1>00. EntriesInv /\ FilesInv /\ CallsInv
  BY DEF CacheInv
<1>1. ASSUME NEW t \in Threads, Slot(t) \in Slots,
             \A s \in Slots : s # Slot(t) => cache'[s] = cache[s], present' = present,
             \/ pc'[t] \in Opening /\ Slot(t)' = Slot(t)
             \/ cache'[Slot(t)].oid \notin present
             \/ cache'[Slot(t)].file_fd # 0
      PROVE  \A s \in Slots : Unopened(s)'
  <2> SUFFICES ASSUME NEW s \in Slots PROVE Unopened(s)'
    OBVIOUS
  <2>1. CASE s = Slot(t)
    BY <1>1, <2>1 DEF Unopened
  <2>2. CASE s # Slot(t)
    <3>1. cache[s].oid \in present => cache[s].file_fd # 0
      BY <2>2 DEF OneThread, Unopened
    <3> QED BY <1>1, <2>2, <3>1 DEF Unopened
  <2> QED BY <2>1, <2>2
<1>2. ASSUME NEW t \in Threads, pc[t] \notin Opening, cache' = cache, present' = present
      PROVE  \A s \in Slots : Unopened(s)'
  <2>1. \A s \in Slots : cache[s].oid \in present => cache[s].file_fd # 0
    BY <1>2, NoOpening
  <2> QED BY <1>2, <2>1 DEF Unopened
<1>3. ASSUME NEW t \in Threads, NEW r \in Requests, Submit(t, r)
      PROVE  \A s \in Slots : Unopened(s)'
  BY <1>2, <1>3 DEF Submit, files, Opening
<1>4. ASSUME NEW t \in Threads, Check(t) \/ CachedStat(t) \/ Transfer(t) \/ TransferNull(t)
                                \/ TransferFails(t)
      PROVE  \A s \in Slots : Unopened(s)'
  <2>1. pc[t] \notin Opening /\ cache' = cache /\ present' = present
    BY <1>4 DEF Check, CachedStat, Transfer, TransferNull, TransferFails, files, vars, Opening
  <2> QED BY <1>2, <2>1
<1>5. ASSUME NEW t \in Threads, Recache(t) \/ StatFound(t) \/ FetchExists(t)
      PROVE  \A s \in Slots : Unopened(s)'
  <2>1. Slot(t) \in Slots
    BY <1>5, ThreadFacts DEF Recache, StatFound, FetchExists
  <2>2. /\ pc'[t] \in Opening /\ traverse_index' = traverse_index /\ present' = present
    BY <1>00, <1>5 DEF Recache, StatFound, FetchExists, Goto, CallsInv, Opening, files, call
  <2>3. \A s \in Slots : s # Slot(t) => cache'[s] = cache[s]
    BY <1>00, <1>5, <2>1, SetEntryFacts DEF Recache, StatFound, FetchExists
  <2>4. Slot(t)' = Slot(t)
    BY <2>2 DEF Slot
  <2> QED BY <1>1, <2>1, <2>2, <2>3, <2>4
<1>6. ASSUME NEW t \in Threads, pc[t] \in Opening
      PROVE  /\ Slot(t) \in Slots /\ cache[Slot(t)].oid = CurrentOid(t)
             /\ CurrentOid(t)[2] = traverse_index[t] /\ EntryTypes(Slot(t))
             /\ Entry(t) = cache[Slot(t)]
  <2>1. Slot(t) \in Slots /\ EntryTypes(Slot(t))
    BY <1>6, ThreadFacts DEF Opening
  <2>2. Entry(t) = Fresh(t)
    BY <1>6 DEF LostInv, Cleared
  <2> QED BY <2>1, <2>2 DEF Entry, Fresh, CurrentOid
<1>7. ASSUME NEW t \in Threads, StatMissing(t) PROVE \A s \in Slots : Unopened(s)'
  <2>0. pc[t] \in Opening /\ cache' = cache /\ present' = present
    BY <1>7 DEF StatMissing, files, Opening
  <2>1. Slot(t) \in Slots /\ cache[Slot(t)].oid = CurrentOid(t)
        /\ CurrentOid(t)[2] = traverse_index[t]
    BY <1>6, <2>0
  <2>2. CASE traverse_index[t] \in Placed
    <3>1. pc'[t] \in Opening /\ traverse_index' = traverse_index
      BY <1>00, <1>7, <2>2 DEF StatMissing, Goto, CallsInv, call, Opening
    <3>2. Slot(t)' = Slot(t)
      BY <3>1 DEF Slot
    <3> QED BY <1>1, <2>0, <2>1, <3>1, <3>2
  <2>3. CASE traverse_index[t] \notin Placed
    <3>1. cache'[Slot(t)].oid \notin present
      BY <2>0, <2>1, <2>3 DEF PlacedInv
    <3> QED BY <1>1, <2>0, <2>1, <3>1
  <2> QED BY <2>2, <2>3
<1>8. ASSUME NEW t \in Threads, FetchFails(t) PROVE \A s \in Slots : Unopened(s)'
  <2>1. pc[t] \in Opening /\ cache' = cache /\ present' = present /\ CurrentOid(t) \notin present
    BY <1>8 DEF FetchFails, FetchMisses, files, Opening, Trusted
  <2>2. Slot(t) \in Slots /\ cache'[Slot(t)].oid \notin present
    BY <1>6, <2>1
  <2> QED BY <1>1, <2>1, <2>2
<1>9. ASSUME NEW t \in Threads, FetchCreates(t) PROVE \A s \in Slots : Unopened(s)'
  <2>1. /\ pc[t] \in Opening /\ cache' = cache /\ present' = present \cup {CurrentOid(t)}
    BY <1>9 DEF FetchCreates, FetchMisses, Opening
  <2>2. pc'[t] \in Opening /\ traverse_index' = traverse_index
    <3>1. \/ Goto(t, "open") /\ UNCHANGED <<req, traverse_index, hit>>
          \/ spoiled' = TRUE
      BY <1>9 DEF FetchCreates, call
    <3>2. ~spoiled'
      BY DEF Trusted
    <3>3. Goto(t, "open") /\ UNCHANGED <<req, traverse_index, hit>>
      BY <3>1, <3>2, Zenon
    <3> QED BY <1>00, <3>3 DEF Goto, CallsInv, Opening
  <2>3. Slot(t)' = Slot(t)
    BY <2>2 DEF Slot
  <2>4. ASSUME NEW s \in Slots PROVE Unopened(s)'
    <3>1. CASE s = Slot(t)
      BY <2>2, <2>3, <3>1 DEF Unopened
    <3>2. CASE s # Slot(t)
      <4>1. cache[s].oid \in present => cache[s].file_fd # 0
        BY <3>2 DEF OneThread, Unopened
      <4>2. CurrentOid(t) # NoOid
        BY <1>9, ThreadFacts DEF FetchCreates, FetchMisses
      <4>3. cache[s].oid # CurrentOid(t)
        BY <3>2, <4>2, OtherEntry DEF EntriesOwned
      <4> QED BY <2>1, <4>1, <4>3 DEF Unopened
    <3> QED BY <3>1, <3>2
  <2> QED BY <2>4
<1>10. ASSUME NEW t \in Threads, NEW fd \in Int, fd # 0, Slot(t) \in Slots, EntryTypes(Slot(t)),
              SetEntry(t, [Entry(t) EXCEPT !.file_fd = fd]), present' = present
       PROVE  \A s \in Slots : Unopened(s)'
  <2>1. [Entry(t) EXCEPT !.file_fd = fd].file_fd = fd
    BY <1>10, WithFd DEF EntryTypes, Entry
  <2>2. /\ cache'[Slot(t)].file_fd = fd
        /\ \A s \in Slots : s # Slot(t) => cache'[s] = cache[s]
    BY <1>00, <1>10, <2>1, SetEntryFacts
  <2> QED BY <1>1, <1>10, <2>2
<1>11. ASSUME NEW t \in Threads, OpenObject(t) \/ OpenFails(t) PROVE \A s \in Slots : Unopened(s)'
  <2>1. pc[t] # "idle" /\ present' = present
    BY <1>11 DEF OpenObject, OpenFails, files
  <2>2. PICK fd \in Fds \cup {-1} : SetEntry(t, [Entry(t) EXCEPT !.file_fd = fd])
    BY <1>11 DEF OpenObject, OpenFails
  <2>3. fd \in Int /\ fd # 0
    BY <2>2, CacheConstants
  <2> QED BY <1>10, <2>1, <2>2, <2>3, ThreadFacts
<1>12. ASSUME NEW t \in Threads, ObjReset(t) \/ OpReset(t) PROVE \A s \in Slots : Unopened(s)'
  <2>1. pc[t] # "idle" /\ present' = present
    BY <1>12 DEF ObjReset, OpReset, files
  <2>2. SetEntry(t, Empty) \/ SetEntry(t, [Entry(t) EXCEPT !.file_fd = -1])
    BY <1>12 DEF ObjReset, OpReset, ResetEntry, Empty
  <2>3. CASE SetEntry(t, [Entry(t) EXCEPT !.file_fd = -1])
    <3>1. -1 \in Int /\ -1 # 0
      OBVIOUS
    <3> QED BY <1>10, <2>1, <2>3, <3>1, ThreadFacts
  <2>4. CASE SetEntry(t, Empty)
    <3>1. Slot(t) \in Slots
      BY <2>1, ThreadFacts
    <3>2. Empty.oid = NoOid /\ NoOid \notin present
      BY <1>00, CacheConstants DEF Empty, FilesInv
    <3>3. /\ cache'[Slot(t)].oid \notin present
          /\ \A s \in Slots : s # Slot(t) => cache'[s] = cache[s]
      BY <1>00, <2>4, <3>1, <3>2, SetEntryFacts
    <3> QED BY <1>1, <2>1, <3>1, <3>3
  <2> QED BY <2>2, <2>3, <2>4
<1>13. ASSUME NEW t \in Threads, RecacheCloseFails(t) PROVE FALSE
  BY <1>13 DEF RecacheCloseFails, Trusted
<1>14. ASSUME CloseLun \/ CloseLunFails \/ OpenLun PROVE FALSE
  BY <1>14 DEF CloseLun, CloseLunFails, OpenLun
<1>15. ASSUME NEW o \in Oids, Evict(o) PROVE \A s \in Slots : Unopened(s)'
  BY <1>15 DEF Evict, call, Unopened, Slot
<1> QED BY <1>3, <1>4, <1>5, <1>7, <1>8, <1>9, <1>11, <1>12, <1>13, <1>14, <1>15 DEF Next, Step

(* What a thread has checked of its entry holds until it has used it:      *)
(* there is nobody else to change it.                                      *)
LEMMA OwnUseStep ==
  ASSUME CacheInv, OneThread, LostInv, EntriesOwned, \A s \in Slots : Unopened(s),
         \A u \in Threads : OwnUse(u), Next, Trusted', start' = start,
         lun_state = "open", lun_state' = "open", NEW t \in Threads
  PROVE  OwnUse(t)'
<1>00. EntriesInv /\ FilesInv /\ CallsInv
  BY DEF CacheInv
<1>1. ASSUME pc'[t] \notin {"cached_stat", "io"} PROVE OwnUse(t)'
  BY <1>1 DEF OwnUse
<1>2. ASSUME NEW r \in Requests, Submit(t, r) PROVE OwnUse(t)'
  BY <1>00, <1>1, <1>2 DEF Submit, Goto, CallsInv
<1>3. ASSUME Check(t) PROVE OwnUse(t)'
  BY <1>00, <1>3 DEF Check, Goto, CallsInv, call, OwnUse, Entry, Slot
<1>4. ASSUME CachedStat(t) PROVE OwnUse(t)'
  <2>1. pc[t] = "cached_stat" /\ UNCHANGED <<cache, present, traverse_index, evicted>>
    BY <1>4 DEF CachedStat, files, call
  <2>2. (pc'[t] = "io" /\ path[t] \in present) \/ pc'[t] = "recache"
    BY <1>00, <1>4 DEF CachedStat, Goto, CallsInv
  <2>3. CASE pc'[t] = "io" /\ path[t] \in present
    <3>1. /\ Slot(t) \in Slots /\ Entry(t) = cache[Slot(t)]
      BY <2>1, ThreadFacts DEF Entry
    <3>2. Entry(t).object_index = traverse_index[t] /\ path[t] = Entry(t).oid
      BY <2>1 DEF OwnUse
    <3>3. path[t] # NoOid
      BY <1>00, <2>3, CacheConstants DEF FilesInv
    <3>4. Entry(t).oid = CurrentOid(t)
      BY <3>1, <3>2, <3>3 DEF EntriesOwned, OwnEntry, CurrentOid
    <3>5. Entry(t).file_fd # 0
      <4>1. pc[t] \notin Opening
        BY <2>1 DEF Opening
      <4> QED BY <2>3, <3>1, <3>2, <4>1, NoOpening
    <3>6. Entry(t)' = Entry(t) /\ CurrentOid(t)' = CurrentOid(t)
      BY <2>1 DEF Entry, Slot, CurrentOid
    <3> QED BY <2>1, <2>3, <3>2, <3>4, <3>5, <3>6 DEF OwnUse
  <2>4. CASE pc'[t] = "recache"
    BY <1>1, <2>4
  <2> QED BY <2>2, <2>3, <2>4
<1>5. ASSUME OpenObject(t) PROVE OwnUse(t)'
  <2>1. /\ Slot(t) \in Slots /\ EntryTypes(Slot(t)) /\ Entry(t) = cache[Slot(t)]
        /\ CurrentOid(t) \in present /\ present' = present /\ traverse_index' = traverse_index
        /\ pc'[t] = "io"
    BY <1>00, <1>5, ThreadFacts DEF OpenObject, Entry, Goto, CallsInv, call
  <2>2. Entry(t) = Fresh(t)
    BY <1>5 DEF OpenObject, LostInv, Cleared, Opening
  <2>3. Entry(t).object_index = traverse_index[t] /\ Entry(t).oid = CurrentOid(t)
    BY <2>2 DEF Fresh
  <2>4. PICK fd \in Fds : SetEntry(t, [Entry(t) EXCEPT !.file_fd = fd])
    BY <1>5 DEF OpenObject
  <2> DEFINE d == [Entry(t) EXCEPT !.file_fd = fd]
  <2>5. d.object_index = Entry(t).object_index /\ d.oid = Entry(t).oid /\ d.file_fd = fd
    BY <2>1, CacheConstants, WithFd DEF EntryTypes
  <2>6. cache'[Slot(t)] = d
    BY <1>00, <2>1, <2>4, SetEntryFacts
  <2> HIDE DEF d
  <2>7. Entry(t)' = d /\ CurrentOid(t)' = CurrentOid(t) /\ fd # 0
    BY <2>1, <2>6, CacheConstants DEF Entry, Slot, CurrentOid
  <2> QED BY <2>1, <2>3, <2>5, <2>7 DEF OwnUse
<1>6. ASSUME Recache(t) \/ StatFound(t) \/ FetchExists(t) \/ TransferFails(t) \/ ObjReset(t)
      PROVE  OwnUse(t)'
  BY <1>00, <1>1, <1>6 DEF Recache, StatFound, FetchExists, TransferFails, ObjReset, Goto, CallsInv
<1>7. ASSUME StatMissing(t) \/ FetchCreates(t) PROVE OwnUse(t)'
  <2>1. Return(t, "OSD_ERROR") \/ Goto(t, "fetch") \/ Goto(t, "open")
    BY <1>7 DEF StatMissing, FetchCreates
  <2> QED BY <1>00, <1>1, <2>1 DEF Return, Goto, CallsInv
<1>8. ASSUME RecacheCloseFails(t) \/ FetchFails(t) \/ OpenFails(t) \/ OpReset(t) PROVE OwnUse(t)'
  BY <1>00, <1>1, <1>8 DEF RecacheCloseFails, FetchFails, OpenFails, OpReset, Return, Goto,
                           CallsInv
<1>9. ASSUME Transfer(t) PROVE OwnUse(t)'
  BY <1>00, <1>1, <1>9 DEF Transfer, NextChunk, Goto, CallsInv
<1>10. ASSUME UNCHANGED vars PROVE OwnUse(t)'
  BY <1>10 DEF vars, OwnUse, Entry, Slot, CurrentOid
<1>11. ASSUME TransferNull(t) PROVE OwnUse(t)'
  <2>1. CASE req[t].op = "write"
    BY <1>00, <1>1, <1>11, <2>1 DEF TransferNull, NextChunk, Goto, CallsInv
  <2>2. CASE req[t].op # "write"
    BY <1>10, <1>11, <2>2 DEF TransferNull
  <2> QED BY <2>1, <2>2
<1>12. ASSUME CloseLun \/ CloseLunFails \/ OpenLun PROVE FALSE
  BY <1>12 DEF CloseLun, CloseLunFails, OpenLun
<1>13. ASSUME NEW o \in Oids, Evict(o) PROVE OwnUse(t)'
  <2>1. /\ UNCHANGED <<cache, pc, traverse_index, path>> /\ present' = present \ {o}
        /\ evicted'[t] = (evicted[t] \/ (pc[t] # "idle" /\ CurrentOid(t) = o))
    BY <1>13 DEF Evict, call
  <2>2. Entry(t)' = Entry(t) /\ CurrentOid(t)' = CurrentOid(t)
    BY <2>1 DEF Entry, Slot, CurrentOid
  <2>3. ASSUME pc[t] = "io" PROVE evicted'[t] \/ CurrentOid(t) \in present'
    <3>1. evicted[t] \/ CurrentOid(t) \in present
      BY <2>3 DEF OwnUse
    <3>2. CASE CurrentOid(t) = o
      BY <2>1, <2>3, <3>2, Zenon
    <3>3. CASE CurrentOid(t) # o /\ CurrentOid(t) \in present
      BY <2>1, <3>3
    <3>4. CASE evicted[t]
      BY <2>1, <3>4, Zenon
    <3> QED BY <3>1, <3>2, <3>3, <3>4
  <2> QED BY <2>1, <2>2, <2>3 DEF OwnUse
<1>14. \A u \in Threads : u = t
  BY DEF OneThread
<1>15. CASE \E u \in Threads : Step(u) \/ \E r \in Requests : Submit(u, r)
  BY <1>2, <1>3, <1>4, <1>5, <1>6, <1>7, <1>8, <1>9, <1>11, <1>14, <1>15 DEF Step
<1> QED BY <1>12, <1>13, <1>15 DEF Next
(* The entries stay right as long as they can be trusted. *)
LEMMA TrustStep ==
  ASSUME CacheInv, OneThread, LostInv, PlacedInv, TrustInv, Next
  PROVE  TrustInv'
<1> SUFFICES ASSUME Trusted', lun_state' = "open"
             PROVE  EntriesOwned' /\ (\A s \in Slots : Unopened(s)') /\ \A t \in Threads : OwnUse(t)'
  BY DEF TrustInv
<1>1. Trusted /\ lun_state = "open" /\ start' = start
  BY TrustOnce
<1>2. EntriesOwned /\ (\A s \in Slots : Unopened(s)) /\ \A t \in Threads : OwnUse(t)
  BY <1>1 DEF TrustInv
<1>3. EntriesOwned'
  BY <1>1, <1>2, OwnedStep
<1>4. \A s \in Slots : Unopened(s)'
  BY <1>1, <1>2, UnopenedStep
<1>5. \A t \in Threads : OwnUse(t)'
  BY <1>1, <1>2, OwnUseStep
<1> QED BY <1>3, <1>4, <1>5

(* A trusted entry is used for the file of its object. *)
LEMMA OwnFile ==
  ASSUME CacheInv, TrustInv, Trusted, NEW t \in Threads, pc[t] = "io"
  PROVE  /\ ~IsNull(Entry(t).file_fd)
         /\ \A e \in OpenFile(Entry(t).file_fd) :
              e.oid = CurrentOid(t) /\ (evicted[t] \/ e.made = made[e.oid])
<1>1. Slot(t) \in Slots /\ CurrentOid(t) # NoOid /\ lun_state = "open"
  BY ThreadFacts
<1>2. OwnEntry(Slot(t)) /\ OwnUse(t)
  BY <1>1 DEF TrustInv, EntriesOwned
<1>3. /\ Entry(t) = cache[Slot(t)] /\ Entry(t).oid = CurrentOid(t) /\ Entry(t).file_fd # 0
      /\ evicted[t] \/ CurrentOid(t) \in present
  BY <1>2 DEF OwnUse, Entry
<1>4. /\ Entry(t).file_fd \in Fds \cup {-1}
      /\ Entry(t).file_fd \in Fds =>
           \A e \in fdtab[Entry(t).file_fd] :
             e.oid = CurrentOid(t) /\ (e.oid \in present => e.made = made[e.oid])
  BY <1>1, <1>2, <1>3 DEF OwnEntry
<1>5. ~IsNull(Entry(t).file_fd)
  BY <1>4, CacheConstants DEF IsNull
<1>6. ASSUME NEW e \in OpenFile(Entry(t).file_fd)
      PROVE  e.oid = CurrentOid(t) /\ (evicted[t] \/ e.made = made[e.oid])
  BY <1>3, <1>4, <1>6 DEF OpenFile
<1> QED BY <1>5, <1>6

(* A chunk that was transferred adds its object to what the write stored.  *)
LEMMA StoredChunk ==
  ASSUME CacheInv, TrustInv, Trusted, NEW t \in Threads, Stored(t), Transfer(t)
  PROVE  Stored(t)'
<1>1. /\ pc[t] = "io" /\ req' = req /\ NextChunk(t)
      /\ traverse_index \in [Threads -> Int] /\ DOMAIN hit = Threads /\ DOMAIN ret = Threads
      /\ pc \in [Threads -> Labels]
  BY DEF Transfer, CacheInv, CallsInv
<1>2. hit'[t] = hit[t] \cup {traverse_index[t]}
  BY <1>1, OwnFile DEF Transfer
<1>3. /\ traverse_index[t] \in Int /\ req[t].first \in Int /\ req[t].last \in Int
      /\ req[t].first <= traverse_index[t]
  BY <1>1, ThreadFacts, CacheConstants DEF Indexes
<1>4. hit[t] = req[t].first .. traverse_index[t] - 1 /\ ret[t] = "none"
  BY <1>1 DEF Stored
<1>5. hit'[t] = req[t].first .. traverse_index[t]
  BY <1>2, <1>3, <1>4
<1>6. CASE traverse_index[t] = req[t].last
  BY <1>1, <1>5, <1>6 DEF NextChunk, Goto, Stored
<1>7. CASE traverse_index[t] # req[t].last
  <2>1. pc'[t] = "check" /\ traverse_index'[t] = traverse_index[t] + 1 /\ ret'[t] = "none"
    BY <1>1, <1>4, <1>7 DEF NextChunk, Goto
  <2>2. hit'[t] = req[t].first .. traverse_index'[t] - 1
    BY <1>3, <1>5, <2>1
  <2> QED BY <1>1, <2>1, <2>2 DEF Stored
<1> QED BY <1>6, <1>7

(* What a write has stored, over every step. *)
LEMMA StoredStep ==
  ASSUME CacheInv, OneThread, TrustInv, StoredInv, Next
  PROVE  StoredInv'
<1> SUFFICES ASSUME Trusted', NEW t \in Threads, req'[t].op = "write" PROVE Stored(t)'
  BY DEF StoredInv
<1>0. CallsInv /\ Trusted /\ (req[t].op = "write" => Stored(t))
  BY TrustOnce DEF CacheInv, StoredInv
<1>1. ASSUME UNCHANGED <<req, hit, ret, traverse_index>>, pc'[t] # "idle" => pc[t] # "idle"
      PROVE  Stored(t)'
  BY <1>0, <1>1 DEF Stored
<1>2. ASSUME NEW r \in Requests, Submit(t, r) PROVE Stored(t)'
  <2>1. /\ req'[t] = r /\ ret'[t] = "none" /\ traverse_index'[t] = r.first /\ hit'[t] = {}
    BY <1>0, <1>2 DEF Submit, CallsInv
  <2>2. r.first \in Int
    BY CacheAssumption DEF Indexes
  <2>3. r.first .. r.first - 1 = {}
    BY <2>2
  <2> QED BY <2>1, <2>3 DEF Stored
<1>3. ASSUME Return(t, "OSD_ERROR") PROVE Stored(t)'
  BY <1>0, <1>3 DEF Return, Goto, CallsInv, Stored
<1>4. ASSUME Check(t) \/ CachedStat(t) \/ Recache(t) \/ StatFound(t) \/ FetchExists(t)
             \/ OpenObject(t) \/ TransferFails(t) \/ ObjReset(t)
      PROVE  Stored(t)'
  <2>1. UNCHANGED <<req, hit, ret, traverse_index>> /\ pc[t] # "idle"
    BY <1>4 DEF Check, CachedStat, Recache, StatFound, FetchExists, OpenObject, TransferFails,
                ObjReset, call
  <2> QED BY <1>1, <2>1
<1>5. ASSUME StatMissing(t) \/ FetchCreates(t) PROVE Stored(t)'
  <2>1. \/ Return(t, "OSD_ERROR")
        \/ UNCHANGED <<req, hit, ret, traverse_index>> /\ pc[t] # "idle"
    BY <1>5 DEF StatMissing, FetchCreates, FetchMisses, call
  <2> QED BY <1>1, <1>3, <2>1
<1>6. ASSUME RecacheCloseFails(t) \/ FetchFails(t) \/ OpenFails(t) \/ OpReset(t) PROVE Stored(t)'
  BY <1>3, <1>6 DEF RecacheCloseFails, FetchFails, OpenFails, OpReset
<1>7. ASSUME Transfer(t) PROVE Stored(t)'
  <2>1. req[t].op = "write"
    BY <1>7 DEF Transfer
  <2> QED BY <1>0, <1>7, <2>1, StoredChunk
<1>8. ASSUME TransferNull(t) PROVE FALSE
  BY <1>0, <1>8, OwnFile DEF TransferNull
<1>9. ASSUME CloseLun \/ CloseLunFails PROVE Stored(t)'
  BY <1>9 DEF CloseLun, CloseLunFails, Stored
<1>10. ASSUME OpenLun \/ \E o \in Oids : Evict(o) PROVE Stored(t)'
  BY <1>1, <1>10 DEF OpenLun, Evict, call
<1>11. \A u \in Threads : u = t
  BY DEF OneThread
<1>12. CASE \E u \in Threads : Step(u) \/ \E r \in Requests : Submit(u, r)
  BY <1>2, <1>4, <1>5, <1>6, <1>7, <1>8, <1>11, <1>12 DEF Step
<1> QED BY <1>9, <1>10, <1>12 DEF Next

OneThreadInv == CacheInv /\ LostInv /\ PlacedInv /\ TrustInv /\ StoredInv

(* The fresh memory of a LUN names no object and no open file. *)
LEMMA OneThreadInit == CleanMemory /\ Init => OneThreadInv
<1> SUFFICES ASSUME CleanMemory, Init PROVE OneThreadInv
  OBVIOUS
<1>1. CacheInv /\ LostInv
  <2>1. LostInv
    BY DEF Init, LostInv, NoDescriptorLost, Cleared, Opening
  <2> QED BY <2>1, CacheInvInit
<1>2. PlacedInv
  BY DEF Init, PlacedInv
<1>3. \A s \in Slots : cache[s].oid = NoOid /\ cache[s].file_fd \notin Fds
  BY CacheAssumption DEF Init, CleanMemory
<1>4. EntriesOwned
  BY <1>3 DEF EntriesOwned, OwnFds, OwnEntry
<1>5. (\A s \in Slots : Unopened(s)) /\ \A t \in Threads : OwnUse(t)
  BY DEF Init, Unopened, OwnUse
<1>6. StoredInv
  BY DEF Init, StoredInv, Stored, NoRequest
<1> QED BY <1>1, <1>2, <1>4, <1>5, <1>6 DEF OneThreadInv, TrustInv

(* With one thread, every step keeps the whole invariant. *)
LEMMA OneThreadNext ==
  ASSUME OneThread, OneThreadInv, [Next]_vars
  PROVE  OneThreadInv'
<1>1. CacheInv'
  BY CacheInvNext DEF OneThreadInv
<1>2. CASE Next
  BY <1>1, <1>2, LostStep, PlacedStep, TrustStep, StoredStep DEF OneThreadInv
<1>3. CASE UNCHANGED vars
  <2>1. LostInv' /\ PlacedInv'
    BY <1>3 DEF vars, OneThreadInv, LostInv, NoDescriptorLost, CollectionSlots, Cleared, Entry,
                Fresh, Slot, CurrentOid, PlacedInv
  <2>2. Trusted' <=> Trusted
    BY <1>3, Zenon DEF vars, Trusted
  <2>3. ASSUME NEW s \in Slots PROVE (OwnEntry(s)' <=> OwnEntry(s)) /\ (Unopened(s)' <=> Unopened(s))
    BY <1>3 DEF vars, OwnEntry, Unopened, Slot
  <2>4. ASSUME NEW t \in Threads PROVE (OwnUse(t)' <=> OwnUse(t)) /\ (Stored(t)' <=> Stored(t))
    <3>1. evicted' = evicted
      BY <1>3 DEF vars
    <3>2. evicted'[t] <=> evicted[t]
      BY <3>1, Zenon
    <3> QED BY <1>3, <3>2 DEF vars, OwnUse, Stored, Entry, Slot, CurrentOid
  <2>5. OwnFds' <=> OwnFds
    BY <1>3 DEF vars, OwnFds
  <2>6. TrustInv'
    BY <1>3, <2>2, <2>3, <2>4, <2>5 DEF vars, OneThreadInv, TrustInv, EntriesOwned
  <2>7. StoredInv'
    BY <1>3, <2>2, <2>4 DEF vars, OneThreadInv, StoredInv
  <2> QED BY <1>1, <2>1, <2>6, <2>7 DEF OneThreadInv
<1> QED BY <1>2, <1>3

(* With one worker thread, and memory that names none of the library's     *)
(* descriptors by chance, the checks of the index and of the file in       *)
(* osd_op_read / osd_op_write are enough: a chunk is never transferred     *)
(* through the null device or through the file of another object, nor      *)
(* through a file that was replaced before the thread looked.  Until the   *)
(* LUN is opened again or a failed fallocate or close leaves a false entry.*)
THEOREM TransfersOwnObjectAlways ==
  OneThread /\ CleanMemory /\ Spec => []TransfersOwnObject
<1> SUFFICES ASSUME OneThread, CleanMemory PROVE Spec => []TransfersOwnObject
  OBVIOUS
<1>1. Init => OneThreadInv
  BY OneThreadInit
<1>2. OneThreadInv /\ [Next]_vars => OneThreadInv'
  BY OneThreadNext
<1>3. OneThreadInv => TransfersOwnObject
  BY OwnFile DEF OneThreadInv, TransfersOwnObject
<1> QED BY <1>1, <1>2, <1>3, PTL DEF Spec

(* Under the same conditions, a write that returns OSD_SUCCESS stored      *)
(* every one of its chunks in a file of that chunk's object.               *)
THEOREM WritesReachObjectAlways ==
  OneThread /\ CleanMemory /\ Spec => []WritesReachObject
<1> SUFFICES ASSUME OneThread, CleanMemory PROVE Spec => []WritesReachObject
  OBVIOUS
<1>1. Init => OneThreadInv
  BY OneThreadInit
<1>2. OneThreadInv /\ [Next]_vars => OneThreadInv'
  BY OneThreadNext
<1>3. OneThreadInv => WritesReachObject
  BY DEF OneThreadInv, StoredInv, Stored, WritesReachObject
<1> QED BY <1>1, <1>2, <1>3, PTL DEF Spec
=============================================================================
