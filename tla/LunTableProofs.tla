--------------------------- MODULE LunTableProofs ---------------------------
(***************************************************************************)
(* The LUN table keeps its devices apart, for every number of slots, every *)
(* set of volumes, every way the metadata lookup may end and whatever      *)
(* malloc leaves in a slot.                                                *)
(***************************************************************************)
EXTENDS LunTable, TLAPS

(* Taking a slot in simpleOSD_lun_open keeps the types of what it changes. *)
LEMMA TakeSlotType ==
  ASSUME TypeOK, NEW s \in Slots, NEW path \in Volumes, TakeSlot(s, path)
  PROVE  /\ lun_list' \in [Slots -> {"NULL", "FREE", "USED"}]
         /\ lun_vol' \in [Slots -> Volumes \cup {NoVolume}]
         /\ \A r \in Slots : lun_list'[r] # "NULL" => lun_vol'[r] \in Volumes
         /\ file_fd' \in [Slots -> [Entries -> Int]]
<1>1. CASE lun_list[s] = "NULL"
  <2>1. PICK g \in [Entries -> Garbage] : file_fd' = [file_fd EXCEPT ![s] = g]
    BY <1>1 DEF TakeSlot
  <2>2. g \in [Entries -> Int]
    BY LunAssumption
  <2> QED BY <2>1, <2>2 DEF TypeOK, TakeSlot
<1>2. CASE lun_list[s] # "NULL"
  BY <1>2 DEF TypeOK, TakeSlot
<1> QED BY <1>1, <1>2

(* osd_free_collection keeps the types of the cache and the descriptors. *)
LEMMA FreeEntriesType ==
  ASSUME TypeOK, NEW s \in Slots, NEW called, NEW closed, FreeEntries(s, called, closed)
  PROVE  /\ fds' \subseteq Fds
         /\ file_fd' \in [Slots -> [Entries -> Int]]
         /\ hits' \in [Slots -> [Entries -> Nat]]
<1>1. [i \in Entries |-> IF i \in closed THEN 0 ELSE file_fd[s][i]] \in [Entries -> Int]
  BY DEF TypeOK
<1>2. [i \in Entries |-> IF i \in called THEN hits[s][i] + 1 ELSE hits[s][i]]
        \in [Entries -> Nat]
  BY DEF TypeOK
<1> QED BY <1>1, <1>2 DEF TypeOK, FreeEntries

(* simpleOSD_lun_close keeps the types, whichever way it ends. *)
LEMMA CloseType ==
  ASSUME TypeOK, NEW lu \in lus, NEW called, NEW closed,
         FreeEntries(lu.fd, called, closed), DropDevice(lu),
         lun_list' \in {lun_list, [lun_list EXCEPT ![lu.fd] = "FREE"]},
         lun_vol[lu.fd] \in Volumes
  PROVE  TypeOK'
<1>1. lu.fd \in Slots
  BY DEF TypeOK
<1>2. /\ fds' \subseteq Fds
      /\ file_fd' \in [Slots -> [Entries -> Int]]
      /\ hits' \in [Slots -> [Entries -> Nat]]
  BY <1>1, FreeEntriesType
<1>3. /\ lun_list' \in [Slots -> {"NULL", "FREE", "USED"}]
      /\ \A s \in Slots : lun_list'[s] # "NULL" => lun_vol'[s] \in Volumes
  BY <1>1 DEF TypeOK, DropDevice
<1>4. wrote' \subseteq lus' /\ lus' \subseteq [fd : Slots, path : Volumes]
  BY DEF TypeOK, DropDevice
<1> QED BY <1>2, <1>3, <1>4 DEF TypeOK, DropDevice

(* The table, the slots' memory and the devices keep their types. *)
LEMMA TypeStep ==
  ASSUME TypeOK, HandlesOwnSlots, [Next]_vars
  PROVE  TypeOK'
<1>1. ASSUME NEW path \in Volumes, OpenTableFull(path) PROVE TypeOK'
  BY <1>1 DEF OpenTableFull, vars, TypeOK
<1>2. ASSUME NEW path \in Volumes, OpenMdsError(path) PROVE TypeOK'
  BY <1>2, TakeSlotType DEF OpenMdsError, TypeOK
<1>3. ASSUME NEW path \in Volumes, OpenNoGeometry(path) PROVE TypeOK'
  BY <1>3, TakeSlotType DEF OpenNoGeometry, SetInfo, IsFsFlag, TypeOK
<1>4. ASSUME NEW path \in Volumes, OpenSucceeds(path) PROVE TypeOK'
  <2>1. PICK s \in Slots, n \in Sizes :
          /\ TakeSlot(s, path)
          /\ SetInfo(s, n)
          /\ lus' = lus \cup {[fd |-> s, path |-> path]}
    BY <1>4 DEF OpenSucceeds
  <2>2. /\ is_fs_done' \in [Slots -> BOOLEAN]
        /\ nb_objects' \in [Slots -> Nat]
    BY <2>1, LunAssumption DEF SetInfo, IsFsFlag, TypeOK
  <2>3. /\ lus' \subseteq [fd : Slots, path : Volumes]
        /\ wrote' \subseteq lus'
    BY <1>4, <2>1 DEF OpenSucceeds, TypeOK
  <2> QED BY <1>4, <2>1, <2>2, <2>3, TakeSlotType DEF OpenSucceeds, TypeOK
<1>5. ASSUME NEW lu \in lus, CloseFrees(lu) PROVE TypeOK'
  BY <1>5, CloseType DEF CloseFrees, HandlesOwnSlots, TypeOK
<1>6. ASSUME NEW lu \in lus, CloseFails(lu) PROVE TypeOK'
  <2>1. PICK called, closed : FreeEntries(lu.fd, called, closed)
    BY <1>6 DEF CloseFails
  <2> QED BY <1>6, <2>1, CloseType DEF CloseFails, HandlesOwnSlots, TypeOK
<1>7. ASSUME NEW lu \in lus, Write(lu) PROVE TypeOK'
  BY <1>7 DEF Write, cache, TypeOK
<1>8. ASSUME NEW fd \in Fds, TargetOpens(fd) \/ TargetCloses(fd) PROVE TypeOK'
  BY <1>8 DEF TargetOpens, TargetCloses, TypeOK
<1>9. CASE UNCHANGED vars
  BY <1>9 DEF vars, TypeOK
<1> QED BY <1>1, <1>2, <1>3, <1>4, <1>5, <1>6, <1>7, <1>8, <1>9 DEF Next

(* A slot that is taken was no device's. *)
LEMMA TakenSlotIsNew ==
  ASSUME TypeOK, HandlesOwnSlots, NEW s \in Slots, NEW path \in Volumes,
         TakeSlot(s, path)
  PROVE  /\ \A lu \in lus : lu.fd # s
         /\ \A lu \in lus : lun_list'[lu.fd] = "USED" /\ lun_vol'[lu.fd] = lu.path
         /\ lun_list'[s] = "USED" /\ lun_vol'[s] = path
  BY DEF TypeOK, HandlesOwnSlots, TakeSlot, IsNextFree

(* No step of open, close or write makes two devices share a slot. *)
LEMMA HandlesStep ==
  ASSUME TypeOK, HandlesOwnSlots, [Next]_vars
  PROVE  HandlesOwnSlots'
<1>1. ASSUME NEW path \in Volumes, OpenTableFull(path) PROVE HandlesOwnSlots'
  BY <1>1 DEF OpenTableFull, vars, HandlesOwnSlots
<1>2. ASSUME NEW path \in Volumes, OpenMdsError(path) PROVE HandlesOwnSlots'
  BY <1>2, TakenSlotIsNew DEF OpenMdsError, HandlesOwnSlots
<1>3. ASSUME NEW path \in Volumes, OpenNoGeometry(path) PROVE HandlesOwnSlots'
  BY <1>3, TakenSlotIsNew DEF OpenNoGeometry, HandlesOwnSlots
<1>4. ASSUME NEW path \in Volumes, OpenSucceeds(path) PROVE HandlesOwnSlots'
  <2>1. PICK s \in Slots :
           /\ TakeSlot(s, path)
           /\ lus' = lus \cup {[fd |-> s, path |-> path]}
    BY <1>4 DEF OpenSucceeds
  <2> QED BY <2>1, TakenSlotIsNew DEF HandlesOwnSlots
<1>5. ASSUME NEW lu \in lus, CloseFrees(lu) PROVE HandlesOwnSlots'
  BY <1>5 DEF CloseFrees, DropDevice, HandlesOwnSlots, TypeOK
<1>6. ASSUME NEW lu \in lus, CloseFails(lu) PROVE HandlesOwnSlots'
  BY <1>6 DEF CloseFails, DropDevice, HandlesOwnSlots
<1>7. ASSUME NEW lu \in lus, Write(lu) PROVE HandlesOwnSlots'
  BY <1>7 DEF Write, HandlesOwnSlots
<1>8. ASSUME NEW fd \in Fds, TargetOpens(fd) \/ TargetCloses(fd) PROVE HandlesOwnSlots'
  BY <1>8 DEF TargetOpens, TargetCloses, HandlesOwnSlots
<1>9. CASE UNCHANGED vars
  BY <1>9 DEF vars, HandlesOwnSlots
<1> QED BY <1>1, <1>2, <1>3, <1>4, <1>5, <1>6, <1>7, <1>8, <1>9 DEF Next

(* The flag of a device changes with a write asked of that device, and an  *)
(* open starts it anew: the slot it takes was no device's.                 *)
LEMMA FormattedStep ==
  ASSUME TypeOK, HandlesOwnSlots, FormattedByOwnWrite, [Next]_vars
  PROVE  FormattedByOwnWrite'
<1>1. ASSUME NEW path \in Volumes, OpenTableFull(path) PROVE FormattedByOwnWrite'
  BY <1>1 DEF OpenTableFull, vars, FormattedByOwnWrite
<1>2. ASSUME NEW path \in Volumes, OpenMdsError(path) PROVE FormattedByOwnWrite'
  BY <1>2 DEF OpenMdsError, FormattedByOwnWrite
<1>3. ASSUME NEW path \in Volumes, OpenNoGeometry(path) PROVE FormattedByOwnWrite'
  BY <1>3, TakenSlotIsNew DEF OpenNoGeometry, SetInfo, TypeOK, IsFsFlag, FormattedByOwnWrite
<1>4. ASSUME NEW path \in Volumes, OpenSucceeds(path) PROVE FormattedByOwnWrite'
  <2>1. PICK s \in Slots, n \in Sizes :
          /\ TakeSlot(s, path)
          /\ SetInfo(s, n)
          /\ lus' = lus \cup {[fd |-> s, path |-> path]}
    BY <1>4 DEF OpenSucceeds
  <2>2. \A lu \in lus : lu.fd # s
    BY <2>1, TakenSlotIsNew
  <2>3. is_fs_done'[s] = FALSE /\ [fd |-> s, path |-> path] \notin wrote
    BY <2>1, <2>2 DEF SetInfo, IsFsFlag, TypeOK
  <2>4. \A lu \in lus : is_fs_done'[lu.fd] = is_fs_done[lu.fd]
    BY <2>1, <2>2 DEF SetInfo, TypeOK
  <2> QED BY <1>4, <2>1, <2>3, <2>4 DEF OpenSucceeds, FormattedByOwnWrite
<1>5. ASSUME NEW lu \in lus, CloseFrees(lu) \/ CloseFails(lu) PROVE FormattedByOwnWrite'
  BY <1>5 DEF CloseFrees, CloseFails, DropDevice, FormattedByOwnWrite
<1>6. ASSUME NEW lu \in lus, Write(lu) PROVE FormattedByOwnWrite'
  <2> SUFFICES ASSUME NEW mu \in lus PROVE is_fs_done'[mu.fd] <=> mu \in wrote'
    BY <1>6 DEF Write, FormattedByOwnWrite
  <2>1. CASE mu = lu
    BY <1>6, <2>1 DEF Write, TypeOK
  <2>2. CASE mu # lu
    <3>1. mu.fd # lu.fd
      BY <2>2 DEF HandlesOwnSlots
    <3> QED BY <1>6, <2>2, <3>1 DEF Write, TypeOK, FormattedByOwnWrite
  <2> QED BY <2>1, <2>2
<1>7. ASSUME NEW fd \in Fds, TargetOpens(fd) \/ TargetCloses(fd)
      PROVE  FormattedByOwnWrite'
  BY <1>7 DEF TargetOpens, TargetCloses, FormattedByOwnWrite
<1>8. CASE UNCHANGED vars
  BY <1>8 DEF vars, FormattedByOwnWrite
<1> QED BY <1>1, <1>2, <1>3, <1>4, <1>5, <1>6, <1>7, <1>8 DEF Next

(* A slot that a close may still come to: it is free, or some device's.    *)
Closable(s) == lun_list[s] = "FREE" \/ \E lu \in lus : lu.fd = s

(* Why a close comes to an entry with a descriptor only once.  Memory that *)
(* is not there yet was not closed; an entry that was closed names nothing *)
(* as long as its slot can be closed again.                                *)
SpentEntries ==
  \A s \in Slots, i \in Entries :
    /\ hits[s][i] <= 1
    /\ lun_list[s] = "NULL" => hits[s][i] = 0
    /\ Closable(s) /\ hits[s][i] = 1 => file_fd[s][i] <= RESERVED_FDS

(* Taking a slot fills its cache only when the slot has no memory yet. *)
LEMMA SpentTake ==
  ASSUME TypeOK, HandlesOwnSlots, SpentEntries, NEW s \in Slots, NEW path \in Volumes,
         TakeSlot(s, path), UNCHANGED hits,
         lus' \subseteq lus \cup {[fd |-> s, path |-> path]}
  PROVE  SpentEntries'
<1> SUFFICES ASSUME NEW r \in Slots, NEW i \in Entries
             PROVE  /\ hits[r][i] <= 1
                    /\ lun_list'[r] = "NULL" => hits[r][i] = 0
                    /\ Closable(r)' /\ hits[r][i] = 1 => file_fd'[r][i] <= RESERVED_FDS
  BY DEF SpentEntries
<1>1. CASE r # s
  <2>1. lun_list'[r] = lun_list[r] /\ file_fd'[r] = file_fd[r]
    BY <1>1 DEF TakeSlot, TypeOK
  <2>2. Closable(r)' => Closable(r)
    BY <1>1, <2>1 DEF Closable
  <2> QED BY <2>1, <2>2 DEF SpentEntries
<1>2. CASE r = s /\ lun_list[s] = "NULL"
  BY <1>2 DEF SpentEntries, TakeSlot, TypeOK
<1>3. CASE r = s /\ lun_list[s] # "NULL"
  <2>1. lun_list[s] = "FREE" /\ file_fd' = file_fd /\ lun_list'[s] = "USED"
    BY <1>3 DEF TakeSlot, IsNextFree, TypeOK
  <2> QED BY <1>3, <2>1 DEF SpentEntries, Closable
<1> QED BY <1>1, <1>2, <1>3

(* The loop of osd_free_collection comes to entries that name a descriptor *)
(* in the slot of a device, so to none for which close was called before.  *)
LEMMA SpentClose ==
  ASSUME TypeOK, HandlesOwnSlots, SpentEntries, NEW lu \in lus, NEW called, NEW closed,
         called \subseteq Named(lu.fd), FreeEntries(lu.fd, called, closed), DropDevice(lu),
         \/ called = closed /\ lun_list' = [lun_list EXCEPT ![lu.fd] = "FREE"]
         \/ lun_list' = lun_list
  PROVE  SpentEntries'
<1>0. lu.fd \in Slots /\ lun_list[lu.fd] = "USED" /\ Closable(lu.fd)
  BY DEF TypeOK, HandlesOwnSlots, Closable
<1> SUFFICES ASSUME NEW r \in Slots, NEW i \in Entries
             PROVE  /\ hits'[r][i] <= 1
                    /\ lun_list'[r] = "NULL" => hits'[r][i] = 0
                    /\ Closable(r)' /\ hits'[r][i] = 1 => file_fd'[r][i] <= RESERVED_FDS
  BY DEF SpentEntries
<1>1. CASE r # lu.fd
  <2>1. /\ lun_list'[r] = lun_list[r]
        /\ file_fd'[r] = file_fd[r]
        /\ hits'[r] = hits[r]
    BY <1>0, <1>1 DEF FreeEntries, TypeOK
  <2>2. Closable(r)' => Closable(r)
    BY <2>1 DEF Closable, DropDevice
  <2> QED BY <2>1, <2>2 DEF SpentEntries
<1>2. CASE r = lu.fd
  <2>1. /\ hits'[r][i] = IF i \in called THEN hits[r][i] + 1 ELSE hits[r][i]
        /\ file_fd'[r][i] = IF i \in closed THEN 0 ELSE file_fd[r][i]
    BY <1>0, <1>2 DEF FreeEntries, TypeOK
  <2>2. hits[r][i] \in Nat /\ file_fd[r][i] \in Int
    BY DEF TypeOK
  <2>3. i \in called => hits[r][i] = 0
    BY <1>0, <1>2, <2>2 DEF SpentEntries, Named, RESERVED_FDS
  <2>4. hits'[r][i] <= 1
    BY <2>1, <2>2, <2>3 DEF SpentEntries
  <2>5. lun_list'[r] # "NULL"
    BY <1>0, <1>2 DEF TypeOK
  <2>6. ASSUME Closable(r)', hits'[r][i] = 1 PROVE file_fd'[r][i] <= RESERVED_FDS
    <3>1. called = closed
      <4>1. ASSUME lun_list' = lun_list PROVE FALSE
        <5>1. PICK mu \in lus' : mu.fd = r
          BY <1>0, <1>2, <2>6, <4>1 DEF Closable
        <5>2. mu \in lus /\ mu # lu
          BY <5>1 DEF DropDevice
        <5> QED BY <1>2, <5>1, <5>2 DEF HandlesOwnSlots
      <4> QED BY <4>1
    <3>2. CASE i \in called
      BY <2>1, <3>1, <3>2 DEF RESERVED_FDS
    <3>3. CASE i \notin called
      BY <1>0, <1>2, <2>1, <2>6, <3>1, <3>3 DEF SpentEntries
    <3> QED BY <3>2, <3>3
  <2> QED BY <2>4, <2>5, <2>6
<1> QED BY <1>1, <1>2

(* Every step keeps it that an entry is closed once. *)
LEMMA SpentStep ==
  ASSUME TypeOK, HandlesOwnSlots, SpentEntries, [Next]_vars
  PROVE  SpentEntries'
<1>1. ASSUME NEW path \in Volumes, OpenMdsError(path) PROVE SpentEntries'
  BY <1>1, SpentTake DEF OpenMdsError
<1>2. ASSUME NEW path \in Volumes, OpenNoGeometry(path) PROVE SpentEntries'
  BY <1>2, SpentTake DEF OpenNoGeometry
<1>3. ASSUME NEW path \in Volumes, OpenSucceeds(path) PROVE SpentEntries'
  BY <1>3, SpentTake DEF OpenSucceeds
<1>4. ASSUME NEW lu \in lus, CloseFrees(lu) PROVE SpentEntries'
  BY <1>4, SpentClose DEF CloseFrees
<1>5. ASSUME NEW lu \in lus, CloseFails(lu) PROVE SpentEntries'
  <2>1. PICK failed \in Named(lu.fd) :
          FreeEntries(lu.fd, {i \in Named(lu.fd) : i <= failed},
                             {i \in Named(lu.fd) : i < failed})
    BY <1>5 DEF CloseFails
  <2> QED BY <1>5, <2>1, SpentClose DEF CloseFails
<1>6. ASSUME UNCHANGED <<lun_list, lus, file_fd, hits>> PROVE SpentEntries'
  BY <1>6 DEF SpentEntries, Closable
<1> QED BY <1>1, <1>2, <1>3, <1>4, <1>5, <1>6
        DEF Next, vars, cache, OpenTableFull, Write, TargetOpens, TargetCloses

(* The inductive invariant. *)
LunInv == TypeOK /\ HandlesOwnSlots /\ FormattedByOwnWrite /\ SpentEntries

(* The four parts of LunInv together are an invariant of the table. *)
THEOREM LunInvariant == Spec => []LunInv
<1>1. Init => LunInv
  BY DEF Init, LunInv, TypeOK, HandlesOwnSlots, FormattedByOwnWrite, SpentEntries, Closable
<1>2. LunInv /\ [Next]_vars => LunInv'
  BY TypeStep, HandlesStep, FormattedStep, SpentStep DEF LunInv
<1> QED BY <1>1, <1>2, PTL DEF Spec

(* The table, the slots' memory and the target's devices keep their types. *)
THEOREM LunTypeAlways == Spec => []TypeOK
  BY LunInvariant, PTL DEF LunInv

(* simpleOSD_lun_open and simpleOSD_lun_close never let two devices share  *)
(* a slot or a device's slot name another volume.                          *)
THEOREM HandlesOwnSlotsAlways == Spec => []HandlesOwnSlots
  BY LunInvariant, PTL DEF LunInv

(* A device counts as formatted exactly when a write was asked of it since *)
(* its open: a reused slot does not pass its flag on.                      *)
THEOREM FormattedByOwnWriteAlways == Spec => []FormattedByOwnWrite
  BY LunInvariant, PTL DEF LunInv

(* Uninitialised cache memory makes a close hit a descriptor of the target *)
(* at most once for each entry, for volumes of any sizes in any order.     *)
THEOREM GarbageClosedOnceAlways == Spec => []GarbageClosedOnce
<1>1. LunInv => GarbageClosedOnce
  BY DEF LunInv, SpentEntries, GarbageClosedOnce
<1> QED BY <1>1, LunInvariant, PTL
=============================================================================
