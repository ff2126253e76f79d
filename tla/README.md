# simpleObjectStore: TLA+ models and proofs

simpleObjectStore is a C library that stripes a block device (a LUN) over
fixed-size object files, with a backing store for the tgt SCSI target on top.
This directory models the library and the backing store's command handler,
checks the models with TLC and proves the main invariants with TLAPS.

Run a check with `tlc -workers 2 -config <run>.cfg <MC module>` and a proof
with `tlapm <module>.tla`. `PROJECT.json` lists the runs, the source lines of
every definition, the seeded faults, the findings and the hazards.

## 1. Inventory

| Component | Source | State | Operations |
|---|---|---|---|
| Object I/O | `src/simpleOSD_osd_op.c`, `_obj_op.c`, `_io_op.c`, `_bs.c` | object files, descriptor table, `is_fs_done`, locals of each call | `simpleOSD_read`, `simpleOSD_write` |
| Object fetch | `src/simpleOSD_fetch_helper.c` | 256 mutexes, object files | `simpleOSD_get_object_to_dc` |
| LUN table | `src/simpleOSD_bs.c`, `osd_init_collection`, `osd_free_collection` | `p_simpleOSD_lun_list` with its tag bits, slot memory | `simpleOSD_lun_open`, `simpleOSD_lun_close` |
| SCSI handler | `tgt_patch/usr/bs_simpleOSD.c` | command, buffers, sense data | `bs_simpleOSD_request` |
| Metadata and placement | `src/simpleOSD_mds_helper.c` | none; results only | lookup of geometry, node of an object |
| Object naming, parameters | `src/simpleOSD_osd_helper.c`, `_helper.c`, `_conf.c` | `global_blk_frontend_parameters` | id to path, defaults at load time |
| Descriptor cache | `osd_op.c` under `RECACHE_FD_ENABLED` | `p_object_attr_cache`, shared by a LUN's threads | check, recache, reset, free |
| Socket wait | `src/simpleOSD_socketop.c` | an epoll descriptor for each call | `sock_wait_epoll`, `sock_wait` (not built, not called) |
| Intrusive list | `include/simpleOSD_list.h` | two pointers in each node | add, delete, splice, loop (not used by the library) |
| Generic helpers, placeholders | the other files | - | logging, `time_diff`; files without code |

How they interact: tgt's main thread opens and closes LUNs. Its worker threads
run `bs_simpleOSD_request`, which calls `simpleOSD_read` and `simpleOSD_write`
through a table of functions; these find the LUN by index, map the offset to
an object, look the object file up, create it under a mutex if it is missing,
open it, transfer and close it. There are no messages. What threads share is
the object files, the process's descriptor table, the fetch mutexes and
`is_fs_done`; what outlives the process is the object files.

What is hard: two threads meeting a missing object; a file that exists before
it has its size; error paths that close a descriptor twice; opens of a LUN
that fail half way; a slot's memory reused by another volume; the boundaries of
objects and of the LUN; commands made of several library calls; a cache of
descriptors that outlives what it says; LUNs that share one process. The full list,
each at its line, is `hazards` in `PROJECT.json`.

What makes each part correct:

- Object I/O: the LUN is one flat array of bytes, whatever fails; every call
  returns; descriptors are neither leaked nor closed under another thread.
- Fetch: an object is created once and at its full size; no mutex is left held.
- LUN table: a device's index always means its own volume; failures do not
  use up the table; the formatted flag is about the device's own writes; nothing
  is closed that the library did not open (of these the code keeps the first
  and the third, see Known deviations).
- Descriptor cache: a chunk goes to the current file of its object; no
  descriptor is forgotten.
- Naming and placement: two objects never share a file; an object keeps its
  file; every object has a node; objects are kept where the configuration says
  (of these the code keeps the first and the third, see Known deviations).
- Socket wait: success means connected, errors are explained, the descriptor
  is given back, a limit is a limit.
- List: the rings are sequences, and a loop may delete what it is at.
- SCSI handler: GOOD means the whole effect, anything else touches only the
  command's blocks, compare verdicts are about the medium.

## 2. Modules

| Module | What it is |
|---|---|
| `Striping` | address arithmetic as operators: range check, object index, local offset, chunk length, object id, placement |
| `ObjectStore` | state machine of `simpleOSD_read/_write` by concurrent threads, alone (`Spec`) or beside other LUNs of the process (`SharedSpec`); extends `Striping` |
| `BlockDevice` | abstract specification: a flat device on which requests move their bytes in order |
| `LunTable` | state machine of open, close and the flag |
| `ScsiTarget` | state machine of the command handler, on top of an instance of `BlockDevice` |
| `TwoLuns` | composition: two instances of `ObjectStore` that share the descriptor table and the fetch mutexes |
| `ScsiInterference` | `ScsiTarget` with a history of the medium, for commands that run at the same time |
| `FdCache` | the transfer loop of the `RECACHE_FD_ENABLED` build, with the shared cache |
| `Volumes` | what names a volume's files: parameters, first id, counter, path, placement of the test provider |
| `SocketWait` | state machine of the two socket waits |
| `ListHead`, `Lists` | the list's pointers, and the sequences they implement |
| `MC...` | constants for TLC |
| `ObjectStoreProofs` | theorems about the address arithmetic and `ObjectStore`, up to the refinement of `BlockDevice` |
| `TwoLunsProofs` | theorems about the composition, from those of `ObjectStoreProofs` |
| `LunTableProofs`, `ScsiProofs`, `FdCacheProofs`, `VolumesProofs`, `SocketWaitProofs`, `ListProofs` | theorems about `LunTable`, `ScsiTarget` and `ScsiInterference`, `FdCache`, `Volumes`, `SocketWait`, `ListHead` |

Operators named `X_Something` with the comment "Seeded fault" are plausible
bugs of the definition `X` that follows; they are used only to see that a
property can fail.

### ObjectStore

A step is one system call or mutex operation with the local computation after
it; `pc` names the call that comes next (`stat`, `fetch_lock`, `fetch_stat`,
`fetch_creat`, `fetch_alloc`, `fetch_unlock`/`fetch_fail`, `open`, `io`,
`obj_reset`, `op_reset`, `reset`). `buf_done` is `buf_read`/`buf_written`,
`moved` the progress inside `simpleOSD_obj_read/_write`. `fdtab` says for each
descriptor who opened it, on which object and what for: `io` in
`osd_recache_object`, `creat` in the fetch, which never closes it. The kernel
gives the lowest free descriptor, moves any positive number of bytes, and
fails where `Faults` allows: `stat`, `creat`, `fallocate`, `open`, `io`,
`close`; `crash` restarts the process and reopens the LUN. A failing close
releases its descriptor, as on Linux.

The build modelled is the default one: `RECACHE_FD_ENABLED FALSE`,
`SUPPORT_UNFORMATTED_DISK` on, `GET_OBJECT_FROM_DP_NODE` undefined. Object ids
are reduced to their 32 bit counter, modulo `CounterMod`; the rest of the id
and the path are the same for a collection. The provider of metadata is
assumed to report the same geometry each time a volume is opened; `Volumes`
is about the built-in test provider, which does not.

`SharedSpec` is `Spec` with the process's other LUNs: between any two steps
they may take and release descriptors and fetch mutexes (`OtherLuns`), but
leave alone what this LUN's threads hold. Nothing else of them is visible.

### BlockDevice and the refinement

`BlockDevice` accepts a request or answers it at once, moves it in order in
pieces of any size, and ends it with success only when all bytes moved. A
LUN that was never written answers reads with success and leaves the buffer
alone, as the code does on purpose. `ObjectStore!ImplementsBlockDevice` is the
refinement: address `a` is byte `LocalOffset(a)` of object `ObjectIndex(a)`,
`done` is `buf_done + moved`, a thread is busy when its `pc` is not `idle`.
Stat, lock, create, allocate, open and close are stuttering steps.

### LunTable

An open or close is one step: the target's main thread makes the calls one at
a time and ends a device's threads before it closes the device. `lun_list`
has the three meanings of a tagged pointer. The lookup of a volume ends in one
of `MdsReplies`: it fails, it succeeds and fills nothing in (the stub of the
default build, so `osd_init_collection` refuses), or it succeeds with a
geometry. A new slot's cache entries hold any of `Garbage`; a close looks at as
many of them as this volume has objects, so that those beyond a small volume
wait for a larger one. A write sets the flag before it transfers anything, so
the step stands for writes that fail too. The target's own descriptors come and
go. `wrote` and `hits` are history variables: the open devices a write was asked
of, and the number of closes for each cache entry.

### ScsiTarget

Unit of data is a block, a set of bits, so that OR is union. A command is
received, does library calls as its case label says (with the `goto write` and
`goto verify` chains), and is answered. `malloc` may fail, the caching page may
be missing, every library call may fail. `Junk` is memory nobody wrote:
`memcmp` with it may say either. The stamp of WRITE SAME is the byte offset of
the block, as in the code. An UNMAP carries at most one descriptor (each
one only makes a call that does nothing). `before` is a history variable: the
medium when the command arrived, as long as it met no other command.

### TwoLuns

Both LUNs start from the same object id in directories of their own, so their
object indexes pick the same mutexes. A step of one leaves the other's state
alone and changes what they share; a crash is a crash of both. Each instance is
held to its `SharedSpec`, so that the other one is to it the `OtherLuns` that it
expects (`LunsShareProcess`, proved in `TwoLunsProofs` and not part of a run), and
to `BlockDevice`.

### ScsiInterference

`seen[t][a]` is the set of what block `a` held while `t`'s command, which
addresses it, read. The code promises no atomicity between commands; what it
must keep is that a verdict or a merge rests on blocks from that set.

### FdCache

Object `i` uses entry `i % NBMAXOBJECTS`. A step is a system call and what
follows it; nothing protects an entry, so other threads step in between. The
fetch is one step (its mutex is in `ObjectStore`): its own stat finds the file,
misses it or fails on a file that exists, which is then opened with `O_CREAT`
and allocated again, and its descriptor leaks; open or `fallocate` may fail on
either. A chunk is one transfer, and a LUN can be closed
(`osd_free_collection`, also failing half way) and opened again in the same memory. `spoiled` is a history variable: a
failure has left an entry whose descriptor is not its object's. Descriptors 0
to 2 are the null device, as in a daemon. Somebody else may delete object
files, which the code expects ("eviction"). `made` counts the files an object has had, so that an
open descriptor of a deleted file is told from one of the new file.

### Volumes

The build with `GET_INFO_FROM_MDS_DB`, whose provider generates test data. Ids
are bytes; the clock and the counter overlap in one byte, as in the code, with
fewer values for a byte and fewer bytes for each. `VolumesAssumption` says what
keeps ids apart: the clock stays below the byte it shares (in the code for
2^56 seconds), and the counter has a value for every object of a volume (2^32);
its sum may reach the shared byte.

### SocketWait

A step is one system call. The connection may be made, refused or never be
decided. The arithmetic of the limit has the width `IntBits`; callers pass
sockets that `select` can take and a place for the error number.

### ListHead

Stores happen in the order of the code. Callers keep to the contract that
is stated in the module; a loop is a caller whose body deletes entries.
`called` is a history variable: the refinement has to do what the call says.

## 3. Runs

| Run | Instance | Checks | States |
|---|---|---|---|
| `store_faults` | 2 threads, 2 objects of 2 bytes, 1 mutex, 5 descriptors from 3 (a reserved one), every fault but `stat`, requests across the boundary | `TypeOK`, `LockDiscipline`, `FdAccounting`, `ImplementsBlockDevice` | 358 thousand |
| `store_geometry` | 1 thread, 3 objects of 2 bytes, all requests with offset and length 0..6, the last object unplaced, `stat` and `io` faults, 3 descriptors | `CursorInv`, `ImplementsBlockDevice` | 49 thousand |
| `store_concurrent` | 2 threads, no faults, 2 mutexes, 4 descriptors, requests over both objects, in one, and empty | `CreatedOnce`, `FixedSizeObjects`, `NoSpuriousError`, `UnformattedIsEmpty`, `EveryCallReturns` | 252 thousand |
| `lun_table` | 2 slots, 3 volumes of 1 or 3 objects, 2 cache entries, garbage in them, 2 descriptors of the target, all replies | `TypeOK`, `HandlesOwnSlots`, `FormattedByOwnWrite`, `GarbageClosedOnce` | 181 thousand |
| `two_luns` | 2 LUNs with a thread each, 1 object of 1 byte each, 1 mutex, 5 descriptors, `fallocate`, `open`, `io`, `close` faults, restarts | `OwnDescriptors`, `LunsImplementDevices`, `EveryLunCallReturns` | 54 thousand |
| `scsi_commands` | 2 blocks, 2 threads, 14 commands of every kind against an ORWRITE | `UsesOnlyMetBlocks`, `ScsiTypeOK`, `CommandEffect`, `OnlyItsBlocks`, `ComparesExistingData`, `EveryCommandAnswered` | 638 thousand |
| `fdcache` | 1 thread, 4 objects (one unplaced) in 2 entries, 4 descriptors, left-over entries, every fault, each file deleted and made again, LUN opened twice; a write over objects 0 and 1, a read over 2 and 3 | `CacheTypeOK`, `TransfersOwnObject`, `WritesReachObject`, `NoDescriptorLost` | 6.8 million |
| `volumes` | 2 volumes, 10 objects on 3 nodes, ids of 7 bits, clock 0..2, restarts | `VolumesTypeOK`, `NoSharedFile`, `AddsToCounter`, `EveryObjectPlaced` | 14 thousand |
| `socket_waits` | 2 threads, both kinds of wait, descriptors 3 and 4, 12 bit int, every fault | `SuccessMeansConnected`, `ErrorExplained`, `EpollReleased`, `WaitsEnd` | 187 thousand |
| `list_head` | 2 lists, 4 entries | `RingsConsistent`, `LoopOnList`, `ImplementsLists`, `LoopsFinish` | 15 thousand |

Why these bounds: two objects and two threads are the least for a request
across a boundary and for a race on one object; two bytes in an object give
short transfers and offsets inside; `start_object = 3`, `CounterMod = 4` make
the counter wrap inside the collection; few descriptors make `open` meet the
limit, and the four above the reserved ones in `store_concurrent` are the least
that `NoSpuriousError` needs, one for each object and each thread; one mutex
makes different objects share it, two keep them apart. Two
slots with three volumes let one slot be lost or in use while the other is used
again and again; one object looks at one cache entry and three at both.
Two LUNs with one object each are the least that meet at a mutex and at a
descriptor number. Two cache entries for four objects make objects push each
other out, and the write and the read, over two objects each, use both entries
and have none in common. Ten objects on
three nodes leave a remainder, and the last one's counter reaches the byte that
it shares with the clock. With 12 bits two seconds fit, three become
negative and five wrap to a positive limit. Four entries give a list a first, a
last and two middle ones.

Two runs show where the program differs from what it says of itself, each with
the quoted line in `findings`:

| Run | Shows |
|---|---|
| `store_span_end` | a request over a boundary that ends exactly at the capacity is refused (`osd_op.c:258`) |
| `fdcache_threads` | two threads share a cache entry without a lock: one's chunk goes to the other's object (`osd_op.c:293`) |

### Known deviations

What the models also show, and how the properties are stated around it:

- After a failed `fallocate` an empty object file stays and is used; a read of
  it never ends (`fetch_helper.c:78`, `obj_op.c:56`). `FixedSizeObjects` is
  checked and proved without `fallocate` faults and crashes;
  `EveryLunCallReturns` excuses the calls of a LUN with such a file.
- A failed open keeps its slot, so the limit can be reached with nothing open
  (`bs.c:128`). `HandlesOwnSlots` is about the slots of open devices.
- The flag that a LUN holds data is in memory only and set before the write:
  a written volume that is closed and opened again, or whose process restarts,
  is taken for one without data (`bs.c:86`), and one whose only write failed for
  one with data (`io_op.c:127`). `FormattedByOwnWrite` says that the flag is
  about the writes asked of this device; `BlockDevice` loses it in `Restart`.
- A new slot's cache is not initialised, and closing the LUN closes the
  descriptors it happens to name (`osd_op.c:486`), which are the target's.
  `GarbageClosedOnce` bounds that to one close for each entry of a slot.
- On a LUN that was never written, COMPARE AND WRITE and VERIFY compare with
  uninitialised memory (`bs_simpleOSD.c:120`). `scsi_commands` has a LUN with a
  file system (`IsFsFlag` TRUE).
- No lock spans the read and the write of COMPARE AND WRITE and ORWRITE
  (`bs_simpleOSD.c:131`), so the block compared may have been replaced
  meanwhile. `UsesOnlyMetBlocks` permits that.
- WRITE SAME with LBDATA or PBDATA stamps each block with its byte offset
  (`bs_simpleOSD.c:238`), where SBC has the block's address. `CommandEffect` takes
  the handler's stamp.
- In the cached build, an entry counts as cached with a descriptor that is not
  its object's after a fetch that failed while the file is there (descriptor 0:
  `fallocate` failed, or the fetch's stat of an existing file and then the open,
  `fetch_helper.c:76`), after a failed close (`osd_op.c:120`, a number that soon
  is another object's) and after close and open of the LUN (`osd_op.c:492`,
  descriptor 0). `Trusted` excludes these; `TransfersOwnObject` and
  `WritesReachObject` hold until one happens.
- The test provider names a volume's objects by the time of the open
  (`mds_helper.c:99`), so data is not found again; `NoSharedFile` says that it
  is not mixed up either.
- The cache directory is never set: the defaults are behind a `return`
  (`helper.c:64`), and `blk_parse_conf` answers ERROR. `dc_path` is empty in
  every state of `Volumes`.
- A limit of a socket wait that overflows an int when it is made milliseconds
  becomes a short one or none (`socketop.c:56`); `WaitsEnd` is about limits that
  fit.
- `sock_wait` takes a `getsockopt` that failed for success
  (`socketop.c:159`); `SuccessMeansConnected` is about `sock_wait_epoll`.

Fairness: `WF(Step(t))` for each thread, in `store_concurrent`, `two_luns`,
`scsi_commands` and `socket_waits`: a worker thread that can go on is
scheduled. Weak fairness is enough for the mutex because each object is created
once, so a thread waits for a finite number of other holders. `two_luns` leaves
`creat` faults out for this reason: a thread may lose every race for a mutex
against one whose creations fail for ever. In `socket_waits` a thread's steps
include the kernel's time-out, but not signals nor the connection. In
`list_head` fairness is on the loop's steps: nothing else runs in a loop.
Deadlock is checked in every run but those of `FdCache`, where the system may
stop: the bound on opens ends it once the LUN is closed. Elsewhere there is
always a caller that may submit.

## 4. Proofs

For all values of the constants that satisfy the named assumptions
(`StripingAssumption`, `StoreAssumption`, `LunAssumption`, `ScsiAssumption`,
`CacheAssumption`, `LunsAssumption`, `VolumesAssumption`, `SocketAssumption`,
`ListAssumption`).
A theorem that needs more says so in its statement. The
invariants of the longer proofs were checked by TLC before they were proved.

`ObjectStoreProofs`, in five parts. The invariants are shown to survive the
steps of other LUNs too, so that each theorem about `Spec` comes from one about
`SharedSpec` (`FdAccountingShared`, `SharedStoreImplementsBlockDevice`, ...), of
which `Spec` is the case without interference:


- `OffsetInObject`, `AddressInjective`, `OidInjective`, `AcceptedSpanFits`.
  They rest on the facts about quotient and remainder `DivFacts`, `DivBound`,
  `DivUnique`. `OidInjective` needs `nb_objects <= CounterMod`.
- `TypeCorrect`, `LockDisciplineAlways`, `FdAccountingAlways`. `TypeOK` is not
  inductive: that the bytes a write leaves in an object are bytes some caller
  sent needs the thread to work for one of the callers' requests with the
  buffer it was given, so the invariant is `TypeInv`, `TypeOK` with
  `BufferInv`. `LockDiscipline` and `FdAccounting` are inductive relative to
  it. Their proofs use one lemma on frames, `OthersKeepTheirCall`: a step of a
  thread leaves the calls of the others alone; then each action is one of a few
  shapes (inside, entering, leaving the fetch; taking, keeping, closing a
  descriptor). No assumption on faults: crashes and failing closes are included.
- `CursorAlways`. `CursorInv` is inductive relative to `TypeInv`; the step that
  matters is `NextCursor`, the end of a chunk: by `DivUnique` the address of the
  next byte is offset 0 of the next object.
- `StoreImplementsBlockDevice`, the refinement, without a hypothesis on faults
  or descriptors. The invariant it needs is `StoreInv`, the three above: the
  loop is at the byte it means and the descriptor is of the object it means.
  `ByteAddress` turns `n` bytes from an offset of one file into `n` consecutive
  addresses; a transfer is then a transfer of the device, a return ends a
  request whose bytes have all moved or is an error, and the other steps leave
  the mapped variables alone (`Invisible`).
- `CreatedOnceAlways`, `FixedSizeAlways`, `UnformattedIsEmptyAlways`,
  `NoSpuriousErrorAlways`. Each excludes the faults that break it in the code,
  as a hypothesis of the theorem.

On the last part:

- `CreatedOnce` excludes `stat`, whose failure the code takes for a missing
  object; it needs `CreatInv` (what was created exists; a thread about to create
  meets no such object), the mutex (`LockDiscipline`: two creators are on
  different indexes) and `OidInjective` (so on different objects), with
  `CursorInv` to bound the indexes.
- `FixedSizeObjects` excludes `fallocate` and `crash`, which leave a short
  file. `UnformattedIsEmpty` excludes `crash`, since `is_fs_done` is not kept;
  its strengthening `NothingYet` says that no call is under way either.
- `NoSpuriousError` excludes every fault but `crash` and needs `EnoughFds`: the
  fetch never closes the descriptor it creates an object with, so the process
  needs one for each object and one for each thread. With one less TLC finds a
  request that fails. The argument counts: descriptors of transfers are no more
  than the threads that own one (`FewIoFds`), those of creations no more than
  the objects, by `CreatedOnce` (`FewCreatFds`), so a thread without one finds
  one free (`FreeFd`). `Served` says that no call is on an error path, and
  `IndexMonotone` that a call which stops at an object without a node needed it.
  This one is about a LUN alone: another one could take the descriptors.

`TwoLunsProofs`: `OwnDescriptorsAlways`, `LunsShareProcessAlways`,
`LunsImplementDevicesAlways`, for any number of threads of each LUN and any
faults. The argument is one of assumption and guarantee:

- `SharingInv` says of each LUN which descriptors and mutexes its threads hold
  (`Held`, `Locked`), in terms of sets of threads and of values, so that its
  lemmas are proved once and used for both. A step of a LUN opens, keeps or
  closes a descriptor of its own and changes no other (`ChangesOnly`), and the
  same for the mutexes (`LocksOnly`).
- So a step of one LUN is a step of `OtherLuns` to the other:
  `LunsShareProcessAlways`.
- `ObjectStoreProofs` is instantiated for each LUN (`AsA`, `AsB`; `SameLunA` and
  `SameLunB` show that its definitions are those of the composition), and
  `SharedStoreImplementsBlockDevice` of each gives the device.

`LunTableProofs`: `LunTypeAlways`, `HandlesOwnSlotsAlways`,
`FormattedByOwnWriteAlways`, `GarbageClosedOnceAlways`, for any garbage and
volumes of any sizes, from `LunInvariant`. The flag of a device is about its own
writes only because the slot is its own. `GarbageClosedOnce` needs `SpentEntries`:
an entry that was closed names nothing as long as its slot can be closed again (`Closable`:
free, or in use by a device), and a failed close, which leaves a number behind,
leaves a slot no device has.

`ScsiProofs`, for any capacity, commands and number of workers:

- `ScsiTypes` from `HandlerInv`, which says for each label which commands reach
  it, what the `out` buffer holds there and with which parameters the library
  was called; `Looping` is why the unsigned `tl` of WRITE SAME stops at zero.
- `CommandEffectAlways`, `OnlyItsBlocksAlways`, `ComparesExistingDataAlways`
  under `IsFsFlag`, a LUN that counts as formatted; without it a read may
  succeed without filling the buffer (see the deviations). `Known` says that
  then nothing on the medium or in a buffer is uninitialised. `AloneInv` is
  about commands that met no other: what was read is what is there
  (`Reading`), the write under way is the command's whole effect (`Writing`),
  what was written so far is on the medium (`Moved`, `Passed`), and every other
  block is as before (`Within`).
- `UsesOnlyMetBlocksAlways`, for commands that run at the same time: `MetInv`
  says that the history of a command's blocks has what is on the medium now, so
  a block that a transfer brings is in it, and a merge and a verdict are made of
  such blocks.

`FdCacheProofs`, for any number of objects, entries and descriptors and any
faults:

- `CacheTypes`, for any number of threads. `EntryTypes` ties an entry's id to an
  index of its slot.
- `NoDescriptorLostAlways` under `OneThread`, and with any garbage. Between the
  recache and the open of an entry it holds no descriptor (`Cleared`); that is
  what a second thread on the entry breaks.
- `TransfersOwnObjectAlways`, `WritesReachObjectAlways` under `OneThread` and
  `CleanMemory` (`malloc` leaves no number of a library descriptor in an entry;
  with one, the first recache may close somebody else's file). The invariant
  `TrustInv` holds as long as the LUN is open for the first time and no failure
  has left a false entry: an entry's descriptor is open on the entry's object
  and its current file, no two entries share one, and an entry without a
  descriptor names no file, unless it is being opened (`Unopened`): this is why
  the check by stat is enough. Only objects with a node have files
  (`PlacedInv`), or an entry left by a missing node would look valid later.
  `Stored` counts the chunks of a write.

`OneThread` is a hypothesis because the code needs it: `fdcache_threads` shows
the two-thread counterexample, from the same model.

`VolumesProofs`, for any widths of id, clock and counter, any base, and any
number of volumes, objects and nodes:

- `LookupTotal`, that the lookup finds a node for every index of a volume,
  and from it `EveryObjectPlacedAlways`. `SomeNode` takes node
  `index * TEST_DP_NODES \div TEST_NB_OBJECTS` or its successor; `NoGap` is why
  the inclusive end is needed: the ranges of two neighbours leave out at most
  one index.
- `AddsToCounterAlways`: taking the bytes of a number apart and reading them
  gives the number back (`CounterOfSum`). It is an induction over the bytes.
- `NoSharedFileAlways`, `VolumesTypeCorrect`, from `VolumesInv`: a file's path
  is the one of the volume, the time of the open and the index that use it.
  By `NamesDiffer` an id gives the two back: the clock is in the bytes that the
  addition leaves alone, and for one clock the counter tells the indexes apart.

Induction over data is done without the library's theorems, which take an
operator: `Induction` is about a set that has 0 and is closed under successor,
from the least-number principle of `WellFoundedInduction`, and `Iterates` gives
the function that a recursion defines.

`SocketWaitProofs`: `SuccessMeansConnectedAlways`, `ErrorExplainedAlways`,
`EpollReleasedAlways`, `EpollOwnedAlways`, for any threads, calls, widths of int
and faults. `ResultInv` states the first two already before the call ends;
`EpollOwned` says that the open instances are those of the waiting threads, one
each, so the close at the end never hits an instance of another thread.

`ListProofs`: `ImplementsListsAlways`, `RingsAlwaysConsistent`,
`LoopStaysOnList`, for any finite set of lists and entries. Pointers that agree
do not make lists: a ring could hold two heads, or none. The inductive invariant
`ListInv` says that there are sequences, one for each head and no entry twice,
that the pointers run through (`Chain`), and that a loop is at a place of one of
them (`LoopAt`). `InsertChain`, `RemoveChain` and `SpliceChain` say what the
stores of each function do to the sequences; with `CutRest`, deleting the entry
at hand leaves the loop's `n` the place that follows. `WalkIs` shows that `Walk`,
the recursion of the refinement mapping, finds these sequences, by the induction
above; `ShortLists` is why the number of nodes bounds the walk.

Only model-checked: liveness (`EveryCallReturns`, `EveryLunCallReturns`,
`EveryCommandAnswered`, `WaitsEnd`, `LoopsFinish`), since fairness is outside
this prover. Every invariant and every refinement that a passing run checks is
proved.

## 5. Not modelled

- the configuration parser under `USE_LOCAL_CONFIG_PARSER`: it refers to a
  library that is not in the repository and does not compile;
- `time_diff` (no caller, no state), logging, the spelling of paths, the files
  without code, the second copy of the path function in `simpleOSD_helper.c`
  (`object_to_dc_path`, no caller);
- the initial cache of `INTIAL_OBJECT_CACHE` and the fetch of
  `GET_OBJECT_FROM_DP_NODE`, which are compiled out and unfinished;
- the loops of the list that change nothing, and `container_of`;
- loss of the page cache with the machine: `datasync` does nothing, so nothing
  more could be promised;
- 64 bit overflow of `offset + buf_len`: SCSI addresses stay far below it;
- a WRITE SAME length that is no multiple of the block size: tgt computes it
  from a block count.

## 6. Plan

Every safety property of the passing runs has a theorem. What could be added:
`NoSpuriousError` for two LUNs, which needs a count of the descriptors of both;
the command handler over a LUN of `TwoLuns` instead of one `BlockDevice`.
