----------------------------- MODULE ScsiTarget -----------------------------
(***************************************************************************)
(* bs_simpleOSD_request, the backing store the target's worker threads run *)
(* SCSI commands on.  A thread serves one command at a time with one or    *)
(* more calls of simpleOSD_read and simpleOSD_write; the calls of the      *)
(* threads interleave.  The library below is what BlockDevice promises.    *)
(*                                                                         *)
(* Unit of data: one logical block.  A block is a set of bits, so that the *)
(* OR of ORWRITE is the union; Junk is a block of which nothing is known   *)
(* (malloc'ed memory nobody wrote to).                                     *)
(***************************************************************************)
EXTENDS Integers, FiniteSets

CONSTANTS
  Threads,
  Capacity,          \* blocks of the LUN
  blocksize,         \* bytes of a block, 1 << blk_shift
  Bits,              \* the bits of a block after its first eight bytes
  Junk,
  IsFsFlag,          \* see BlockDevice
  Commands(_),       \* the commands a thread may get, see CommandType
  ThinProvisioning,  \* cmd->dev->attrs.thinprovisioning
  MallocResults,     \* of malloc: TRUE for memory, FALSE for NULL
  CachingPages       \* of find_mode_page for page 0x08: TRUE if it has one

ReadOps == {"READ", "VERIFY", "ORWRITE", "COMPARE_AND_WRITE"}
WriteOps == {"WRITE", "WRITE_VERIFY"}
ImmediateOps == {"SYNCHRONIZE_CACHE", "PRE_FETCH", "UNMAP", "other"}

(* put_unaligned_be32 or be64 of `offset', which is in bytes, over the     *)
(* first bytes of block b when the loop stands at block o.  The bits from  *)
(* StampBit on stand for those bytes; the two widths are not told apart.   *)
StampBit == 100
Stamp(b, o) == (b \cap Bits) \cup {StampBit + o * blocksize}

Zero == {}
Blocks == (SUBSET Bits) \cup {Stamp(b, o) : b \in SUBSET Bits, o \in 0 .. 2 * Capacity}
Cells == {Junk} \cup Blocks

(* A command: the blocks it addresses, the blocks sent with it (out, for   *)
(* COMPARE_AND_WRITE the second half of them and cmp the first), and one   *)
(* bit of the command block: IMMED of SYNCHRONIZE_CACHE, UNMAP or          *)
(* LBDATA/PBDATA of WRITE_SAME.                                            *)
CommandType(c) ==
  /\ c.op \in ReadOps \cup WriteOps \cup ImmediateOps \cup {"WRITE_SAME"}
  /\ c.lba \in 0 .. Capacity /\ c.tl \in 0 .. Capacity
  /\ \A b \in {c.out, c.cmp} : \E n \in 0 .. Capacity : b \in [0 .. n - 1 -> SUBSET Bits]
  /\ c.bit \in {"none", "immed", "unmap", "stamp"}
  /\ c.op = "WRITE_SAME" => DOMAIN c.out = {0}

ASSUME ScsiAssumption ==
  /\ Capacity \in Nat \ {0} /\ blocksize \in Nat \ {0}
  /\ Bits \subseteq 0 .. StampBit - 1
  /\ \A b \in Blocks : b # Junk
  /\ {IsFsFlag, ThinProvisioning} \subseteq BOOLEAN
  /\ MallocResults \subseteq BOOLEAN /\ CachingPages \subseteq BOOLEAN
  /\ \A t \in Threads : \A c \in Commands(t) : CommandType(c)

VARIABLES
  medium, formatted, req, buf, done, busy, ret,  \* the library, see BlockDevice
  pc, cmd,
  out,         \* the command's out buffer, which ORWRITE and WRITE_SAME change
  offset, tl,  \* of the WRITE_SAME loop
  sense,       \* GOOD, or the sense key of a CHECK CONDITION
  \* history, for the properties only
  before       \* the medium when the command arrived; << >> once the
               \* command shared the LUN with another one

library == <<medium, formatted, req, buf, done, busy, ret>>
vars == <<medium, formatted, req, buf, done, busy, ret,
          pc, cmd, out, offset, tl, sense, before>>

(* The calls of the library come from the actions below, not from a set. *)
NoBuffers(t, r) == {}
Dev == INSTANCE BlockDevice WITH Requests <- {}, WriteBuffers <- NoBuffers

NoCommand == [op |-> "none", lba |-> 0, tl |-> 0, out |-> << >>, cmp |-> << >>,
              bit |-> "none"]

Init ==
  /\ Dev!Init
  /\ pc = [t \in Threads |-> "idle"]
  /\ cmd = [t \in Threads |-> NoCommand]
  /\ out = [t \in Threads |-> << >>]
  /\ offset = [t \in Threads |-> 0]
  /\ tl = [t \in Threads |-> 0]
  /\ sense = [t \in Threads |-> "GOOD"]
  /\ before = [t \in Threads |-> << >>]

(***************************************************************************)
(* A command arrives: the initial values of the handler's variables, and   *)
(* what its case label does before the first library call.                 *)
(***************************************************************************)
Length(b) == Cardinality(DOMAIN b)

(* The sense key of a command that ends without a read or a write.  An     *)
(* UNMAP has one descriptor for the blocks it addresses, or none (no out   *)
(* data).  unmap_file_region, posix_advise and data_sync do nothing and    *)
(* succeed.                                                                *)
SenseAtOnce(c) ==
  CASE c.op = "SYNCHRONIZE_CACHE" /\ c.bit = "immed" -> "ILLEGAL_REQUEST"
    [] c.op = "UNMAP" /\ ~ThinProvisioning -> "ILLEGAL_REQUEST"
    [] c.op = "UNMAP" /\ c.lba + c.tl > Capacity /\ Length(c.out) > 0 -> "ILLEGAL_REQUEST"
    [] c.op = "COMPARE_AND_WRITE" /\ Length(c.cmp) # c.tl -> "ILLEGAL_REQUEST"
    [] c.op = "WRITE_SAME" /\ c.bit = "unmap" -> "HARDWARE_ERROR"
    [] OTHER -> "GOOD"

(* Seeded fault: the WRITE_SAME loop tests tl after its body. *)
EndsAtOnce_PostTested(c) == c.op \in ImmediateOps \/ SenseAtOnce(c) # "GOOD"

EndsAtOnce(c) ==
  \/ c.op \in ImmediateOps
  \/ SenseAtOnce(c) # "GOOD"
  \/ c.op = "WRITE_SAME" /\ c.tl = 0

Entry(c) == IF EndsAtOnce(c) THEN "end"
            ELSE CASE c.op \in ReadOps -> "read_call"
                   [] c.op \in WriteOps -> "write_call"
                   [] OTHER -> "same_call"

Receive(t, c) ==
  /\ pc[t] = "idle"
  /\ pc' = [pc EXCEPT ![t] = Entry(c)]
  /\ cmd' = [cmd EXCEPT ![t] = c]
  /\ out' = [out EXCEPT ![t] = c.out]
  /\ offset' = [offset EXCEPT ![t] = c.lba]
  /\ tl' = [tl EXCEPT ![t] = c.tl]
  /\ sense' = [sense EXCEPT ![t] = SenseAtOnce(c)]
  /\ before' = [u \in Threads |->
                  IF u = t /\ \A v \in Threads \ {t} : pc[v] = "idle" THEN medium
                                                                     ELSE << >>]
  /\ UNCHANGED library

(* scsi_set_result and sense_data_build: the target answers the initiator  *)
(* and the command is gone, with the parameters and buffers of its calls.  *)
Answer(t) ==
  /\ pc[t] = "end"
  /\ pc' = [pc EXCEPT ![t] = "idle"]
  /\ cmd' = [cmd EXCEPT ![t] = NoCommand]
  /\ out' = [out EXCEPT ![t] = << >>]
  /\ offset' = [offset EXCEPT ![t] = 0]
  /\ tl' = [tl EXCEPT ![t] = 0]
  /\ sense' = [sense EXCEPT ![t] = "GOOD"]
  /\ before' = [before EXCEPT ![t] = << >>]
  /\ req' = [req EXCEPT ![t] = Dev!NoRequest]
  /\ buf' = [buf EXCEPT ![t] = << >>]
  /\ ret' = [ret EXCEPT ![t] = "none"]
  /\ UNCHANGED <<medium, formatted, done, busy>>

(***************************************************************************)
(* Library calls.                                                          *)
(***************************************************************************)
Goto(t, label) == pc' = [pc EXCEPT ![t] = label]
Sense(t, key) == sense' = [sense EXCEPT ![t] = key]
set_medium_error(t) == Sense(t, "MEDIUM_ERROR")

Call(t, op, at, b, label) ==
  /\ Dev!Accept(t, [op |-> op, offset |-> at, buf_len |-> Length(b)], b)
  /\ Goto(t, label)
  /\ UNCHANGED <<cmd, offset, tl, sense, before>>

(* Blocks a read asks for: the in length of READ, half the out length of   *)
(* COMPARE_AND_WRITE, else the out length.                                 *)
ReadLength(c) == CASE c.op = "READ" -> c.tl
                   [] c.op = "COMPARE_AND_WRITE" -> Length(c.cmp)
                   [] OTHER -> Length(c.out)

(* READ has its buffer; the other commands malloc one. *)
CallRead(t) ==
  /\ pc[t] = "read_call"
  /\ cmd[t].op = "READ" \/ TRUE \in MallocResults
  /\ Call(t, "read", cmd[t].lba, [i \in 0 .. ReadLength(cmd[t]) - 1 |-> Junk], "read_ret")
  /\ out' = out

OutOfMemory(t) ==
  /\ pc[t] = "read_call"
  /\ cmd[t].op # "READ"
  /\ FALSE \in MallocResults
  /\ Sense(t, "HARDWARE_ERROR")
  /\ Goto(t, "end")
  /\ UNCHANGED <<library, cmd, out, offset, tl, before>>

CallWrite(t) ==
  /\ pc[t] = "write_call"
  /\ Call(t, "write", cmd[t].lba, out[t], "write_ret")
  /\ out' = out

(* One turn of the WRITE_SAME loop: LBDATA and PBDATA put the offset into  *)
(* the command's own buffer.                                               *)
CallSame(t) ==
  /\ pc[t] = "same_call"
  /\ out' = IF cmd[t].bit = "stamp" THEN [out EXCEPT ![t][0] = Stamp(@, offset[t])]
                                    ELSE out
  /\ Call(t, "write", offset[t], out'[t], "same_ret")

(* The library works on a call. *)
LibraryStep(t) ==
  /\ \/ \E n \in 1 .. Capacity : Dev!Transfer(t, n)
     \/ Dev!Finish(t)
  /\ UNCHANGED <<pc, cmd, out, offset, tl, sense, before>>

(***************************************************************************)
(* A call has returned.                                                    *)
(***************************************************************************)
Returned(t, label) == pc[t] = label /\ ~busy[t]
Succeeded(t) == ret[t] = "OSD_SUCCESS"

ReadFails(t) ==
  /\ Returned(t, "read_ret")
  /\ ~Succeeded(t)
  /\ set_medium_error(t)
  /\ Goto(t, "end")
  /\ UNCHANGED <<library, cmd, out, offset, tl, before>>

ReadDone(t) ==
  /\ Returned(t, "read_ret")
  /\ Succeeded(t)
  /\ cmd[t].op = "READ"
  /\ Goto(t, "end")
  /\ UNCHANGED <<library, cmd, out, offset, tl, sense, before>>

Or(a, b) == IF Junk \in {a, b} THEN Junk ELSE a \cup b

(* ORWRITE merges what it read into its out buffer. *)
MergeOr(t) ==
  /\ Returned(t, "read_ret")
  /\ Succeeded(t)
  /\ cmd[t].op = "ORWRITE"
  /\ out' = [out EXCEPT ![t] = [i \in DOMAIN @ |-> Or(@[i], buf[t][i])]]
  /\ Goto(t, "write_call")
  /\ UNCHANGED <<library, cmd, offset, tl, sense, before>>

(* memcmp: equal, different, or, with Junk among the blocks, either. *)
Comparing(t) == cmd[t].op \in {"COMPARE_AND_WRITE", "VERIFY", "WRITE_VERIFY"}
Expected(t) == IF cmd[t].op = "COMPARE_AND_WRITE" THEN cmd[t].cmp ELSE out[t]

(* Seeded fault: memcmp over the first block only. *)
MayMatch_FirstBlock(t) ==
  \A i \in DOMAIN Expected(t) \cap {0} : buf[t][i] \in {Expected(t)[i], Junk}

MayMatch(t) == \A i \in DOMAIN Expected(t) : buf[t][i] \in {Expected(t)[i], Junk}
MayDiffer(t) == \E i \in DOMAIN Expected(t) : buf[t][i] # Expected(t)[i]

Match(t) ==
  /\ Returned(t, "read_ret")
  /\ Succeeded(t)
  /\ Comparing(t)
  /\ MayMatch(t)
  /\ Goto(t, IF cmd[t].op = "COMPARE_AND_WRITE" THEN "write_call" ELSE "end")
  /\ UNCHANGED <<library, cmd, out, offset, tl, sense, before>>

(* Seeded fault: no break after a miscompare. *)
Miscompare_FallsThrough(t) ==
  /\ Returned(t, "read_ret")
  /\ Succeeded(t)
  /\ Comparing(t)
  /\ MayDiffer(t)
  /\ Sense(t, "MISCOMPARE")
  /\ Goto(t, IF cmd[t].op = "COMPARE_AND_WRITE" THEN "write_call" ELSE "end")
  /\ UNCHANGED <<library, cmd, out, offset, tl, before>>

Miscompare(t) ==
  /\ Returned(t, "read_ret")
  /\ Succeeded(t)
  /\ Comparing(t)
  /\ MayDiffer(t)
  /\ Sense(t, "MISCOMPARE")
  /\ Goto(t, "end")
  /\ UNCHANGED <<library, cmd, out, offset, tl, before>>

(* After the write: WRITE_VERIFY goes on to verify, also after a failure. *)
AfterWrite(t) == IF cmd[t].op = "WRITE_VERIFY" THEN "read_call" ELSE "end"

(* Seeded fault: a failed write is tried again. *)
WriteFails_Retried(t) ==
  /\ Returned(t, "write_ret")
  /\ ~Succeeded(t)
  /\ Goto(t, "write_call")
  /\ UNCHANGED <<library, cmd, out, offset, tl, sense, before>>

WriteFails(t) ==
  /\ Returned(t, "write_ret")
  /\ ~Succeeded(t)
  /\ set_medium_error(t)
  /\ Goto(t, AfterWrite(t))
  /\ UNCHANGED <<library, cmd, out, offset, tl, before>>

WriteDone(t) ==
  /\ Returned(t, "write_ret")
  /\ Succeeded(t)
  /\ TRUE \in CachingPages
  /\ Goto(t, AfterWrite(t))
  /\ UNCHANGED <<library, cmd, out, offset, tl, sense, before>>

(* Written, but the handler needs the caching page to say so. *)
WriteNoPage(t) ==
  /\ Returned(t, "write_ret")
  /\ Succeeded(t)
  /\ FALSE \in CachingPages
  /\ Sense(t, "ILLEGAL_REQUEST")
  /\ Goto(t, "end")
  /\ UNCHANGED <<library, cmd, out, offset, tl, before>>

(* Seeded fault: the result of the last block is the result of the loop. *)
SameReturns_LastWins(t) ==
  /\ Returned(t, "same_ret")
  /\ Sense(t, IF Succeeded(t) THEN "GOOD" ELSE "MEDIUM_ERROR")
  /\ offset' = [offset EXCEPT ![t] = @ + 1]
  /\ tl' = [tl EXCEPT ![t] = @ - 1]
  /\ Goto(t, IF tl[t] - 1 > 0 THEN "same_call" ELSE "end")
  /\ UNCHANGED <<library, cmd, out, before>>

(* The WRITE_SAME loop goes on after a failed block. *)
SameReturns(t) ==
  /\ Returned(t, "same_ret")
  /\ IF Succeeded(t) THEN sense' = sense ELSE set_medium_error(t)
  /\ offset' = [offset EXCEPT ![t] = @ + 1]
  /\ tl' = [tl EXCEPT ![t] = @ - 1]
  /\ Goto(t, IF tl[t] - 1 > 0 THEN "same_call" ELSE "end")
  /\ UNCHANGED <<library, cmd, out, before>>

Step(t) ==
  \/ CallRead(t) \/ OutOfMemory(t) \/ CallWrite(t) \/ CallSame(t) \/ LibraryStep(t)
  \/ ReadFails(t) \/ ReadDone(t) \/ MergeOr(t) \/ Match(t) \/ Miscompare(t)
  \/ WriteFails(t) \/ WriteDone(t) \/ WriteNoPage(t) \/ SameReturns(t)
  \/ Answer(t)

Next == \E t \in Threads : Step(t) \/ \E c \in Commands(t) : Receive(t, c)

Spec == Init /\ [][Next]_vars

(* A thread that serves a command runs on, and so does a library call      *)
(* (ObjectStore!EveryCallReturns).                                         *)
Fairness == \A t \in Threads : WF_vars(Step(t))
FairSpec == Spec /\ Fairness

(***************************************************************************)
(* Properties.                                                             *)
(***************************************************************************)
Labels == {"idle", "read_call", "read_ret", "write_call", "write_ret",
           "same_call", "same_ret", "end"}
SenseKeys == {"GOOD", "MEDIUM_ERROR", "HARDWARE_ERROR", "ILLEGAL_REQUEST", "MISCOMPARE"}

(* The variables of bs_simpleOSD_request keep their types; the unsigned    *)
(* count tl of WRITE_SAME never goes below zero.                           *)
ScsiTypeOK ==
  /\ \A a \in 0 .. Capacity - 1 : medium[a] \in Cells
  /\ \A t \in Threads :
       /\ pc[t] \in Labels
       /\ cmd[t] \in Commands(t) \cup {NoCommand}
       /\ \A i \in DOMAIN out[t] : out[t][i] \in Cells
       /\ offset[t] \in 0 .. 2 * Capacity /\ tl[t] \in 0 .. Capacity
       /\ sense[t] \in SenseKeys
       /\ busy[t] => pc[t] \in {"read_ret", "write_ret", "same_ret"}

(* Whether medium m holds the blocks b from lba on, and m with them there. *)
Holds(m, lba, b) == \A i \in DOMAIN b : lba + i \in DOMAIN m /\ m[lba + i] = b[i]
With(m, lba, b) == [a \in DOMAIN m |-> IF a - lba \in DOMAIN b THEN b[a - lba] ELSE m[a]]

(* The blocks command c is to leave on medium m.  The stamp of WRITE_SAME  *)
(* is the handler's, a byte offset, where SBC has the block's address.     *)
Effect(c, m) ==
  CASE c.op \in WriteOps -> With(m, c.lba, c.out)
    [] c.op = "ORWRITE" ->
         [a \in DOMAIN m |-> IF a - c.lba \in DOMAIN c.out THEN m[a] \cup c.out[a - c.lba]
                                                          ELSE m[a]]
    [] c.op = "COMPARE_AND_WRITE" /\ Holds(m, c.lba, c.cmp) -> With(m, c.lba, c.out)
    [] c.op = "WRITE_SAME" ->
         With(m, c.lba, [i \in 0 .. c.tl - 1 |->
                           IF c.bit = "stamp" THEN Stamp(c.out[0], c.lba + i) ELSE c.out[0]])
    [] OTHER -> m

(* The command of t ended and met no other one. *)
Ended(t) == pc[t] = "end" /\ before[t] # << >>

(* A command that met no other one and is answered GOOD had its whole      *)
(* effect: every block of it is on the medium, whatever calls of the       *)
(* library it took, and READ returns the medium's blocks.                  *)
CommandEffect ==
  \A t \in Threads :
    Ended(t) /\ sense[t] = "GOOD" =>
      /\ medium = Effect(cmd[t], before[t])
      /\ cmd[t].op = "READ" =>
           DOMAIN buf[t] = 0 .. cmd[t].tl - 1 /\ Holds(medium, cmd[t].lba, buf[t])

(* However such a command ends (a call failed, no memory, no caching page, *)
(* a miscompare), each block is as it was or as the command would make it. *)
OnlyItsBlocks ==
  \A t \in Threads : Ended(t) =>
    \A a \in DOMAIN medium : medium[a] \in {before[t][a], Effect(cmd[t], before[t])[a]}

(* COMPARE_AND_WRITE and VERIFY compare "to the existing data", the blocks *)
(* on the medium: GOOD when they are equal, MISCOMPARE when they are not.  *)
(* For WRITE_VERIFY these are the blocks after the write.                  *)
ComparesExistingData ==
  \A t \in Threads :
    LET m == IF cmd[t].op = "WRITE_VERIFY" THEN medium ELSE before[t]
    IN Ended(t) /\ Comparing(t) =>
         /\ sense[t] = "GOOD" => Holds(m, cmd[t].lba, Expected(t))
         /\ sense[t] = "MISCOMPARE" => ~Holds(m, cmd[t].lba, Expected(t))

(* Every command is answered: no handler waits or loops for ever. *)
EveryCommandAnswered == \A t \in Threads : pc[t] # "idle" ~> pc[t] = "idle"
=============================================================================
