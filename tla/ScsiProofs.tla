----------------------------- MODULE ScsiProofs -----------------------------
(***************************************************************************)
(* What a SCSI command does to the medium, for every capacity, every set   *)
(* of commands and any number of worker threads, whatever calls of the     *)
(* library and whatever allocations fail.                                  *)
(***************************************************************************)
EXTENDS ScsiInterference, FiniteSetTheorems, TLAPS

Lbas == 0 .. Capacity - 1
RetLabels == {"read_ret", "write_ret", "same_ret"}
ReadLabels == {"read_call", "read_ret"}
WriteLabels == {"write_call", "write_ret"}
SameLabels == {"same_call", "same_ret"}

Read == {"COMPARE_AND_WRITE", "VERIFY", "ORWRITE", "READ", "WRITE_VERIFY"}
Written == {"WRITE", "WRITE_VERIFY", "ORWRITE", "COMPARE_AND_WRITE"}
Results == {"none", "OSD_SUCCESS", "OSD_ERROR"}

(* The functions of the state and their ranges. *)
StateTypes ==
  /\ medium \in [Lbas -> Cells] /\ formatted \in BOOLEAN
  /\ DOMAIN req = Threads /\ DOMAIN buf = Threads
  /\ DOMAIN cmd = Threads /\ DOMAIN out = Threads /\ DOMAIN before = Threads
  /\ pc \in [Threads -> Labels] /\ busy \in [Threads -> BOOLEAN]
  /\ done \in [Threads -> Nat] /\ ret \in [Threads -> Results]
  /\ offset \in [Threads -> 0 .. 2 * Capacity] /\ tl \in [Threads -> 0 .. Capacity]
  /\ sense \in [Threads -> SenseKeys]

(* A thread without a command, and one with it: the case label of each     *)
(* phase, and the out buffer, which ORWRITE replaces after its read and    *)
(* WRITE_SAME stamps.                                                      *)
Serving(t) ==
  /\ pc[t] = "idle" => cmd[t] = NoCommand /\ out[t] = << >>
  /\ pc[t] # "idle" => cmd[t] \in Commands(t)
  /\ busy[t] => pc[t] \in RetLabels
  /\ pc[t] \in ReadLabels => cmd[t].op \in Read /\ out[t] = cmd[t].out
  /\ pc[t] \in WriteLabels => cmd[t].op \in Written
  /\ pc[t] # "idle" /\ cmd[t].op \notin {"ORWRITE", "WRITE_SAME"} => out[t] = cmd[t].out
  /\ pc[t] # "idle" => /\ DOMAIN out[t] = DOMAIN cmd[t].out
                       /\ \A i \in DOMAIN out[t] : out[t][i] \in Cells

(* The WRITE_SAME loop. *)
Looping(t) ==
  pc[t] \in SameLabels =>
    /\ cmd[t].op = "WRITE_SAME"
    /\ cmd[t].lba <= offset[t] /\ 0 < tl[t] /\ offset[t] + tl[t] = cmd[t].lba + cmd[t].tl
    /\ out[t][0] \cap Bits = cmd[t].out[0]
    /\ cmd[t].bit # "stamp" => out[t] = cmd[t].out

(* The parameters of a call of the library, until its result is used. *)
Calling(t) ==
  /\ pc[t] = "read_ret" =>
       /\ req[t] = [op |-> "read", offset |-> cmd[t].lba, buf_len |-> ReadLength(cmd[t])]
       /\ buf[t] \in [0 .. ReadLength(cmd[t]) - 1 -> Cells]
  /\ pc[t] = "write_ret" =>
       /\ req[t] = [op |-> "write", offset |-> cmd[t].lba, buf_len |-> Length(cmd[t].out)]
       /\ buf[t] = out[t]
  /\ pc[t] = "same_ret" =>
       /\ req[t] = [op |-> "write", offset |-> offset[t], buf_len |-> 1]
       /\ buf[t] = out[t]
       /\ cmd[t].bit = "stamp" => out[t][0] = Stamp(cmd[t].out[0], offset[t])
  /\ busy[t] => done[t] <= req[t].buf_len /\ req[t].offset + req[t].buf_len <= Capacity

Handler(t) == Serving(t) /\ Looping(t) /\ Calling(t)

HandlerInv == StateTypes /\ \A t \in Threads : Handler(t)

(***************************************************************************)
(* A LUN that holds a file system from the start: no call finds it         *)
(* unformatted, and nothing that was read or is written is unknown.        *)
(***************************************************************************)
(* The blocks of t's read that have arrived. *)
Arrived(t) == IF busy[t] THEN 0 .. done[t] - 1
              ELSE IF Succeeded(t) THEN DOMAIN buf[t] ELSE {}

KnownBy(t) ==
  /\ pc[t] # "idle" => \A i \in DOMAIN out[t] : out[t][i] \in Blocks
  /\ pc[t] = "read_ret" => \A i \in Arrived(t) : buf[t][i] \in Blocks
  /\ pc[t] \in RetLabels /\ Succeeded(t) =>
       req[t].buf_len = 0 \/ req[t].offset + req[t].buf_len <= Capacity

Known ==
  /\ formatted = TRUE /\ medium \in [Lbas -> Blocks]
  /\ \A t \in Threads : KnownBy(t)

(***************************************************************************)
(* A command that has met no other one.                                    *)
(***************************************************************************)
Wanted(t) == Effect(cmd[t], before[t])

(* Whatever the command's calls have done, they did no more than it asks. *)
Within(t) == \A a \in Lbas : medium[a] \in {before[t][a], Wanted(t)[a]}

(* Before its write, a command has changed nothing. *)
Untouched(t) ==
  \/ pc[t] \in ReadLabels /\ cmd[t].op \in ReadOps
  \/ pc[t] = "write_call"
  => medium = before[t] /\ sense[t] = "GOOD"

(* The write that remains, or is under way, is the command's whole effect, *)
(* and COMPARE_AND_WRITE writes after a comparison that came out equal.    *)
Writing(t) ==
  pc[t] \in WriteLabels =>
    /\ sense[t] = "GOOD"
    /\ Wanted(t) = With(before[t], cmd[t].lba, out[t])
    /\ cmd[t].op = "COMPARE_AND_WRITE" => Holds(before[t], cmd[t].lba, cmd[t].cmp)

(* What a read has brought is on the medium. *)
Reading(t) ==
  pc[t] = "read_ret" => \A i \in Arrived(t) : buf[t][i] = medium[cmd[t].lba + i]

(* What a write has moved is on the medium. *)
Moved(t) ==
  pc[t] \in {"write_ret", "same_ret"} =>
    \A i \in Arrived(t) : medium[req[t].offset + i] = Wanted(t)[req[t].offset + i]

(* The blocks the WRITE_SAME loop has passed, unless one of them failed. *)
Passed(t) ==
  pc[t] \in SameLabels /\ sense[t] = "GOOD" =>
    \A a \in Lbas : cmd[t].lba <= a /\ a < offset[t] => medium[a] = Wanted(t)[a]

(* WRITE_VERIFY reads back what it wrote. *)
Verifying(t) ==
  pc[t] \in ReadLabels /\ cmd[t].op = "WRITE_VERIFY" /\ sense[t] = "GOOD" =>
    medium = Wanted(t)

NotYet(t) ==
  pc[t] \in SameLabels \cup ReadLabels => sense[t] \in {"GOOD", "MEDIUM_ERROR"}

(* At its end. *)
Compared(t) ==
  LET m == IF cmd[t].op = "WRITE_VERIFY" THEN medium ELSE before[t]
  IN Comparing(t) =>
       /\ sense[t] = "GOOD" => Holds(m, cmd[t].lba, Expected(t))
       /\ sense[t] = "MISCOMPARE" => ~Holds(m, cmd[t].lba, Expected(t))

Complete(t) ==
  sense[t] = "GOOD" =>
    /\ medium = Wanted(t)
    /\ cmd[t].op = "READ" =>
         DOMAIN buf[t] = 0 .. cmd[t].tl - 1 /\ Holds(medium, cmd[t].lba, buf[t])

Progress(t) ==
  /\ Within(t) /\ Untouched(t) /\ Writing(t) /\ Reading(t) /\ Moved(t) /\ Passed(t)
  /\ Verifying(t) /\ NotYet(t)
  /\ pc[t] = "end" => Complete(t) /\ Compared(t)

Alone(t) ==
  /\ pc[t] # "idle" /\ \A u \in Threads \ {t} : pc[u] = "idle"
  /\ before[t] \in [Lbas -> Blocks]
  /\ Progress(t)

AloneInv == \A t \in Threads : before[t] # << >> => Alone(t)

-----------------------------------------------------------------------------
(* Blocks and buffers.                                                     *)

(* The LUN has at least one byte. *)
LEMMA CapacityNat == Capacity \in Nat \ {0}
BY ScsiAssumption

(* A buffer of n blocks is as long as it is. *)
LEMMA LengthOf ==
  ASSUME NEW n \in Nat, NEW S, NEW b \in [0 .. n - 1 -> S]
  PROVE  Length(b) = n
<1>1. DOMAIN b = 0 .. n - 1
  OBVIOUS
<1>2. Cardinality(0 .. n - 1) = n
  BY FS_Interval
<1> QED BY <1>1, <1>2 DEF Length

(* The buffers that come with a command. *)
LEMMA CommandBuffers ==
  ASSUME NEW t \in Threads, NEW c \in Commands(t)
  PROVE  /\ Length(c.out) \in Nat /\ Length(c.cmp) \in Nat
         /\ DOMAIN c.out = 0 .. Length(c.out) - 1
         /\ DOMAIN c.cmp = 0 .. Length(c.cmp) - 1
         /\ \A i \in DOMAIN c.out : c.out[i] \in SUBSET Bits
         /\ \A i \in DOMAIN c.cmp : c.cmp[i] \in SUBSET Bits
         /\ c.op = "WRITE_SAME" => DOMAIN c.out = {0} /\ Length(c.out) = 1
         /\ c.lba \in 0 .. Capacity /\ c.tl \in 0 .. Capacity
         /\ c.op \in ReadOps \cup WriteOps \cup ImmediateOps \cup {"WRITE_SAME"}
<1>1. CommandType(c)
  BY ScsiAssumption
<1>2. PICK n \in 0 .. Capacity : c.out \in [0 .. n - 1 -> SUBSET Bits]
  BY <1>1 DEF CommandType
<1>3. PICK k \in 0 .. Capacity : c.cmp \in [0 .. k - 1 -> SUBSET Bits]
  BY <1>1 DEF CommandType
<1>4. n \in Nat /\ k \in Nat
  BY <1>2, <1>3, ScsiAssumption
<1>5. Length(c.out) = n /\ Length(c.cmp) = k
  BY <1>2, <1>3, <1>4, LengthOf
<1>6. c.op = "WRITE_SAME" => DOMAIN c.out = {0} /\ Length(c.out) = 1
  <2> SUFFICES ASSUME c.op = "WRITE_SAME" PROVE DOMAIN c.out = {0} /\ Length(c.out) = 1
    OBVIOUS
  <2>1. DOMAIN c.out = {0}
    BY <1>1 DEF CommandType
  <2>2. 0 .. n - 1 = {0}
    BY <1>2, <2>1
  <2>3. n = 1
    <3>1. 0 \in 0 .. n - 1 /\ ~(1 \in 0 .. n - 1)
      BY <2>2
    <3> QED BY <1>4, <3>1
  <2> QED BY <1>5, <2>1, <2>3
<1>7. /\ c.lba \in 0 .. Capacity /\ c.tl \in 0 .. Capacity
      /\ c.op \in ReadOps \cup WriteOps \cup ImmediateOps \cup {"WRITE_SAME"}
  BY <1>1 DEF CommandType
<1>8. /\ DOMAIN c.out = 0 .. n - 1 /\ DOMAIN c.cmp = 0 .. k - 1
      /\ \A i \in DOMAIN c.out : c.out[i] \in SUBSET Bits
      /\ \A i \in DOMAIN c.cmp : c.cmp[i] \in SUBSET Bits
  BY <1>2, <1>3
<1> QED BY <1>4, <1>5, <1>6, <1>7, <1>8

(* The stamp does not touch the other bits of a block. *)
LEMMA StampFacts ==
  ASSUME NEW b, NEW o \in 0 .. 2 * Capacity
  PROVE  /\ Stamp(b, o) \in Blocks
         /\ Stamp(b, o) \cap Bits = b \cap Bits
         /\ Stamp(b \cap Bits, o) = Stamp(b, o)
<1>1. StampBit + o * blocksize \notin Bits
  <2>1. o * blocksize \in Nat
    BY ScsiAssumption
  <2> QED BY <2>1, ScsiAssumption DEF StampBit
<1>2. Stamp(b \cap Bits, o) = Stamp(b, o)
  <2>1. (b \cap Bits) \cap Bits = b \cap Bits
    OBVIOUS
  <2> QED BY <2>1 DEF Stamp
<1>3. b \cap Bits \in SUBSET Bits
  OBVIOUS
<1>4. Stamp(b \cap Bits, o) \in {Stamp(x, y) : x \in SUBSET Bits, y \in 0 .. 2 * Capacity}
  BY <1>3
<1>5. Stamp(b, o) \in Blocks
  BY <1>2, <1>4 DEF Blocks
<1>6. Stamp(b, o) \cap Bits = b \cap Bits
  <2>1. \A x : x \in Stamp(b, o) \cap Bits <=> x \in b \cap Bits
    BY <1>1 DEF Stamp
  <2> QED BY <2>1, Zenon
<1> QED BY <1>2, <1>5, <1>6

(* OR of a plain block and any block is a block. *)
LEMMA OrFacts ==
  ASSUME NEW a \in SUBSET Bits, NEW b \in Cells
  PROVE  /\ Or(a, b) \in Cells
         /\ b # Junk => Or(a, b) = b \cup a /\ Or(a, b) \in Blocks
<1>0. a # Junk
  BY ScsiAssumption DEF Blocks
<1>1. CASE b = Junk
  BY <1>1 DEF Or, Cells
<1>2. CASE b # Junk
  <2>1. b \in Blocks
    BY <1>2 DEF Cells
  <2>2. Or(a, b) = b \cup a
    BY <1>0, <1>2 DEF Or
  <2>3. CASE b \in SUBSET Bits
    BY <1>2, <2>2, <2>3 DEF Blocks, Cells
  <2>4. CASE b \in {Stamp(x, y) : x \in SUBSET Bits, y \in 0 .. 2 * Capacity}
    <3>1. PICK x \in SUBSET Bits, y \in 0 .. 2 * Capacity : b = Stamp(x, y)
      BY <2>4
    <3>2. \A z : z \in b \cup a <=> z \in Stamp(a \cup x, y)
      BY <3>1 DEF Stamp
    <3>3. b \cup a = Stamp(a \cup x, y)
      BY <3>2, Zenon
    <3>4. b \cup a \in Blocks
      BY <3>3, StampFacts
    <3> QED BY <1>2, <2>2, <3>4 DEF Cells
  <2> QED BY <1>2, <2>1, <2>3, <2>4 DEF Blocks
<1> QED BY <1>1, <1>2

-----------------------------------------------------------------------------
(* The handler.  A step of a thread leaves the variables of the others     *)
(* alone, all but the history.                                             *)
Same(u) ==
  /\ pc'[u] = pc[u] /\ cmd'[u] = cmd[u] /\ out'[u] = out[u] /\ offset'[u] = offset[u]
  /\ tl'[u] = tl[u] /\ sense'[u] = sense[u] /\ req'[u] = req[u] /\ buf'[u] = buf[u]
  /\ done'[u] = done[u] /\ busy'[u] = busy[u] /\ ret'[u] = ret[u]

(* A step of one worker leaves the command of another as it was. *)
LEMMA OtherThreads ==
  ASSUME StateTypes, NEW t \in Threads, NEW u \in Threads, u # t,
         Step(t) \/ \E c \in Commands(t) : Receive(t, c)
  PROVE  Same(u)
<1> USE DEF StateTypes, Same, Goto, Sense, set_medium_error, library
<1>1. ASSUME NEW c \in Commands(t), Receive(t, c) PROVE Same(u)
  BY <1>1 DEF Receive
<1>2. CASE CallRead(t)
  BY <1>2 DEF CallRead, Call, Dev!Accept
<1>3. CASE OutOfMemory(t)
  BY <1>3 DEF OutOfMemory
<1>4. CASE CallWrite(t)
  BY <1>4 DEF CallWrite, Call, Dev!Accept
<1>5. CASE CallSame(t)
  BY <1>5 DEF CallSame, Call, Dev!Accept
<1>6. CASE LibraryStep(t)
  BY <1>6 DEF LibraryStep, Dev!Transfer, Dev!Finish
<1>7. CASE ReadFails(t) \/ ReadDone(t) \/ MergeOr(t) \/ Match(t) \/ Miscompare(t)
  BY <1>7 DEF ReadFails, ReadDone, MergeOr, Match, Miscompare
<1>8. CASE WriteFails(t) \/ WriteDone(t) \/ WriteNoPage(t) \/ SameReturns(t)
  BY <1>8 DEF WriteFails, WriteDone, WriteNoPage, SameReturns
<1>9. CASE Answer(t)
  BY <1>9 DEF Answer
<1> QED BY <1>1, <1>2, <1>3, <1>4, <1>5, <1>6, <1>7, <1>8, <1>9 DEF Step

(* What a thread is in the middle of depends on its own variables only. *)
LEMMA OthersKeep ==
  ASSUME NEW u \in Threads, Same(u), Handler(u)
  PROVE  Handler(u)'
<1>1. Serving(u)'
  BY DEF Handler, Serving, Same
<1>2. Looping(u)'
  BY DEF Handler, Looping, Same
<1>3. Calling(u)'
  BY DEF Handler, Calling, Same
<1> QED BY <1>1, <1>2, <1>3 DEF Handler

(* A command that does not end at once starts with the call of its case. *)
LEMMA EntryFacts ==
  ASSUME NEW t \in Threads, NEW c \in Commands(t)
  PROVE  /\ Entry(c) \in {"end", "read_call", "write_call", "same_call"}
         /\ Entry(c) = "end" <=> EndsAtOnce(c)
         /\ Entry(c) = "read_call" => c.op \in ReadOps
         /\ Entry(c) = "write_call" => c.op \in WriteOps
         /\ Entry(c) = "same_call" => c.op = "WRITE_SAME" /\ 0 < c.tl
         /\ Entry(c) # "end" => SenseAtOnce(c) = "GOOD"
         /\ SenseAtOnce(c) \in SenseKeys
<1>1. c.op \in ReadOps \cup WriteOps \cup ImmediateOps \cup {"WRITE_SAME"}
  BY CommandBuffers
<1>2. c.tl \in 0 .. Capacity
  BY CommandBuffers
<1>3. SenseAtOnce(c) \in SenseKeys
  BY DEF SenseAtOnce, SenseKeys
<1>4. CASE EndsAtOnce(c)
  BY <1>3, <1>4 DEF Entry
<1>5. CASE ~EndsAtOnce(c)
  BY <1>1, <1>2, <1>3, <1>5, ScsiAssumption DEF Entry, EndsAtOnce, ReadOps, WriteOps, ImmediateOps
<1> QED BY <1>4, <1>5

(* How many blocks a command reads. *)
LEMMA ReadLengthFacts ==
  ASSUME NEW t \in Threads, NEW c \in Commands(t)
  PROVE  /\ ReadLength(c) \in Nat
         /\ c.op = "READ" => ReadLength(c) = c.tl
         /\ c.op = "COMPARE_AND_WRITE" => ReadLength(c) = Length(c.cmp)
         /\ c.op \notin {"READ", "COMPARE_AND_WRITE"} => ReadLength(c) = Length(c.out)
<1>1. Length(c.out) \in Nat /\ Length(c.cmp) \in Nat /\ c.tl \in 0 .. Capacity
  BY CommandBuffers
<1>2. c.tl \in Nat
  BY <1>1, ScsiAssumption
<1>3. c.op = "READ" => ReadLength(c) = c.tl
  BY Zenon DEF ReadLength
<1>4. c.op = "COMPARE_AND_WRITE" => ReadLength(c) = Length(c.cmp)
  BY Zenon DEF ReadLength
<1>5. c.op \notin {"READ", "COMPARE_AND_WRITE"} => ReadLength(c) = Length(c.out)
  BY Zenon DEF ReadLength
<1> QED BY <1>1, <1>2, <1>3, <1>4, <1>5

(* A call of the library is within the LUN, and its buffer is the request. *)
LEMMA BusyFacts ==
  ASSUME HandlerInv, NEW t \in Threads, pc[t] \in RetLabels
  PROVE  /\ cmd[t] \in Commands(t)
         /\ req[t].offset \in Nat /\ req[t].buf_len \in Nat /\ done[t] \in Nat
         /\ pc[t] = "read_ret" => req[t].op = "read"
         /\ pc[t] # "read_ret" => req[t].op = "write" /\ buf[t] = out[t]
         /\ DOMAIN buf[t] = 0 .. req[t].buf_len - 1
         /\ \A i \in DOMAIN buf[t] : buf[t][i] \in Cells
<1>0. Serving(t) /\ Looping(t) /\ Calling(t)
  BY DEF HandlerInv, Handler
<1>1. cmd[t] \in Commands(t)
  BY <1>0 DEF Serving, RetLabels
<1>2. /\ cmd[t].lba \in Nat /\ Length(cmd[t].out) \in Nat
      /\ DOMAIN cmd[t].out = 0 .. Length(cmd[t].out) - 1
      /\ cmd[t].op = "WRITE_SAME" => DOMAIN cmd[t].out = {0}
      /\ ReadLength(cmd[t]) \in Nat
  BY <1>1, CommandBuffers, ReadLengthFacts, ScsiAssumption
<1>3. /\ DOMAIN out[t] = DOMAIN cmd[t].out
      /\ \A i \in DOMAIN out[t] : out[t][i] \in Cells
  BY <1>0 DEF Serving, RetLabels
<1>4. done[t] \in Nat /\ offset[t] \in Nat
  BY ScsiAssumption DEF HandlerInv, StateTypes
<1>5. CASE pc[t] = "read_ret"
  BY <1>0, <1>1, <1>2, <1>4, <1>5 DEF Calling
<1>6. CASE pc[t] = "write_ret"
  BY <1>0, <1>1, <1>2, <1>3, <1>4, <1>6 DEF Calling
<1>7. CASE pc[t] = "same_ret"
  <2>1. DOMAIN out[t] = {0} /\ 0 .. 1 - 1 = {0}
    BY <1>0, <1>2, <1>3, <1>7 DEF Looping, SameLabels
  <2>2. /\ req[t].op = "write" /\ req[t].offset = offset[t] /\ req[t].buf_len = 1
        /\ buf[t] = out[t]
    BY <1>0, <1>7 DEF Calling
  <2>3. DOMAIN buf[t] = 0 .. req[t].buf_len - 1
    BY <2>1, <2>2
  <2> QED BY <1>1, <1>3, <1>4, <1>7, <2>2, <2>3
<1> QED BY <1>5, <1>6, <1>7 DEF RetLabels

(* What a transfer of n bytes does to a worker and to the medium. *)
LEMMA TransferFacts ==
  ASSUME HandlerInv, NEW t \in Threads, NEW n \in 1 .. Capacity, Dev!Transfer(t, n)
  PROVE  /\ busy[t] /\ pc[t] \in RetLabels
         /\ n \in Nat \ {0} /\ done[t] + n <= req[t].buf_len
         /\ req[t].offset + req[t].buf_len <= Capacity
         /\ done'[t] = done[t] + n
         /\ formatted' = formatted /\ req' = req /\ busy' = busy /\ ret' = ret
         /\ pc[t] = "read_ret" =>
              /\ medium' = medium
              /\ DOMAIN buf'[t] = DOMAIN buf[t]
              /\ \A i \in DOMAIN buf[t] :
                   buf'[t][i] = IF done[t] <= i /\ i < done[t] + n
                                THEN medium[req[t].offset + i] ELSE buf[t][i]
         /\ pc[t] # "read_ret" =>
              /\ buf' = buf /\ DOMAIN medium' = Lbas
              /\ \A a \in Lbas :
                   medium'[a] = IF /\ req[t].offset + done[t] <= a
                                   /\ a < req[t].offset + done[t] + n
                                THEN buf[t][a - req[t].offset] ELSE medium[a]
<1>1. /\ busy[t] /\ done[t] + n <= req[t].buf_len /\ DOMAIN done = Threads
      /\ done' = [done EXCEPT ![t] = done[t] + n]
      /\ formatted' = formatted /\ req' = req /\ busy' = busy /\ ret' = ret
  BY DEF Dev!Transfer, HandlerInv, StateTypes
<1>2. /\ pc[t] \in RetLabels /\ n \in Nat \ {0}
      /\ req[t].offset + req[t].buf_len <= Capacity /\ done'[t] = done[t] + n
  <2>1. pc[t] \in RetLabels
    BY <1>1 DEF HandlerInv, Handler, Serving
  <2>2. req[t].offset + req[t].buf_len <= Capacity
    BY <1>1 DEF HandlerInv, Handler, Calling
  <2> QED BY <1>1, <2>1, <2>2, ScsiAssumption
<1>3. CASE pc[t] = "read_ret"
  <2>1. /\ req[t].op = "read" /\ DOMAIN buf = Threads /\ req[t].buf_len \in Nat
        /\ DOMAIN buf[t] = 0 .. req[t].buf_len - 1 /\ done[t] \in Nat
    BY <1>2, <1>3, BusyFacts DEF HandlerInv, StateTypes
  <2>2. /\ medium' = medium
        /\ buf'[t] = [i \in 0 .. req[t].buf_len - 1 |->
                        IF i \in done[t] .. done[t] + n - 1 THEN medium[req[t].offset + i]
                                                            ELSE buf[t][i]]
    BY <2>1 DEF Dev!Transfer
  <2> QED BY <1>1, <1>2, <1>3, <2>1, <2>2
<1>4. CASE pc[t] # "read_ret"
  <2>1. req[t].op = "write" /\ done[t] \in Nat /\ req[t].offset \in Nat
    BY <1>2, <1>4, BusyFacts
  <2>2. /\ buf' = buf
        /\ medium' = [a \in Lbas |->
                        IF a - req[t].offset \in done[t] .. done[t] + n - 1
                        THEN buf[t][a - req[t].offset] ELSE medium[a]]
    BY <2>1 DEF Dev!Transfer, Lbas
  <2>3. \A a \in Lbas : a \in Int
    BY DEF Lbas
  <2>4. \A a \in Lbas : a - req[t].offset \in done[t] .. done[t] + n - 1
                          <=> /\ req[t].offset + done[t] <= a
                              /\ a < req[t].offset + done[t] + n
    BY <1>2, <2>1, <2>3
  <2> QED BY <1>1, <1>2, <1>4, <2>2, <2>4
<1> QED BY <1>3, <1>4

(* The functions of the state keep their domains and ranges. *)
LEMMA KeepsTypes ==
  ASSUME HandlerInv, NEW t \in Threads,
         Step(t) \/ \E c \in Commands(t) : Receive(t, c)
  PROVE  StateTypes'
<1> USE DEF HandlerInv, StateTypes, Goto, Sense, set_medium_error, library, Labels,
            SenseKeys, Results
<1>0. Handler(t) /\ Capacity \in Nat
  BY ScsiAssumption
<1>1. ASSUME NEW c \in Commands(t), Receive(t, c) PROVE StateTypes'
  <2>1. /\ Entry(c) \in Labels /\ SenseAtOnce(c) \in SenseKeys
        /\ c.lba \in 0 .. 2 * Capacity /\ c.tl \in 0 .. Capacity
    BY <1>0, EntryFacts, CommandBuffers
  <2> QED BY <1>1, <2>1 DEF Receive
<1>2. CASE CallRead(t)
  BY <1>2, ZenonT(60) DEF CallRead, Call, Dev!Accept
<1>3. CASE OutOfMemory(t)
  BY <1>3 DEF OutOfMemory
<1>4. CASE CallWrite(t)
  <2>1. medium' = medium /\ DOMAIN out' = Threads /\ DOMAIN buf' = Threads
    BY <1>4 DEF CallWrite, Call, Dev!Accept
  <2>2. done' \in [Threads -> Nat] /\ ret' \in [Threads -> Results]
    BY <1>4 DEF CallWrite, Call, Dev!Accept
  <2> QED BY <1>4, <2>1, <2>2 DEF CallWrite, Call, Dev!Accept
<1>5. CASE CallSame(t)
  <2>1. DOMAIN out' = Threads /\ medium' = medium
    BY <1>5 DEF CallSame, Call, Dev!Accept
  <2> QED BY <1>5, <2>1 DEF CallSame, Call, Dev!Accept
<1>6. CASE LibraryStep(t)
  <2>1. CASE Dev!Finish(t)
    BY <1>6, <2>1 DEF LibraryStep, Dev!Finish
  <2>2. ASSUME NEW n \in 1 .. Capacity, Dev!Transfer(t, n) PROVE StateTypes'
    <3>1. medium' \in [Lbas -> Cells]
      <4>1. CASE pc[t] = "read_ret"
        BY <2>2, <4>1, TransferFacts
      <4>2. CASE pc[t] # "read_ret"
        <5>1. /\ pc[t] \in RetLabels /\ DOMAIN medium' = Lbas
              /\ n \in Nat /\ done[t] + n <= req[t].buf_len
              /\ \A a \in Lbas :
                   medium'[a] = IF /\ req[t].offset + done[t] <= a
                                   /\ a < req[t].offset + done[t] + n
                                THEN buf[t][a - req[t].offset] ELSE medium[a]
          BY <2>2, <4>2, TransferFacts
        <5>2. /\ req[t].offset \in Nat /\ req[t].buf_len \in Nat /\ done[t] \in Nat
              /\ DOMAIN buf[t] = 0 .. req[t].buf_len - 1
              /\ \A i \in DOMAIN buf[t] : buf[t][i] \in Cells
          BY <5>1, BusyFacts
        <5>3. \A a \in Lbas : medium'[a] \in Cells
          <6> SUFFICES ASSUME NEW a \in Lbas PROVE medium'[a] \in Cells
            OBVIOUS
          <6>1. a \in Int /\ medium[a] \in Cells
            BY DEF Lbas
          <6>2. CASE req[t].offset + done[t] <= a /\ a < req[t].offset + done[t] + n
            <7>1. a - req[t].offset \in DOMAIN buf[t]
              BY <5>1, <5>2, <6>1, <6>2, SMTT(30)
            <7> QED BY <5>1, <5>2, <6>2, <7>1
          <6> QED BY <5>1, <6>1, <6>2
        <5>4. medium' = [a \in Lbas |-> medium'[a]]
          BY <2>2, <4>2, <5>1, BusyFacts DEF Dev!Transfer, Lbas
        <5> QED BY <5>3, <5>4
      <4> QED BY <4>1, <4>2
    <3>2. DOMAIN buf' = Threads /\ done' \in [Threads -> Nat]
      BY <2>2 DEF Dev!Transfer
    <3> QED BY <1>6, <2>2, <3>1, <3>2 DEF LibraryStep, Dev!Transfer
  <2> QED BY <1>6, <2>1, <2>2 DEF LibraryStep
<1>7. CASE ReadFails(t) \/ ReadDone(t) \/ MergeOr(t) \/ Match(t) \/ Miscompare(t)
  BY <1>7 DEF ReadFails, ReadDone, MergeOr, Match, Miscompare
<1>8. CASE WriteFails(t) \/ WriteDone(t) \/ WriteNoPage(t)
  <2>1. AfterWrite(t) \in Labels
    BY DEF AfterWrite
  <2>2. pc' \in [Threads -> Labels]
    BY <1>8, <2>1 DEF WriteFails, WriteDone, WriteNoPage
  <2>3. sense' \in [Threads -> SenseKeys]
    BY <1>8 DEF WriteFails, WriteDone, WriteNoPage
  <2> QED BY <1>8, <2>2, <2>3, ZenonT(60) DEF WriteFails, WriteDone, WriteNoPage
<1>9. CASE SameReturns(t)
  <2>1. /\ offset[t] + 1 \in 0 .. 2 * Capacity /\ tl[t] - 1 \in 0 .. Capacity
    <3>1. pc[t] = "same_ret"
      BY <1>9 DEF SameReturns, Returned
    <3>2. /\ 0 < tl[t] /\ offset[t] + tl[t] = cmd[t].lba + cmd[t].tl
          /\ cmd[t] \in Commands(t)
      BY <1>0, <3>1 DEF Handler, Looping, Serving, SameLabels
    <3>3. cmd[t].lba \in 0 .. Capacity /\ cmd[t].tl \in 0 .. Capacity
      BY <3>2, CommandBuffers
    <3>4. offset[t] \in 0 .. 2 * Capacity /\ tl[t] \in 0 .. Capacity
      OBVIOUS
    <3> QED BY <1>0, <3>2, <3>3, <3>4
  <2> QED BY <1>9, <2>1 DEF SameReturns
<1>10. CASE Answer(t)
  BY <1>0, <1>10 DEF Answer
<1> QED BY <1>1, <1>2, <1>3, <1>4, <1>5, <1>6, <1>7, <1>8, <1>9, <1>10 DEF Step

(* A call of the library: it starts, or has its result at once. *)
LEMMA CallFacts ==
  ASSUME StateTypes, NEW t \in Threads, NEW op \in {"read", "write"}, NEW at, NEW b,
         NEW label, Call(t, op, at, b, label)
  PROVE  /\ pc'[t] = label /\ ~busy[t] /\ done'[t] = 0 /\ buf'[t] = b
         /\ req'[t] = [op |-> op, offset |-> at, buf_len |-> Length(b)]
         /\ medium' = medium /\ cmd' = cmd /\ offset' = offset /\ tl' = tl
         /\ sense' = sense /\ before' = before
         /\ busy'[t] => at + Length(b) <= Capacity /\ ret'[t] = "none"
<1>1. /\ pc'[t] = label /\ done'[t] = 0 /\ buf'[t] = b
      /\ req'[t] = [op |-> op, offset |-> at, buf_len |-> Length(b)]
      /\ medium' = medium /\ cmd' = cmd /\ offset' = offset /\ tl' = tl
      /\ sense' = sense /\ before' = before
  BY DEF Call, Goto, Dev!Accept, StateTypes
<1>2. ~busy[t]
  BY DEF Call, Dev!Accept
<1>3. \/ busy'[t] = busy[t]
      \/ at + Length(b) <= Capacity /\ ret'[t] = "none"
  BY DEF Call, Dev!Accept, StateTypes
<1>4. busy'[t] => at + Length(b) <= Capacity /\ ret'[t] = "none"
  BY <1>2, <1>3
<1> QED BY <1>1, <1>2, <1>4, Zenon

(* On a formatted LUN only a call for no blocks succeeds at once. *)
LEMMA FormattedCall ==
  ASSUME StateTypes, NEW t \in Threads, NEW op \in {"read", "write"}, NEW at, NEW b,
         NEW label, Call(t, op, at, b, label), formatted = TRUE
  PROVE  formatted' = TRUE /\ (ret'[t] = "OSD_SUCCESS" => Length(b) = 0 /\ ~busy'[t])
<1>1. formatted' = TRUE
  <2>1. formatted' = (formatted \/ op = "write")
    BY DEF Call, Dev!Accept
  <2> QED BY <2>1, Zenon
<1>2. \/ Length(b) = 0 /\ busy' = busy
      \/ ret'[t] = "OSD_ERROR"
      \/ ret'[t] = "none"
  BY DEF Call, Dev!Accept, StateTypes
<1>3. ~busy[t]
  BY DEF Call, Dev!Accept
<1>4. ret'[t] = "OSD_SUCCESS" => Length(b) = 0 /\ ~busy'[t]
  BY <1>2, <1>3
<1> QED BY <1>1, <1>4, Zenon

(* The thread that takes a step. *)
LEMMA OwnReceive ==
  ASSUME HandlerInv, NEW t \in Threads, NEW c \in Commands(t), Receive(t, c)
  PROVE  Handler(t)'
<1> USE DEF HandlerInv, StateTypes
<1>1. /\ pc[t] = "idle" /\ pc'[t] = Entry(c) /\ cmd'[t] = c /\ out'[t] = c.out
      /\ offset'[t] = c.lba /\ tl'[t] = c.tl /\ busy'[t] = busy[t]
  BY DEF Receive, library
<1>2. ~busy[t]
  BY <1>1 DEF Handler, Serving, RetLabels
<1>3. /\ \A i \in DOMAIN c.out : c.out[i] \in SUBSET Bits
      /\ c.lba \in Int /\ c.tl \in Int
      /\ c.op = "WRITE_SAME" => DOMAIN c.out = {0}
  BY CommandBuffers
<1>4. \A i \in DOMAIN c.out : c.out[i] \in Cells
  BY <1>3 DEF Cells, Blocks
<1>5. /\ pc'[t] \in {"end", "read_call", "write_call", "same_call"}
      /\ pc'[t] = "read_call" => c.op \in ReadOps
      /\ pc'[t] = "write_call" => c.op \in WriteOps
      /\ pc'[t] = "same_call" => c.op = "WRITE_SAME" /\ 0 < c.tl
  BY <1>1, EntryFacts
<1>6. Serving(t)'
  BY <1>1, <1>2, <1>4, <1>5 DEF Serving, ReadLabels, WriteLabels, ReadOps, WriteOps, Read, Written
<1>7. c.op = "WRITE_SAME" => c.out[0] \cap Bits = c.out[0]
  BY <1>3
<1>8. Looping(t)'
  BY <1>1, <1>3, <1>5, <1>7 DEF Looping, SameLabels
<1>9. Calling(t)'
  BY <1>1, <1>2, <1>5 DEF Calling
<1> QED BY <1>6, <1>8, <1>9 DEF Handler

(* A call into the library starts with a request inside the medium. *)
LEMMA OwnCall ==
  ASSUME HandlerInv, NEW t \in Threads,
         CallRead(t) \/ CallWrite(t) \/ CallSame(t)
  PROVE  Handler(t)'
<1>0. StateTypes /\ Serving(t) /\ Looping(t) /\ Calling(t)
  BY DEF HandlerInv, Handler
<1>1. pc[t] \in {"read_call", "write_call", "same_call"}
  BY DEF CallRead, CallWrite, CallSame
<1>2. /\ cmd[t] \in Commands(t) /\ DOMAIN out[t] = DOMAIN cmd[t].out
      /\ \A i \in DOMAIN out[t] : out[t][i] \in Cells
  BY <1>0, <1>1 DEF Serving
<1>3. CASE CallRead(t)
  <2> DEFINE b == [i \in 0 .. ReadLength(cmd[t]) - 1 |-> Junk]
  <2>1. Call(t, "read", cmd[t].lba, b, "read_ret") /\ out' = out /\ pc[t] = "read_call"
    BY <1>3 DEF CallRead
  <2>2. b \in [0 .. ReadLength(cmd[t]) - 1 -> Cells] /\ ReadLength(cmd[t]) \in Nat
    BY <1>2, ReadLengthFacts DEF Cells
  <2>3. Length(b) = ReadLength(cmd[t])
    BY <2>2, LengthOf
  <2> HIDE DEF b
  <2>4. /\ pc'[t] = "read_ret" /\ done'[t] = 0 /\ buf'[t] = b /\ cmd' = cmd
        /\ req'[t] = [op |-> "read", offset |-> cmd[t].lba, buf_len |-> Length(b)]
        /\ busy'[t] => cmd[t].lba + Length(b) <= Capacity
    BY <1>0, <2>1, CallFacts
  <2>5. Serving(t)'
    BY <1>0, <1>2, <2>1, <2>4 DEF Serving, RetLabels, ReadLabels, WriteLabels
  <2>6. Looping(t)'
    BY <2>4 DEF Looping, SameLabels
  <2>7. Calling(t)'
    BY <2>2, <2>3, <2>4 DEF Calling
  <2> QED BY <2>5, <2>6, <2>7 DEF Handler
<1>4. CASE CallWrite(t)
  <2>1. Call(t, "write", cmd[t].lba, out[t], "write_ret") /\ out' = out /\ pc[t] = "write_call"
    BY <1>4 DEF CallWrite
  <2>2. /\ pc'[t] = "write_ret" /\ done'[t] = 0 /\ buf'[t] = out[t] /\ cmd' = cmd
        /\ req'[t] = [op |-> "write", offset |-> cmd[t].lba, buf_len |-> Length(out[t])]
        /\ busy'[t] => cmd[t].lba + Length(out[t]) <= Capacity
    BY <1>0, <2>1, CallFacts
  <2>3. Length(out[t]) = Length(cmd[t].out) /\ Length(cmd[t].out) \in Nat
    BY <1>2, CommandBuffers DEF Length
  <2>4. Serving(t)'
    BY <1>0, <1>2, <2>1, <2>2 DEF Serving, RetLabels, ReadLabels, WriteLabels
  <2>5. Looping(t)'
    BY <2>2 DEF Looping, SameLabels
  <2>6. Calling(t)'
    BY <2>1, <2>2, <2>3 DEF Calling
  <2> QED BY <2>4, <2>5, <2>6 DEF Handler
<1>5. CASE CallSame(t)
  <2>1. /\ pc[t] = "same_call" /\ Call(t, "write", offset[t], out'[t], "same_ret")
        /\ out' = IF cmd[t].bit = "stamp" THEN [out EXCEPT ![t][0] = Stamp(@, offset[t])]
                                          ELSE out
    BY <1>5 DEF CallSame
  <2>2. /\ pc'[t] = "same_ret" /\ done'[t] = 0 /\ buf'[t] = out'[t] /\ cmd' = cmd
        /\ offset' = offset /\ tl' = tl
        /\ req'[t] = [op |-> "write", offset |-> offset[t], buf_len |-> Length(out'[t])]
        /\ busy'[t] => offset[t] + Length(out'[t]) <= Capacity
    <3>1. PICK b : b = out'[t]
      OBVIOUS
    <3>2. Call(t, "write", offset[t], b, "same_ret")
      BY <2>1, <3>1
    <3>3. /\ pc'[t] = "same_ret" /\ done'[t] = 0 /\ buf'[t] = b /\ cmd' = cmd
          /\ offset' = offset /\ tl' = tl
          /\ req'[t] = [op |-> "write", offset |-> offset[t], buf_len |-> Length(b)]
          /\ busy'[t] => offset[t] + Length(b) <= Capacity
      BY <1>0, <3>2, CallFacts
    <3> QED BY <3>1, <3>3
  <2>3. /\ cmd[t].op = "WRITE_SAME" /\ out[t][0] \cap Bits = cmd[t].out[0]
        /\ cmd[t].lba <= offset[t] /\ 0 < tl[t] /\ offset[t] + tl[t] = cmd[t].lba + cmd[t].tl
        /\ cmd[t].bit # "stamp" => out[t] = cmd[t].out
    BY <1>0, <2>1 DEF Looping, SameLabels
  <2>4. DOMAIN cmd[t].out = {0} /\ Length(cmd[t].out) = 1 /\ DOMAIN out[t] = {0}
    BY <1>2, <2>3, CommandBuffers
  <2>5. offset[t] \in 0 .. 2 * Capacity /\ DOMAIN out = Threads
    BY <1>0 DEF StateTypes
  <2>6. /\ DOMAIN out'[t] = {0}
        /\ cmd[t].bit = "stamp" => out'[t][0] = Stamp(out[t][0], offset[t])
        /\ cmd[t].bit # "stamp" => out'[t] = out[t]
    BY <2>1, <2>4, <2>5
  <2>7. /\ Stamp(out[t][0], offset[t]) \in Cells
        /\ Stamp(out[t][0], offset[t]) \cap Bits = cmd[t].out[0]
        /\ Stamp(out[t][0], offset[t]) = Stamp(cmd[t].out[0], offset[t])
    <3>1. /\ Stamp(out[t][0], offset[t]) \in Blocks
          /\ Stamp(out[t][0], offset[t]) \cap Bits = out[t][0] \cap Bits
          /\ Stamp(out[t][0] \cap Bits, offset[t]) = Stamp(out[t][0], offset[t])
      BY <2>5, StampFacts
    <3> QED BY <2>3, <3>1 DEF Cells
  <2>8. out'[t][0] \in Cells /\ out'[t][0] \cap Bits = cmd[t].out[0]
    BY <1>2, <2>3, <2>4, <2>6, <2>7
  <2>9. Length(out'[t]) = 1
    BY <2>4, <2>6 DEF Length
  <2>10. Serving(t)'
    BY <1>2, <2>2, <2>3, <2>4, <2>6, <2>8 DEF Serving, RetLabels, ReadLabels, WriteLabels
  <2>11. Looping(t)'
    BY <2>2, <2>3, <2>6, <2>8 DEF Looping
  <2>12. Calling(t)'
    BY <2>2, <2>6, <2>7, <2>9 DEF Calling
  <2> QED BY <2>10, <2>11, <2>12 DEF Handler
<1> QED BY <1>3, <1>4, <1>5

(* The library moves the bytes of that request and no others. *)
LEMMA OwnLibrary ==
  ASSUME HandlerInv, NEW t \in Threads, LibraryStep(t)
  PROVE  Handler(t)'
<1>0. StateTypes /\ Serving(t) /\ Looping(t) /\ Calling(t)
  BY DEF HandlerInv, Handler
<1>1. /\ pc' = pc /\ cmd' = cmd /\ out' = out /\ offset' = offset /\ tl' = tl
  BY DEF LibraryStep
<1>2. busy[t] /\ pc[t] \in RetLabels
  BY <1>0 DEF LibraryStep, Dev!Transfer, Dev!Finish, Serving
<1>3. Looping(t)'
  BY <1>0, <1>1 DEF Looping
<1>4. Serving(t)'
  BY <1>0, <1>1, <1>2 DEF Serving
<1>5. CASE Dev!Finish(t)
  <2>1. /\ busy'[t] = FALSE /\ req' = req /\ buf' = buf
    BY <1>0, <1>5 DEF Dev!Finish, StateTypes
  <2> QED BY <1>0, <1>1, <1>3, <1>4, <2>1 DEF Handler, Calling
<1>6. ASSUME NEW n \in 1 .. Capacity, Dev!Transfer(t, n) PROVE Handler(t)'
  <2>1. /\ done'[t] = done[t] + n /\ req' = req /\ busy' = busy
        /\ done[t] + n <= req[t].buf_len
        /\ req[t].offset + req[t].buf_len <= Capacity
    BY <1>6, TransferFacts
  <2>2. CASE pc[t] = "read_ret"
    <3>1. /\ DOMAIN buf'[t] = DOMAIN buf[t]
          /\ \A i \in DOMAIN buf[t] :
               buf'[t][i] = IF done[t] <= i /\ i < done[t] + n
                            THEN medium[req[t].offset + i] ELSE buf[t][i]
      BY <1>6, <2>2, TransferFacts
    <3>2. /\ DOMAIN buf[t] = 0 .. req[t].buf_len - 1 /\ req[t].offset \in Nat
          /\ \A i \in DOMAIN buf[t] : buf[t][i] \in Cells
          /\ req[t].buf_len \in Nat
      BY <1>2, BusyFacts
    <3>3. \A i \in DOMAIN buf[t] : req[t].offset + i \in Lbas
      BY <2>1, <3>2, ScsiAssumption DEF Lbas
    <3>4. \A i \in DOMAIN buf[t] : buf'[t][i] \in Cells
      BY <1>0, <3>1, <3>2, <3>3 DEF StateTypes
    <3>5. buf'[t] = [i \in DOMAIN buf[t] |-> buf'[t][i]]
      <4>1. req[t].op = "read"
        BY <1>2, <2>2, BusyFacts
      <4> QED BY <1>0, <1>6, <3>2, <4>1 DEF Dev!Transfer, StateTypes
    <3>6. req[t].buf_len = ReadLength(cmd[t])
      BY <1>0, <2>2 DEF Calling
    <3>7. buf'[t] \in [0 .. ReadLength(cmd[t]) - 1 -> Cells]
      BY <3>2, <3>4, <3>5, <3>6
    <3>8. Calling(t)'
      BY <1>0, <1>1, <2>1, <2>2, <3>7 DEF Calling
    <3> QED BY <1>3, <1>4, <3>8 DEF Handler
  <2>3. CASE pc[t] # "read_ret"
    <3>1. buf' = buf
      BY <1>6, <2>3, TransferFacts
    <3>2. Calling(t)'
      BY <1>0, <1>1, <2>1, <2>3, <3>1 DEF Calling
    <3> QED BY <1>3, <1>4, <3>2 DEF Handler
  <2> QED BY <2>2, <2>3
<1> QED BY <1>5, <1>6 DEF LibraryStep

(* What the handler does when the library has returned. *)
LEMMA OwnReturn ==
  ASSUME HandlerInv, NEW t \in Threads,
         \/ OutOfMemory(t) \/ ReadFails(t) \/ ReadDone(t) \/ Match(t) \/ Miscompare(t)
         \/ WriteFails(t) \/ WriteDone(t) \/ WriteNoPage(t)
  PROVE  Handler(t)'
<1>0. StateTypes /\ Serving(t) /\ Looping(t) /\ Calling(t)
  BY DEF HandlerInv, Handler
<1>1. /\ UNCHANGED library /\ cmd' = cmd /\ out' = out /\ offset' = offset /\ tl' = tl
  BY DEF OutOfMemory, ReadFails, ReadDone, Match, Miscompare, WriteFails, WriteDone,
         WriteNoPage
<1>2. busy' = busy /\ ~busy[t] /\ pc[t] \in {"read_call", "read_ret", "write_ret"}
  <2>1. pc[t] \in {"read_call", "read_ret", "write_ret"} /\ (pc[t] = "read_call" \/ ~busy[t])
    BY DEF OutOfMemory, ReadFails, ReadDone, Match, Miscompare, WriteFails, WriteDone,
           WriteNoPage, Returned
  <2> QED BY <1>0, <1>1, <2>1 DEF Serving, RetLabels, library
<1>3. \/ pc'[t] = "end"
      \/ pc'[t] = "write_call" /\ cmd[t].op = "COMPARE_AND_WRITE"
      \/ pc'[t] = "read_call" /\ cmd[t].op = "WRITE_VERIFY"
  BY <1>0 DEF OutOfMemory, ReadFails, ReadDone, Match, Miscompare, WriteFails, WriteDone,
              WriteNoPage, Goto, AfterWrite, StateTypes
<1>4. Serving(t)'
  BY <1>0, <1>1, <1>2, <1>3 DEF Serving, ReadLabels, WriteLabels, Read, Written
<1>5. Looping(t)'
  BY <1>3 DEF Looping, SameLabels
<1>6. Calling(t)'
  BY <1>2, <1>3 DEF Calling
<1> QED BY <1>4, <1>5, <1>6 DEF Handler

(* ORWRITE merges buffers of the same length. *)
LEMMA OwnMerge ==
  ASSUME HandlerInv, NEW t \in Threads, MergeOr(t)
  PROVE  Handler(t)'
<1>0. StateTypes /\ Serving(t) /\ Looping(t) /\ Calling(t)
  BY DEF HandlerInv, Handler
<1>1. /\ pc[t] = "read_ret" /\ ~busy[t] /\ pc'[t] = "write_call" /\ cmd' = cmd
      /\ cmd[t].op = "ORWRITE" /\ busy' = busy
      /\ out'[t] = [i \in DOMAIN out[t] |-> Or(out[t][i], buf[t][i])]
  BY <1>0 DEF MergeOr, Returned, Goto, library, StateTypes
<1>2. cmd[t] \in Commands(t) /\ out[t] = cmd[t].out
  BY <1>0, <1>1 DEF Serving, ReadLabels
<1>3. /\ DOMAIN out[t] = 0 .. Length(cmd[t].out) - 1
      /\ \A i \in DOMAIN out[t] : out[t][i] \in SUBSET Bits
      /\ ReadLength(cmd[t]) = Length(cmd[t].out)
  BY <1>1, <1>2, CommandBuffers, ReadLengthFacts
<1>4. \A i \in DOMAIN out[t] : buf[t][i] \in Cells
  BY <1>0, <1>1, <1>3 DEF Calling
<1>5. \A i \in DOMAIN out[t] : out'[t][i] \in Cells
  BY <1>1, <1>3, <1>4, OrFacts
<1>6. Serving(t)'
  BY <1>1, <1>2, <1>5 DEF Serving, ReadLabels, WriteLabels, Written
<1>7. Looping(t)' /\ Calling(t)'
  BY <1>1 DEF Looping, Calling, SameLabels
<1> QED BY <1>6, <1>7 DEF Handler

(* WRITE SAME goes to its next block, or ends. *)
LEMMA OwnSameReturns ==
  ASSUME HandlerInv, NEW t \in Threads, SameReturns(t)
  PROVE  Handler(t)'
<1>0. StateTypes /\ Serving(t) /\ Looping(t) /\ Calling(t)
  BY DEF HandlerInv, Handler
<1>1. /\ pc[t] = "same_ret" /\ ~busy[t] /\ busy' = busy /\ cmd' = cmd /\ out' = out
      /\ offset'[t] = offset[t] + 1 /\ tl'[t] = tl[t] - 1
      /\ pc'[t] = IF tl[t] - 1 > 0 THEN "same_call" ELSE "end"
  BY <1>0 DEF SameReturns, Returned, Goto, library, StateTypes
<1>2. offset[t] \in Int /\ tl[t] \in Int
  BY <1>0 DEF StateTypes
<1>3. cmd[t] \in Commands(t)
  BY <1>0, <1>1 DEF Serving
<1>4. cmd[t].lba \in Int /\ cmd[t].tl \in Int
  BY <1>3, CommandBuffers
<1>5. Serving(t)'
  BY <1>0, <1>1 DEF Serving, ReadLabels, WriteLabels
<1>6. Looping(t)'
  BY <1>0, <1>1, <1>2, <1>4 DEF Looping, SameLabels
<1>7. Calling(t)'
  BY <1>1 DEF Calling
<1> QED BY <1>5, <1>6, <1>7 DEF Handler

(* The answer ends a command. *)
LEMMA OwnAnswer ==
  ASSUME HandlerInv, NEW t \in Threads, Answer(t)
  PROVE  Handler(t)'
<1>0. StateTypes /\ Serving(t) /\ Looping(t) /\ Calling(t)
  BY DEF HandlerInv, Handler
<1>1. /\ pc[t] = "end" /\ pc'[t] = "idle" /\ cmd'[t] = NoCommand /\ out'[t] = << >>
      /\ busy' = busy
  BY <1>0 DEF Answer, StateTypes
<1>2. ~busy[t]
  BY <1>0, <1>1 DEF Serving, RetLabels
<1> QED BY <1>1, <1>2 DEF Handler, Serving, Looping, Calling, ReadLabels, WriteLabels, SameLabels

(* HandlerInv is inductive. *)
LEMMA HandlerStep ==
  ASSUME HandlerInv, NEW t \in Threads,
         Step(t) \/ \E c \in Commands(t) : Receive(t, c)
  PROVE  HandlerInv'
<1>1. StateTypes'
  BY KeepsTypes
<1>2. Handler(t)'
  BY OwnReceive, OwnCall, OwnLibrary, OwnReturn, OwnMerge, OwnSameReturns, OwnAnswer DEF Step
<1>3. \A u \in Threads \ {t} : Handler(u)'
  BY OtherThreads, OthersKeep DEF HandlerInv
<1> QED BY <1>1, <1>2, <1>3 DEF HandlerInv

(* No worker has a command at first. *)
LEMMA HandlerInit == Init => HandlerInv
<1> SUFFICES ASSUME Init PROVE HandlerInv
  OBVIOUS
<1>1. Zero \in Cells
  BY DEF Cells, Blocks, Zero
<1>2. StateTypes
  BY <1>1, ScsiAssumption DEF Init, Dev!Init, StateTypes, Lbas, Labels, Results, SenseKeys
<1>3. ASSUME NEW t \in Threads PROVE Handler(t)
  <2>1. pc[t] = "idle" /\ cmd[t] = NoCommand /\ out[t] = << >> /\ busy[t] = FALSE
    BY <1>3 DEF Init, Dev!Init
  <2> QED BY <2>1 DEF Handler, Serving, Looping, Calling, ReadLabels, WriteLabels, SameLabels
<1> QED BY <1>2, <1>3 DEF HandlerInv

(* A step that changes nothing. *)
LEMMA HandlerStutter == HandlerInv /\ UNCHANGED vars => HandlerInv'
<1> SUFFICES ASSUME HandlerInv, UNCHANGED vars PROVE HandlerInv'
  OBVIOUS
<1>1. StateTypes'
  BY DEF HandlerInv, StateTypes, vars
<1>2. \A u \in Threads : Same(u)
  BY DEF Same, vars
<1> QED BY <1>1, <1>2, OthersKeep DEF HandlerInv

(* Every step keeps the types and the place of each handler. *)
LEMMA HandlerNext == HandlerInv /\ [Next]_vars => HandlerInv'
<1> SUFFICES ASSUME HandlerInv, [Next]_vars PROVE HandlerInv'
  OBVIOUS
<1>1. CASE Next
  <2>1. PICK t \in Threads : Step(t) \/ \E c \in Commands(t) : Receive(t, c)
    BY <1>1 DEF Next
  <2> QED BY <2>1, HandlerStep
<1>2. CASE UNCHANGED vars
  BY <1>2, HandlerStutter
<1> QED BY <1>1, <1>2

(* The invariant contains the types that the run checks. *)
LEMMA HandlerTypes == HandlerInv => ScsiTypeOK
<1> SUFFICES ASSUME HandlerInv PROVE ScsiTypeOK
  OBVIOUS
<1>1. \A a \in 0 .. Capacity - 1 : medium[a] \in Cells
  BY DEF HandlerInv, StateTypes, Lbas
<1>2. ASSUME NEW t \in Threads
      PROVE  /\ cmd[t] \in Commands(t) \cup {NoCommand}
             /\ \A i \in DOMAIN out[t] : out[t][i] \in Cells
             /\ busy[t] => pc[t] \in {"read_ret", "write_ret", "same_ret"}
  BY <1>2 DEF HandlerInv, Handler, Serving, RetLabels
<1>3. ASSUME NEW t \in Threads
      PROVE  /\ pc[t] \in Labels /\ sense[t] \in SenseKeys
             /\ offset[t] \in 0 .. 2 * Capacity /\ tl[t] \in 0 .. Capacity
  BY <1>3 DEF HandlerInv, StateTypes
<1> QED BY <1>1, <1>2, <1>3 DEF ScsiTypeOK

(* The variables of bs_simpleOSD_request keep their types, whatever        *)
(* commands come and whatever fails: the unsigned count of WRITE_SAME      *)
(* never passes zero, and no thread waits for a call it did not make.      *)
THEOREM ScsiTypes == Spec => []ScsiTypeOK
<1>1. Spec => []HandlerInv
  BY HandlerInit, HandlerNext, PTL DEF Spec
<1> QED BY <1>1, HandlerTypes, PTL

-----------------------------------------------------------------------------
(* On a LUN that holds a file system.                                      *)

(* What is known of another worker's buffer does not depend on this one. *)
LEMMA OthersKnow ==
  ASSUME NEW u \in Threads, Same(u), KnownBy(u)
  PROVE  KnownBy(u)'
BY DEF KnownBy, Same, Arrived, Succeeded

(* A call on a formatted medium. *)
LEMMA OwnKnowsCall ==
  ASSUME HandlerInv, Known, NEW t \in Threads,
         CallRead(t) \/ CallWrite(t) \/ CallSame(t)
  PROVE  KnownBy(t)' /\ medium' = medium /\ formatted' = TRUE
<1>0. StateTypes /\ KnownBy(t) /\ formatted = TRUE /\ Handler(t) /\ Handler(t)'
  BY OwnCall DEF HandlerInv, Known
<1>1. CASE CallRead(t)
  <2> DEFINE b == [i \in 0 .. ReadLength(cmd[t]) - 1 |-> Junk]
  <2>1. Call(t, "read", cmd[t].lba, b, "read_ret") /\ out' = out /\ pc[t] = "read_call"
    BY <1>1 DEF CallRead
  <2>2. cmd[t] \in Commands(t)
    BY <1>0, <2>1 DEF Handler, Serving
  <2>3. b \in [0 .. ReadLength(cmd[t]) - 1 -> {Junk}] /\ ReadLength(cmd[t]) \in Nat
    BY <2>2, ReadLengthFacts
  <2>4. Length(b) = ReadLength(cmd[t])
    BY <2>3, LengthOf
  <2>5. Length(b) = 0 => DOMAIN b = {}
    BY <2>3, <2>4
  <2> HIDE DEF b
  <2>6. /\ pc'[t] = "read_ret" /\ done'[t] = 0 /\ buf'[t] = b
        /\ req'[t] = [op |-> "read", offset |-> cmd[t].lba, buf_len |-> Length(b)]
        /\ medium' = medium
    BY <1>0, <2>1, CallFacts
  <2>7. formatted' = TRUE /\ (ret'[t] = "OSD_SUCCESS" => Length(b) = 0 /\ ~busy'[t])
    BY <1>0, <2>1, FormattedCall
  <2>8. \A i \in Arrived(t)' : FALSE
    BY <2>5, <2>6, <2>7 DEF Arrived, Succeeded
  <2>9. Succeeded(t)' => req'[t].buf_len = 0
    BY <2>6, <2>7 DEF Succeeded
  <2> QED BY <1>0, <2>1, <2>6, <2>7, <2>8, <2>9 DEF KnownBy
<1>2. CASE CallWrite(t)
  <2>1. Call(t, "write", cmd[t].lba, out[t], "write_ret") /\ out' = out /\ pc[t] = "write_call"
    BY <1>2 DEF CallWrite
  <2>2. /\ pc'[t] = "write_ret" /\ medium' = medium
        /\ req'[t] = [op |-> "write", offset |-> cmd[t].lba, buf_len |-> Length(out[t])]
    BY <1>0, <2>1, CallFacts
  <2>3. formatted' = TRUE /\ (ret'[t] = "OSD_SUCCESS" => Length(out[t]) = 0 /\ ~busy'[t])
    BY <1>0, <2>1, FormattedCall
  <2>4. Succeeded(t)' => req'[t].buf_len = 0
    BY <2>2, <2>3 DEF Succeeded
  <2> QED BY <1>0, <2>1, <2>2, <2>3, <2>4 DEF KnownBy
<1>3. CASE CallSame(t)
  <2>1. PICK b : b = out'[t]
    OBVIOUS
  <2>2. /\ pc[t] = "same_call" /\ Call(t, "write", offset[t], b, "same_ret")
        /\ out' = IF cmd[t].bit = "stamp" THEN [out EXCEPT ![t][0] = Stamp(@, offset[t])]
                                          ELSE out
    BY <1>3, <2>1 DEF CallSame
  <2>3. /\ pc'[t] = "same_ret" /\ medium' = medium
        /\ req'[t] = [op |-> "write", offset |-> offset[t], buf_len |-> Length(b)]
    BY <1>0, <2>2, CallFacts
  <2>4. /\ formatted' = TRUE
        /\ Succeeded(t)' => req'[t].buf_len = 0
    <3>1. formatted' = TRUE /\ (ret'[t] = "OSD_SUCCESS" => Length(b) = 0 /\ ~busy'[t])
      BY <1>0, <2>2, FormattedCall
    <3> QED BY <2>3, <3>1 DEF Succeeded
  <2>5. offset[t] \in 0 .. 2 * Capacity /\ DOMAIN out = Threads
    BY <1>0 DEF StateTypes
  <2>6. Stamp(out[t][0], offset[t]) \in Blocks
    BY <2>5, StampFacts
  <2>7. \A i \in DOMAIN out'[t] : out'[t][i] \in Blocks
    BY <1>0, <2>2, <2>5, <2>6 DEF KnownBy
  <2> QED BY <2>3, <2>4, <2>7 DEF KnownBy
<1> QED BY <1>1, <1>2, <1>3

(* The library brings blocks of the medium, and writes the blocks it was   *)
(* given.                                                                  *)
LEMMA OwnKnowsLibrary ==
  ASSUME HandlerInv, Known, NEW t \in Threads, LibraryStep(t)
  PROVE  KnownBy(t)' /\ medium' \in [Lbas -> Blocks] /\ formatted' = TRUE
<1>0. /\ StateTypes /\ KnownBy(t) /\ formatted = TRUE /\ Handler(t)
      /\ medium \in [Lbas -> Blocks]
  BY DEF HandlerInv, Known
<1>1. pc' = pc /\ out' = out /\ cmd' = cmd
  BY DEF LibraryStep
<1>2. busy[t] /\ pc[t] \in RetLabels
  BY <1>0 DEF LibraryStep, Dev!Transfer, Dev!Finish, Handler, Serving
<1>3. /\ req[t].offset \in Nat /\ req[t].buf_len \in Nat /\ done[t] \in Nat
      /\ pc[t] # "read_ret" => buf[t] = out[t]
      /\ DOMAIN buf[t] = 0 .. req[t].buf_len - 1
      /\ req[t].offset + req[t].buf_len <= Capacity
  BY <1>0, <1>2, BusyFacts DEF Handler, Calling
<1>4. pc[t] # "idle"
  BY <1>2 DEF RetLabels
<1>5. CASE Dev!Finish(t)
  <2>1. /\ busy'[t] = FALSE /\ req' = req /\ buf' = buf /\ medium' = medium
        /\ formatted' = formatted
        /\ done[t] = req[t].buf_len \/ ret'[t] = "OSD_ERROR"
    BY <1>0, <1>5 DEF Dev!Finish, StateTypes
  <2>2. \A i \in Arrived(t)' : i \in Arrived(t)
    BY <1>2, <1>3, <2>1 DEF Arrived, Succeeded
  <2> QED BY <1>0, <1>1, <1>3, <2>1, <2>2 DEF KnownBy
<1>6. ASSUME NEW n \in 1 .. Capacity, Dev!Transfer(t, n)
      PROVE  KnownBy(t)' /\ medium' \in [Lbas -> Blocks] /\ formatted' = TRUE
  <2>1. /\ done'[t] = done[t] + n /\ req' = req /\ busy' = busy /\ ret' = ret
        /\ done[t] + n <= req[t].buf_len /\ formatted' = formatted /\ n \in Nat
    BY <1>6, TransferFacts
  <2>2. CASE pc[t] = "read_ret"
    <3>1. /\ medium' = medium
          /\ \A i \in DOMAIN buf[t] :
               buf'[t][i] = IF done[t] <= i /\ i < done[t] + n
                            THEN medium[req[t].offset + i] ELSE buf[t][i]
      BY <1>6, <2>2, TransferFacts
    <3>2. Arrived(t)' = 0 .. done[t] + n - 1 /\ Arrived(t) = 0 .. done[t] - 1
      <4>1. busy'[t] /\ busy[t]
        BY <1>2, <2>1
      <4>2. Arrived(t)' = 0 .. done'[t] - 1 /\ Arrived(t) = 0 .. done[t] - 1
        BY <4>1, Zenon DEF Arrived
      <4>3. done'[t] = done[t] + n
        BY <2>1
      <4>4. done'[t] - 1 = done[t] + n - 1
        BY <1>3, <4>3
      <4> QED BY <4>2, <4>4
    <3>3. \A i \in Arrived(t)' : buf'[t][i] \in Blocks
      <4> SUFFICES ASSUME NEW i \in 0 .. done[t] + n - 1 PROVE buf'[t][i] \in Blocks
        BY <3>2
      <4>0. /\ i \in Nat /\ i <= done[t] + n - 1 /\ i <= req[t].buf_len - 1
            /\ done[t] \in Nat
        BY <1>3, <2>1
      <4>1. i \in DOMAIN buf[t] /\ req[t].offset + i \in Lbas
        BY <1>3, <4>0, CapacityNat, SMTT(30) DEF Lbas
      <4>2. CASE i < done[t]
        <5>1. i \in Arrived(t)
          BY <1>3, <3>2, <4>2
        <5> QED BY <1>0, <1>3, <2>2, <3>1, <4>1, <4>2, <5>1 DEF KnownBy
      <4>3. CASE ~(i < done[t])
        BY <1>0, <2>1, <3>1, <4>0, <4>1, <4>3
      <4> QED BY <4>2, <4>3
    <3> QED BY <1>0, <1>1, <1>3, <2>1, <2>2, <3>1, <3>3 DEF KnownBy
  <2>3. CASE pc[t] # "read_ret"
    <3>1. /\ DOMAIN medium' = Lbas
          /\ \A a \in Lbas :
               medium'[a] = IF /\ req[t].offset + done[t] <= a
                               /\ a < req[t].offset + done[t] + n
                            THEN buf[t][a - req[t].offset] ELSE medium[a]
      BY <1>6, <2>3, TransferFacts
    <3>2. \A a \in Lbas : medium'[a] \in Blocks
      <4> SUFFICES ASSUME NEW a \in Lbas PROVE medium'[a] \in Blocks
        OBVIOUS
      <4>1. a \in Int /\ medium[a] \in Blocks
        BY <1>0 DEF Lbas
      <4>2. CASE req[t].offset + done[t] <= a /\ a < req[t].offset + done[t] + n
        <5>1. a - req[t].offset \in DOMAIN buf[t]
          BY <1>3, <2>1, <4>1, <4>2, SMTT(30)
        <5>2. buf[t][a - req[t].offset] \in Blocks
          BY <1>0, <1>3, <1>4, <2>3, <5>1 DEF KnownBy
        <5> QED BY <3>1, <4>2, <5>2
      <4> QED BY <3>1, <4>1, <4>2
    <3>3. medium' \in [Lbas -> Cells]
      BY KeepsTypes DEF Step, StateTypes
    <3>4. medium' = [a \in Lbas |-> medium'[a]]
      BY <3>3
    <3> QED BY <1>0, <1>1, <1>3, <2>1, <2>3, <3>2, <3>4 DEF KnownBy
  <2> QED BY <2>2, <2>3
<1> QED BY <1>5, <1>6 DEF LibraryStep

(* Buffers and medium hold known blocks, over every step of a worker. *)
LEMMA KnownStep ==
  ASSUME HandlerInv, Known, NEW t \in Threads,
         Step(t) \/ \E c \in Commands(t) : Receive(t, c)
  PROVE  Known'
<1> DEFINE Goal == KnownBy(t)' /\ medium' \in [Lbas -> Blocks] /\ formatted' = TRUE
<1>0. /\ StateTypes /\ KnownBy(t) /\ formatted = TRUE /\ Handler(t)
      /\ medium \in [Lbas -> Blocks]
  BY DEF HandlerInv, Known
<1>1. ASSUME NEW c \in Commands(t), Receive(t, c) PROVE Goal
  <2>1. /\ pc'[t] = Entry(c) /\ out'[t] = c.out /\ medium' = medium
        /\ formatted' = formatted
    BY <1>0, <1>1 DEF Receive, library, StateTypes
  <2>2. \A i \in DOMAIN c.out : c.out[i] \in Blocks
    BY CommandBuffers DEF Blocks
  <2>3. Entry(c) \in {"end", "read_call", "write_call", "same_call"}
    BY EntryFacts
  <2> QED BY <1>0, <2>1, <2>2, <2>3 DEF KnownBy, RetLabels
<1>2. ASSUME CallRead(t) \/ CallWrite(t) \/ CallSame(t) PROVE Goal
  BY <1>0, <1>2, OwnKnowsCall
<1>3. ASSUME LibraryStep(t) PROVE Goal
  BY <1>3, OwnKnowsLibrary
<1>4. ASSUME OutOfMemory(t) \/ ReadFails(t) \/ ReadDone(t) \/ Match(t) \/ Miscompare(t) PROVE Goal
  <2>1. /\ pc[t] # "idle" /\ pc'[t] \in {"end", "write_call"} /\ out' = out
        /\ medium' = medium /\ formatted' = formatted
    BY <1>0, <1>4 DEF OutOfMemory, ReadFails, ReadDone, Match, Miscompare, Goto, Returned,
                      library, StateTypes
  <2> QED BY <1>0, <2>1 DEF KnownBy, RetLabels
<1>5. ASSUME WriteFails(t) \/ WriteDone(t) \/ WriteNoPage(t) PROVE Goal
  <2>1. /\ pc[t] # "idle" /\ pc'[t] \in {"end", "read_call"} /\ out' = out
        /\ medium' = medium /\ formatted' = formatted
    BY <1>0, <1>5 DEF WriteFails, WriteDone, WriteNoPage, AfterWrite, Goto, Returned,
                      library, StateTypes
  <2> QED BY <1>0, <2>1 DEF KnownBy, RetLabels
<1>6. ASSUME MergeOr(t) PROVE Goal
  <2>1. /\ pc[t] = "read_ret" /\ ~busy[t] /\ Succeeded(t) /\ pc'[t] = "write_call"
        /\ cmd[t].op = "ORWRITE" /\ medium' = medium /\ formatted' = formatted
        /\ out'[t] = [i \in DOMAIN out[t] |-> Or(out[t][i], buf[t][i])]
    BY <1>0, <1>6 DEF MergeOr, Returned, Goto, library, StateTypes
  <2>2. cmd[t] \in Commands(t) /\ out[t] = cmd[t].out
    BY <1>0, <2>1 DEF Handler, Serving, ReadLabels
  <2>3. /\ DOMAIN out[t] = 0 .. Length(cmd[t].out) - 1
        /\ \A i \in DOMAIN out[t] : out[t][i] \in SUBSET Bits
        /\ ReadLength(cmd[t]) = Length(cmd[t].out)
    BY <2>1, <2>2, CommandBuffers, ReadLengthFacts
  <2>4. DOMAIN buf[t] = DOMAIN out[t]
    BY <1>0, <2>1, <2>3 DEF Handler, Calling
  <2>5. \A i \in DOMAIN out[t] : buf[t][i] \in Blocks
    BY <1>0, <2>1, <2>4 DEF KnownBy, Arrived
  <2>6. \A i \in DOMAIN out[t] : buf[t][i] \in Cells /\ buf[t][i] # Junk
    BY <2>5, ScsiAssumption DEF Cells
  <2>7. \A i \in DOMAIN out[t] : out'[t][i] \in Blocks
    BY <2>1, <2>3, <2>6, OrFacts
  <2> QED BY <1>0, <2>1, <2>7 DEF KnownBy, RetLabels
<1>7. ASSUME SameReturns(t) PROVE Goal
  <2>1. /\ pc[t] # "idle" /\ pc'[t] \in {"end", "same_call"} /\ out' = out
        /\ medium' = medium /\ formatted' = formatted
    BY <1>0, <1>7 DEF SameReturns, Goto, Returned, library, StateTypes
  <2> QED BY <1>0, <2>1 DEF KnownBy, RetLabels
<1>8. ASSUME Answer(t) PROVE Goal
  <2>1. pc'[t] = "idle" /\ medium' = medium /\ formatted' = formatted
    BY <1>0, <1>8 DEF Answer, StateTypes
  <2> QED BY <1>0, <2>1 DEF KnownBy, RetLabels
<1> HIDE DEF Goal
<1>9. Goal
  BY <1>1, <1>2, <1>3, <1>4, <1>5, <1>6, <1>7, <1>8 DEF Step
<1>10. \A u \in Threads \ {t} : KnownBy(u)'
  BY <1>0, OtherThreads, OthersKnow DEF Known
<1> QED BY <1>9, <1>10 DEF Known, Goal

-----------------------------------------------------------------------------
(* A command alone on the LUN.                                             *)

(* The medium with blocks b from lba on, block by block. *)
LEMMA WithFacts ==
  ASSUME NEW m, DOMAIN m = Lbas, NEW lba \in Nat, NEW b
  PROVE  /\ With(m, lba, b) = [a \in Lbas |-> With(m, lba, b)[a]]
         /\ \A a \in Lbas :
              With(m, lba, b)[a] = IF a - lba \in DOMAIN b THEN b[a - lba] ELSE m[a]
BY DEF With

(* The cases of Effect. *)
LEMMA EffectCases ==
  ASSUME NEW c, NEW m
  PROVE  /\ c.op \in WriteOps => Effect(c, m) = With(m, c.lba, c.out)
         /\ c.op = "COMPARE_AND_WRITE" =>
              Effect(c, m) = IF Holds(m, c.lba, c.cmp) THEN With(m, c.lba, c.out) ELSE m
         /\ c.op = "WRITE_SAME" =>
              Effect(c, m) = With(m, c.lba, [i \in 0 .. c.tl - 1 |->
                               IF c.bit = "stamp" THEN Stamp(c.out[0], c.lba + i)
                                                  ELSE c.out[0]])
         /\ c.op \in {"READ", "VERIFY"} \cup ImmediateOps => Effect(c, m) = m
<1> USE DEF WriteOps, ImmediateOps
<1>1. c.op \in WriteOps => Effect(c, m) = With(m, c.lba, c.out)
  BY Zenon DEF Effect
<1>3. c.op = "COMPARE_AND_WRITE" =>
        Effect(c, m) = IF Holds(m, c.lba, c.cmp) THEN With(m, c.lba, c.out) ELSE m
  BY Zenon DEF Effect
<1>4. c.op = "WRITE_SAME" =>
        Effect(c, m) = With(m, c.lba, [i \in 0 .. c.tl - 1 |->
                         IF c.bit = "stamp" THEN Stamp(c.out[0], c.lba + i) ELSE c.out[0]])
  BY Zenon DEF Effect
<1>5. c.op \in {"READ", "VERIFY"} \cup ImmediateOps => Effect(c, m) = m
  BY Zenon DEF Effect
<1> QED BY <1>1, <1>3, <1>4, <1>5

(* ORWRITE, block by block. *)
LEMMA OrEffect ==
  ASSUME NEW c, c.op = "ORWRITE", NEW m, DOMAIN m = Lbas
  PROVE  /\ Effect(c, m) = [a \in Lbas |-> Effect(c, m)[a]]
         /\ \A a \in Lbas :
              Effect(c, m)[a] = IF a - c.lba \in DOMAIN c.out THEN m[a] \cup c.out[a - c.lba]
                                                              ELSE m[a]
<1>1. Effect(c, m) = [a \in DOMAIN m |->
                        IF a - c.lba \in DOMAIN c.out THEN m[a] \cup c.out[a - c.lba]
                                                      ELSE m[a]]
  BY Zenon DEF Effect, WriteOps
<1> QED BY <1>1

(* WRITE_SAME, block by block. *)
LEMMA SameEffect ==
  ASSUME NEW t \in Threads, NEW c \in Commands(t), c.op = "WRITE_SAME", NEW m, DOMAIN m = Lbas
  PROVE  /\ Effect(c, m) = [a \in Lbas |-> Effect(c, m)[a]]
         /\ \A a \in Lbas :
              Effect(c, m)[a] =
                IF c.lba <= a /\ a < c.lba + c.tl
                THEN IF c.bit = "stamp" THEN Stamp(c.out[0], a) ELSE c.out[0]
                ELSE m[a]
<1> DEFINE b == [i \in 0 .. c.tl - 1 |->
                   IF c.bit = "stamp" THEN Stamp(c.out[0], c.lba + i) ELSE c.out[0]]
<1>1. c.lba \in Nat /\ c.tl \in Nat
  BY CommandBuffers, CapacityNat
<1>2. Effect(c, m) = With(m, c.lba, b)
  BY EffectCases
<1>3. /\ DOMAIN b = 0 .. c.tl - 1
      /\ \A i \in 0 .. c.tl - 1 :
           b[i] = IF c.bit = "stamp" THEN Stamp(c.out[0], c.lba + i) ELSE c.out[0]
  OBVIOUS
<1> HIDE DEF b
<1>4. /\ Effect(c, m) = [a \in Lbas |-> Effect(c, m)[a]]
      /\ \A a \in Lbas :
           Effect(c, m)[a] = IF a - c.lba \in DOMAIN b THEN b[a - c.lba] ELSE m[a]
  BY <1>1, <1>2, WithFacts
<1>5. ASSUME NEW a \in Lbas
      PROVE  Effect(c, m)[a] =
               IF c.lba <= a /\ a < c.lba + c.tl
               THEN IF c.bit = "stamp" THEN Stamp(c.out[0], a) ELSE c.out[0]
               ELSE m[a]
  <2>1. a \in Int
    BY DEF Lbas
  <2>2. a - c.lba \in 0 .. c.tl - 1 <=> c.lba <= a /\ a < c.lba + c.tl
    BY <1>1, <2>1
  <2>3. c.lba + (a - c.lba) = a
    BY <1>1, <2>1
  <2> QED BY <1>3, <1>4, <2>2, <2>3
<1> QED BY <1>4, <1>5

(* Whatever the command, its effect is a medium. *)
LEMMA EffectDomain ==
  ASSUME NEW t \in Threads, NEW c \in Commands(t), NEW m \in [Lbas -> Blocks]
  PROVE  Effect(c, m) = [a \in Lbas |-> Effect(c, m)[a]]
<1>1. c.lba \in Nat /\ c.op \in ReadOps \cup WriteOps \cup ImmediateOps \cup {"WRITE_SAME"}
  BY CommandBuffers, CapacityNat
<1>2. With(m, c.lba, c.out) = [a \in Lbas |-> With(m, c.lba, c.out)[a]]
  BY <1>1, WithFacts
<1>3. m = [a \in Lbas |-> m[a]]
  OBVIOUS
<1>4. CASE c.op \in WriteOps
  <2>1. Effect(c, m) = With(m, c.lba, c.out)
    BY <1>4, EffectCases
  <2> QED BY <1>2, <2>1
<1>5. CASE c.op = "ORWRITE"
  BY <1>5, OrEffect
<1>6. CASE c.op = "COMPARE_AND_WRITE"
  <2>1. Effect(c, m) = With(m, c.lba, c.out) \/ Effect(c, m) = m
    BY <1>6, EffectCases, Zenon
  <2> QED BY <1>2, <1>3, <2>1
<1>7. CASE c.op = "WRITE_SAME"
  BY <1>7, SameEffect
<1>8. CASE c.op \in {"READ", "VERIFY"} \cup ImmediateOps
  BY <1>8, EffectCases
<1> QED BY <1>1, <1>4, <1>5, <1>6, <1>7, <1>8 DEF ReadOps

(* The command and the medium it found stay while it runs. *)
LEMMA SameWanted ==
  ASSUME NEW t \in Threads, cmd' = cmd, before' = before
  PROVE  Wanted(t)' = Wanted(t)
BY DEF Wanted

(* The blocks of a write under way are those the command asks for. *)
LEMMA WriteTarget ==
  ASSUME HandlerInv, NEW t \in Threads, Alone(t), pc[t] \in {"write_ret", "same_ret"},
         NEW i \in DOMAIN buf[t], req[t].offset + i \in Lbas
  PROVE  Wanted(t)[req[t].offset + i] = buf[t][i]
<1>0. Serving(t) /\ Looping(t) /\ Calling(t) /\ StateTypes
  BY DEF HandlerInv, Handler
<1>1. /\ cmd[t] \in Commands(t) /\ buf[t] = out[t] /\ DOMAIN buf[t] = 0 .. req[t].buf_len - 1
      /\ req[t].buf_len \in Nat /\ req[t].offset \in Nat
  BY BusyFacts DEF RetLabels
<1>2. DOMAIN before[t] = Lbas
  BY DEF Alone
<1>3. cmd[t].lba \in Nat /\ cmd[t].tl \in Nat /\ i \in Int
  BY <1>1, CommandBuffers, CapacityNat
<1>4. CASE pc[t] = "write_ret"
  <2>1. Wanted(t) = With(before[t], cmd[t].lba, out[t]) /\ req[t].offset = cmd[t].lba
    BY <1>0, <1>4 DEF Alone, Progress, Writing, Calling, WriteLabels
  <2>2. \A a \in Lbas : With(before[t], cmd[t].lba, out[t])[a] =
                          IF a - cmd[t].lba \in DOMAIN out[t] THEN out[t][a - cmd[t].lba]
                                                              ELSE before[t][a]
    BY <1>2, <1>3, WithFacts
  <2>3. (req[t].offset + i) - cmd[t].lba = i
    BY <1>3, <2>1
  <2> QED BY <1>1, <2>1, <2>2, <2>3
<1>5. CASE pc[t] = "same_ret"
  <2>1. /\ cmd[t].op = "WRITE_SAME" /\ req[t].offset = offset[t] /\ req[t].buf_len = 1
        /\ cmd[t].lba <= offset[t] /\ 0 < tl[t] /\ offset[t] + tl[t] = cmd[t].lba + cmd[t].tl
        /\ cmd[t].bit = "stamp" => out[t][0] = Stamp(cmd[t].out[0], offset[t])
        /\ cmd[t].bit # "stamp" => out[t] = cmd[t].out
    BY <1>0, <1>5 DEF Looping, Calling, SameLabels
  <2>2. offset[t] \in Nat /\ tl[t] \in Nat
    BY <1>0, CapacityNat DEF StateTypes
  <2>3. i = 0
    BY <1>1, <2>1
  <2>4. offset[t] < cmd[t].lba + cmd[t].tl /\ req[t].offset + i = offset[t]
    BY <1>3, <2>1, <2>2, <2>3
  <2>5. Wanted(t)[offset[t]] = IF cmd[t].bit = "stamp" THEN Stamp(cmd[t].out[0], offset[t])
                                                       ELSE cmd[t].out[0]
    BY <1>1, <1>2, <2>1, <2>4, SameEffect DEF Wanted
  <2> QED BY <1>1, <2>1, <2>3, <2>4, <2>5
<1> QED BY <1>4, <1>5

(* A call that has just been made has moved nothing, also when it has its  *)
(* result at once.                                                         *)
LEMMA NothingArrived ==
  ASSUME HandlerInv, Known, NEW t \in Threads,
         CallRead(t) \/ CallWrite(t) \/ CallSame(t)
  PROVE  \A i \in Arrived(t)' : FALSE
<1>0. Handler(t) /\ StateTypes /\ formatted = TRUE
  BY DEF HandlerInv, Known
<1>00. StateTypes
  BY <1>0
<1>1. cmd[t] \in Commands(t)
  BY <1>0 DEF CallRead, CallWrite, CallSame, Handler, Serving
<1>2. /\ DOMAIN cmd[t].out = 0 .. Length(cmd[t].out) - 1 /\ ReadLength(cmd[t]) \in Nat
      /\ cmd[t].op = "WRITE_SAME" => Length(cmd[t].out) = 1
  BY <1>1, CommandBuffers, ReadLengthFacts
<1>3. ASSUME NEW op \in {"read", "write"}, NEW at, NEW b, NEW label, Call(t, op, at, b, label),
             Length(b) = 0 => DOMAIN b = {}
      PROVE  \A i \in Arrived(t)' : FALSE
  <2>0. Call(t, op, at, b, label)
    BY <1>3
  <2>1. done'[t] = 0 /\ buf'[t] = b
    BY <1>00, <2>0 DEF Call, Dev!Accept, StateTypes
  <2>2. ret'[t] = "OSD_SUCCESS" => Length(b) = 0 /\ ~busy'[t]
    BY <1>0, <1>3, FormattedCall
  <2>3. ASSUME NEW i \in Arrived(t)' PROVE FALSE
    <3>1. CASE busy'[t]
      <4>1. i \in 0 .. 0 - 1
        BY <2>1, <2>3, <3>1 DEF Arrived
      <4> QED BY <4>1
    <3>2. CASE ~busy'[t]
      BY <1>3, <2>1, <2>2, <2>3, <3>2 DEF Arrived, Succeeded
    <3> QED BY <3>1, <3>2
  <2> QED BY <2>3
<1>4. CASE CallRead(t)
  <2> DEFINE b == [i \in 0 .. ReadLength(cmd[t]) - 1 |-> Junk]
  <2>1. Call(t, "read", cmd[t].lba, b, "read_ret")
    BY <1>4 DEF CallRead
  <2>2. b \in [0 .. ReadLength(cmd[t]) - 1 -> {Junk}]
    OBVIOUS
  <2>3. Length(b) = 0 => DOMAIN b = {}
    <3>1. Length(b) = ReadLength(cmd[t])
      BY <1>2, <2>2, LengthOf
    <3> QED BY <2>2, <3>1
  <2> HIDE DEF b
  <2> QED BY <1>3, <2>1, <2>3
<1>5. CASE CallWrite(t)
  <2>1. Call(t, "write", cmd[t].lba, out[t], "write_ret") /\ pc[t] = "write_call"
    BY <1>5 DEF CallWrite
  <2>2. DOMAIN out[t] = DOMAIN cmd[t].out
    BY <1>0, <2>1 DEF Handler, Serving
  <2>3. Length(out[t]) = 0 => DOMAIN out[t] = {}
    BY <1>2, <2>2 DEF Length
  <2> QED BY <1>3, <2>1, <2>3
<1>6. CASE CallSame(t)
  <2>1. PICK b : b = out'[t]
    OBVIOUS
  <2>2. Call(t, "write", offset[t], b, "same_ret") /\ pc[t] = "same_call"
    BY <1>6, <2>1 DEF CallSame
  <2>3. DOMAIN b = DOMAIN cmd[t].out /\ cmd[t].op = "WRITE_SAME"
    <3>0. pc'[t] = "same_ret" /\ cmd' = cmd
      <4>1. Call(t, "write", offset[t], b, "same_ret")
        BY <2>2
      <4> QED BY <1>00, <4>1, CallFacts, ZenonT(60)
    <3>1. Serving(t)' /\ pc'[t] = "same_ret" /\ cmd' = cmd
      BY <1>6, <3>0, OwnCall DEF Handler
    <3>2. DOMAIN out'[t] = DOMAIN cmd[t].out
      BY <3>1 DEF Serving
    <3>3. cmd[t].op = "WRITE_SAME"
      BY <1>0, <2>2 DEF Handler, Looping, SameLabels
    <3> QED BY <2>1, <3>2, <3>3
  <2>4. Length(b) = 1
    BY <1>2, <2>3 DEF Length
  <2> QED BY <1>3, <2>2, <2>4
<1> QED BY <1>4, <1>5, <1>6

(* Nobody interferes: a call of the library. *)
LEMMA AloneCall ==
  ASSUME HandlerInv, Known, NEW t \in Threads, Alone(t),
         CallRead(t) \/ CallWrite(t) \/ CallSame(t)
  PROVE  Progress(t)' /\ before' = before
<1>0. Handler(t) /\ StateTypes /\ formatted = TRUE /\ Progress(t)
  BY DEF HandlerInv, Known, Alone
<1>2. /\ medium' = medium /\ cmd' = cmd /\ offset' = offset /\ sense' = sense
      /\ before' = before
  BY DEF CallRead, CallWrite, CallSame, Call, Dev!Accept
<1>4. \/ pc[t] = "read_call" /\ pc'[t] = "read_ret" /\ out' = out
      \/ pc[t] = "write_call" /\ pc'[t] = "write_ret" /\ out' = out
      \/ pc[t] = "same_call" /\ pc'[t] = "same_ret"
  BY <1>0 DEF CallRead, CallWrite, CallSame, Call, Goto, StateTypes
<1>5. \A i \in Arrived(t)' : FALSE
  BY NothingArrived
<1>6. Wanted(t)' = Wanted(t)
  BY <1>2, SameWanted
<1>7. Within(t)' /\ Untouched(t)' /\ Verifying(t)' /\ NotYet(t)'
  BY <1>0, <1>2, <1>4, <1>6
     DEF Progress, Within, Untouched, Verifying, NotYet, ReadLabels, SameLabels
<1>8. Writing(t)'
  BY <1>0, <1>2, <1>4, <1>6 DEF Progress, Writing, WriteLabels
<1>9. Reading(t)' /\ Moved(t)'
  BY <1>5 DEF Reading, Moved
<1>10. Passed(t)'
  BY <1>0, <1>2, <1>4, <1>6 DEF Progress, Passed, SameLabels
<1>11. pc'[t] # "end"
  BY <1>4
<1> QED BY <1>2, <1>7, <1>8, <1>9, <1>10, <1>11 DEF Progress

(* Nobody interferes: a transfer brings or writes the bytes of the         *)
(* command's blocks.                                                       *)
LEMMA AloneLibrary ==
  ASSUME HandlerInv, Known, NEW t \in Threads, Alone(t), LibraryStep(t)
  PROVE  Progress(t)' /\ before' = before
<1>0. Handler(t) /\ StateTypes /\ Progress(t)
  BY DEF HandlerInv, Alone
<1>1. /\ pc' = pc /\ cmd' = cmd /\ out' = out /\ offset' = offset /\ sense' = sense
      /\ before' = before
  BY DEF LibraryStep
<1>2. busy[t] /\ pc[t] \in RetLabels
  BY <1>0 DEF LibraryStep, Dev!Transfer, Dev!Finish, Handler, Serving
<1>3. /\ req[t].offset \in Nat /\ req[t].buf_len \in Nat /\ done[t] \in Nat
      /\ DOMAIN buf[t] = 0 .. req[t].buf_len - 1
  BY <1>2, BusyFacts
<1>4. Wanted(t)' = Wanted(t)
  BY <1>1, SameWanted
<1>5. Arrived(t) = 0 .. done[t] - 1
  BY <1>2, Zenon DEF Arrived
<1>6. pc[t] # "end"
  BY <1>2 DEF RetLabels
<1>7. Writing(t)' /\ NotYet(t)'
  BY <1>0, <1>1, <1>4 DEF Progress, Writing, NotYet
<1>8. CASE Dev!Finish(t)
  <2>1. /\ busy'[t] = FALSE /\ req' = req /\ buf' = buf /\ medium' = medium
        /\ done[t] = req[t].buf_len \/ ret'[t] = "OSD_ERROR"
    BY <1>0, <1>8 DEF Dev!Finish, StateTypes
  <2>2. \A i \in Arrived(t)' : i \in Arrived(t)
    BY <1>3, <1>5, <2>1 DEF Arrived, Succeeded
  <2>3. Within(t)' /\ Untouched(t)' /\ Verifying(t)' /\ Passed(t)'
    BY <1>0, <1>1, <1>4, <2>1 DEF Progress, Within, Untouched, Verifying, Passed
  <2>4. Reading(t)'
    BY <1>0, <1>1, <2>1, <2>2 DEF Progress, Reading
  <2>5. Moved(t)'
    BY <1>0, <1>1, <1>4, <2>1, <2>2 DEF Progress, Moved
  <2> QED BY <1>1, <1>6, <1>7, <2>3, <2>4, <2>5 DEF Progress
<1>9. ASSUME NEW n \in 1 .. Capacity, Dev!Transfer(t, n)
      PROVE  Progress(t)' /\ before' = before
  <2>1. /\ done'[t] = done[t] + n /\ req' = req /\ busy' = busy /\ n \in Nat
        /\ done[t] + n <= req[t].buf_len /\ req[t].offset + req[t].buf_len <= Capacity
    BY <1>9, TransferFacts
  <2>2. Arrived(t)' = 0 .. done[t] + n - 1
    <3>1. busy'[t]
      BY <1>2, <2>1
    <3>2. Arrived(t)' = 0 .. done'[t] - 1
      BY <3>1, Zenon DEF Arrived
    <3>3. done'[t] - 1 = done[t] + n - 1
      BY <1>3, <2>1
    <3> QED BY <3>2, <3>3
  <2>3. CASE pc[t] = "read_ret"
    <3>1. /\ medium' = medium
          /\ \A i \in DOMAIN buf[t] :
               buf'[t][i] = IF done[t] <= i /\ i < done[t] + n
                            THEN medium[req[t].offset + i] ELSE buf[t][i]
      BY <1>9, <2>3, TransferFacts
    <3>2. Within(t)' /\ Untouched(t)' /\ Verifying(t)' /\ Passed(t)'
      BY <1>0, <1>1, <1>4, <3>1 DEF Progress, Within, Untouched, Verifying, Passed
    <3>3. req[t].offset = cmd[t].lba
      BY <1>0, <2>3 DEF Handler, Calling
    <3>4. \A i \in Arrived(t)' : buf'[t][i] = medium[cmd[t].lba + i]
      <4> SUFFICES ASSUME NEW i \in 0 .. done[t] + n - 1
                   PROVE  buf'[t][i] = medium[cmd[t].lba + i]
        BY <2>2
      <4>1. i \in Nat /\ i <= req[t].buf_len - 1 /\ i < done[t] + n
        BY <1>3, <2>1
      <4>2. i \in DOMAIN buf[t]
        BY <1>3, <4>1
      <4>3. CASE i < done[t]
        <5>1. i \in Arrived(t)
          BY <1>3, <1>5, <4>1, <4>3
        <5>2. buf[t][i] = medium[cmd[t].lba + i]
          BY <1>0, <2>3, <5>1 DEF Progress, Reading
        <5> QED BY <1>3, <3>1, <4>1, <4>2, <4>3, <5>2
      <4>4. CASE ~(i < done[t])
        BY <1>3, <3>1, <3>3, <4>1, <4>2, <4>4
      <4> QED BY <4>3, <4>4
    <3>5. Reading(t)'
      BY <1>1, <3>1, <3>4 DEF Reading
    <3>6. Moved(t)'
      BY <1>1, <2>3 DEF Moved
    <3> QED BY <1>1, <1>6, <1>7, <3>2, <3>5, <3>6 DEF Progress
  <2>4. CASE pc[t] # "read_ret"
    <3>1. /\ \A a \in Lbas :
               medium'[a] = IF /\ req[t].offset + done[t] <= a
                               /\ a < req[t].offset + done[t] + n
                            THEN buf[t][a - req[t].offset] ELSE medium[a]
      BY <1>9, <2>4, TransferFacts
    <3>2. pc[t] \in {"write_ret", "same_ret"}
      BY <1>2, <2>4 DEF RetLabels
    <3>3. ASSUME NEW a \in Lbas
          PROVE  /\ medium'[a] \in {medium[a], Wanted(t)[a]}
                 /\ /\ req[t].offset + done[t] <= a
                    /\ a < req[t].offset + done[t] + n
                    => medium'[a] = Wanted(t)[a]
      <4>1. a \in Int
        BY DEF Lbas
      <4>2. CASE req[t].offset + done[t] <= a /\ a < req[t].offset + done[t] + n
        <5>1. a - req[t].offset \in DOMAIN buf[t] /\ req[t].offset + (a - req[t].offset) = a
          BY <1>3, <2>1, <4>1, <4>2, SMTT(30)
        <5>2. Wanted(t)[a] = buf[t][a - req[t].offset]
          BY <3>2, <5>1, WriteTarget
        <5> QED BY <3>1, <4>2, <5>2
      <4> QED BY <3>1, <4>2
    <3>4. Within(t)'
      BY <1>0, <1>1, <1>4, <3>3 DEF Progress, Within
    <3>5. Passed(t)'
      BY <1>0, <1>1, <1>4, <3>3 DEF Progress, Passed
    <3>6. \A i \in Arrived(t)' : medium'[req[t].offset + i] = Wanted(t)[req[t].offset + i]
      <4> SUFFICES ASSUME NEW i \in 0 .. done[t] + n - 1
                   PROVE  medium'[req[t].offset + i] = Wanted(t)[req[t].offset + i]
        BY <2>2
      <4>1. i \in Nat /\ i <= req[t].buf_len - 1 /\ i < done[t] + n
        BY <1>3, <2>1
      <4>2. req[t].offset + i \in Lbas
        BY <1>3, <2>1, <4>1, CapacityNat, SMTT(30) DEF Lbas
      <4>3. CASE i < done[t]
        <5>1. i \in Arrived(t)
          BY <1>3, <1>5, <4>1, <4>3
        <5>2. medium[req[t].offset + i] = Wanted(t)[req[t].offset + i]
          BY <1>0, <3>2, <5>1 DEF Progress, Moved
        <5> QED BY <3>3, <4>2, <5>2
      <4>4. CASE ~(i < done[t])
        <5>1. /\ req[t].offset + done[t] <= req[t].offset + i
              /\ req[t].offset + i < req[t].offset + done[t] + n
          BY <1>3, <2>1, <4>1, <4>4
        <5> QED BY <3>3, <4>2, <5>1
      <4> QED BY <4>3, <4>4
    <3>7. Moved(t)'
      BY <1>1, <1>4, <2>1, <3>6 DEF Moved
    <3>8. Untouched(t)' /\ Verifying(t)' /\ Reading(t)'
      BY <1>1, <3>2 DEF Untouched, Verifying, Reading, ReadLabels
    <3> QED BY <1>1, <1>6, <1>7, <3>4, <3>5, <3>7, <3>8 DEF Progress
  <2> QED BY <2>3, <2>4
<1> QED BY <1>8, <1>9 DEF LibraryStep

(* What a read that succeeded has brought. *)
LEMMA ReadBlocks ==
  ASSUME HandlerInv, Known, NEW t \in Threads, pc[t] = "read_ret", ~busy[t], Succeeded(t)
  PROVE  /\ cmd[t] \in Commands(t) /\ cmd[t].lba \in Nat
         /\ DOMAIN buf[t] = 0 .. ReadLength(cmd[t]) - 1 /\ ReadLength(cmd[t]) \in Nat
         /\ Arrived(t) = DOMAIN buf[t]
         /\ \A i \in DOMAIN buf[t] : /\ cmd[t].lba + i \in Lbas
                                     /\ buf[t][i] \in Blocks /\ buf[t][i] # Junk
<1>0. Handler(t) /\ KnownBy(t)
  BY DEF HandlerInv, Known
<1>1. pc[t] \in RetLabels
  BY DEF RetLabels
<1>2. cmd[t] \in Commands(t) /\ DOMAIN buf[t] = 0 .. req[t].buf_len - 1
  BY <1>1, BusyFacts
<1>3. req[t].buf_len = ReadLength(cmd[t]) /\ req[t].offset = cmd[t].lba
  BY <1>0 DEF Handler, Calling
<1>4. cmd[t].lba \in Nat /\ ReadLength(cmd[t]) \in Nat
  BY <1>2, CommandBuffers, ReadLengthFacts, CapacityNat
<1>5. Arrived(t) = DOMAIN buf[t]
  BY Zenon DEF Arrived
<1>6. \A i \in DOMAIN buf[t] : buf[t][i] \in Blocks
  BY <1>0, <1>5 DEF KnownBy
<1>7. \A i \in DOMAIN buf[t] : buf[t][i] # Junk
  BY <1>6, ScsiAssumption
<1>8. ReadLength(cmd[t]) = 0 \/ cmd[t].lba + ReadLength(cmd[t]) <= Capacity
  BY <1>0, <1>1, <1>3 DEF KnownBy
<1>9. \A i \in DOMAIN buf[t] : cmd[t].lba + i \in Lbas
  BY <1>2, <1>3, <1>4, <1>8, CapacityNat DEF Lbas
<1> QED BY <1>2, <1>3, <1>4, <1>5, <1>6, <1>7, <1>9

(* A command that ends without a result to report. *)
LEMMA AloneFails ==
  ASSUME HandlerInv, NEW t \in Threads, Alone(t),
         OutOfMemory(t) \/ ReadFails(t) \/ WriteFails(t) \/ WriteNoPage(t)
  PROVE  Progress(t)' /\ before' = before
<1>0. StateTypes /\ Progress(t) /\ Handler(t)
  BY DEF HandlerInv, Alone
<1>1. /\ medium' = medium /\ cmd' = cmd /\ before' = before
  BY DEF OutOfMemory, ReadFails, WriteFails, WriteNoPage, library
<1>2. \/ pc'[t] = "end" /\ sense'[t] \in {"HARDWARE_ERROR", "MEDIUM_ERROR", "ILLEGAL_REQUEST"}
      \/ pc'[t] = "read_call" /\ sense'[t] = "MEDIUM_ERROR" /\ cmd[t].op = "WRITE_VERIFY"
  BY <1>0 DEF OutOfMemory, ReadFails, WriteFails, WriteNoPage, Goto, Sense,
              set_medium_error, AfterWrite, StateTypes
<1>3. Wanted(t)' = Wanted(t)
  BY <1>1, SameWanted
<1>4. Within(t)'
  BY <1>0, <1>1, <1>3 DEF Progress, Within
<1>5. Untouched(t)' /\ Writing(t)' /\ Reading(t)' /\ Moved(t)'
  BY <1>1, <1>2 DEF Untouched, Writing, Reading, Moved, ReadLabels, WriteLabels, ReadOps
<1>6. Passed(t)' /\ Verifying(t)' /\ NotYet(t)'
  BY <1>1, <1>2 DEF Passed, Verifying, NotYet, ReadLabels, SameLabels
<1>7. pc'[t] = "end" => Complete(t)' /\ Compared(t)'
  BY <1>2 DEF Complete, Compared
<1> QED BY <1>1, <1>4, <1>5, <1>6, <1>7 DEF Progress

(* Nobody interferes: what was read is what was there. *)
LEMMA AloneRead ==
  ASSUME HandlerInv, Known, NEW t \in Threads, Alone(t), ReadDone(t)
  PROVE  Progress(t)' /\ before' = before
<1>0. StateTypes /\ Progress(t) /\ Handler(t) /\ medium \in [Lbas -> Blocks]
  BY DEF HandlerInv, Alone, Known
<1>1. /\ pc[t] = "read_ret" /\ ~busy[t] /\ Succeeded(t) /\ cmd[t].op = "READ"
      /\ pc'[t] = "end"
      /\ medium' = medium /\ buf' = buf /\ sense' = sense /\ cmd' = cmd /\ before' = before
  BY <1>0 DEF ReadDone, Returned, Goto, library, StateTypes
<1>2. medium = before[t] /\ sense[t] = "GOOD"
  BY <1>0, <1>1 DEF Progress, Untouched, ReadLabels, ReadOps
<1>3. Wanted(t)' = Wanted(t) /\ Wanted(t) = before[t]
  BY <1>1, SameWanted, EffectCases DEF Wanted
<1>4. /\ cmd[t] \in Commands(t) /\ DOMAIN buf[t] = 0 .. ReadLength(cmd[t]) - 1
      /\ \A i \in DOMAIN buf[t] : cmd[t].lba + i \in Lbas
      /\ Arrived(t) = DOMAIN buf[t]
  BY <1>1, ReadBlocks
<1>5. ReadLength(cmd[t]) = cmd[t].tl
  BY <1>1, <1>4, ReadLengthFacts
<1>6. Holds(medium, cmd[t].lba, buf[t])
  BY <1>0, <1>1, <1>4 DEF Progress, Reading, Holds
<1>7. Complete(t)'
  BY <1>1, <1>2, <1>3, <1>4, <1>5, <1>6 DEF Complete
<1>8. Compared(t)'
  BY <1>1 DEF Compared, Comparing
<1>9. Within(t)'
  BY <1>0, <1>1, <1>3 DEF Progress, Within
<1>10. Untouched(t)' /\ Writing(t)' /\ Reading(t)' /\ Moved(t)'
  BY <1>1 DEF Untouched, Writing, Reading, Moved, ReadLabels, WriteLabels
<1>11. Passed(t)' /\ Verifying(t)' /\ NotYet(t)'
  BY <1>1 DEF Passed, Verifying, NotYet, ReadLabels, SameLabels
<1> QED BY <1>1, <1>7, <1>8, <1>9, <1>10, <1>11 DEF Progress

(* Nobody interferes: the merged blocks are those that ORWRITE has to      *)
(* leave.                                                                  *)
LEMMA AloneMerge ==
  ASSUME HandlerInv, Known, NEW t \in Threads, Alone(t), MergeOr(t)
  PROVE  Progress(t)' /\ before' = before
<1>0. /\ StateTypes /\ Progress(t) /\ Handler(t) /\ medium \in [Lbas -> Blocks]
      /\ before[t] \in [Lbas -> Blocks]
  BY DEF HandlerInv, Alone, Known
<1>1. /\ pc[t] = "read_ret" /\ ~busy[t] /\ Succeeded(t) /\ cmd[t].op = "ORWRITE"
      /\ pc'[t] = "write_call" /\ medium' = medium /\ sense' = sense /\ cmd' = cmd
      /\ before' = before
      /\ out'[t] = [i \in DOMAIN out[t] |-> Or(out[t][i], buf[t][i])]
  BY <1>0 DEF MergeOr, Returned, Goto, library, StateTypes
<1>2. medium = before[t] /\ sense[t] = "GOOD"
  BY <1>0, <1>1 DEF Progress, Untouched, ReadLabels, ReadOps
<1>3. Wanted(t)' = Wanted(t)
  BY <1>1, SameWanted
<1>4. /\ cmd[t] \in Commands(t) /\ DOMAIN buf[t] = 0 .. ReadLength(cmd[t]) - 1
      /\ cmd[t].lba \in Nat /\ Arrived(t) = DOMAIN buf[t]
      /\ \A i \in DOMAIN buf[t] : buf[t][i] \in Blocks /\ buf[t][i] # Junk
  BY <1>1, ReadBlocks
<1>5. /\ out[t] = cmd[t].out /\ DOMAIN out[t] = DOMAIN buf[t]
      /\ \A i \in DOMAIN out[t] : out[t][i] \in SUBSET Bits
  BY <1>0, <1>1, <1>4, CommandBuffers, ReadLengthFacts DEF Handler, Serving, ReadLabels
<1>6. \A i \in DOMAIN out[t] : out'[t][i] = before[t][cmd[t].lba + i] \cup cmd[t].out[i]
  <2> SUFFICES ASSUME NEW i \in DOMAIN out[t]
               PROVE  out'[t][i] = before[t][cmd[t].lba + i] \cup cmd[t].out[i]
    OBVIOUS
  <2>1. buf[t][i] = before[t][cmd[t].lba + i]
    BY <1>0, <1>1, <1>2, <1>4, <1>5 DEF Progress, Reading
  <2>2. buf[t][i] \in Cells
    BY <1>4, <1>5 DEF Cells
  <2>3. Or(out[t][i], buf[t][i]) = buf[t][i] \cup out[t][i]
    BY <1>4, <1>5, <2>2, OrFacts
  <2> QED BY <1>1, <1>5, <2>1, <2>3
<1>7. Wanted(t) = With(before[t], cmd[t].lba, out'[t])
  <2>1. PICK b : b = out'[t]
    OBVIOUS
  <2>2. /\ Wanted(t) = [a \in Lbas |-> Wanted(t)[a]]
        /\ \A a \in Lbas :
             Wanted(t)[a] = IF a - cmd[t].lba \in DOMAIN cmd[t].out
                            THEN before[t][a] \cup cmd[t].out[a - cmd[t].lba] ELSE before[t][a]
    <3>1. DOMAIN before[t] = Lbas
      BY <1>0
    <3>2. cmd[t].op = "ORWRITE"
      BY <1>1
    <3>3. PICK c, m : c = cmd[t] /\ m = before[t]
      OBVIOUS
    <3>4. c.op = "ORWRITE" /\ DOMAIN m = Lbas /\ Wanted(t) = Effect(c, m)
      BY <3>1, <3>2, <3>3 DEF Wanted
    <3>5. /\ Effect(c, m) = [a \in Lbas |-> Effect(c, m)[a]]
          /\ \A a \in Lbas :
               Effect(c, m)[a] = IF a - c.lba \in DOMAIN c.out
                                 THEN m[a] \cup c.out[a - c.lba] ELSE m[a]
      BY <3>4, OrEffect, SMTT(30)
    <3> QED BY <3>3, <3>4, <3>5
  <2>3. /\ With(before[t], cmd[t].lba, b) = [a \in Lbas |-> With(before[t], cmd[t].lba, b)[a]]
        /\ \A a \in Lbas :
             With(before[t], cmd[t].lba, b)[a] =
               IF a - cmd[t].lba \in DOMAIN b THEN b[a - cmd[t].lba] ELSE before[t][a]
    BY <1>0, <1>4, WithFacts
  <2>4. DOMAIN b = DOMAIN cmd[t].out
    BY <1>1, <1>5, <2>1
  <2>5. ASSUME NEW a \in Lbas PROVE Wanted(t)[a] = With(before[t], cmd[t].lba, b)[a]
    <3>1. cmd[t].lba + (a - cmd[t].lba) = a
      BY <1>4 DEF Lbas
    <3> QED BY <1>5, <1>6, <2>1, <2>2, <2>3, <2>4, <3>1
  <2>6. Wanted(t) = With(before[t], cmd[t].lba, b)
    <3>1. [a \in Lbas |-> Wanted(t)[a]] = [a \in Lbas |-> With(before[t], cmd[t].lba, b)[a]]
      BY <2>5
    <3>2. Wanted(t) = [a \in Lbas |-> Wanted(t)[a]]
      BY <2>2
    <3>3. With(before[t], cmd[t].lba, b) = [a \in Lbas |-> With(before[t], cmd[t].lba, b)[a]]
      BY <2>3
    <3> QED BY <3>1, <3>2, <3>3
  <2> QED BY <2>1, <2>6
<1>8. Writing(t)'
  BY <1>1, <1>2, <1>3, <1>7 DEF Writing
<1>9. Untouched(t)'
  BY <1>1, <1>2 DEF Untouched
<1>10. Within(t)'
  BY <1>0, <1>1, <1>3 DEF Progress, Within
<1>11. Reading(t)' /\ Moved(t)' /\ Passed(t)' /\ Verifying(t)' /\ NotYet(t)'
  BY <1>1 DEF Reading, Moved, Passed, Verifying, NotYet, ReadLabels, SameLabels
<1>12. pc'[t] # "end"
  BY <1>1
<1> QED BY <1>1, <1>8, <1>9, <1>10, <1>11, <1>12 DEF Progress

(* What a comparison has compared with. *)
LEMMA ComparesRead ==
  ASSUME HandlerInv, Known, NEW t \in Threads, Alone(t), Comparing(t),
         pc[t] = "read_ret", ~busy[t], Succeeded(t)
  PROVE  /\ DOMAIN Expected(t) = DOMAIN buf[t]
         /\ \A i \in DOMAIN buf[t] : /\ buf[t][i] = medium[cmd[t].lba + i] /\ buf[t][i] # Junk
                                     /\ cmd[t].lba + i \in DOMAIN medium
<1>0. StateTypes /\ Progress(t) /\ Handler(t) /\ medium \in [Lbas -> Blocks]
  BY DEF HandlerInv, Alone, Known
<1>1. /\ cmd[t] \in Commands(t) /\ DOMAIN buf[t] = 0 .. ReadLength(cmd[t]) - 1
      /\ Arrived(t) = DOMAIN buf[t]
      /\ \A i \in DOMAIN buf[t] : buf[t][i] # Junk /\ cmd[t].lba + i \in Lbas
  BY ReadBlocks
<1>2. DOMAIN Expected(t) = DOMAIN buf[t]
  <2>1. out[t] = cmd[t].out
    BY <1>0 DEF Handler, Serving, ReadLabels
  <2>2. CASE cmd[t].op = "COMPARE_AND_WRITE"
    BY <1>1, <2>2, CommandBuffers, ReadLengthFacts DEF Expected
  <2>3. CASE cmd[t].op # "COMPARE_AND_WRITE"
    BY <1>1, <2>1, <2>3, CommandBuffers, ReadLengthFacts DEF Expected, Comparing
  <2> QED BY <2>2, <2>3
<1>3. \A i \in DOMAIN buf[t] : buf[t][i] = medium[cmd[t].lba + i]
  BY <1>0, <1>1 DEF Progress, Reading
<1> QED BY <1>0, <1>1, <1>2, <1>3

(* Nobody interferes: a match is a match with what was there. *)
LEMMA AloneMatch ==
  ASSUME HandlerInv, Known, NEW t \in Threads, Alone(t), Match(t)
  PROVE  Progress(t)' /\ before' = before
<1>0. /\ StateTypes /\ Progress(t) /\ Handler(t)
      /\ before[t] \in [Lbas -> Blocks]
  BY DEF HandlerInv, Alone, Known
<1>1. /\ pc[t] = "read_ret" /\ ~busy[t] /\ Succeeded(t) /\ Comparing(t) /\ MayMatch(t)
      /\ medium' = medium /\ sense' = sense /\ cmd' = cmd /\ before' = before /\ out' = out
      /\ pc'[t] = IF cmd[t].op = "COMPARE_AND_WRITE" THEN "write_call" ELSE "end"
  BY <1>0 DEF Match, Returned, Goto, library, StateTypes
<1>2. Wanted(t)' = Wanted(t)
  BY <1>1, SameWanted
<1>3. Holds(medium, cmd[t].lba, Expected(t))
  <2>1. /\ DOMAIN Expected(t) = DOMAIN buf[t]
        /\ \A i \in DOMAIN buf[t] : /\ buf[t][i] = medium[cmd[t].lba + i] /\ buf[t][i] # Junk
                                    /\ cmd[t].lba + i \in DOMAIN medium
    BY <1>1, ComparesRead
  <2>2. \A i \in DOMAIN Expected(t) : buf[t][i] \in {Expected(t)[i], Junk}
    BY <1>1 DEF MayMatch
  <2> QED BY <2>1, <2>2 DEF Holds
<1>4. Expected(t)' = Expected(t) /\ Comparing(t)'
  BY <1>1 DEF Expected, Comparing
<1>5. Within(t)'
  BY <1>0, <1>1, <1>2 DEF Progress, Within
<1>6. Reading(t)' /\ Moved(t)' /\ Passed(t)' /\ Verifying(t)' /\ NotYet(t)'
  BY <1>1 DEF Reading, Moved, Passed, Verifying, NotYet, ReadLabels, SameLabels
<1>7. cmd[t].op \in ReadOps => medium = before[t] /\ sense[t] = "GOOD"
  BY <1>0, <1>1 DEF Progress, Untouched, ReadLabels
<1>8. CASE cmd[t].op = "COMPARE_AND_WRITE"
  <2>1. medium = before[t] /\ sense[t] = "GOOD"
    BY <1>7, <1>8 DEF ReadOps
  <2>2. Holds(before[t], cmd[t].lba, cmd[t].cmp)
    BY <1>3, <1>8, <2>1 DEF Expected
  <2>3. out[t] = cmd[t].out
    BY <1>0, <1>1 DEF Handler, Serving, ReadLabels
  <2>4. Wanted(t) = With(before[t], cmd[t].lba, out[t])
    <3>1. Effect(cmd[t], before[t]) = With(before[t], cmd[t].lba, cmd[t].out)
      BY <1>8, <2>2, EffectCases
    <3> QED BY <2>3, <3>1 DEF Wanted
  <2>5. Writing(t)' /\ Untouched(t)'
    BY <1>1, <1>2, <2>1, <2>2, <2>4 DEF Writing, Untouched
  <2>6. pc'[t] # "end"
    BY <1>1, <1>8
  <2> QED BY <1>1, <1>5, <1>6, <2>5, <2>6 DEF Progress
<1>9. CASE cmd[t].op \in {"VERIFY", "WRITE_VERIFY"}
  <2>1. pc'[t] = "end"
    BY <1>1, <1>9
  <2>2. sense[t] = "GOOD" => medium = Wanted(t)
    <3>1. CASE cmd[t].op = "VERIFY"
      <4>1. medium = before[t]
        BY <1>7, <3>1 DEF ReadOps
      <4>2. Effect(cmd[t], before[t]) = before[t]
        BY <3>1, EffectCases
      <4> QED BY <4>1, <4>2 DEF Wanted
    <3>2. CASE cmd[t].op = "WRITE_VERIFY"
      BY <1>0, <1>1, <3>2 DEF Progress, Verifying, ReadLabels
    <3> QED BY <1>9, <3>1, <3>2
  <2>3. Complete(t)'
    BY <1>1, <1>2, <1>9, <2>2 DEF Complete
  <2>4. sense[t] # "MISCOMPARE"
    BY <1>0, <1>1 DEF Progress, NotYet, ReadLabels
  <2>5. cmd[t].op = "VERIFY" => medium = before[t]
    BY <1>7 DEF ReadOps
  <2>6. Compared(t)'
    BY <1>1, <1>3, <1>4, <1>9, <2>4, <2>5 DEF Compared
  <2>7. Writing(t)' /\ Untouched(t)'
    BY <2>1 DEF Writing, Untouched, WriteLabels, ReadLabels
  <2> QED BY <1>1, <1>5, <1>6, <2>3, <2>6, <2>7 DEF Progress
<1> QED BY <1>1, <1>8, <1>9 DEF Comparing

(* Nobody interferes: a miscompare is one with what was there. *)
LEMMA AloneMiscompare ==
  ASSUME HandlerInv, Known, NEW t \in Threads, Alone(t), Miscompare(t)
  PROVE  Progress(t)' /\ before' = before
<1>0. StateTypes /\ Progress(t) /\ Handler(t)
  BY DEF HandlerInv, Alone, Known
<1>1. /\ pc[t] = "read_ret" /\ ~busy[t] /\ Succeeded(t) /\ Comparing(t) /\ MayDiffer(t)
      /\ medium' = medium /\ sense'[t] = "MISCOMPARE" /\ cmd' = cmd /\ before' = before
      /\ out' = out /\ pc'[t] = "end"
  BY <1>0 DEF Miscompare, Returned, Goto, Sense, library, StateTypes
<1>2. Wanted(t)' = Wanted(t)
  BY <1>1, SameWanted
<1>3. ~Holds(medium, cmd[t].lba, Expected(t))
  <2>1. /\ DOMAIN Expected(t) = DOMAIN buf[t]
        /\ \A i \in DOMAIN buf[t] : buf[t][i] = medium[cmd[t].lba + i]
    BY <1>1, ComparesRead
  <2>2. \E i \in DOMAIN Expected(t) : buf[t][i] # Expected(t)[i]
    BY <1>1 DEF MayDiffer
  <2> QED BY <2>1, <2>2 DEF Holds
<1>4. Expected(t)' = Expected(t)
  BY <1>1 DEF Expected
<1>5. cmd[t].op # "WRITE_VERIFY" => medium = before[t]
  BY <1>0, <1>1 DEF Progress, Untouched, ReadLabels, ReadOps, Comparing
<1>6. Compared(t)'
  BY <1>1, <1>3, <1>4, <1>5 DEF Compared
<1>7. Within(t)' /\ Complete(t)'
  BY <1>0, <1>1, <1>2 DEF Progress, Within, Complete
<1>8. Untouched(t)' /\ Writing(t)' /\ Reading(t)' /\ Moved(t)'
  BY <1>1 DEF Untouched, Writing, Reading, Moved, ReadLabels, WriteLabels
<1>9. Passed(t)' /\ Verifying(t)' /\ NotYet(t)'
  BY <1>1 DEF Passed, Verifying, NotYet, ReadLabels, SameLabels
<1> QED BY <1>1, <1>6, <1>7, <1>8, <1>9 DEF Progress

(* The medium is what a command asks for once it is, block by block. *)
LEMMA MediumIsWanted ==
  ASSUME HandlerInv, NEW t \in Threads, Alone(t), \A a \in Lbas : medium[a] = Wanted(t)[a]
  PROVE  medium = Wanted(t)
<1>1. cmd[t] \in Commands(t) /\ before[t] \in [Lbas -> Blocks]
  BY DEF HandlerInv, Handler, Serving, Alone
<1>2. Wanted(t) = [a \in Lbas |-> Wanted(t)[a]]
  BY <1>1, EffectDomain DEF Wanted
<1>3. medium = [a \in Lbas |-> medium[a]]
  BY DEF HandlerInv, StateTypes
<1>4. [a \in Lbas |-> Wanted(t)[a]] = [a \in Lbas |-> medium[a]]
  OBVIOUS
<1> QED BY <1>2, <1>3, <1>4

(* Nobody interferes: the command's blocks are written, and no others. *)
LEMMA AloneWritten ==
  ASSUME HandlerInv, Known, NEW t \in Threads, Alone(t), WriteDone(t)
  PROVE  Progress(t)' /\ before' = before
<1>0. /\ StateTypes /\ Progress(t) /\ Handler(t) /\ before[t] \in [Lbas -> Blocks]
  BY DEF HandlerInv, Alone, Known
<1>1. /\ pc[t] = "write_ret" /\ ~busy[t] /\ Succeeded(t)
      /\ medium' = medium /\ sense' = sense /\ cmd' = cmd /\ before' = before /\ out' = out
      /\ pc'[t] = IF cmd[t].op = "WRITE_VERIFY" THEN "read_call" ELSE "end"
  BY <1>0 DEF WriteDone, Returned, Goto, AfterWrite, library, StateTypes
<1>2. Wanted(t)' = Wanted(t)
  BY <1>1, SameWanted
<1>3. /\ sense[t] = "GOOD" /\ Wanted(t) = With(before[t], cmd[t].lba, out[t])
      /\ cmd[t].op = "COMPARE_AND_WRITE" => Holds(before[t], cmd[t].lba, cmd[t].cmp)
      /\ cmd[t].op \in Written /\ cmd[t] \in Commands(t)
  BY <1>0, <1>1 DEF Progress, Writing, WriteLabels, Handler, Serving
<1>4. /\ buf[t] = out[t] /\ req[t].offset = cmd[t].lba
  BY <1>0, <1>1 DEF Handler, Calling
<1>5. medium = Wanted(t)
  <2>1. ASSUME NEW a \in Lbas PROVE medium[a] = Wanted(t)[a]
    <3>1. cmd[t].lba \in Nat /\ a \in Int
      BY <1>3, CommandBuffers, CapacityNat DEF Lbas
    <3>2. CASE a - cmd[t].lba \in DOMAIN out[t]
      <4>1. Arrived(t) = DOMAIN buf[t]
        BY <1>1, Zenon DEF Arrived
      <4>2. \A i \in DOMAIN out[t] : medium[cmd[t].lba + i] = Wanted(t)[cmd[t].lba + i]
        BY <1>0, <1>1, <1>4, <4>1 DEF Progress, Moved
      <4>3. cmd[t].lba + (a - cmd[t].lba) = a
        BY <3>1
      <4> QED BY <3>2, <4>2, <4>3
    <3>3. CASE a - cmd[t].lba \notin DOMAIN out[t]
      <4>1. DOMAIN before[t] = Lbas
        BY <1>0
      <4>2. With(before[t], cmd[t].lba, out[t])[a] = before[t][a]
        BY <3>1, <3>3, <4>1, WithFacts
      <4>3. medium[a] \in {before[t][a], Wanted(t)[a]}
        BY <1>0, <2>1 DEF Progress, Within
      <4> QED BY <1>3, <4>2, <4>3
    <3> QED BY <3>2, <3>3
  <2> QED BY <2>1, MediumIsWanted
<1>6. Within(t)'
  BY <1>0, <1>1, <1>2 DEF Progress, Within
<1>7. Untouched(t)' /\ Writing(t)' /\ Reading(t)' /\ Moved(t)'
  BY <1>1 DEF Untouched, Writing, Reading, Moved, ReadLabels, WriteLabels, ReadOps
<1>8. Passed(t)' /\ Verifying(t)' /\ NotYet(t)'
  BY <1>1, <1>2, <1>3, <1>5 DEF Passed, Verifying, NotYet, ReadLabels, SameLabels
<1>9. Complete(t)'
  BY <1>1, <1>2, <1>3, <1>5 DEF Complete, Written
<1>10. pc'[t] = "end" => Compared(t)'
  <2>1. ASSUME pc'[t] = "end", Comparing(t)' PROVE cmd[t].op = "COMPARE_AND_WRITE"
    BY <1>1, <1>3, <2>1 DEF Comparing, Written
  <2> QED BY <1>1, <1>3, <2>1 DEF Compared, Expected
<1> QED BY <1>1, <1>6, <1>7, <1>8, <1>9, <1>10 DEF Progress

(* Nobody interferes: WRITE SAME has written its blocks up to this one. *)
LEMMA AloneSame ==
  ASSUME HandlerInv, Known, NEW t \in Threads, Alone(t), SameReturns(t)
  PROVE  Progress(t)' /\ before' = before
<1>0. /\ StateTypes /\ Progress(t) /\ Handler(t) /\ before[t] \in [Lbas -> Blocks]
  BY DEF HandlerInv, Alone, Known
<1>1. /\ pc[t] = "same_ret" /\ ~busy[t] /\ medium' = medium /\ cmd' = cmd
      /\ before' = before /\ offset'[t] = offset[t] + 1
      /\ pc'[t] = IF tl[t] - 1 > 0 THEN "same_call" ELSE "end"
      /\ sense'[t] = IF Succeeded(t) THEN sense[t] ELSE "MEDIUM_ERROR"
  BY <1>0 DEF SameReturns, Returned, Goto, Sense, set_medium_error, library, StateTypes
<1>2. Wanted(t)' = Wanted(t)
  BY <1>1, SameWanted
<1>3. /\ cmd[t].op = "WRITE_SAME" /\ cmd[t] \in Commands(t)
      /\ 0 < tl[t] /\ offset[t] + tl[t] = cmd[t].lba + cmd[t].tl
      /\ sense[t] \in {"GOOD", "MEDIUM_ERROR"}
  BY <1>0, <1>1 DEF Handler, Looping, Serving, Progress, NotYet, SameLabels
<1>4. /\ offset[t] \in Nat /\ tl[t] \in Nat /\ cmd[t].lba \in Nat /\ cmd[t].tl \in Nat
  BY <1>0, <1>3, CommandBuffers, CapacityNat DEF StateTypes
<1>5. ASSUME sense'[t] = "GOOD", NEW a \in Lbas, cmd[t].lba <= a, a < offset[t] + 1
      PROVE  medium[a] = Wanted(t)[a]
  <2>1. Succeeded(t) /\ sense[t] = "GOOD"
    BY <1>1, <1>5
  <2>2. a \in Int
    BY DEF Lbas
  <2>3. CASE a < offset[t]
    BY <1>0, <1>1, <1>5, <2>1, <2>3 DEF Progress, Passed, SameLabels
  <2>4. CASE a = offset[t]
    <3>1. req[t].offset = offset[t] /\ req[t].buf_len = 1
      BY <1>0, <1>1 DEF Handler, Calling
    <3>2. DOMAIN buf[t] = 0 .. req[t].buf_len - 1
      BY <1>1, BusyFacts DEF RetLabels
    <3>3. Arrived(t) = DOMAIN buf[t]
      BY <1>1, <2>1, Zenon DEF Arrived
    <3>4. 0 \in Arrived(t) /\ offset[t] + 0 = offset[t]
      BY <1>4, <3>1, <3>2, <3>3
    <3>5. medium[offset[t] + 0] = Wanted(t)[offset[t] + 0]
      BY <1>0, <1>1, <3>1, <3>4 DEF Progress, Moved
    <3> QED BY <2>4, <3>4, <3>5
  <2> QED BY <1>4, <1>5, <2>2, <2>3, <2>4
<1>6. Within(t)'
  BY <1>0, <1>1, <1>2 DEF Progress, Within
<1>7. Passed(t)'
  BY <1>1, <1>2, <1>5 DEF Passed
<1>8. Untouched(t)' /\ Writing(t)' /\ Reading(t)' /\ Moved(t)'
  BY <1>1 DEF Untouched, Writing, Reading, Moved, ReadLabels, WriteLabels
<1>9. Verifying(t)' /\ NotYet(t)'
  BY <1>1, <1>3 DEF Verifying, NotYet, ReadLabels, SameLabels
<1>10. pc'[t] = "end" => Complete(t)'
  <2> SUFFICES ASSUME pc'[t] = "end", sense'[t] = "GOOD" PROVE medium = Wanted(t)
    BY <1>1, <1>2, <1>3 DEF Complete
  <2>1. offset[t] + 1 = cmd[t].lba + cmd[t].tl
    BY <1>1, <1>3, <1>4
  <2>2. ASSUME NEW a \in Lbas PROVE medium[a] = Wanted(t)[a]
    <3>1. CASE cmd[t].lba <= a /\ a < cmd[t].lba + cmd[t].tl
      BY <1>5, <2>1, <3>1
    <3>2. CASE ~(cmd[t].lba <= a /\ a < cmd[t].lba + cmd[t].tl)
      <4>1. DOMAIN before[t] = Lbas
        BY <1>0
      <4>2. Effect(cmd[t], before[t])[a] = before[t][a]
        BY <1>3, <3>2, <4>1, SameEffect
      <4>3. medium[a] \in {before[t][a], Wanted(t)[a]}
        BY <1>0, <2>2 DEF Progress, Within
      <4> QED BY <4>2, <4>3 DEF Wanted
    <3> QED BY <3>1, <3>2
  <2> QED BY <2>2, MediumIsWanted
<1>11. Compared(t)'
  BY <1>1, <1>3 DEF Compared, Comparing
<1> QED BY <1>1, <1>6, <1>7, <1>8, <1>9, <1>10, <1>11 DEF Progress

(* A command that ends at once changes nothing and is GOOD only when it    *)
(* had nothing to do.                                                      *)
LEMMA AtOnce ==
  ASSUME NEW t \in Threads, NEW c \in Commands(t), EndsAtOnce(c), NEW m \in [Lbas -> Blocks]
  PROVE  /\ SenseAtOnce(c) # "MISCOMPARE"
         /\ SenseAtOnce(c) = "GOOD" =>
              /\ Effect(c, m) = m /\ c.op # "READ"
              /\ c.op \notin {"COMPARE_AND_WRITE", "VERIFY", "WRITE_VERIFY"}
<1>1. SenseAtOnce(c) # "MISCOMPARE"
  BY Zenon DEF SenseAtOnce
<1>2. ASSUME SenseAtOnce(c) = "GOOD"
      PROVE  c.op \in ImmediateOps \/ (c.op = "WRITE_SAME" /\ c.tl = 0)
  BY <1>2 DEF EndsAtOnce
<1>3. CASE c.op \in ImmediateOps
  <2>1. Effect(c, m) = m
    BY <1>3, EffectCases
  <2> QED BY <1>1, <1>3, <2>1 DEF ImmediateOps
<1>4. CASE c.op = "WRITE_SAME" /\ c.tl = 0
  <2>1. c.lba \in Nat /\ DOMAIN m = Lbas
    BY CommandBuffers, CapacityNat
  <2>2. /\ Effect(c, m) = [a \in Lbas |-> Effect(c, m)[a]]
        /\ \A a \in Lbas :
             Effect(c, m)[a] =
               IF c.lba <= a /\ a < c.lba + c.tl
               THEN IF c.bit = "stamp" THEN Stamp(c.out[0], a) ELSE c.out[0]
               ELSE m[a]
    BY <1>4, <2>1, SameEffect
  <2>3. ASSUME NEW a \in Lbas PROVE Effect(c, m)[a] = m[a]
    <3>1. a \in Int
      BY DEF Lbas
    <3>2. ~(c.lba <= a /\ a < c.lba + c.tl)
      BY <1>4, <2>1, <3>1
    <3> QED BY <2>2, <3>2
  <2>4. [a \in Lbas |-> Effect(c, m)[a]] = [a \in Lbas |-> m[a]]
    BY <2>3
  <2>5. m = [a \in Lbas |-> m[a]]
    OBVIOUS
  <2>6. Effect(c, m) = m
    BY <2>2, <2>4, <2>5
  <2> QED BY <1>1, <1>4, <2>6
<1> QED BY <1>1, <1>2, <1>3, <1>4

(* A command that arrives while no other runs starts alone. *)
LEMMA AloneReceive ==
  ASSUME HandlerInv, Known, NEW t \in Threads, NEW c \in Commands(t), Receive(t, c),
         before'[t] # << >>
  PROVE  Alone(t)'
<1>0. StateTypes /\ medium \in [Lbas -> Blocks]
  BY DEF HandlerInv, Known
<1>1. /\ pc'[t] = Entry(c) /\ cmd'[t] = c /\ out'[t] = c.out /\ offset'[t] = c.lba
      /\ sense'[t] = SenseAtOnce(c) /\ medium' = medium
      /\ before'[t] = IF \A v \in Threads \ {t} : pc[v] = "idle" THEN medium ELSE << >>
  BY <1>0 DEF Receive, library, StateTypes
<1>2. before'[t] = medium /\ \A v \in Threads \ {t} : pc[v] = "idle"
  BY <1>1
<1>3. \A v \in Threads \ {t} : pc'[v] = "idle"
  BY <1>0, <1>2, OtherThreads DEF Same
<1>4. /\ pc'[t] \in {"end", "read_call", "write_call", "same_call"}
      /\ pc'[t] = "end" => EndsAtOnce(c)
      /\ pc'[t] = "read_call" => c.op \in ReadOps
      /\ pc'[t] = "write_call" => c.op \in WriteOps
      /\ pc'[t] # "end" => sense'[t] = "GOOD"
  BY <1>1, EntryFacts
<1>5. Within(t)'
  BY <1>1, <1>2 DEF Within
<1>6. Untouched(t)' /\ Reading(t)' /\ Moved(t)' /\ NotYet(t)'
  BY <1>1, <1>2, <1>4 DEF Untouched, Reading, Moved, NotYet, ReadLabels, SameLabels
<1>7. Verifying(t)'
  BY <1>1, <1>4 DEF Verifying, ReadLabels, ReadOps
<1>8. Writing(t)'
  <2>1. c.op \in WriteOps => Effect(c, medium) = With(medium, c.lba, c.out)
    BY EffectCases
  <2> QED BY <1>1, <1>2, <1>4, <2>1 DEF Writing, Wanted, WriteLabels, WriteOps
<1>9. Passed(t)'
  <2>1. c.lba \in Nat
    BY CommandBuffers, CapacityNat
  <2>2. \A a \in Lbas : ~(c.lba <= a /\ a < c.lba)
    BY <2>1 DEF Lbas
  <2> QED BY <1>1, <2>2 DEF Passed
<1>10. pc'[t] = "end" => Complete(t)' /\ Compared(t)'
  <2> SUFFICES ASSUME pc'[t] = "end" PROVE Complete(t)' /\ Compared(t)'
    OBVIOUS
  <2>1. /\ SenseAtOnce(c) # "MISCOMPARE"
        /\ SenseAtOnce(c) = "GOOD" =>
             /\ Effect(c, medium) = medium /\ c.op # "READ"
             /\ c.op \notin {"COMPARE_AND_WRITE", "VERIFY", "WRITE_VERIFY"}
    BY <1>0, <1>4, AtOnce
  <2>2. Complete(t)'
    BY <1>1, <1>2, <2>1 DEF Complete, Wanted
  <2>3. Compared(t)'
    BY <1>1, <2>1 DEF Compared, Comparing
  <2> QED BY <2>2, <2>3
<1>11. Progress(t)'
  BY <1>5, <1>6, <1>7, <1>8, <1>9, <1>10 DEF Progress
<1> QED BY <1>0, <1>2, <1>3, <1>4, <1>11 DEF Alone

(* A step of t leaves a command alone only if it is t's own. *)
LEMMA AloneStep ==
  ASSUME HandlerInv, Known, AloneInv, NEW t \in Threads,
         Step(t) \/ \E c \in Commands(t) : Receive(t, c)
  PROVE  AloneInv'
<1>0. StateTypes /\ Handler(t)
  BY DEF HandlerInv
<1> SUFFICES ASSUME NEW u \in Threads, before'[u] # << >> PROVE Alone(u)'
  BY DEF AloneInv
<1>1. ASSUME NEW c \in Commands(t), Receive(t, c) PROVE Alone(u)'
  <2>1. u = t
    BY <1>0, <1>1 DEF Receive, StateTypes
  <2> QED BY <1>1, <2>1, AloneReceive
<1>2. CASE Answer(t)
  <2>1. before' = [before EXCEPT ![t] = << >>] /\ pc[t] = "end"
    BY <1>2 DEF Answer
  <2>2. u # t /\ before[u] # << >>
    BY <1>0, <2>1 DEF StateTypes
  <2>3. pc[t] = "idle"
    BY <2>2 DEF AloneInv, Alone
  <2> QED BY <2>1, <2>3
<1>3. CASE Step(t) /\ ~Answer(t)
  <2>1. pc[t] # "idle"
    BY <1>0, <1>3
       DEF Step, CallRead, OutOfMemory, CallWrite, CallSame, LibraryStep, ReadFails, ReadDone,
           MergeOr, Match, Miscompare, WriteFails, WriteDone, WriteNoPage, SameReturns,
           Returned, Dev!Transfer, Dev!Finish, Handler, Serving, RetLabels
  <2>2. before' = before
    BY <1>3
       DEF Step, CallRead, OutOfMemory, CallWrite, CallSame, LibraryStep, ReadFails, ReadDone,
           MergeOr, Match, Miscompare, WriteFails, WriteDone, WriteNoPage, SameReturns, Call
  <2>3. Alone(u)
    BY <2>2 DEF AloneInv
  <2>4. u = t
    BY <2>1, <2>3 DEF Alone
  <2>5. Progress(t)'
    BY <1>3, <2>3, <2>4, AloneCall, AloneLibrary, AloneFails, AloneRead, AloneMerge,
       AloneMatch, AloneMiscompare, AloneWritten, AloneSame DEF Step
  <2>6. pc'[t] # "idle"
    BY <1>0, <1>3, <2>1
       DEF Step, CallRead, OutOfMemory, CallWrite, CallSame, LibraryStep, ReadFails, ReadDone,
           MergeOr, Match, Miscompare, WriteFails, WriteDone, WriteNoPage, SameReturns,
           AfterWrite, Call, Goto, StateTypes
  <2>7. \A v \in Threads \ {t} : pc'[v] = "idle"
    BY <1>0, <1>3, <2>3, <2>4, OtherThreads DEF Same, Alone
  <2>8. before'[t] \in [Lbas -> Blocks]
    BY <2>2, <2>3, <2>4 DEF Alone
  <2> QED BY <2>4, <2>5, <2>6, <2>7, <2>8 DEF Alone
<1> QED BY <1>1, <1>2, <1>3

CommandInv == HandlerInv /\ Known /\ AloneInv

(* The invariant of the command theorems holds initially on a formatted    *)
(* LUN.                                                                    *)
LEMMA CommandInit == IsFsFlag /\ Init => CommandInv
<1> SUFFICES ASSUME IsFsFlag, Init PROVE CommandInv
  OBVIOUS
<1>1. HandlerInv
  BY HandlerInit
<1>2. formatted = TRUE
  <2>1. formatted = IsFsFlag /\ IsFsFlag \in BOOLEAN
    BY ScsiAssumption DEF Init, Dev!Init
  <2> QED BY <2>1
<1>3. medium \in [Lbas -> Blocks]
  <2>1. Zero \in Blocks
    BY DEF Blocks, Zero
  <2> QED BY <2>1 DEF Init, Dev!Init, Lbas
<1>4. ASSUME NEW t \in Threads PROVE pc[t] = "idle" /\ before[t] = << >>
  BY DEF Init
<1>5. Known
  BY <1>2, <1>3, <1>4 DEF Known, KnownBy, RetLabels
<1>6. AloneInv
  BY <1>4 DEF AloneInv
<1> QED BY <1>1, <1>5, <1>6 DEF CommandInv

(* Every step keeps it, whether or not commands run alone. *)
LEMMA CommandNext == CommandInv /\ [Next]_vars => CommandInv'
<1> SUFFICES ASSUME CommandInv, [Next]_vars PROVE CommandInv'
  OBVIOUS
<1>0. HandlerInv /\ Known /\ AloneInv
  BY DEF CommandInv
<1>1. HandlerInv'
  BY <1>0, HandlerNext
<1>2. CASE Next
  <2>1. PICK t \in Threads : Step(t) \/ \E c \in Commands(t) : Receive(t, c)
    BY <1>2 DEF Next
  <2> QED BY <1>0, <1>1, <2>1, KnownStep, AloneStep DEF CommandInv
<1>3. CASE UNCHANGED vars
  <2>1. Known'
    BY <1>0, <1>3 DEF vars, Known, KnownBy, Arrived, Succeeded
  <2>2. ASSUME NEW t \in Threads, Alone(t) PROVE Alone(t)'
    <3>1. Wanted(t)' = Wanted(t)
      BY <1>3, SameWanted DEF vars
    <3>2. (Within(t) /\ Untouched(t) /\ Writing(t) /\ Reading(t) /\ Moved(t))'
      BY <1>3, <2>2, <3>1 DEF vars, Alone, Progress, Within, Untouched, Writing, Reading,
                              Moved, Arrived, Succeeded
    <3>3. (Passed(t) /\ Verifying(t) /\ NotYet(t))'
      BY <1>3, <2>2, <3>1 DEF vars, Alone, Progress, Passed, Verifying, NotYet
    <3>4. pc'[t] = "end" => Complete(t)' /\ Compared(t)'
      BY <1>3, <2>2, <3>1 DEF vars, Alone, Progress, Complete, Compared, Comparing, Expected
    <3> QED BY <1>3, <2>2, <3>2, <3>3, <3>4 DEF vars, Alone, Progress
  <2>3. AloneInv'
    BY <1>0, <1>3, <2>2 DEF AloneInv, vars
  <2> QED BY <1>1, <2>1, <2>3 DEF CommandInv
<1> QED BY <1>2, <1>3

(* So it always holds. *)
LEMMA CommandAlways == IsFsFlag /\ Spec => []CommandInv
BY CommandInit, CommandNext, PTL DEF Spec

(* It contains what a command promises. *)
LEMMA CommandPromises == CommandInv => CommandEffect /\ OnlyItsBlocks /\ ComparesExistingData
<1> SUFFICES ASSUME CommandInv PROVE CommandEffect /\ OnlyItsBlocks /\ ComparesExistingData
  OBVIOUS
<1>1. ASSUME NEW t \in Threads, Ended(t)
      PROVE  Within(t) /\ Complete(t) /\ Compared(t)
  BY <1>1 DEF CommandInv, AloneInv, Alone, Progress, Ended
<1>2. DOMAIN medium = Lbas
  BY DEF CommandInv, HandlerInv, StateTypes
<1>3. CommandEffect
  BY <1>1 DEF CommandEffect, Complete, Wanted
<1>4. OnlyItsBlocks
  BY <1>1, <1>2 DEF OnlyItsBlocks, Within, Wanted
<1>5. ComparesExistingData
  BY <1>1 DEF ComparesExistingData, Compared
<1> QED BY <1>3, <1>4, <1>5

(* A command that met no other one and is answered GOOD had its whole      *)
(* effect, for every capacity, every set of commands and any number of     *)
(* threads, on a LUN that holds a file system.                             *)
THEOREM CommandEffectAlways == IsFsFlag /\ Spec => []CommandEffect
BY CommandAlways, CommandPromises, PTL

(* However such a command ends, each block of the medium is as it was or   *)
(* as the command would make it.                                           *)
THEOREM OnlyItsBlocksAlways == IsFsFlag /\ Spec => []OnlyItsBlocks
BY CommandAlways, CommandPromises, PTL

(* COMPARE_AND_WRITE, VERIFY and WRITE_VERIFY compare with the blocks on   *)
(* the medium: GOOD when they are equal, MISCOMPARE when they are not.     *)
THEOREM ComparesExistingDataAlways == IsFsFlag /\ Spec => []ComparesExistingData
BY CommandAlways, CommandPromises, PTL
-----------------------------------------------------------------------------
(* Commands that meet other ones.  What a block held while a command read  *)
(* is never forgotten before the command is answered, so it is enough to   *)
(* say where each block the command goes on with was met.                  *)
MetAt(t, i, b) ==
  /\ cmd[t].lba + i \in Lbas /\ cmd[t].lba + i \in Addressed(cmd[t])
  /\ b \in seen[t][cmd[t].lba + i]

AllMet(t, blocks) == \A i \in DOMAIN blocks : MetAt(t, i, blocks[i])

(* Every block of the medium a reading command addresses counts as met. *)
MeetsMedium(t) ==
  pc[t] \in ReadLabels =>
    \A a \in Lbas : a \in Addressed(cmd[t]) => medium[a] \in seen[t][a]

BroughtMet(t) == pc[t] = "read_ret" => \A i \in Arrived(t) : MetAt(t, i, buf[t][i])

MergedMet(t) ==
  \A i \in DOMAIN out[t] : \E b \in Blocks : MetAt(t, i, b) /\ out[t][i] = b \cup cmd[t].out[i]

(* A command that goes on to write has met what it rests on. *)
WritesMet(t) ==
  pc[t] \in WriteLabels =>
    /\ sense[t] = "GOOD"
    /\ cmd[t].op = "ORWRITE" => MergedMet(t)
    /\ cmd[t].op = "COMPARE_AND_WRITE" => AllMet(t, cmd[t].cmp)

EndsMet(t) ==
  pc[t] = "end" =>
    /\ cmd[t].op = "READ" /\ sense[t] = "GOOD" => AllMet(t, buf[t])
    /\ Comparing(t) /\ sense[t] = "GOOD" => AllMet(t, Expected(t))
    /\ sense[t] = "MISCOMPARE" =>
         \E i \in DOMAIN Expected(t) : \E b \in Blocks : MetAt(t, i, b) /\ b # Expected(t)[i]
    /\ cmd[t].op = "ORWRITE" /\ sense[t] = "GOOD" => MergedMet(t)

(* Only WRITE_VERIFY reads after something went wrong. *)
GoodSoFar(t) == pc[t] \in ReadLabels /\ cmd[t].op # "WRITE_VERIFY" => sense[t] = "GOOD"

MetBy(t) ==
  /\ MeetsMedium(t) /\ BroughtMet(t) /\ WritesMet(t) /\ EndsMet(t)
  /\ NotYet(t) /\ GoodSoFar(t)

MetInv ==
  /\ DOMAIN seen = Threads /\ \A t \in Threads : DOMAIN seen[t] = Lbas
  /\ \A t \in Threads : MetBy(t)

(* What a command has met it keeps, and it meets what is on the medium     *)
(* while it reads.                                                         *)
LEMMA SeenKeeps ==
  ASSUME StateTypes, StateTypes', Observe, NEW t \in Threads, pc'[t] # "idle"
  PROVE  /\ MeetsMedium(t)'
         /\ cmd'[t] = cmd[t] => \A i, b : MetAt(t, i, b) => MetAt(t, i, b)'
<1>1. DOMAIN medium = Lbas /\ DOMAIN medium' = Lbas
  BY DEF StateTypes
<1>2. \A a \in Lbas : a \in Addressed(cmd'[t]) =>
        seen'[t][a] = seen[t][a] \cup {b \in {medium'[a]} : pc'[t] \in {"read_call", "read_ret"}}
  BY <1>1 DEF Observe
<1>3. MeetsMedium(t)'
  <2>1. ASSUME pc'[t] \in ReadLabels, NEW a \in Lbas, a \in Addressed(cmd'[t])
        PROVE  medium'[a] \in seen'[t][a]
    BY <1>2, <2>1 DEF ReadLabels
  <2>2. Addressed(cmd[t])' = Addressed(cmd'[t])
    BY DEF Addressed, ReadLength, Length
  <2> QED BY <2>1, <2>2 DEF MeetsMedium
<1>4. ASSUME cmd'[t] = cmd[t], NEW i, NEW b, MetAt(t, i, b) PROVE MetAt(t, i, b)'
  <2>1. Addressed(cmd[t])' = Addressed(cmd[t])
    BY <1>4 DEF Addressed, ReadLength, Length
  <2> QED BY <1>2, <1>4, <2>1 DEF MetAt
<1> QED BY <1>3, <1>4

(* The domain of the history. *)
LEMMA SeenDomain ==
  ASSUME StateTypes, Observe
  PROVE  DOMAIN seen' = Threads /\ \A t \in Threads : DOMAIN seen'[t] = Lbas
BY DEF StateTypes, Observe

(* A command another thread's step leaves where it is. *)
LEMMA OthersMet ==
  ASSUME StateTypes, StateTypes', Observe, NEW u \in Threads, Same(u), MetBy(u)
  PROVE  MetBy(u)'
<1>1. CASE pc[u] = "idle"
  BY <1>1 DEF MetBy, MeetsMedium, BroughtMet, WritesMet, NotYet, GoodSoFar, EndsMet, Same,
              ReadLabels, WriteLabels, SameLabels
<1>2. CASE pc[u] # "idle"
  <2>1. MeetsMedium(u)' /\ \A i, b : MetAt(u, i, b) => MetAt(u, i, b)'
    BY <1>2, SeenKeeps DEF Same
  <2>2. BroughtMet(u)'
    BY <2>1 DEF MetBy, BroughtMet, Same, Arrived, Succeeded
  <2>3. MergedMet(u) => MergedMet(u)'
    BY <2>1 DEF MergedMet, Same
  <2>4. WritesMet(u)'
    BY <2>1, <2>3 DEF MetBy, WritesMet, Same, AllMet
  <2>5. NotYet(u)' /\ GoodSoFar(u)'
    BY DEF MetBy, NotYet, GoodSoFar, Same
  <2>6. Expected(u)' = Expected(u) /\ (Comparing(u)' <=> Comparing(u))
    BY DEF Expected, Comparing, Same
  <2>7. EndsMet(u)'
    BY <2>1, <2>3, <2>6 DEF MetBy, EndsMet, Same, AllMet
  <2> QED BY <2>1, <2>2, <2>4, <2>5, <2>7 DEF MetBy
<1> QED BY <1>1, <1>2
(* A command that arrives has met nothing yet. *)
LEMMA MetReceive ==
  ASSUME StateTypes, StateTypes', Observe, NEW t \in Threads, NEW c \in Commands(t),
         Receive(t, c)
  PROVE  MetBy(t)'
<1>1. pc'[t] = Entry(c) /\ cmd'[t] = c /\ sense'[t] = SenseAtOnce(c)
  BY DEF Receive, StateTypes
<1>2. /\ pc'[t] \in {"end", "read_call", "write_call", "same_call"}
      /\ pc'[t] = "end" => EndsAtOnce(c)
      /\ pc'[t] = "write_call" => c.op \in WriteOps
      /\ pc'[t] # "end" => sense'[t] = "GOOD"
  BY <1>1, EntryFacts
<1>3. MeetsMedium(t)'
  BY <1>2, SeenKeeps
<1>4. BroughtMet(t)' /\ NotYet(t)' /\ GoodSoFar(t)'
  BY <1>2 DEF BroughtMet, NotYet, GoodSoFar, ReadLabels, SameLabels
<1>5. WritesMet(t)'
  BY <1>1, <1>2 DEF WritesMet, WriteLabels, WriteOps
<1>6. EndsMet(t)'
  <2> SUFFICES ASSUME pc'[t] = "end" PROVE EndsMet(t)'
    BY DEF EndsMet
  <2>1. SenseAtOnce(c) # "MISCOMPARE"
    BY Zenon DEF SenseAtOnce
  <2>2. SenseAtOnce(c) = "GOOD" => c.op \in ImmediateOps \cup {"WRITE_SAME"}
    BY <1>2 DEF EndsAtOnce
  <2> QED BY <1>1, <2>1, <2>2 DEF EndsMet, Comparing, ImmediateOps
<1> QED BY <1>3, <1>4, <1>5, <1>6 DEF MetBy

(* A call, and a turn of the WRITE_SAME loop, add nothing to what the      *)
(* command goes on with.                                                   *)
LEMMA MetCall ==
  ASSUME HandlerInv, StateTypes', Known, Observe, NEW t \in Threads, MetBy(t),
         CallRead(t) \/ CallWrite(t) \/ CallSame(t)
  PROVE  MetBy(t)'
<1>0. StateTypes /\ Handler(t)
  BY DEF HandlerInv
<1>1. /\ cmd' = cmd /\ sense' = sense
      /\ \/ pc[t] = "read_call" /\ pc'[t] = "read_ret"
         \/ pc[t] = "write_call" /\ pc'[t] = "write_ret" /\ out' = out
         \/ pc[t] = "same_call" /\ pc'[t] = "same_ret"
  BY <1>0 DEF CallRead, CallWrite, CallSame, Call, Goto, StateTypes
<1>2. MeetsMedium(t)' /\ \A i, b : MetAt(t, i, b) => MetAt(t, i, b)'
  BY <1>0, <1>1, SeenKeeps
<1>3. BroughtMet(t)'
  BY NothingArrived DEF BroughtMet
<1>4. WritesMet(t)'
  BY <1>1, <1>2 DEF MetBy, WritesMet, AllMet, MergedMet, WriteLabels
<1>5. NotYet(t)' /\ GoodSoFar(t)' /\ EndsMet(t)'
  BY <1>1 DEF MetBy, NotYet, GoodSoFar, EndsMet, ReadLabels, SameLabels
<1> QED BY <1>2, <1>3, <1>4, <1>5 DEF MetBy

(* The library brings blocks of the medium. *)
LEMMA MetLibrary ==
  ASSUME HandlerInv, StateTypes', Known, Observe, NEW t \in Threads, MetBy(t), LibraryStep(t)
  PROVE  MetBy(t)'
<1>0. StateTypes /\ Handler(t)
  BY DEF HandlerInv
<1>1. pc' = pc /\ cmd' = cmd /\ out' = out /\ sense' = sense
  BY DEF LibraryStep
<1>2. busy[t] /\ pc[t] \in RetLabels
  BY <1>0 DEF LibraryStep, Dev!Transfer, Dev!Finish, Handler, Serving
<1>3. MeetsMedium(t)' /\ \A i, b : MetAt(t, i, b) => MetAt(t, i, b)'
  BY <1>0, <1>1, <1>2, SeenKeeps DEF RetLabels
<1>4. WritesMet(t)'
  BY <1>1, <1>3 DEF MetBy, WritesMet, AllMet, MergedMet
<1>5. NotYet(t)' /\ GoodSoFar(t)' /\ EndsMet(t)'
  BY <1>1, <1>2 DEF MetBy, NotYet, GoodSoFar, EndsMet, RetLabels
<1>6. BroughtMet(t)'
  <2> SUFFICES ASSUME pc[t] = "read_ret", NEW i \in Arrived(t)' PROVE MetAt(t, i, buf[t][i])'
    BY <1>1 DEF BroughtMet
  <2>0. /\ cmd[t].lba \in Nat /\ ReadLength(cmd[t]) \in Nat /\ done[t] \in Nat
        /\ req[t].offset = cmd[t].lba /\ req[t].buf_len = ReadLength(cmd[t])
        /\ DOMAIN buf[t] = 0 .. ReadLength(cmd[t]) - 1
        /\ cmd[t].lba + ReadLength(cmd[t]) <= Capacity
    <3>1. cmd[t] \in Commands(t) /\ done[t] \in Nat
      BY <1>2, BusyFacts
    <3> QED BY <1>0, <1>2, <3>1, CommandBuffers, ReadLengthFacts, CapacityNat
            DEF Handler, Calling
  <2>1. CASE Dev!Finish(t)
    <3>1. /\ busy'[t] = FALSE /\ buf' = buf
          /\ done[t] = req[t].buf_len \/ ret'[t] = "OSD_ERROR"
      BY <1>0, <2>1 DEF Dev!Finish, StateTypes
    <3>2. i \in Arrived(t)
      BY <1>2, <2>0, <3>1 DEF Arrived, Succeeded
    <3>3. MetAt(t, i, buf[t][i])
      BY <3>2 DEF MetBy, BroughtMet
    <3> QED BY <1>3, <3>1, <3>3
  <2>2. ASSUME NEW n \in 1 .. Capacity, Dev!Transfer(t, n) PROVE MetAt(t, i, buf[t][i])'
    <3>1. /\ done'[t] = done[t] + n /\ busy' = busy /\ n \in Nat
          /\ done[t] + n <= req[t].buf_len
          /\ \A j \in DOMAIN buf[t] :
               buf'[t][j] = IF done[t] <= j /\ j < done[t] + n
                            THEN medium[req[t].offset + j] ELSE buf[t][j]
      BY <2>2, TransferFacts
    <3>2. i \in 0 .. done[t] + n - 1
      <4>1. Arrived(t)' = 0 .. done'[t] - 1
        BY <1>2, <3>1, Zenon DEF Arrived
      <4> QED BY <2>0, <3>1, <4>1
    <3>3. /\ i \in DOMAIN buf[t] /\ cmd[t].lba + i \in Lbas
          /\ cmd[t].lba + i \in Addressed(cmd[t])
      BY <2>0, <3>1, <3>2, CapacityNat, SMTT(30) DEF Lbas, Addressed
    <3>4. MetAt(t, i, buf'[t][i])
      <4>1. CASE i < done[t]
        <5>1. i \in Arrived(t)
          BY <1>2, <2>0, <3>2, <4>1 DEF Arrived
        <5>2. MetAt(t, i, buf[t][i])
          BY <5>1 DEF MetBy, BroughtMet
        <5>3. buf'[t][i] = buf[t][i]
          BY <2>0, <3>1, <3>2, <3>3, <4>1
        <5> QED BY <5>2, <5>3
      <4>2. CASE ~(i < done[t])
        <5>1. buf'[t][i] = medium[cmd[t].lba + i]
          BY <2>0, <3>1, <3>2, <3>3, <4>2
        <5> QED BY <3>3, <5>1 DEF MetBy, MeetsMedium, MetAt, ReadLabels
      <4> QED BY <4>1, <4>2
    <3> QED BY <1>3, <3>4
  <2> QED BY <2>1, <2>2 DEF LibraryStep
<1> QED BY <1>3, <1>4, <1>5, <1>6 DEF MetBy
(* What a read that succeeded has brought was met block by block. *)
LEMMA ReadMet ==
  ASSUME HandlerInv, Known, NEW t \in Threads, MetBy(t),
         pc[t] = "read_ret", ~busy[t], Succeeded(t)
  PROVE  /\ AllMet(t, buf[t])
         /\ \A i \in DOMAIN buf[t] : buf[t][i] \in Blocks /\ buf[t][i] # Junk
         /\ cmd[t].op = "ORWRITE" \/ Comparing(t) => out[t] = cmd[t].out
         /\ cmd[t].op = "ORWRITE" => DOMAIN out[t] = DOMAIN buf[t]
         /\ Comparing(t) => DOMAIN Expected(t) = DOMAIN buf[t]
<1>0. Handler(t)
  BY DEF HandlerInv
<1>1. /\ cmd[t] \in Commands(t) /\ DOMAIN buf[t] = 0 .. ReadLength(cmd[t]) - 1
      /\ Arrived(t) = DOMAIN buf[t]
      /\ \A i \in DOMAIN buf[t] : buf[t][i] \in Blocks /\ buf[t][i] # Junk
  BY ReadBlocks
<1>2. AllMet(t, buf[t])
  BY <1>1 DEF MetBy, BroughtMet, AllMet
<1>3. out[t] = cmd[t].out
  BY <1>0 DEF Handler, Serving, ReadLabels
<1>4. cmd[t].op = "ORWRITE" => DOMAIN out[t] = DOMAIN buf[t]
  BY <1>1, <1>3, CommandBuffers, ReadLengthFacts
<1>5. Comparing(t) => DOMAIN Expected(t) = DOMAIN buf[t]
  <2>1. CASE cmd[t].op = "COMPARE_AND_WRITE"
    BY <1>1, <2>1, CommandBuffers, ReadLengthFacts DEF Expected
  <2>2. CASE cmd[t].op # "COMPARE_AND_WRITE"
    BY <1>1, <1>3, <2>2, CommandBuffers, ReadLengthFacts DEF Expected, Comparing
  <2> QED BY <2>1, <2>2
<1> QED BY <1>1, <1>2, <1>3, <1>4, <1>5

(* The read of a READ, or of a comparison, has succeeded. *)
LEMMA MetCompare ==
  ASSUME HandlerInv, StateTypes', Known, Observe, NEW t \in Threads, MetBy(t),
         ReadDone(t) \/ Match(t) \/ Miscompare(t)
  PROVE  MetBy(t)'
<1>0. StateTypes /\ Handler(t)
  BY DEF HandlerInv
<1>1. /\ pc[t] = "read_ret" /\ ~busy[t] /\ Succeeded(t)
      /\ cmd' = cmd /\ out' = out /\ buf' = buf
      /\ pc'[t] \in {"end", "write_call"}
      /\ pc'[t] = "write_call" => Match(t) /\ cmd[t].op = "COMPARE_AND_WRITE"
  BY <1>0 DEF ReadDone, Match, Miscompare, Returned, Goto, library, StateTypes
<1>2. MeetsMedium(t)' /\ \A i, b : MetAt(t, i, b) => MetAt(t, i, b)'
  BY <1>0, <1>1, SeenKeeps
<1>3. /\ AllMet(t, buf[t])
      /\ \A i \in DOMAIN buf[t] : buf[t][i] \in Blocks /\ buf[t][i] # Junk
      /\ Comparing(t) => DOMAIN Expected(t) = DOMAIN buf[t]
  BY <1>1, ReadMet
<1>4. Expected(t)' = Expected(t) /\ (Comparing(t)' <=> Comparing(t))
  BY <1>1 DEF Expected, Comparing
<1>5. NotYet(t)' /\ GoodSoFar(t)' /\ BroughtMet(t)'
  BY <1>1 DEF NotYet, GoodSoFar, BroughtMet, ReadLabels, SameLabels
<1>6. sense[t] \in {"GOOD", "MEDIUM_ERROR"}
  BY <1>1 DEF MetBy, NotYet, ReadLabels
<1>7. CASE ReadDone(t)
  <2>1. cmd[t].op = "READ" /\ sense' = sense /\ pc'[t] = "end"
    BY <1>0, <1>7 DEF ReadDone, Goto, StateTypes
  <2>2. WritesMet(t)'
    BY <2>1 DEF WritesMet, WriteLabels
  <2>3. AllMet(t, buf[t])'
    BY <1>1, <1>2, <1>3 DEF AllMet
  <2>4. EndsMet(t)'
    BY <1>1, <1>6, <2>1, <2>3 DEF EndsMet, Comparing
  <2> QED BY <1>2, <1>5, <2>2, <2>4 DEF MetBy
<1>8. CASE Match(t)
  <2>1. Comparing(t) /\ MayMatch(t) /\ sense' = sense
    BY <1>8 DEF Match
  <2>2. \A i \in DOMAIN Expected(t) : buf[t][i] = Expected(t)[i]
    BY <1>3, <2>1 DEF MayMatch
  <2>3. \A i \in DOMAIN Expected(t) : MetAt(t, i, Expected(t)[i])
    BY <1>3, <2>1, <2>2 DEF AllMet
  <2>4. AllMet(t, Expected(t))'
    BY <1>2, <1>4, <2>3 DEF AllMet
  <2>5. EndsMet(t)'
    BY <1>1, <1>4, <1>6, <2>1, <2>4 DEF EndsMet, Comparing
  <2>6. WritesMet(t)'
    <3> SUFFICES ASSUME pc'[t] = "write_call" PROVE WritesMet(t)'
      BY <1>1 DEF WritesMet, WriteLabels
    <3>1. cmd[t].op = "COMPARE_AND_WRITE" /\ Expected(t) = cmd[t].cmp
      BY <1>1 DEF Expected
    <3>2. sense[t] = "GOOD"
      BY <1>1, <3>1 DEF MetBy, GoodSoFar, ReadLabels
    <3> QED BY <1>1, <1>4, <2>1, <2>4, <3>1, <3>2 DEF WritesMet
  <2> QED BY <1>2, <1>5, <2>5, <2>6 DEF MetBy
<1>9. CASE Miscompare(t)
  <2>1. Comparing(t) /\ MayDiffer(t) /\ sense'[t] = "MISCOMPARE" /\ pc'[t] = "end"
    BY <1>0, <1>9 DEF Miscompare, Sense, Goto, StateTypes
  <2>2. PICK i \in DOMAIN Expected(t) : buf[t][i] # Expected(t)[i]
    BY <2>1 DEF MayDiffer
  <2>3. MetAt(t, i, buf[t][i])' /\ buf[t][i] \in Blocks
    <3>1. MetAt(t, i, buf[t][i]) /\ buf[t][i] \in Blocks
      BY <1>3, <2>1, <2>2 DEF AllMet
    <3> QED BY <1>1, <1>2, <3>1
  <2>4. EndsMet(t)'
    BY <1>1, <1>4, <2>1, <2>2, <2>3 DEF EndsMet
  <2>5. WritesMet(t)'
    BY <2>1 DEF WritesMet, WriteLabels
  <2> QED BY <1>2, <1>5, <2>4, <2>5 DEF MetBy
<1> QED BY <1>7, <1>8, <1>9
(* ORWRITE has merged. *)
LEMMA MetMerge ==
  ASSUME HandlerInv, StateTypes', Known, Observe, NEW t \in Threads, MetBy(t), MergeOr(t)
  PROVE  MetBy(t)'
<1>0. StateTypes /\ Handler(t)
  BY DEF HandlerInv
<1>1. /\ pc[t] = "read_ret" /\ ~busy[t] /\ Succeeded(t) /\ cmd[t].op = "ORWRITE"
      /\ pc'[t] = "write_call" /\ cmd' = cmd /\ sense' = sense
      /\ out'[t] = [i \in DOMAIN out[t] |-> Or(out[t][i], buf[t][i])]
  BY <1>0 DEF MergeOr, Returned, Goto, StateTypes
<1>2. MeetsMedium(t)' /\ \A i, b : MetAt(t, i, b) => MetAt(t, i, b)'
  BY <1>0, <1>1, SeenKeeps
<1>3. /\ AllMet(t, buf[t]) /\ out[t] = cmd[t].out /\ DOMAIN out[t] = DOMAIN buf[t]
      /\ \A i \in DOMAIN buf[t] : buf[t][i] \in Blocks /\ buf[t][i] # Junk
  BY <1>1, ReadMet
<1>4. \A i \in DOMAIN out[t] : out[t][i] \in SUBSET Bits
  BY <1>0, <1>1, <1>3, CommandBuffers DEF Handler, Serving
<1>5. ASSUME NEW i \in DOMAIN out[t]
      PROVE  \E b \in Blocks : MetAt(t, i, b)' /\ out'[t][i] = b \cup cmd[t].out[i]
  <2>1. buf[t][i] \in Cells /\ buf[t][i] \in Blocks /\ buf[t][i] # Junk
    BY <1>3 DEF Cells
  <2>2. Or(out[t][i], buf[t][i]) = buf[t][i] \cup out[t][i]
    BY <1>4, <2>1, OrFacts
  <2>3. PICK b : b = buf[t][i]
    OBVIOUS
  <2>4. MetAt(t, i, b)
    BY <1>3, <2>3 DEF AllMet
  <2>5. MetAt(t, i, b)'
    BY <1>2, <2>4
  <2> QED BY <1>1, <1>3, <2>1, <2>2, <2>3, <2>5
<1>6. DOMAIN out'[t] = DOMAIN out[t]
  BY <1>1
<1>7. MergedMet(t)'
  BY <1>1, <1>5, <1>6 DEF MergedMet
<1>8. sense[t] = "GOOD"
  BY <1>1 DEF MetBy, GoodSoFar, ReadLabels
<1>9. WritesMet(t)'
  BY <1>1, <1>7, <1>8 DEF WritesMet
<1>10. BroughtMet(t)' /\ EndsMet(t)' /\ NotYet(t)' /\ GoodSoFar(t)'
  BY <1>1 DEF BroughtMet, EndsMet, NotYet, GoodSoFar, ReadLabels, SameLabels
<1> QED BY <1>2, <1>9, <1>10 DEF MetBy

(* A command that fails says so, and is not a comparison that came out     *)
(* one way or the other.                                                   *)
LEMMA MetFails ==
  ASSUME HandlerInv, StateTypes', Observe, NEW t \in Threads, MetBy(t),
         OutOfMemory(t) \/ ReadFails(t) \/ WriteFails(t) \/ WriteNoPage(t)
  PROVE  MetBy(t)'
<1>0. StateTypes
  BY DEF HandlerInv
<1>1. /\ cmd' = cmd
      /\ \/ pc'[t] = "end" /\ sense'[t] \in {"HARDWARE_ERROR", "MEDIUM_ERROR", "ILLEGAL_REQUEST"}
         \/ pc'[t] = "read_call" /\ sense'[t] = "MEDIUM_ERROR" /\ cmd[t].op = "WRITE_VERIFY"
  BY <1>0 DEF OutOfMemory, ReadFails, WriteFails, WriteNoPage, Goto, Sense,
              set_medium_error, AfterWrite, StateTypes
<1>2. MeetsMedium(t)'
  BY <1>0, <1>1, SeenKeeps
<1>3. BroughtMet(t)' /\ WritesMet(t)' /\ EndsMet(t)' /\ NotYet(t)' /\ GoodSoFar(t)'
  BY <1>1 DEF BroughtMet, WritesMet, EndsMet, NotYet, GoodSoFar, ReadLabels, WriteLabels,
              SameLabels
<1> QED BY <1>2, <1>3 DEF MetBy

(* The write has succeeded: WRITE_VERIFY starts its read, the others end.  *)
LEMMA MetWritten ==
  ASSUME HandlerInv, StateTypes', Observe, NEW t \in Threads, MetBy(t), WriteDone(t)
  PROVE  MetBy(t)'
<1>0. StateTypes /\ Handler(t)
  BY DEF HandlerInv
<1>1. /\ pc[t] = "write_ret" /\ cmd' = cmd /\ out' = out /\ sense' = sense
      /\ pc'[t] = IF cmd[t].op = "WRITE_VERIFY" THEN "read_call" ELSE "end"
  BY <1>0 DEF WriteDone, Returned, Goto, AfterWrite, StateTypes
<1>2. MeetsMedium(t)' /\ \A i, b : MetAt(t, i, b) => MetAt(t, i, b)'
  BY <1>0, <1>1, SeenKeeps
<1>3. sense[t] = "GOOD" /\ cmd[t].op \in Written
  BY <1>0, <1>1 DEF MetBy, WritesMet, WriteLabels, Handler, Serving
<1>4. BroughtMet(t)' /\ WritesMet(t)' /\ NotYet(t)' /\ GoodSoFar(t)'
  BY <1>1, <1>3 DEF BroughtMet, WritesMet, NotYet, GoodSoFar, WriteLabels
<1>5. cmd[t].op = "ORWRITE" => MergedMet(t)'
  BY <1>1, <1>2 DEF MetBy, WritesMet, WriteLabels, MergedMet
<1>6. cmd[t].op = "COMPARE_AND_WRITE" => AllMet(t, Expected(t))'
  BY <1>1, <1>2 DEF MetBy, WritesMet, WriteLabels, AllMet, Expected
<1>7. EndsMet(t)'
  BY <1>1, <1>3, <1>5, <1>6 DEF EndsMet, Comparing, Written
<1> QED BY <1>2, <1>4, <1>7 DEF MetBy

(* The WRITE_SAME loop reads nothing. *)
LEMMA MetSame ==
  ASSUME HandlerInv, StateTypes', Observe, NEW t \in Threads, MetBy(t), SameReturns(t)
  PROVE  MetBy(t)'
<1>0. StateTypes /\ Handler(t)
  BY DEF HandlerInv
<1>1. /\ pc[t] = "same_ret" /\ cmd' = cmd /\ pc'[t] \in {"same_call", "end"}
      /\ sense'[t] \in {sense[t], "MEDIUM_ERROR"}
  BY <1>0 DEF SameReturns, Returned, Goto, Sense, set_medium_error, StateTypes
<1>2. cmd[t].op = "WRITE_SAME" /\ sense[t] \in {"GOOD", "MEDIUM_ERROR"}
  BY <1>0, <1>1 DEF MetBy, NotYet, SameLabels, Handler, Looping
<1>3. MeetsMedium(t)'
  BY <1>0, <1>1, SeenKeeps
<1>4. BroughtMet(t)' /\ WritesMet(t)' /\ EndsMet(t)' /\ NotYet(t)' /\ GoodSoFar(t)'
  BY <1>1, <1>2 DEF BroughtMet, WritesMet, EndsMet, NotYet, GoodSoFar, Comparing,
                    ReadLabels, WriteLabels
<1> QED BY <1>3, <1>4 DEF MetBy

(* Every step. *)
LEMMA MetStep ==
  ASSUME HandlerInv, HandlerInv', Known, MetInv, Observe, NEW t \in Threads,
         Step(t) \/ \E c \in Commands(t) : Receive(t, c)
  PROVE  MetInv'
<1>0. StateTypes /\ StateTypes' /\ MetBy(t)
  BY DEF HandlerInv, MetInv
<1>1. ASSUME NEW c \in Commands(t), Receive(t, c) PROVE MetBy(t)'
  BY <1>0, <1>1, MetReceive
<1>2. ASSUME Answer(t) PROVE MetBy(t)'
  <2>1. pc'[t] = "idle"
    BY <1>0, <1>2 DEF Answer, StateTypes
  <2> QED BY <2>1 DEF MetBy, MeetsMedium, BroughtMet, WritesMet, EndsMet, NotYet, GoodSoFar,
                      ReadLabels, WriteLabels, SameLabels
<1>3. ASSUME Step(t), ~Answer(t) PROVE MetBy(t)'
  BY <1>0, <1>3, MetCall, MetLibrary, MetCompare, MetMerge, MetFails, MetWritten, MetSame DEF Step
<1>4. MetBy(t)'
  BY <1>1, <1>2, <1>3
<1>5. \A u \in Threads \ {t} : MetBy(u)'
  BY <1>0, OtherThreads, OthersMet DEF MetInv
<1> QED BY <1>0, <1>4, <1>5, SeenDomain DEF MetInv

SeenInv == CommandInv /\ MetInv

(* At first no command has met anything. *)
LEMMA SeenInvInit == IsFsFlag /\ SeenInit => SeenInv
<1> SUFFICES ASSUME IsFsFlag, SeenInit PROVE SeenInv
  OBVIOUS
<1>1. CommandInv
  BY CommandInit DEF SeenInit
<1>2. DOMAIN seen = Threads /\ \A t \in Threads : DOMAIN seen[t] = Lbas /\ pc[t] = "idle"
  BY <1>1 DEF SeenInit, CommandInv, HandlerInv, StateTypes, Init
<1>3. \A t \in Threads : MetBy(t)
  BY <1>2 DEF MetBy, MeetsMedium, BroughtMet, WritesMet, EndsMet, NotYet, GoodSoFar,
              ReadLabels, WriteLabels, SameLabels
<1> QED BY <1>1, <1>2, <1>3 DEF SeenInv, MetInv

(* Every step, with its record of what the commands meet, keeps the        *)
(* invariant.                                                              *)
LEMMA SeenInvNext == SeenInv /\ [SeenNext]_<<vars, seen>> => SeenInv'
<1> SUFFICES ASSUME SeenInv, [SeenNext]_<<vars, seen>> PROVE SeenInv'
  OBVIOUS
<1>0. CommandInv /\ MetInv /\ HandlerInv /\ Known
  BY DEF SeenInv, CommandInv
<1>1. CommandInv'
  <2>1. [Next]_vars
    BY DEF SeenNext
  <2> QED BY <1>0, <2>1, CommandNext
<1>2. CASE SeenNext
  <2>1. PICK t \in Threads : Step(t) \/ \E c \in Commands(t) : Receive(t, c)
    BY <1>2 DEF SeenNext, Next
  <2>2. MetInv'
    BY <1>0, <1>1, <1>2, <2>1, MetStep DEF SeenNext, CommandInv
  <2> QED BY <1>1, <2>2 DEF SeenInv
<1>3. CASE UNCHANGED <<vars, seen>>
  <2>0. UNCHANGED <<medium, buf, done, busy, ret, pc, cmd, out, sense, seen>>
    BY <1>3 DEF vars
  <2>1. ASSUME NEW t \in Threads, MetBy(t) PROVE MetBy(t)'
    <3>1. \A i, b : MetAt(t, i, b) => MetAt(t, i, b)'
      BY <2>0 DEF MetAt, Addressed, ReadLength, Length
    <3>2. MeetsMedium(t)' /\ NotYet(t)' /\ GoodSoFar(t)'
      BY <2>0, <2>1 DEF MetBy, MeetsMedium, NotYet, GoodSoFar, Addressed, ReadLength, Length
    <3>3. BroughtMet(t)'
      BY <2>0, <2>1, <3>1 DEF MetBy, BroughtMet, Arrived, Succeeded
    <3>4. MergedMet(t) => MergedMet(t)'
      BY <2>0, <3>1 DEF MergedMet
    <3>5. WritesMet(t)'
      BY <2>0, <2>1, <3>1, <3>4 DEF MetBy, WritesMet, AllMet
    <3>6. EndsMet(t)'
      BY <2>0, <2>1, <3>1, <3>4 DEF MetBy, EndsMet, AllMet, Expected, Comparing
    <3> QED BY <3>2, <3>3, <3>5, <3>6 DEF MetBy
  <2> QED BY <1>0, <1>1, <2>0, <2>1 DEF SeenInv, MetInv
<1> QED BY <1>2, <1>3

(* The invariant contains the property. *)
LEMMA SeenPromises == SeenInv => UsesOnlyMetBlocks
<1> SUFFICES ASSUME SeenInv, NEW t \in Threads, pc[t] = "end"
             PROVE  /\ cmd[t].op = "READ" /\ sense[t] = "GOOD" =>
                         \A i \in DOMAIN buf[t] : Met(t, i, buf[t][i])
                    /\ Comparing(t) /\ sense[t] = "GOOD" =>
                         \A i \in DOMAIN Expected(t) : Met(t, i, Expected(t)[i])
                    /\ sense[t] = "MISCOMPARE" =>
                         \E i \in DOMAIN Expected(t) :
                           seen[t][cmd[t].lba + i] # {Expected(t)[i]}
                    /\ cmd[t].op = "ORWRITE" /\ sense[t] = "GOOD" =>
                         \A i \in DOMAIN out[t] :
                           \E b \in seen[t][cmd[t].lba + i] : out[t][i] = b \cup cmd[t].out[i]
  BY DEF UsesOnlyMetBlocks
<1>1. EndsMet(t)
  BY DEF SeenInv, MetInv, MetBy
<1>2. cmd[t].op = "READ" /\ sense[t] = "GOOD" => \A i \in DOMAIN buf[t] : Met(t, i, buf[t][i])
  BY <1>1 DEF EndsMet, AllMet, MetAt, Met
<1>3. Comparing(t) /\ sense[t] = "GOOD" =>
        \A i \in DOMAIN Expected(t) : Met(t, i, Expected(t)[i])
  BY <1>1 DEF EndsMet, AllMet, MetAt, Met
<1>4. sense[t] = "MISCOMPARE" =>
        \E i \in DOMAIN Expected(t) : seen[t][cmd[t].lba + i] # {Expected(t)[i]}
  BY <1>1 DEF EndsMet, MetAt
<1>5. cmd[t].op = "ORWRITE" /\ sense[t] = "GOOD" =>
        \A i \in DOMAIN out[t] :
          \E b \in seen[t][cmd[t].lba + i] : out[t][i] = b \cup cmd[t].out[i]
  BY <1>1 DEF EndsMet, MergedMet, MetAt
<1> QED BY <1>2, <1>3, <1>4, <1>5

(* However many commands run at the same time, and in whatever order their *)
(* calls of the library interleave, a command ends having used only blocks *)
(* that were on the medium while it read: what READ returned, what a       *)
(* comparison compared with and what ORWRITE merged into.                  *)
THEOREM UsesOnlyMetBlocksAlways == IsFsFlag /\ SeenSpec => []UsesOnlyMetBlocks
BY SeenInvInit, SeenInvNext, SeenPromises, PTL DEF SeenSpec
=============================================================================
