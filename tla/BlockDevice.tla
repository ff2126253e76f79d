----------------------------- MODULE BlockDevice -----------------------------
(***************************************************************************)
(* What a LUN promises to the code above simpleOSD_read/simpleOSD_write: a *)
(* flat array of bytes.  Requests of several threads overlap.  Each moves  *)
(* its bytes in order, in pieces of any size, each piece at once; it       *)
(* succeeds only when all of them were moved, and one that fails has moved *)
(* a prefix.  Nothing else changes the medium, a crash included.  A LUN on *)
(* which nothing was written (formatted is FALSE) answers a read with      *)
(* success and leaves the caller's buffer alone.                           *)
(***************************************************************************)
EXTENDS Integers

CONSTANTS
  Threads,             \* the threads that submit requests
  Capacity,            \* bytes of the LUN
  Zero,                \* the byte a medium holds before any write
  Junk,                \* what a read buffer holds before the read
  Requests,            \* [op, offset, buf_len] records
  WriteBuffers(_, _),  \* the buffers a thread may send with a write request
  IsFsFlag             \* the formatted flag a (re)opened LUN starts with

VARIABLES medium, formatted, req, buf, done, busy, ret

vars == <<medium, formatted, req, buf, done, busy, ret>>

(* No request: what req holds before the first one and after a restart. *)
NoRequest == [op |-> "none", offset |-> 0, buf_len |-> 0]

Init ==
  /\ medium = [a \in 0 .. Capacity - 1 |-> Zero]
  /\ formatted = IsFsFlag
  /\ req = [t \in Threads |-> NoRequest]
  /\ buf = [t \in Threads |-> << >>]
  /\ done = [t \in Threads |-> 0]
  /\ busy = [t \in Threads |-> FALSE]
  /\ ret = [t \in Threads |-> "none"]

(* The caller's buffer as the request arrives. *)
Buffers(t, r) ==
  IF r.op = "write" THEN WriteBuffers(t, r)
                    ELSE {[i \in 0 .. r.buf_len - 1 |-> Junk]}

(* A new request r with buffer b: answered at once, or started. *)
Accept(t, r, b) ==
  /\ ~busy[t]
  /\ req' = [req EXCEPT ![t] = r]
  /\ buf' = [buf EXCEPT ![t] = b]
  /\ done' = [done EXCEPT ![t] = 0]
  /\ formatted' = (formatted \/ r.op = "write")
  /\ \/ /\ \/ /\ r.op = "read"
              /\ ~formatted
           \/ r.buf_len = 0
        /\ ret' = [ret EXCEPT ![t] = "OSD_SUCCESS"]
        /\ busy' = busy
     \/ /\ ret' = [ret EXCEPT ![t] = "OSD_ERROR"]
        /\ busy' = busy
     \/ /\ formatted'
        /\ r.offset + r.buf_len <= Capacity
        /\ ret' = [ret EXCEPT ![t] = "none"]
        /\ busy' = [busy EXCEPT ![t] = TRUE]
  /\ medium' = medium

Submit(t) == \E r \in Requests : \E b \in Buffers(t, r) : Accept(t, r, b)

(* The next n bytes of the request move, all at once. *)
Transfer(t, n) ==
  LET moved == done[t] .. done[t] + n - 1
      first == req[t].offset
  IN /\ busy[t]
     /\ done[t] + n <= req[t].buf_len
     /\ done' = [done EXCEPT ![t] = @ + n]
     /\ IF req[t].op = "write"
        THEN /\ medium' = [a \in 0 .. Capacity - 1 |->
                             IF a - first \in moved THEN buf[t][a - first]
                                                    ELSE medium[a]]
             /\ buf' = buf
        ELSE /\ buf' = [buf EXCEPT ![t] = [i \in 0 .. req[t].buf_len - 1 |->
                                             IF i \in moved THEN medium[first + i]
                                                            ELSE buf[t][i]]]
             /\ medium' = medium
     /\ UNCHANGED <<formatted, req, busy, ret>>

(* The request ends: with success only when every byte has moved. *)
Finish(t) ==
  /\ busy[t]
  /\ busy' = [busy EXCEPT ![t] = FALSE]
  /\ done' = [done EXCEPT ![t] = 0]
  /\ \/ /\ done[t] = req[t].buf_len
        /\ ret' = [ret EXCEPT ![t] = "OSD_SUCCESS"]
     \/ ret' = [ret EXCEPT ![t] = "OSD_ERROR"]
  /\ UNCHANGED <<medium, formatted, req, buf>>

(* The process dies and the LUN is opened again: the bytes moved so far    *)
(* stay where they are.                                                    *)
Restart ==
  /\ formatted' = IsFsFlag
  /\ req' = [t \in Threads |-> NoRequest]
  /\ buf' = [t \in Threads |-> << >>]
  /\ done' = [t \in Threads |-> 0]
  /\ busy' = [t \in Threads |-> FALSE]
  /\ ret' = [t \in Threads |-> "none"]
  /\ medium' = medium

Next ==
  \/ \E t \in Threads :
       \/ Submit(t)
       \/ \E n \in 1 .. Capacity : Transfer(t, n)
       \/ Finish(t)
  \/ Restart

Spec == Init /\ [][Next]_vars
=============================================================================
