----------------------------- MODULE SocketWait -----------------------------
(***************************************************************************)
(* sock_wait_epoll and sock_wait: threads of one process wait, each with a *)
(* time limit, for a socket whose connection is being made.  A step is one *)
(* system call.  An error number is Errno or 0; the error of a connection  *)
(* that failed is Refused.                                                 *)
(***************************************************************************)
EXTENDS Integers

CONSTANTS
  Threads,
  Calls,           \* [op, timeout, rd, wr] records
  IntBits,         \* width of int
  FirstFd, LastFd, \* descriptors free for the process
  Faults           \* what may fail, see FaultKinds

RESERVED_FD_COUNT == 3
SEC2MSEC == 1000
FaultKinds == {"epoll_create", "epoll_ctl", "wait", "getsockopt"}
Fds == FirstFd .. LastFd
Errno == 5
Refused == 111
Errors == {0, Errno, Refused}
NoCall == [op |-> "none", timeout |-> 0, rd |-> FALSE, wr |-> FALSE]

ASSUME SocketAssumption ==
  /\ IntBits \in Nat \ {0}
  /\ Calls \subseteq [op : {"epoll", "select"}, timeout : Int, rd : BOOLEAN, wr : BOOLEAN]
  /\ FirstFd \in Nat /\ LastFd \in Nat /\ FirstFd >= RESERVED_FD_COUNT
  /\ Faults \subseteq FaultKinds

VARIABLES
  sock,            \* socket of each thread: "pending", "connected" or "failed"
  used,            \* descriptors that are epoll instances
  pc, call,
  limit,           \* the time limit the kernel gets; negative is none in epoll_wait
  epoll_fd,
  ret, errsv       \* what the caller gets: status and *p_errsv

vars == <<sock, used, pc, call, limit, epoll_fd, ret, errsv>>

Init ==
  /\ sock = [t \in Threads |-> "pending"]
  /\ used = {}
  /\ pc = [t \in Threads |-> "idle"]
  /\ call = [t \in Threads |-> NoCall]
  /\ limit = [t \in Threads |-> 0]
  /\ epoll_fd = [t \in Threads |-> -1]
  /\ ret = [t \in Threads |-> "none"]
  /\ errsv = [t \in Threads |-> 0]

Goto(t, label) == pc' = [pc EXCEPT ![t] = label]
Result(t, status, error) ==
  /\ ret' = [ret EXCEPT ![t] = status]
  /\ errsv' = [errsv EXCEPT ![t] = error]

(* What an int holds of x. *)
AsInt(x) == ((x + 2 ^ (IntBits - 1)) % 2 ^ IntBits) - 2 ^ (IntBits - 1)

(* Seeded fault: the product has one bit less. *)
Msec_Narrow(timeout) ==
  ((timeout * SEC2MSEC + 2 ^ (IntBits - 2)) % 2 ^ (IntBits - 1)) - 2 ^ (IntBits - 2)

(* timeout_msec: the product overflows for limits of many days. *)
Msec(timeout) == AsInt(timeout * SEC2MSEC)

(***************************************************************************)
(* A call, with a new socket that may be connected by now, and with what   *)
(* its caller's errno variable holds.                                      *)
(***************************************************************************)
Enter(t, c) ==
  /\ pc[t] = "idle"
  /\ \E s \in {"pending", "connected"} : sock' = [sock EXCEPT ![t] = s]
  /\ call' = [call EXCEPT ![t] = c]
  /\ limit' = [limit EXCEPT ![t] = IF c.op = "epoll" THEN Msec(c.timeout) ELSE c.timeout]
  /\ Goto(t, IF c.op = "epoll" THEN "epoll_create" ELSE "select")
  /\ Result(t, "none", 0)
  /\ UNCHANGED <<used, epoll_fd>>

(* The connection is made or refused. *)
Connect(t) ==
  /\ sock[t] = "pending"
  /\ \E s \in {"connected", "failed"} : sock' = [sock EXCEPT ![t] = s]
  /\ UNCHANGED <<used, pc, call, limit, epoll_fd, ret, errsv>>

(***************************************************************************)
(* sock_wait_epoll.                                                        *)
(***************************************************************************)
EpollCreate(t) ==
  /\ pc[t] = "epoll_create"
  /\ \E fd \in Fds \ used :
       /\ \A g \in Fds \ used : fd <= g
       /\ used' = used \cup {fd}
       /\ epoll_fd' = [epoll_fd EXCEPT ![t] = fd]
  /\ Goto(t, "epoll_ctl")
  /\ UNCHANGED <<sock, call, limit, ret, errsv>>

EpollCreateFails(t) ==
  /\ pc[t] = "epoll_create"
  /\ Fds \subseteq used \/ "epoll_create" \in Faults
  /\ epoll_fd' = [epoll_fd EXCEPT ![t] = -1]
  /\ Result(t, "SOC_ERROR", Errno)
  /\ Goto(t, "end")
  /\ UNCHANGED <<sock, used, call, limit>>

EpollCtl(t) ==
  /\ pc[t] = "epoll_ctl"
  /\ \/ Goto(t, "epoll_wait") /\ UNCHANGED <<ret, errsv>>
     \/ "epoll_ctl" \in Faults /\ Goto(t, "end") /\ Result(t, "SOC_ERROR", Errno)
  /\ UNCHANGED <<sock, used, call, limit, epoll_fd>>

(* An event of the socket, whichever way the connection went. *)
EpollEvent(t) ==
  /\ pc[t] = "epoll_wait"
  /\ sock[t] # "pending"
  /\ Goto(t, "getsockopt")
  /\ UNCHANGED <<sock, used, call, limit, epoll_fd, ret, errsv>>

EpollTimeout(t) ==
  /\ pc[t] = "epoll_wait"
  /\ sock[t] = "pending" /\ limit[t] >= 0
  /\ Result(t, "SOC_TIMEOUT", 0)
  /\ Goto(t, "end")
  /\ UNCHANGED <<sock, used, call, limit, epoll_fd>>

(* A signal, for one. *)
EpollWaitFails(t) ==
  /\ pc[t] = "epoll_wait"
  /\ "wait" \in Faults
  /\ Result(t, "SOC_ERROR", Errno)
  /\ Goto(t, "end")
  /\ UNCHANGED <<sock, used, call, limit, epoll_fd>>

(* Seeded fault: an event is taken for success. *)
EpollSockopt_Untested(t) ==
  /\ pc[t] = "getsockopt"
  /\ Result(t, "SOC_SUCCESS", 0)
  /\ Goto(t, "end")
  /\ UNCHANGED <<sock, used, call, limit, epoll_fd>>

(* Seeded fault: the socket's error is not handed to the caller. *)
EpollSockopt_NoReason(t) ==
  /\ pc[t] = "getsockopt"
  /\ Result(t, IF sock[t] = "failed" THEN "SOC_ERROR" ELSE "SOC_SUCCESS", errsv[t])
  /\ Goto(t, "end")
  /\ UNCHANGED <<sock, used, call, limit, epoll_fd>>

(* SO_ERROR tells how the connection went. *)
EpollSockopt(t) ==
  /\ pc[t] = "getsockopt"
  /\ \/ sock[t] = "failed" /\ Result(t, "SOC_ERROR", Refused)
     \/ sock[t] = "connected" /\ Result(t, "SOC_SUCCESS", errsv[t])
     \/ "getsockopt" \in Faults /\ Result(t, "SOC_ERROR", Errno)
  /\ Goto(t, "end")
  /\ UNCHANGED <<sock, used, call, limit, epoll_fd>>

(* Seeded fault: only a call that succeeds closes. *)
EpollEnd_OnSuccess(t) ==
  /\ pc[t] = "end"
  /\ used' = IF ret[t] = "SOC_SUCCESS" THEN used \ {epoll_fd[t]} ELSE used
  /\ Goto(t, "idle")
  /\ UNCHANGED <<sock, call, limit, epoll_fd, ret, errsv>>

(* A close that fails is logged and has released the descriptor. *)
EpollEnd(t) ==
  /\ pc[t] = "end"
  /\ used' = IF epoll_fd[t] > RESERVED_FD_COUNT THEN used \ {epoll_fd[t]} ELSE used
  /\ Goto(t, "idle")
  /\ UNCHANGED <<sock, call, limit, epoll_fd, ret, errsv>>

(***************************************************************************)
(* sock_wait, for reading or writing.  errno is not reset before select:   *)
(* unless select fails, *p_errsv gets what an earlier call left.           *)
(***************************************************************************)
Wakes(t) ==
  \/ sock[t] = "failed" /\ (call[t].rd \/ call[t].wr)
  \/ sock[t] = "connected" /\ call[t].wr

SelectEvent(t) ==
  /\ pc[t] = "select"
  /\ limit[t] >= 0 /\ Wakes(t)
  /\ \E stale \in {0, Errno} : Result(t, "none", stale)
  /\ Goto(t, "select_sockopt")
  /\ UNCHANGED <<sock, used, call, limit, epoll_fd>>

SelectTimeout(t) ==
  /\ pc[t] = "select"
  /\ limit[t] >= 0 /\ ~Wakes(t)
  /\ \E stale \in {0, Errno} : Result(t, "SOC_TIMEOUT", stale)
  /\ Goto(t, "idle")
  /\ UNCHANGED <<sock, used, call, limit, epoll_fd>>

(* select refuses a negative limit. *)
SelectFails(t) ==
  /\ pc[t] = "select"
  /\ limit[t] < 0 \/ "wait" \in Faults
  /\ Result(t, "SOC_ERROR", Errno)
  /\ Goto(t, "idle")
  /\ UNCHANGED <<sock, used, call, limit, epoll_fd>>

(* so_error is 0 before the call, whose result is not looked at. *)
SelectSockopt(t) ==
  /\ pc[t] = "select_sockopt"
  /\ \/ sock[t] = "failed" /\ Result(t, "SOC_ERROR", Refused)
     \/ sock[t] = "connected" /\ Result(t, "SOC_SUCCESS", errsv[t])
     \/ "getsockopt" \in Faults /\ Result(t, "SOC_SUCCESS", errsv[t])
  /\ Goto(t, "idle")
  /\ UNCHANGED <<sock, used, call, limit, epoll_fd>>

Step(t) ==
  \/ EpollCreate(t) \/ EpollCreateFails(t) \/ EpollCtl(t)
  \/ EpollEvent(t) \/ EpollTimeout(t) \/ EpollSockopt(t) \/ EpollEnd(t)
  \/ SelectEvent(t) \/ SelectTimeout(t) \/ SelectFails(t) \/ SelectSockopt(t)

Next ==
  \E t \in Threads :
    Step(t) \/ EpollWaitFails(t) \/ Connect(t) \/ \E c \in Calls : Enter(t, c)

Spec == Init /\ [][Next]_vars

(* Threads are scheduled, and the kernel wakes a wait whose time is over.  *)
(* Nothing promises a signal or that the connection is made.               *)
FairSpec == Spec /\ \A t \in Threads : WF_vars(Step(t))

-----------------------------------------------------------------------------
Ended(t) == pc[t] = "idle"

(***************************************************************************)
(* sock_wait_epoll succeeds only for a connection that was made, not for   *)
(* one that woke it by failing.  (sock_wait promises less: it takes a      *)
(* getsockopt that failed for success.)                                    *)
(***************************************************************************)
SuccessMeansConnected ==
  \A t \in Threads : 
    Ended(t) /\ call[t].op = "epoll" /\ ret[t] = "SOC_SUCCESS" => sock[t] = "connected"

(***************************************************************************)
(* A wait that ends in SOC_ERROR tells its caller why; sock_wait_epoll     *)
(* tells nothing when it only timed out.                                   *)
(***************************************************************************)
ErrorExplained ==
  \A t \in Threads : Ended(t) =>
    /\ ret[t] = "SOC_ERROR" => errsv[t] # 0
    /\ ret[t] = "SOC_TIMEOUT" /\ call[t].op = "epoll" => errsv[t] = 0

(***************************************************************************)
(* An epoll descriptor is closed when its call ends, on every path, except *)
(* descriptor 3, which the end of sock_wait_epoll counts as reserved: at   *)
(* most this one stays open, however many calls are made.                  *)
(***************************************************************************)
EpollReleased ==
  \A fd \in used : \/ fd = RESERVED_FD_COUNT
                   \/ \E t \in Threads : ~Ended(t) /\ epoll_fd[t] = fd

(***************************************************************************)
(* A wait with a limit that is not negative and whose milliseconds an int  *)
(* holds ends, whether or not the connection is ever made.                 *)
(***************************************************************************)
Fits(timeout) == timeout >= 0 /\ timeout * SEC2MSEC < 2 ^ (IntBits - 1)

WaitsEnd ==
  \A t \in Threads : (~Ended(t) /\ Fits(call[t].timeout)) ~> Ended(t)
=============================================================================
