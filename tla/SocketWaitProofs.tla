-------------------------- MODULE SocketWaitProofs --------------------------
(***************************************************************************)
(* What the socket waits promise for any number of threads, every set of   *)
(* calls and time limits, every width of int and every set of faults.      *)
(***************************************************************************)
EXTENDS SocketWait, TLAPS

Labels == {"idle", "epoll_create", "epoll_ctl", "epoll_wait", "getsockopt", "end",
           "select", "select_sockopt"}
Statuses == {"none", "SOC_SUCCESS", "SOC_ERROR", "SOC_TIMEOUT"}

(* Between a successful epoll_create and the close at the end. *)
Holding(t) ==
  \/ pc[t] \in {"epoll_ctl", "epoll_wait", "getsockopt"}
  \/ pc[t] = "end" /\ epoll_fd[t] # -1

(* Types, and which of the two functions a thread is in. *)
SocketType ==
  /\ sock \in [Threads -> {"pending", "connected", "failed"}]
  /\ used \subseteq Fds
  /\ pc \in [Threads -> Labels]
  /\ call \in [Threads -> Calls \cup {NoCall}]
  /\ epoll_fd \in [Threads -> Fds \cup {-1}]
  /\ ret \in [Threads -> Statuses]
  /\ errsv \in [Threads -> Errors]
  /\ \A t \in Threads :
       /\ pc[t] \in {"epoll_create", "epoll_ctl", "epoll_wait", "getsockopt", "end"} =>
            call[t].op = "epoll"
       /\ pc[t] \in {"select", "select_sockopt"} => call[t].op = "select"
       /\ pc[t] \in {"epoll_ctl", "epoll_wait", "getsockopt"} => epoll_fd[t] # -1

(* What is known of the result before the call has ended, too. *)
ResultInv ==
  \A t \in Threads :
    /\ call[t].op = "epoll" /\ ret[t] = "SOC_SUCCESS" => sock[t] = "connected"
    /\ ret[t] = "SOC_ERROR" => errsv[t] # 0
    /\ call[t].op = "epoll" /\ ret[t] = "SOC_TIMEOUT" => errsv[t] = 0

(* The open epoll instances are those of the waiting threads, one each. *)
EpollOwned ==
  /\ \A t \in Threads : Holding(t) => epoll_fd[t] \in used
  /\ \A t, u \in Threads :
       Holding(t) /\ Holding(u) /\ t # u => epoll_fd[t] # epoll_fd[u]
  /\ \A fd \in used : \/ fd = RESERVED_FD_COUNT
                      \/ \E t \in Threads : Holding(t) /\ epoll_fd[t] = fd

(* The types are inductive. *)
LEMMA TypeStep ==
  ASSUME SocketType, [Next]_vars
  PROVE  SocketType'
<1> USE DEF SocketType, Labels, Goto, Result, Statuses, Errors, Errno, Refused
<1>1. CASE UNCHANGED vars
  BY <1>1 DEF vars
<1>2. CASE Next
  <2>1. PICK t \in Threads :
          Step(t) \/ EpollWaitFails(t) \/ Connect(t) \/ \E c \in Calls : Enter(t, c)
    BY <1>2 DEF Next
  <2>2. ASSUME NEW c \in Calls, Enter(t, c) PROVE SocketType'
    <3>1. c.op \in {"epoll", "select"}
      BY SocketAssumption
    <3> QED BY <2>2, <3>1 DEF Enter
  <2>3. CASE Connect(t)
    BY <2>3 DEF Connect
  <2>4. CASE EpollCreate(t) \/ EpollCreateFails(t)
    <3>1. -1 \notin Fds
      BY SocketAssumption DEF Fds
    <3> QED BY <2>4, <3>1 DEF EpollCreate, EpollCreateFails
  <2>5. CASE EpollCtl(t) \/ EpollEvent(t) \/ EpollTimeout(t) \/ EpollWaitFails(t)
    BY <2>5 DEF EpollCtl, EpollEvent, EpollTimeout, EpollWaitFails
  <2>6. CASE EpollSockopt(t) \/ EpollEnd(t)
    BY <2>6 DEF EpollSockopt, EpollEnd
  <2>7. CASE SelectEvent(t) \/ SelectTimeout(t) \/ SelectFails(t) \/ SelectSockopt(t)
    BY <2>7 DEF SelectEvent, SelectTimeout, SelectFails, SelectSockopt
  <2> QED BY <2>1, <2>2, <2>3, <2>4, <2>5, <2>6, <2>7 DEF Step
<1> QED BY <1>1, <1>2

(* So is what is known of the results. *)
LEMMA ResultStep ==
  ASSUME SocketType, ResultInv, [Next]_vars
  PROVE  ResultInv'
<1> USE DEF SocketType, ResultInv, Goto, Result, Errno, Refused
<1>1. CASE UNCHANGED vars
  BY <1>1 DEF vars
<1>2. CASE Next
  <2>1. PICK t \in Threads :
          Step(t) \/ EpollWaitFails(t) \/ Connect(t) \/ \E c \in Calls : Enter(t, c)
    BY <1>2 DEF Next
  <2>2. ASSUME NEW c \in Calls, Enter(t, c) PROVE ResultInv'
    BY <2>2 DEF Enter
  <2>3. CASE Connect(t)
    BY <2>3 DEF Connect
  <2>4. CASE EpollCreate(t) \/ EpollCreateFails(t) \/ EpollCtl(t) \/ EpollEvent(t)
    BY <2>4 DEF EpollCreate, EpollCreateFails, EpollCtl, EpollEvent
  <2>5. CASE EpollTimeout(t) \/ EpollWaitFails(t) \/ EpollSockopt(t) \/ EpollEnd(t)
    BY <2>5 DEF EpollTimeout, EpollWaitFails, EpollSockopt, EpollEnd
  <2>6. CASE SelectEvent(t) \/ SelectTimeout(t) \/ SelectFails(t) \/ SelectSockopt(t)
    BY <2>6 DEF SelectEvent, SelectTimeout, SelectFails, SelectSockopt
  <2> QED BY <2>1, <2>2, <2>3, <2>4, <2>5, <2>6 DEF Step
<1> QED BY <1>1, <1>2

(* A step that opens and closes nothing. *)
LEMMA KeepEpoll ==
  ASSUME EpollOwned, UNCHANGED <<used, epoll_fd>>,
         \A t \in Threads : Holding(t)' <=> Holding(t)
  PROVE  EpollOwned'
  BY DEF EpollOwned

(* The epoll instances: opened for one thread, closed by that thread. *)
LEMMA EpollStep ==
  ASSUME SocketType, EpollOwned, [Next]_vars
  PROVE  EpollOwned'
<1> USE DEF SocketType, Goto, Result, Holding
<1>1. CASE UNCHANGED vars
  BY <1>1, KeepEpoll DEF vars
<1>2. CASE Next
  <2>1. PICK t \in Threads :
          Step(t) \/ EpollWaitFails(t) \/ Connect(t) \/ \E c \in Calls : Enter(t, c)
    BY <1>2 DEF Next
  <2>2. ASSUME NEW c \in Calls, Enter(t, c) PROVE EpollOwned'
    BY <2>2, KeepEpoll DEF Enter
  <2>3. CASE Connect(t)
    BY <2>3, KeepEpoll DEF Connect
  <2>4. CASE EpollCreate(t)
    <3>1. PICK fd \in Fds \ used :
            used' = used \cup {fd} /\ epoll_fd' = [epoll_fd EXCEPT ![t] = fd]
      BY <2>4 DEF EpollCreate
    <3>2. ~Holding(t) /\ Holding(t)' /\ epoll_fd'[t] = fd
      BY <2>4, <3>1 DEF EpollCreate
    <3>3. \A u \in Threads : u # t =>
            (Holding(u)' <=> Holding(u)) /\ epoll_fd'[u] = epoll_fd[u]
      BY <2>4, <3>1 DEF EpollCreate
    <3> QED BY <3>1, <3>2, <3>3 DEF EpollOwned
  <2>5. CASE EpollCreateFails(t)
    <3>1. ~Holding(t) /\ ~Holding(t)' /\ used' = used
      BY <2>5 DEF EpollCreateFails
    <3>2. \A u \in Threads : u # t =>
            (Holding(u)' <=> Holding(u)) /\ epoll_fd'[u] = epoll_fd[u]
      BY <2>5 DEF EpollCreateFails
    <3> QED BY <3>1, <3>2 DEF EpollOwned
  <2>6. CASE EpollCtl(t) \/ EpollEvent(t) \/ EpollTimeout(t) \/ EpollWaitFails(t)
             \/ EpollSockopt(t)
    <3>1. \A u \in Threads : Holding(u)' <=> Holding(u)
      BY <2>6 DEF EpollCtl, EpollEvent, EpollTimeout, EpollWaitFails, EpollSockopt
    <3> QED BY <2>6, <3>1, KeepEpoll
            DEF EpollCtl, EpollEvent, EpollTimeout, EpollWaitFails, EpollSockopt
  <2>7. CASE EpollEnd(t)
    <3>1. /\ ~Holding(t)' /\ epoll_fd' = epoll_fd
          /\ Holding(t) <=> epoll_fd[t] # -1
      BY <2>7 DEF EpollEnd
    <3>2. \A u \in Threads : u # t => (Holding(u)' <=> Holding(u))
      BY <2>7 DEF EpollEnd
    <3>3. used' = IF epoll_fd[t] > RESERVED_FD_COUNT THEN used \ {epoll_fd[t]} ELSE used
      BY <2>7 DEF EpollEnd
    <3>4. epoll_fd[t] = -1 \/ epoll_fd[t] = RESERVED_FD_COUNT
          \/ epoll_fd[t] > RESERVED_FD_COUNT
      BY SocketAssumption DEF Fds, RESERVED_FD_COUNT
    <3>5. CASE epoll_fd[t] = -1
      <4>1. used' = used /\ ~Holding(t)
        BY <3>1, <3>3, <3>5 DEF RESERVED_FD_COUNT
      <4> QED BY <3>1, <3>2, <4>1 DEF EpollOwned
    <3>6. CASE epoll_fd[t] = RESERVED_FD_COUNT
      <4>1. used' = used
        BY <3>3, <3>6 DEF RESERVED_FD_COUNT
      <4> QED BY <3>1, <3>2, <3>6, <4>1 DEF EpollOwned
    <3>7. CASE epoll_fd[t] > RESERVED_FD_COUNT
      <4>1. used' = used \ {epoll_fd[t]} /\ Holding(t)
        BY <3>1, <3>3, <3>7 DEF RESERVED_FD_COUNT
      <4> QED BY <3>1, <3>2, <4>1 DEF EpollOwned
    <3> QED BY <3>4, <3>5, <3>6, <3>7
  <2>8. CASE SelectEvent(t) \/ SelectTimeout(t) \/ SelectFails(t) \/ SelectSockopt(t)
    <3>1. \A u \in Threads : Holding(u)' <=> Holding(u)
      BY <2>8 DEF SelectEvent, SelectTimeout, SelectFails, SelectSockopt
    <3> QED BY <2>8, <3>1, KeepEpoll
            DEF SelectEvent, SelectTimeout, SelectFails, SelectSockopt
  <2> QED BY <2>1, <2>2, <2>3, <2>4, <2>5, <2>6, <2>7, <2>8 DEF Step
<1> QED BY <1>1, <1>2

(* The three hold in every state. *)
SocketInv == SocketType /\ ResultInv /\ EpollOwned

(* The inductive invariant of the waits. *)
LEMMA SocketInvAlways == Spec => []SocketInv
<1>1. Init => SocketInv
  BY DEF Init, SocketInv, SocketType, ResultInv, EpollOwned, Holding, Labels, Statuses,
         Errors, NoCall
<1>2. SocketInv /\ [Next]_vars => SocketInv'
  BY TypeStep, ResultStep, EpollStep DEF SocketInv
<1> QED BY <1>1, <1>2, PTL DEF Spec

(* sock_wait_epoll reports success only for a connection that was made,    *)
(* whatever wakes it, and however a late answer races the time limit.      *)
THEOREM SuccessMeansConnectedAlways == Spec => []SuccessMeansConnected
<1>1. SocketInv => SuccessMeansConnected
  BY DEF SocketInv, ResultInv, SuccessMeansConnected
<1> QED BY <1>1, SocketInvAlways, PTL

(* Every SOC_ERROR comes with an error number, on every path of both       *)
(* functions, and a time-out of sock_wait_epoll with none.                 *)
THEOREM ErrorExplainedAlways == Spec => []ErrorExplained
<1>1. SocketInv => ErrorExplained
  BY DEF SocketInv, ResultInv, ErrorExplained
<1> QED BY <1>1, SocketInvAlways, PTL

(* The epoll instances of sock_wait_epoll do not pile up: one that is open *)
(* is that of a call that has not ended, or is descriptor 3.               *)
THEOREM EpollReleasedAlways == Spec => []EpollReleased
<1>1. SocketInv => EpollReleased
  BY DEF SocketInv, EpollOwned, EpollReleased, Holding, Ended
<1> QED BY <1>1, SocketInvAlways, PTL

(* No call of sock_wait_epoll waits on, or closes, the epoll instance of   *)
(* another: a number that was closed and handed out again is never closed  *)
(* a second time by the thread that had it first.                          *)
THEOREM EpollOwnedAlways == Spec => []EpollOwned
<1>1. SocketInv => EpollOwned
  BY DEF SocketInv
<1> QED BY <1>1, SocketInvAlways, PTL
=============================================================================
