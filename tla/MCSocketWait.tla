---------------------------- MODULE MCSocketWait ----------------------------
(***************************************************************************)
(* Instances of SocketWait for TLC.                                        *)
(***************************************************************************)
EXTENDS SocketWait

Epoll(timeout) == [op |-> "epoll", timeout |-> timeout, rd |-> TRUE, wr |-> TRUE]
Select(timeout, r, w) == [op |-> "select", timeout |-> timeout, rd |-> r, wr |-> w]

(* With 12 bits, 2 seconds fit, 3 become a negative number of milliseconds *)
(* and 5 a positive one.                                                   *)
EpollCalls == {Epoll(-1), Epoll(1), Epoll(2), Epoll(3), Epoll(5)}
SelectCalls == {Select(1, TRUE, FALSE), Select(1, FALSE, TRUE), Select(0, FALSE, FALSE),
                Select(-1, TRUE, TRUE)}
AllCalls == EpollCalls \cup SelectCalls
=============================================================================
