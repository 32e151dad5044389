------------------------------- MODULE TcpLink -------------------------------
(***************************************************************************)
(* One direction of a TCP connection between two processes: the send path  *)
(* of the one and the receive path of the other, joined by the socket.     *)
(***************************************************************************)
EXTENDS RecvPath

linkVars == <<sendVars, recvVars, closed>>

TcpInit == SendInit /\ RecvInit

\* The sender's connection is closed; what the socket has taken still arrives.
Close ==
  /\ ~ closed /\ drain = "no"
  /\ closed' = TRUE
  /\ UNCHANGED <<sendVars, recvVars>>

TcpNext ==
  \/ ~ closed /\ SendNext /\ UNCHANGED <<recvVars, closed>>
  \/ RecvNext /\ UNCHANGED <<sendVars, closed>>
  \/ Close

TcpSpec == TcpInit /\ [][TcpNext]_linkVars

\* A packet that was accepted for sending reaches the other process's main
\* thread, unless the connection is closed, the receive queue overflows, or the
\* second copy of a packet has spoilt the stream.
Delivered ==
  \A p \in 1 .. MaxPackets :
    p \in DOMAIN ends ~> closed \/ p \in lost \/ ~ StreamIntact \/ \E i \in DOMAIN got : got[i] = p

\* Packets that wait for a busy socket are kept as they are
\* (tcp_connection_manager.h:49): nothing is added to the stream.
OnlyPackets == \A i \in DOMAIN wire : wire[i] # Stale

=============================================================================
