----------------------------- MODULE PrivateLink -----------------------------
(***************************************************************************)
(* The connections between the processes of a server: a process that       *)
(* listens (the router) and the peers that connect to it.  Each side hands *)
(* a new connection to its PrivateConnectionChecker, where the peer says   *)
(* who it is and the listener answers, and from there to its               *)
(* TcpConnectionManager, which keeps one connection for a process id.  A   *)
(* peer's TcpClient connects again when nothing holds its connection any   *)
(* more.                                                                   *)
(*                                                                         *)
(* A link is one TCP connection; `cli' and `srv' say where its ends are.   *)
(* Each side finds out by itself that a link is broken or that the other   *)
(* end is closed, which may be long after the other side did.              *)
(***************************************************************************)
EXTENDS Naturals, FiniteSets

CONSTANTS
  Peers,       \* the processes that connect
  Valid,       \* those whose id the listener accepts
  Server,      \* the process that listens
  Links,       \* a peer's links at a time, counting those that one end still has: peers
               \* and numbers
  MaxFaults,   \* broken links, failures of epoll, and restarts
  None

ASSUME PrivateAssumption ==
  /\ Valid \subseteq Peers /\ Server \notin Peers
  /\ Links \subseteq Peers \X Nat /\ None \notin Links /\ MaxFaults \in Nat

VARIABLES
  cli,         \* the peer's end of a link
  srv,         \* the listener's end
  wire,        \* what was sent last: the peer's id, or the answer
  broken,      \* links that are cut
  peerTable,   \* m_privateConns of each peer: the link to the listener
  srvTable,    \* m_privateConns of the listener: the link of each peer
  running,     \* processes that run
  suspended,   \* processes whose main timer waits
  faults       \* how many faults there have been

linkVars == <<cli, srv, wire, broken, peerTable, srvTable, running, suspended, faults>>

Of(p) == {l \in Links : l[1] = p}
Procs == Peers \cup {Server}

LinkInit ==
  /\ cli = [l \in Links |-> "none"] /\ srv = [l \in Links |-> "none"]
  /\ wire = [l \in Links |-> "none"] /\ broken = {}
  /\ peerTable = [p \in Peers |-> None] /\ srvTable = [p \in Peers |-> None]
  /\ running = {} /\ suspended = Procs /\ faults = 0

---------------------------------------------------------------------------
\* The peer's TcpClient and its checker.

\* Variant: a connection is not tried again.
ConnectOnce(p, l) ==
  /\ {p, Server} \subseteq running
  /\ \A k \in Of(p) : cli[k] = "none" /\ wire[k] = "none"
  /\ l \in Of(p) /\ srv[l] = "none"
  /\ cli' = [cli EXCEPT ![l] = "sendId"] /\ srv' = [srv EXCEPT ![l] = "backlog"]
  /\ UNCHANGED <<wire, broken, peerTable, srvTable, running, suspended, faults>>

\* The weak pointer to the last connection has expired, and connect() succeeds.
Connect(p, l) ==
  /\ {p, Server} \subseteq running
  /\ \A k \in Of(p) : cli[k] = "none"
  /\ l \in Of(p) /\ srv[l] = "none"
  /\ cli' = [cli EXCEPT ![l] = "sendId"] /\ srv' = [srv EXCEPT ![l] = "backlog"]
  /\ wire' = [wire EXCEPT ![l] = "none"] /\ broken' = broken \ {l}
  /\ UNCHANGED <<peerTable, srvTable, running, suspended, faults>>

SendId(l) ==
  /\ cli[l] = "sendId" /\ l \notin broken
  /\ cli' = [cli EXCEPT ![l] = "recvRet"] /\ wire' = [wire EXCEPT ![l] = "id"]
  /\ UNCHANGED <<srv, broken, peerTable, srvTable, running, suspended, faults>>

\* addPrivateConnection at the peer, or the end of a connection that was denied.
RecvRet(l) ==
  /\ cli[l] = "recvRet" /\ wire[l] \in {"accepted", "denied"}
  /\ IF wire[l] = "accepted" /\ peerTable[l[1]] = None
     THEN /\ cli' = [cli EXCEPT ![l] = "added"]
          /\ peerTable' = [peerTable EXCEPT ![l[1]] = l]
     ELSE cli' = [cli EXCEPT ![l] = "none"] /\ UNCHANGED peerTable
  /\ UNCHANGED <<srv, wire, broken, srvTable, running, suspended, faults>>

---------------------------------------------------------------------------
\* The listener's TcpServer and its checker.

Accept(l) ==
  /\ srv[l] = "backlog"
  /\ srv' = [srv EXCEPT ![l] = "recvId"]
  /\ UNCHANGED <<cli, wire, broken, peerTable, srvTable, running, suspended, faults>>

\* The answer is sent, and a peer that was accepted is handed to the manager,
\* which refuses a second connection of a process.
Answer(l) ==
  /\ wire' = [wire EXCEPT ![l] = IF l[1] \in Valid THEN "accepted" ELSE "denied"]
  /\ IF l[1] \in Valid /\ srvTable[l[1]] = None
     THEN /\ srv' = [srv EXCEPT ![l] = "added"]
          /\ srvTable' = [srvTable EXCEPT ![l[1]] = l]
     ELSE srv' = [srv EXCEPT ![l] = "none"] /\ UNCHANGED srvTable

\* The socket may have no room for the answer.
RecvId(l) ==
  /\ srv[l] = "recvId" /\ wire[l] = "id"
  /\ \/ Answer(l)
     \/ srv' = [srv EXCEPT ![l] = "sendRet"] /\ UNCHANGED <<wire, srvTable>>
  /\ UNCHANGED <<cli, broken, peerTable, running, suspended, faults>>

SendRet(l) ==
  /\ srv[l] = "sendRet" /\ l \notin broken
  /\ Answer(l)
  /\ UNCHANGED <<cli, broken, peerTable, running, suspended, faults>>

---------------------------------------------------------------------------
\* A side finds its end broken, or closed at the other end: a NetException in
\* the checker, eraseConnection in the manager.  When nothing has its pointer,
\* the connection is closed.

\* Variant: whatever the table has is forgotten.
ForgetAny(table, l) == [table EXCEPT ![l[1]] = None]

Forget(table, l) == [table EXCEPT ![l[1]] = IF @ = l THEN None ELSE @]

NoticeAtPeer(l) ==
  /\ cli[l] # "none" /\ (l \in broken \/ srv[l] = "none")
  /\ cli' = [cli EXCEPT ![l] = "none"] /\ peerTable' = Forget(peerTable, l)
  /\ UNCHANGED <<srv, wire, broken, srvTable, running, suspended, faults>>

NoticeAtServer(l) ==
  /\ srv[l] \notin {"none", "backlog"} /\ (l \in broken \/ cli[l] = "none")
  /\ srv' = [srv EXCEPT ![l] = "none"] /\ srvTable' = Forget(srvTable, l)
  /\ UNCHANGED <<cli, wire, broken, peerTable, running, suspended, faults>>

---------------------------------------------------------------------------
\* Processes.

Total(q) ==
  IF q = Server THEN Cardinality({p \in Peers : srvTable[p] # None})
                ELSE IF peerTable[q] = None THEN 0 ELSE 1

ToConnect(q) == IF q = Server THEN 0 ELSE 1

\* joinThreads looks at the number of private connections.
JoinThreads(q) ==
  /\ q \in running \cap suspended /\ Total(q) = ToConnect(q)
  /\ suspended' = suspended \ {q}
  /\ UNCHANGED <<cli, srv, wire, broken, peerTable, srvTable, running, faults>>

StartProcess(q) ==
  /\ q \notin running /\ running' = running \cup {q}
  /\ UNCHANGED <<cli, srv, wire, broken, peerTable, srvTable, suspended, faults>>

---------------------------------------------------------------------------
\* Faults.

Fault == faults < MaxFaults /\ faults' = faults + 1

\* A process ends, and the system closes its sockets.
StopProcess(q) ==
  /\ Fault /\ q \in running
  /\ running' = running \ {q} /\ suspended' = suspended \cup {q}
  /\ IF q = Server
     THEN /\ srv' = [l \in Links |-> "none"] /\ srvTable' = [p \in Peers |-> None]
          /\ UNCHANGED <<cli, peerTable>>
     ELSE /\ cli' = [l \in Links |-> IF l \in Of(q) THEN "none" ELSE cli[l]]
          /\ peerTable' = [peerTable EXCEPT ![q] = None]
          /\ UNCHANGED <<srv, srvTable>>
  /\ UNCHANGED <<wire, broken>>

Break(l) ==
  /\ Fault /\ l \notin broken /\ (cli[l] # "none" \/ srv[l] # "none")
  /\ broken' = broken \cup {l}
  /\ UNCHANGED <<cli, srv, wire, peerTable, srvTable, running, suspended>>

\* epoll refuses a descriptor: the connection leaves both tables again.
EpollRefuses(l) ==
  /\ Fault
  /\ \/ /\ srv[l] \in {"recvId", "sendRet"} /\ wire[l] = "id" /\ l[1] \in Valid
        /\ srvTable[l[1]] = None
        /\ wire' = [wire EXCEPT ![l] = "accepted"] /\ srv' = [srv EXCEPT ![l] = "none"]
        /\ UNCHANGED cli
     \/ /\ cli[l] = "recvRet" /\ wire[l] = "accepted" /\ peerTable[l[1]] = None
        /\ cli' = [cli EXCEPT ![l] = "none"] /\ UNCHANGED <<srv, wire>>
  /\ UNCHANGED <<broken, peerTable, srvTable, running, suspended>>

---------------------------------------------------------------------------
LinkStep(l) ==
  \/ Connect(l[1], l) \/ SendId(l) \/ RecvRet(l) \/ Accept(l) \/ RecvId(l) \/ SendRet(l)
  \/ NoticeAtPeer(l) \/ NoticeAtServer(l)

ProcessStep(q) == StartProcess(q) \/ JoinThreads(q)

LinkFault ==
  \/ \E q \in Procs : StopProcess(q)
  \/ \E l \in Links : Break(l) \/ EpollRefuses(l)

LinkNext ==
  \/ \E l \in Links : LinkStep(l)
  \/ \E q \in Procs : ProcessStep(q)
  \/ LinkFault

\* The threads of the processes go on, and the system reports what is closed.
LinkFairness ==
  /\ \A l \in Links : WF_linkVars(LinkStep(l))
  /\ \A q \in Procs : WF_linkVars(ProcessStep(q))

LinkSpec == LinkInit /\ [][LinkNext]_linkVars /\ LinkFairness

---------------------------------------------------------------------------
(* Correctness. *)

LinkTypeOK ==
  /\ cli \in [Links -> {"none", "sendId", "recvRet", "added"}]
  /\ srv \in [Links -> {"none", "backlog", "recvId", "sendRet", "added"}]
  /\ wire \in [Links -> {"none", "id", "accepted", "denied"}] /\ broken \subseteq Links
  /\ peerTable \in [Peers -> Links \cup {None}] /\ srvTable \in [Peers -> Links \cup {None}]
  /\ running \subseteq Procs /\ suspended \subseteq Procs /\ faults \in Nat

\* An end is the manager's exactly when its process' table has the link, a peer
\* has one connection at a time, and a connection that a peer uses was accepted
\* by the listener, which uses it too or has dropped it.
HandshakeAgrees ==
  /\ \A l \in Links :
       /\ srv[l] = "added" <=> srvTable[l[1]] = l
       /\ cli[l] = "added" <=> peerTable[l[1]] = l
       /\ cli[l] = "added" => l[1] \in Valid /\ srv[l] \in {"added", "none"}
       /\ srv[l] = "added" => l[1] \in Valid
  /\ \A k, l \in Links : k[1] = l[1] /\ cli[k] # "none" /\ cli[l] # "none" => k = l

Joined(p) ==
  \E l \in Of(p) : peerTable[p] = l /\ srvTable[p] = l /\ l \notin broken /\ p \notin suspended

\* Once the faults have ended, each peer with a valid id gets a connection that
\* both ends use, keeps it, and runs its main timer.
Reconverges == \A p \in Valid : <>[]Joined(p)

\* process.cpp:103: 「发起私网连接全部成功，主定时器开始执行」 (all private
\* connections that were initiated have succeeded: the main timer starts).
TimerStarts ==
  (\A p \in Valid : <>[](peerTable[p] # None)) =>
    \A q \in Valid \cup {Server} : []<>(q \notin suspended)
=============================================================================
