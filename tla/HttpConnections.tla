--------------------------- MODULE HttpConnections ---------------------------
(***************************************************************************)
(* HttpConnectionManager: the tables of the http connections, the thread   *)
(* that waits for their events, and the other threads that add, erase and  *)
(* answer connections.  m_lock guards the tables; addConnection is broken  *)
(* in two because epoll may report a connection before addConnection has   *)
(* made its packet.                                                        *)
(*                                                                         *)
(* A connection is closed, and its descriptor free for the next one, when  *)
(* nothing refers to it any more.                                          *)
(***************************************************************************)
EXTENDS Naturals, Sequences, FiniteSets

CONSTANTS
  Conns,       \* connections, each with its HttpConnectionId
  Fds,         \* descriptors
  RecvMax,     \* packets in the receive queue
  None         \* no connection, no descriptor, no event

ASSUME HttpAssumption == None \notin Conns \cup Fds /\ RecvMax \in Nat \ {0}

VARIABLES
  fd,          \* the descriptor of each connection that was accepted
  adding,      \* the connection that addConnection works on; it holds m_lock from its first step
  locked,      \* m_lock is held by addConnection
  allConns,    \* m_allConns: descriptors and their connections
  hcid2Conns,  \* m_hcid2Conns: connections that can be found by their id
  epoll,       \* descriptors epoll watches
  recvPacket,  \* connections that have a packet to read into
  input,       \* what the socket and the receive buffer of a connection hold
  events,      \* events of the last wait that have not been handled
  handling,    \* the connection whose event is handled, and the event
  erasing,     \* a connection that eraseConnection(hcid) has found
  recvQueue,   \* packets: the connection, and whether it was parsed from what came
  erased       \* e_afterEraseConn was raised, for how many connections how often

httpVars == <<fd, adding, locked, allConns, hcid2Conns, epoll, recvPacket, input, events,
              handling, erasing, recvQueue, erased>>

HttpInit ==
  /\ fd = [c \in Conns |-> None] /\ adding = None /\ locked = FALSE
  /\ allConns = [f \in Fds |-> None] /\ hcid2Conns = {} /\ epoll = {} /\ recvPacket = {}
  /\ input = [c \in Conns |-> None] /\ events = {} /\ handling = None /\ erasing = None
  /\ recvQueue = <<>> /\ erased = [c \in Conns |-> 0]

\* Somebody holds a pointer to the connection or to its holder.
Referenced(c) ==
  \/ c = adding \/ c = erasing \/ c \in hcid2Conns
  \/ \E f \in Fds : allConns[f] = c
  \/ handling # None /\ handling.conn = c
  \/ \E i \in DOMAIN recvQueue : recvQueue[i].conn = c

---------------------------------------------------------------------------
\* addConnection

Accept(c, f) ==
  /\ adding = None /\ fd[c] = None
  /\ \A d \in Conns : fd[d] = f => ~ Referenced(d)
  /\ adding' = c /\ fd' = [fd EXCEPT ![c] = f]
  /\ UNCHANGED <<locked, allConns, hcid2Conns, epoll, recvPacket, input, events, handling,
                 erasing, recvQueue, erased>>

\* Were the descriptor in the table, the id would be taken back and the rest
\* would go on; a connection in the table keeps its descriptor, so it is not.
AddInsert ==
  /\ adding # None /\ ~ locked
  /\ LET f == fd[adding]
     IN /\ locked' = TRUE
        /\ hcid2Conns' = hcid2Conns \cup (IF allConns[f] = None THEN {adding} ELSE {})
        /\ allConns' = [allConns EXCEPT ![f] = IF @ = None THEN adding ELSE @]
        /\ epoll' = epoll \cup {f}
  /\ UNCHANGED <<fd, adding, recvPacket, input, events, handling, erasing, recvQueue, erased>>

AddPacket ==
  /\ adding # None /\ locked
  /\ recvPacket' = recvPacket \cup {adding} /\ locked' = FALSE /\ adding' = None
  /\ UNCHANGED <<fd, allConns, hcid2Conns, epoll, input, events, handling, erasing, recvQueue, erased>>

\* epoll refuses the descriptor: the connection leaves the table by descriptor
\* and stays in the table by id.
AddRefused ==
  /\ adding # None /\ ~ locked /\ allConns[fd[adding]] = None
  /\ hcid2Conns' = hcid2Conns \cup {adding} /\ adding' = None
  /\ UNCHANGED <<fd, locked, allConns, epoll, recvPacket, input, events, handling, erasing,
                 recvQueue, erased>>

---------------------------------------------------------------------------
\* eraseConnection

\* What eraseConnection(conn) does to the tables, under the lock.
Erase(c) ==
  LET f == fd[c]
  IN IF allConns[f] = None
     THEN UNCHANGED <<allConns, hcid2Conns, epoll, erased>>
     ELSE LET d == allConns[f]
          IN /\ hcid2Conns' = hcid2Conns \ {d}
             /\ erased' = [erased EXCEPT ![d] = @ + 1]
             /\ allConns' = [allConns EXCEPT ![f] = None]
             /\ epoll' = epoll \ {f}

\* eraseConnection(hcid): the connection is looked up, and the lock released ...
EraseFind(c) ==
  /\ erasing = None /\ ~ locked /\ c \in hcid2Conns
  /\ erasing' = c
  /\ UNCHANGED <<fd, adding, locked, allConns, hcid2Conns, epoll, recvPacket, input, events,
                 handling, recvQueue, erased>>

\* ... and erased.
EraseFound ==
  /\ erasing # None /\ ~ locked
  /\ Erase(erasing) /\ erasing' = None
  /\ UNCHANGED <<fd, adding, locked, recvPacket, input, events, handling, recvQueue>>

---------------------------------------------------------------------------
\* The epoll thread.

\* A peer sends, or closes; an error occurs.
Arrive(c) ==
  /\ fd[c] # None /\ Referenced(c) /\ input[c] \in {None, "data"}
  /\ \E i \in {"data", "closed", "error"} : i # input[c] /\ input' = [input EXCEPT ![c] = i]
  /\ UNCHANGED <<fd, adding, locked, allConns, hcid2Conns, epoll, recvPacket, events, handling,
                 erasing, recvQueue, erased>>

Kind(i) == IF i = "error" THEN "error" ELSE "read"

Wait ==
  /\ events = {} /\ handling = None
  /\ events' = {[fd |-> fd[c], event |-> Kind(input[c])] :
                  c \in {c \in Conns : Referenced(c) /\ fd[c] \in epoll /\ input[c] # None}}
  /\ events' # {}
  /\ UNCHANGED <<fd, adding, locked, allConns, hcid2Conns, epoll, recvPacket, input, handling,
                 erasing, recvQueue, erased>>

\* Variant: the table is looked at without the lock.
DispatchUnlocked(e) ==
  /\ handling = None /\ events' = events \ {e}
  /\ handling' = IF allConns[e.fd] = None THEN None
                 ELSE [conn |-> allConns[e.fd], fd |-> e.fd, event |-> e.event]
  /\ UNCHANGED <<fd, adding, locked, allConns, hcid2Conns, epoll, recvPacket, input, erasing,
                 recvQueue, erased>>

\* One event of the batch; its connection may be gone by now.
Dispatch(e) ==
  /\ handling = None /\ ~ locked
  /\ events' = events \ {e}
  /\ handling' = IF allConns[e.fd] = None
                 THEN IF e.event = "error" THEN [conn |-> None, fd |-> e.fd, event |-> "unwatch"]
                                           ELSE None
                 ELSE [conn |-> allConns[e.fd], fd |-> e.fd, event |-> e.event]
  /\ UNCHANGED <<fd, adding, locked, allConns, hcid2Conns, epoll, recvPacket, input, erasing,
                 recvQueue, erased>>

Handles(event) == handling # None /\ handling.event = event

\* Nothing is there to read, or the queue has no room.
ReadNothing ==
  /\ Handles("read") /\ (input[handling.conn] = None \/ Len(recvQueue) = RecvMax)
  /\ handling' = None
  /\ UNCHANGED <<fd, adding, locked, allConns, hcid2Conns, epoll, recvPacket, input, events,
                 erasing, recvQueue, erased>>

\* A new packet is complete (m_completed), so parse takes nothing of the data
\* and the packet is pushed as it is.  The data stays, and so does the thread.
ReadSome ==
  /\ Handles("read") \/ Handles("reading")
  /\ input[handling.conn] = "data"
  /\ Handles("read") => Len(recvQueue) < RecvMax
  /\ recvQueue' = IF Len(recvQueue) < RecvMax
                  THEN Append(recvQueue, [conn |-> handling.conn, parsed |-> FALSE]) ELSE recvQueue
  /\ handling' = [handling EXCEPT !.event = "reading"]
  /\ UNCHANGED <<fd, adding, locked, allConns, hcid2Conns, epoll, recvPacket, input, events,
                 erasing, erased>>

\* The end of the stream, or a broken connection, is an exception.
ReadClosed ==
  /\ Handles("read") \/ Handles("reading")
  /\ input[handling.conn] \in {"closed", "error"} /\ ~ locked
  /\ Handles("read") => Len(recvQueue) < RecvMax
  /\ Erase(handling.conn) /\ handling' = None
  /\ UNCHANGED <<fd, adding, locked, recvPacket, input, events, erasing, recvQueue>>

\* The error event: the connection is erased ...
ErrorEvent ==
  /\ Handles("error") /\ ~ locked
  /\ Erase(handling.conn)
  /\ handling' = [handling EXCEPT !.conn = None, !.event = "unwatch"]
  /\ UNCHANGED <<fd, adding, locked, recvPacket, input, events, erasing, recvQueue>>

\* ... and the Epoller, back from the handler, stops to wait for the descriptor.
Unwatch ==
  /\ Handles("unwatch")
  /\ epoll' = epoll \ {handling.fd} /\ handling' = None
  /\ UNCHANGED <<fd, adding, locked, allConns, hcid2Conns, recvPacket, input, events, erasing,
                 recvQueue, erased>>

GetPacket ==
  /\ recvQueue # <<>> /\ recvQueue' = Tail(recvQueue)
  /\ UNCHANGED <<fd, adding, locked, allConns, hcid2Conns, epoll, recvPacket, input, events,
                 handling, erasing, erased>>

HttpNext ==
  \/ \E c \in Conns, f \in Fds : Accept(c, f)
  \/ AddInsert \/ AddPacket \/ AddRefused
  \/ \E c \in Conns : EraseFind(c) \/ Arrive(c)
  \/ EraseFound \/ Wait \/ \E e \in events : Dispatch(e)
  \/ ReadNothing \/ ReadSome \/ ReadClosed \/ ErrorEvent \/ Unwatch \/ GetPacket

HttpSpec == HttpInit /\ [][HttpNext]_httpVars

---------------------------------------------------------------------------
(* Correctness. *)

\* addConnection lets epoll see a connection before its packet is there, and an
\* id is looked up before the connection is erased: nobody reads into a packet
\* that does not exist, a connection is erased once, and one that gets events
\* can be answered under its id.
TablesAgree ==
  /\ Handles("read") \/ Handles("reading") => handling.conn \in recvPacket
  /\ \A c \in Conns : erased[c] <= 1
  /\ \A f \in Fds : allConns[f] # None =>
       /\ allConns[f] \in hcid2Conns /\ erased[allConns[f]] = 0 /\ fd[allConns[f]] = f

\* What is pushed is what was received (http_connection_manager.cpp:148-151).
OnlyReceivedPackets == \A i \in DOMAIN recvQueue : recvQueue[i].parsed
=============================================================================
