------------------------------ MODULE RecvPath ------------------------------
(***************************************************************************)
(* Receiving on one TCP connection: the read event, handled by the epoll   *)
(* thread, which cuts the byte stream into packets and pushes them to the  *)
(* receive queue, and getPacket, called by the main timer thread.  epoll   *)
(* is level-triggered: the event comes again as long as there is something *)
(* to read.                                                                *)
(*                                                                         *)
(* The stream is the one SendPath makes: its bytes are numbered from 1 and *)
(* ends tells where its packets end, which the receiver learns from the    *)
(* header of each packet.                                                  *)
(***************************************************************************)
EXTENDS SendPath

CONSTANTS
  RecvCap,     \* bytes in the receive buffer (2048)
  HeaderSize,  \* sizeof(SizeType)
  RecvMax      \* packets in the receive queue (1024)

ASSUME RecvAssumption ==
  RecvCap \in Nat /\ HeaderSize \in Nat \ {0} /\ RecvCap >= HeaderSize /\ RecvMax \in Nat \ {0}

VARIABLES
  closed,      \* the peer has closed the connection
  taken,       \* bytes read from the socket
  parsed,      \* bytes moved from the buffer to a packet
  rbegin,      \* m_dataBegin of the receive buffer
  reading,     \* where the epoll thread is in its read event
  lost,        \* packets cut from the stream that the queue did not take
  recvQueue,   \* packets by number
  got,         \* packets handed to the main timer thread
  erased       \* the connection was erased

recvVars == <<taken, parsed, rbegin, reading, lost, recvQueue, got, erased>>

Start(p) == IF p = 1 THEN 0 ELSE ends[p - 1]

RecvInit ==
  /\ closed = FALSE /\ taken = 0 /\ parsed = 0 /\ rbegin = 0 /\ reading = "no"
  /\ lost = {} /\ recvQueue = <<>> /\ got = <<>> /\ erased = FALSE

\* writeable(): data is moved to the front only when the tail is used up.
TailUsed == rbegin + (taken - parsed) = RecvCap
RecvBegin == IF TailUsed THEN 0 ELSE rbegin

\* The bytes writeable() offers at the tail.
RecvRoom == RecvCap - (RecvBegin + (taken - parsed))

ReadEvent ==
  /\ reading = "no" /\ ~ erased
  /\ taken < Len(wire) \/ closed
  /\ Len(recvQueue) < RecvMax
  /\ reading' = "event"
  /\ UNCHANGED <<taken, parsed, rbegin, lost, recvQueue, got, erased>>

\* Fault: a packet is taken only when the buffer holds all of it.
ParseSizeWhole(p, n) == IF n < ends[p] - parsed THEN 0 ELSE ends[p] - parsed

\* How much parse takes of n bytes for packet p: a header is taken as a whole.
ParseSize(p, n) ==
  IF parsed = Start(p) /\ n < HeaderSize THEN 0
  ELSE IF n <= ends[p] - parsed THEN n ELSE ends[p] - parsed

\* Fault: a full queue makes room by dropping its oldest packet.
PushPacketOverOldest(p) ==
  /\ recvQueue' = Append(IF Len(recvQueue) < RecvMax THEN recvQueue ELSE Tail(recvQueue), p)
  /\ UNCHANGED lost

\* The result of push is ignored.
PushPacket(p) ==
  IF Len(recvQueue) < RecvMax THEN recvQueue' = Append(recvQueue, p) /\ UNCHANGED lost
                              ELSE lost' = lost \cup {p} /\ UNCHANGED recvQueue

\* parse, commitRead and push with taken bytes read; p is the packet at hand.
Parse(p, at) ==
  LET n == taken' - parsed
      m == ParseSize(p, n)
  IN /\ parsed' = parsed + m
     /\ rbegin' = IF m = n THEN 0 ELSE at + m
     /\ IF parsed' = ends[p] THEN PushPacket(p) /\ reading' = "loop"
                             ELSE reading' = "no" /\ UNCHANGED <<recvQueue, lost>>

\* The packet at hand is the first that has not been parsed to its end.
Current(p) == p \in DOMAIN ends /\ parsed < ends[p] /\ Start(p) <= parsed

\* tryRecv with k bytes from the socket.  It reads none when the buffer is full,
\* or when no more have arrived, which the first read of an event does not meet.
\* What becomes of a spoilt stream is left open: the model reads it no further.
RecvSome(k) ==
  /\ reading # "no"
  /\ k <= RecvRoom /\ k <= Len(wire) - taken
  /\ k = 0 => RecvRoom = 0 \/ reading = "loop"
  /\ \A i \in taken + 1 .. taken + k : wire[i] = i
  /\ taken' = taken + k
  /\ taken' > parsed
  /\ \E p \in DOMAIN ends : Current(p) /\ Parse(p, RecvBegin)
  /\ UNCHANGED <<got, erased>>

\* Nothing has arrived and nothing is in the buffer: the event is over.
RecvDone ==
  /\ reading = "loop" /\ parsed = taken
  /\ reading' = "no"
  /\ UNCHANGED <<taken, parsed, rbegin, lost, recvQueue, got, erased>>

\* The end of the stream is an exception, whatever the buffer still holds.
RecvClosed ==
  /\ reading # "no" /\ taken = Len(wire) /\ RecvRoom > 0 /\ closed
  /\ reading' = "no" /\ erased' = TRUE
  /\ UNCHANGED <<taken, parsed, rbegin, lost, recvQueue, got>>

GetPacket ==
  /\ recvQueue # <<>>
  /\ got' = Append(got, Head(recvQueue)) /\ recvQueue' = Tail(recvQueue)
  /\ UNCHANGED <<taken, parsed, rbegin, reading, lost, erased>>

RecvNext ==
  \/ ReadEvent \/ RecvDone \/ RecvClosed \/ GetPacket
  \/ \E k \in 0 .. RecvCap : RecvSome(k)

RecvFairness ==
  /\ WF_recvVars(ReadEvent) /\ WF_recvVars(RecvDone) /\ WF_recvVars(GetPacket)
  /\ WF_recvVars(\E k \in 0 .. RecvCap : RecvSome(k))

-----------------------------------------------------------------------------

\* Types and the place of the data in the buffer.
RecvTypeOK ==
  /\ closed \in BOOLEAN /\ reading \in {"no", "event", "loop"} /\ erased \in BOOLEAN
  /\ parsed \in Nat /\ taken \in Nat /\ parsed <= taken /\ taken <= Len(wire)
  /\ rbegin \in Nat /\ rbegin + (taken - parsed) <= RecvCap
  /\ recvQueue \in Seq(DOMAIN ends) /\ Len(recvQueue) <= RecvMax
  /\ got \in Seq(DOMAIN ends) /\ lost \subseteq DOMAIN ends

\* Packets reach the main thread in the order in which they were sent, none
\* twice, and one that does not was lost to a full queue.
DeliveredInOrder ==
  LET out == got \o recvQueue IN
  /\ \A i, j \in DOMAIN out : i < j => out[i] < out[j]
  /\ \A p \in DOMAIN ends : ends[p] <= parsed <=> p \in lost \/ \E i \in DOMAIN out : out[i] = p

=============================================================================
