------------------------------ MODULE SendPath ------------------------------
(***************************************************************************)
(* Sending on one TCP connection: TcpConnectionManager::sendPacket, called *)
(* by any thread, and the write event, handled by the epoll thread.  Both  *)
(* hold the connection's sendLock; the epoll thread's loop is broken into  *)
(* its iterations, during which sendPacket waits.                          *)
(*                                                                         *)
(* Bytes are numbered in the order in which their packets were accepted;   *)
(* what the buffer holds beyond the bytes that were copied into it is      *)
(* Stale.  The socket takes any part of what it is offered, or nothing.    *)
(***************************************************************************)
EXTENDS Naturals, Sequences

CONSTANTS
  SendCap,     \* bytes in the send buffer (2048)
  QueueMax,    \* sendPacket refuses when more packets than this wait (512)
  Sizes,       \* sizes of packets, header included
  MaxPackets   \* bound: packets accepted

ASSUME SendAssumption ==
  SendCap \in Nat \ {0} /\ QueueMax \in Nat /\ Sizes \subseteq Nat \ {0} /\ MaxPackets \in Nat

VARIABLES
  ends,        \* the number of the last byte of each accepted packet
  begin,       \* m_dataBegin of the send buffer
  buf,         \* the bytes from m_dataBegin to m_dataEnd
  sendQueue,   \* packets that wait: the bytes after "from", up to "to"
  wire,        \* the bytes the socket has taken
  watched,     \* whether epoll reports that the socket can be written to
  drain        \* where the epoll thread is in its write event

sendVars == <<ends, begin, buf, sendQueue, wire, watched, drain>>

Stale == 0

Accepted == IF ends = <<>> THEN 0 ELSE ends[Len(ends)]

Bytes(from, to) == [i \in 1 .. to - from |-> from + i]
Packet(from, to) == [from |-> from, to |-> to]
Size(p) == p.to - p.from

SendInit ==
  /\ ends = <<>> /\ begin = 0 /\ buf = <<>> /\ sendQueue = <<>> /\ wire = <<>>
  /\ watched = FALSE /\ drain = "no"

-----------------------------------------------------------------------------
(* ConnectionBuffer. *)

Full == begin = 0 /\ Len(buf) = SendCap

\* writeable moves the data to the front when the tail is too short for size.
MustMove(size) ==
  LET end == begin + Len(buf) IN (SendCap - end < size \/ end = SendCap) /\ ~ Full
Begin(size) == IF MustMove(size) THEN 0 ELSE begin

\* The room writeable(size) offers at the tail.
Room(size) == SendCap - (Begin(size) + Len(buf))

\* trySend of the buffer b that begins at at, of which the socket takes k bytes.
Rest(b, k) == SubSeq(b, k + 1, Len(b))
TrySend(at, b, k) ==
  /\ wire' = wire \o SubSeq(b, 1, k)
  /\ begin' = IF k = Len(b) THEN 0 ELSE at + k

-----------------------------------------------------------------------------
(* sendPacket. *)

\* A packet that comes when others wait.
Enqueue(p) ==
  /\ sendQueue # <<>> /\ Len(sendQueue) <= QueueMax
  /\ sendQueue' = Append(sendQueue, p)
  /\ UNCHANGED <<begin, buf, wire, watched>>

\* Fault: the socket is not watched.
SpillUnwatched(p) ==
  /\ sendQueue = <<>> /\ Room(Size(p)) < Size(p)
  /\ begin' = Begin(Size(p))
  /\ buf' = buf \o Bytes(p.from, p.from + Room(Size(p)))
  /\ sendQueue' = <<Packet(p.from + Room(Size(p)), p.to)>>
  /\ UNCHANGED <<wire, watched>>

\* The buffer has no room for the packet: what fits is copied, the rest waits.
Spill(p) ==
  /\ sendQueue = <<>> /\ Room(Size(p)) < Size(p)
  /\ begin' = Begin(Size(p))
  /\ buf' = buf \o Bytes(p.from, p.from + Room(Size(p)))
  /\ sendQueue' = <<Packet(p.from + Room(Size(p)), p.to)>>
  /\ watched' = TRUE
  /\ UNCHANGED wire

\* The packet is copied and the socket takes everything ...
SendAll(p) ==
  LET b == buf \o Bytes(p.from, p.to) IN
  /\ sendQueue = <<>> /\ Room(Size(p)) >= Size(p)
  /\ TrySend(Begin(Size(p)), b, Len(b)) /\ buf' = <<>>
  /\ UNCHANGED <<sendQueue, watched>>

\* Fault: the packet waits whole, though it is in the buffer.
SendSomeAgain(p, k) ==
  LET b == buf \o Bytes(p.from, p.to) IN
  /\ sendQueue = <<>> /\ Room(Size(p)) >= Size(p) /\ k < Len(b)
  /\ TrySend(Begin(Size(p)), b, k) /\ buf' = Rest(b, k)
  /\ sendQueue' = <<p>>
  /\ watched' = TRUE

\* ... or only k bytes.  The code goes on as if the packet did not fit: it is
\* copied to the same place once more and committed once more, when there is
\* room after it, and what is left of it, nothing, waits.
SendSome(p, k) ==
  LET b == buf \o Bytes(p.from, p.to)
      at == Begin(Size(p))
      junk == IF SendCap - (at + Len(b)) >= Size(p) THEN [i \in 1 .. Size(p) |-> Stale] ELSE <<>>
  IN /\ sendQueue = <<>> /\ Room(Size(p)) >= Size(p) /\ k < Len(b)
     /\ TrySend(at, b, k) /\ buf' = Rest(b, k) \o junk
     /\ sendQueue' = <<Packet(p.to, p.to)>>
     /\ watched' = TRUE

\* A packet that is refused leaves no trace.
SendPacket(size) ==
  LET p == Packet(Accepted, Accepted + size) IN
  /\ drain = "no" /\ Len(ends) < MaxPackets
  /\ \/ Enqueue(p) \/ Spill(p) \/ SendAll(p)
     \/ \E k \in 0 .. Len(buf) + size : SendSome(p, k)
  /\ ends' = Append(ends, p.to)
  /\ UNCHANGED drain

-----------------------------------------------------------------------------
(* The write event. *)

WriteEvent ==
  /\ watched /\ drain = "no"
  /\ drain' = "send"
  /\ UNCHANGED <<ends, begin, buf, sendQueue, wire, watched>>

\* The socket is busy or does not take all: wait for the next event.
DrainSome(k) ==
  /\ drain = "send" /\ k < Len(buf)
  /\ TrySend(begin, buf, k) /\ buf' = Rest(buf, k)
  /\ drain' = "no"
  /\ UNCHANGED <<ends, sendQueue, watched>>

\* The buffer is empty; stop when nothing waits, refill it otherwise.
DrainAll ==
  /\ drain = "send"
  /\ TrySend(begin, buf, Len(buf)) /\ buf' = <<>>
  /\ IF sendQueue = <<>> THEN watched' = FALSE /\ drain' = "no"
                         ELSE drain' = "refill" /\ UNCHANGED watched
  /\ UNCHANGED <<ends, sendQueue>>

\* Packets move to the buffer while they fit; of the last one a part may.
Refill ==
  LET p == Head(sendQueue)
      n == IF Room(Size(p)) < Size(p) THEN Room(Size(p)) ELSE Size(p)
  IN /\ drain = "refill" /\ sendQueue # <<>>
     /\ begin' = Begin(Size(p))
     /\ buf' = buf \o Bytes(p.from, p.from + n)
     /\ IF n < Size(p) \/ Room(Size(p)) = 0
        THEN /\ sendQueue' = [sendQueue EXCEPT ![1] = Packet(p.from + n, p.to)]
             /\ drain' = "send"
        ELSE /\ sendQueue' = Tail(sendQueue)
             /\ drain' = IF Tail(sendQueue) = <<>> THEN "send" ELSE "refill"
     /\ UNCHANGED <<ends, wire, watched>>

SendNext ==
  \/ \E s \in Sizes : SendPacket(s)
  \/ WriteEvent \/ DrainAll \/ Refill
  \/ \E k \in 0 .. SendCap : DrainSome(k)

\* The socket takes something, or there is nothing for it to take.
Takes == DrainAll \/ \E k \in 1 .. SendCap : DrainSome(k)

\* The epoll thread comes back to a socket that can be written to, and a socket
\* that is offered bytes again and again takes some.
SendFairness == WF_sendVars(WriteEvent) /\ WF_sendVars(Refill) /\ SF_sendVars(Takes)

SendSpec == SendInit /\ [][SendNext]_sendVars

-----------------------------------------------------------------------------
(* Correctness. *)

\* Types of the buffer, the queue and the socket.
SendTypeOK ==
  /\ ends \in Seq(Nat)
  /\ begin \in Nat /\ buf \in Seq(Nat) /\ begin + Len(buf) <= SendCap
  /\ sendQueue \in Seq([from : Nat, to : Nat]) /\ Len(sendQueue) <= QueueMax + 1
  /\ wire \in Seq(Nat)
  /\ watched \in BOOLEAN /\ drain \in {"no", "send", "refill"}
  /\ drain = "refill" => sendQueue # <<>>

\* The bytes of the accepted packets are on the wire, in the buffer or in the
\* queue, in this order, each once, and nothing else is.
StreamIntact ==
  /\ \A i \in DOMAIN wire : wire[i] = i
  /\ \A i \in DOMAIN buf : buf[i] = Len(wire) + i
  /\ \A i \in DOMAIN sendQueue :
       /\ sendQueue[i].from = IF i = 1 THEN Len(wire) + Len(buf) ELSE sendQueue[i - 1].to
       /\ sendQueue[i].from <= sendQueue[i].to
  /\ Accepted = IF sendQueue = <<>> THEN Len(wire) + Len(buf) ELSE sendQueue[Len(sendQueue)].to

\* The socket does not take all of a packet, and the buffer has room for the
\* packet twice.
Recommit ==
  \E size \in Sizes :
    /\ sendQueue = <<>> /\ sendQueue' # <<>> /\ ends' = Append(ends, Accepted + size)
    /\ 2 * size <= SendCap - (Begin(size) + Len(buf))

\* Whatever the sizes of the packets, the second copy that sendPacket commits of a
\* packet the socket did not take whole is all that spoils the stream: no other
\* step loses, repeats or reorders a byte, and where the second copy has no room
\* (every packet larger than half of the buffer) none is made.
OnlyRecommitSpoils == [][StreamIntact /\ ~ Recommit => StreamIntact']_sendVars

\* Bytes that wait are waited for: the write event will come.
PendingIsWatched == buf # <<>> \/ sendQueue # <<>> => watched

=============================================================================
