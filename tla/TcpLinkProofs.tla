--------------------------- MODULE TcpLinkProofs ---------------------------
EXTENDS TcpLink, SequenceTheorems, TLAPS

(* Theorems about both sides of a connection, for buffers of any size,       *)
(* queues of any length and any number of packets of any sizes.              *)

Packets == [from : Nat, to : Nat]

\* w are the first bytes of the stream and b the next ones.
Run(w, b) ==
  /\ \A i \in DOMAIN w : w[i] = i
  /\ \A i \in DOMAIN b : b[i] = Len(w) + i

\* The packets q are the stream from byte f on, up to byte t.
Chain(q, f, t) ==
  /\ \A i \in DOMAIN q : /\ q[i].from = IF i = 1 THEN f ELSE q[i - 1].to
                         /\ q[i].from <= q[i].to
  /\ t = IF q = <<>> THEN f ELSE q[Len(q)].to

-----------------------------------------------------------------------------
(* Sequences of bytes and packets. *)

LEMMA BytesType ==
  ASSUME NEW from \in Nat, NEW to \in Nat, from <= to
  PROVE  /\ Bytes(from, to) \in Seq(Nat) /\ Len(Bytes(from, to)) = to - from
         /\ \A i \in 1 .. to - from : Bytes(from, to)[i] = from + i
<1>1. to - from \in Nat
  OBVIOUS
<1>2. Bytes(from, to) \in [1 .. to - from -> Nat]
  BY DEF Bytes
<1>3. Bytes(from, to) \in Seq(Nat)
  BY <1>1, <1>2, SeqDef
<1>4. QED
  BY <1>1, <1>2, <1>3, LenProperties DEF Bytes

\* Splitting a sequence after k elements.
LEMMA SplitType ==
  ASSUME NEW S, NEW b \in Seq(S), NEW k \in 0 .. Len(b)
  PROVE  /\ SubSeq(b, 1, k) \in Seq(S) /\ Len(SubSeq(b, 1, k)) = k
         /\ Rest(b, k) \in Seq(S) /\ Len(Rest(b, k)) = Len(b) - k
         /\ \A i \in 1 .. k : SubSeq(b, 1, k)[i] = b[i]
         /\ \A i \in 1 .. Len(b) - k : Rest(b, k)[i] = b[k + i]
<1>1. Len(b) \in Nat
  BY LenProperties
<1>2. \A i \in 1 .. Len(b) : b[i] \in S
  BY ElementOfSeq
<1>3. /\ SubSeq(b, 1, k) \in Seq(S)
      /\ Len(SubSeq(b, 1, k)) = IF 1 <= k THEN k - 1 + 1 ELSE 0
      /\ \A i \in 1 .. k - 1 + 1 : SubSeq(b, 1, k)[i] = b[1 + i - 1]
  BY <1>1, <1>2, SubSeqProperties
<1>4. /\ Rest(b, k) \in Seq(S)
      /\ Len(Rest(b, k)) = IF k + 1 <= Len(b) THEN Len(b) - (k + 1) + 1 ELSE 0
      /\ \A i \in 1 .. Len(b) - (k + 1) + 1 : Rest(b, k)[i] = b[(k + 1) + i - 1]
  BY <1>1, <1>2, SubSeqProperties DEF Rest
<1>5. QED
  BY <1>1, <1>3, <1>4

\* Copying the next bytes of the stream to the buffer keeps it in order.
LEMMA RunExtends ==
  ASSUME NEW w \in Seq(Nat), NEW b \in Seq(Nat), Run(w, b), NEW to \in Nat, Len(w) + Len(b) <= to
  PROVE  Run(w, b \o Bytes(Len(w) + Len(b), to))
<1> DEFINE c == Bytes(Len(w) + Len(b), to)
<1>1. Len(w) \in Nat /\ Len(b) \in Nat
  BY LenProperties
<1>2. /\ c \in Seq(Nat) /\ Len(c) = to - (Len(w) + Len(b))
      /\ \A i \in 1 .. Len(c) : c[i] = Len(w) + Len(b) + i
  BY <1>1, BytesType
<1> HIDE DEF c
<1>3. /\ b \o c \in Seq(Nat) /\ Len(b \o c) = Len(b) + Len(c)
      /\ \A i \in 1 .. Len(b) + Len(c) : (b \o c)[i] = IF i <= Len(b) THEN b[i] ELSE c[i - Len(b)]
  BY <1>2, ConcatProperties
<1>4. DOMAIN (b \o c) = 1 .. Len(b) + Len(c) /\ DOMAIN b = 1 .. Len(b)
  BY <1>3, LenProperties
<1>5. ASSUME NEW i \in 1 .. Len(b) + Len(c)
      PROVE  (b \o c)[i] = Len(w) + i
  <2>1. CASE i <= Len(b)
    <3>1. i \in DOMAIN b
      BY <2>1, <1>1, <1>4
    <3>2. (b \o c)[i] = b[i]
      BY <2>1, <1>3
    <3>3. QED
      BY <3>1, <3>2 DEF Run
  <2>2. CASE ~ (i <= Len(b))
    <3>1. i - Len(b) \in 1 .. Len(c)
      BY <2>2, <1>1, <1>2
    <3>2. c[i - Len(b)] = Len(w) + Len(b) + (i - Len(b))
      BY <3>1, <1>2
    <3>3. (b \o c)[i] = c[i - Len(b)]
      BY <2>2, <1>3
    <3>4. QED
      BY <3>2, <3>3, <1>1
  <2>3. QED
    BY <2>1, <2>2
<1>6. QED
  BY <1>4, <1>5 DEF Run, c

\* Sending the first bytes of the buffer keeps the stream in order.
LEMMA RunSends ==
  ASSUME NEW w \in Seq(Nat), NEW b \in Seq(Nat), Run(w, b), NEW k \in 0 .. Len(b)
  PROVE  /\ Run(w \o SubSeq(b, 1, k), Rest(b, k))
         /\ w \o SubSeq(b, 1, k) \in Seq(Nat) /\ Rest(b, k) \in Seq(Nat)
         /\ Len(w \o SubSeq(b, 1, k)) = Len(w) + k /\ Len(Rest(b, k)) = Len(b) - k
<1> DEFINE c == SubSeq(b, 1, k)
           r == Rest(b, k)
<1>1. Len(w) \in Nat /\ Len(b) \in Nat /\ DOMAIN w = 1 .. Len(w) /\ DOMAIN b = 1 .. Len(b)
  BY LenProperties
<1>2. /\ c \in Seq(Nat) /\ Len(c) = k /\ r \in Seq(Nat) /\ Len(r) = Len(b) - k
      /\ \A i \in 1 .. k : c[i] = b[i]
      /\ \A i \in 1 .. Len(b) - k : r[i] = b[k + i]
  BY SplitType
<1> HIDE DEF c, r
<1>3. /\ w \o c \in Seq(Nat) /\ Len(w \o c) = Len(w) + k
      /\ \A i \in 1 .. Len(w) + k : (w \o c)[i] = IF i <= Len(w) THEN w[i] ELSE c[i - Len(w)]
  BY <1>2, ConcatProperties
<1>4. DOMAIN (w \o c) = 1 .. Len(w) + k /\ DOMAIN r = 1 .. Len(b) - k
  BY <1>2, <1>3, LenProperties
<1>5. ASSUME NEW i \in 1 .. Len(w) + k
      PROVE  (w \o c)[i] = i
  <2>1. CASE i <= Len(w)
    <3>1. i \in DOMAIN w
      BY <2>1, <1>1
    <3>2. QED
      BY <3>1, <2>1, <1>3 DEF Run
  <2>2. CASE ~ (i <= Len(w))
    <3>1. i - Len(w) \in 1 .. k /\ i - Len(w) \in DOMAIN b
      BY <2>2, <1>1
    <3>2. b[i - Len(w)] = Len(w) + (i - Len(w))
      BY <3>1 DEF Run
    <3>3. (w \o c)[i] = c[i - Len(w)] /\ c[i - Len(w)] = b[i - Len(w)]
      BY <3>1, <2>2, <1>2, <1>3
    <3>4. QED
      BY <3>2, <3>3, <1>1
  <2>3. QED
    BY <2>1, <2>2
<1>6. ASSUME NEW i \in 1 .. Len(b) - k
      PROVE  r[i] = Len(w) + k + i
  <2>1. k + i \in DOMAIN b
    BY <1>1
  <2>2. b[k + i] = Len(w) + (k + i)
    BY <2>1 DEF Run
  <2>3. QED
    BY <2>2, <1>1, <1>2
<1>7. QED
  BY <1>2, <1>3, <1>4, <1>5, <1>6 DEF Run, c, r

-----------------------------------------------------------------------------
(* The queue of packets. *)

\* The elements of q with a packet added at the end.
LEMMA AppendFacts ==
  ASSUME NEW S, NEW q \in Seq(S), NEW p \in S
  PROVE  /\ Append(q, p) \in Seq(S) /\ Append(q, p) # <<>>
         /\ Len(q) \in Nat /\ Len(Append(q, p)) = Len(q) + 1
         /\ \A i \in 1 .. Len(q) : Append(q, p)[i] = q[i]
         /\ Append(q, p)[Len(q) + 1] = p
         /\ DOMAIN Append(q, p) = 1 .. Len(q) + 1
<1>1. QED
  BY AppendProperties, LenProperties

\* A packet that begins where the queue ends extends the queue.
LEMMA ChainAppends ==
  ASSUME NEW q \in Seq(Packets), NEW f \in Nat, NEW t \in Nat, Chain(q, f, t),
         NEW p \in Packets, p.from = t, p.from <= p.to
  PROVE  Chain(Append(q, p), f, p.to)
<1> DEFINE r == Append(q, p)
<1>1. /\ r \in Seq(Packets) /\ r # <<>> /\ Len(q) \in Nat /\ Len(r) = Len(q) + 1
      /\ \A i \in 1 .. Len(q) : r[i] = q[i]
      /\ r[Len(q) + 1] = p /\ DOMAIN r = 1 .. Len(q) + 1
  BY AppendFacts
<1>2. DOMAIN q = 1 .. Len(q)
  BY LenProperties
<1> HIDE DEF r
<1>3. ASSUME NEW i \in DOMAIN r
      PROVE  /\ r[i].from = IF i = 1 THEN f ELSE r[i - 1].to
             /\ r[i].from <= r[i].to
  <2>1. CASE i \in DOMAIN q
    <3>1. r[i] = q[i] /\ (i # 1 => r[i - 1] = q[i - 1])
      BY <2>1, <1>1, <1>2
    <3>2. QED
      BY <2>1, <3>1 DEF Chain
  <2>2. CASE i \notin DOMAIN q
    <3>1. i = Len(q) + 1 /\ r[i] = p
      BY <2>2, <1>1, <1>2
    <3>2. CASE i = 1
      <4>1. q = <<>>
        BY <3>1, <3>2, <1>1, EmptySeq
      <4>2. QED
        BY <4>1, <3>1, <3>2 DEF Chain
    <3>3. CASE i # 1
      <4>1. q # <<>> /\ i - 1 = Len(q) /\ r[i - 1] = q[Len(q)]
        BY <3>1, <3>3, <1>1, EmptySeq
      <4>2. QED
        BY <4>1, <3>1, <3>3 DEF Chain
    <3>4. QED
      BY <3>2, <3>3
  <2>3. QED
    BY <2>1, <2>2
<1>4. r[Len(r)] = p
  BY <1>1
<1>5. QED
  BY <1>1, <1>3, <1>4 DEF Chain, r

\* A queue of one packet.
LEMMA ChainOfOne ==
  ASSUME NEW f \in Nat, NEW t \in Nat, f <= t
  PROVE  Chain(<<Packet(f, t)>>, f, t)
<1>1. /\ DOMAIN <<Packet(f, t)>> = {1} /\ Len(<<Packet(f, t)>>) = 1
      /\ <<Packet(f, t)>>[1] = Packet(f, t) /\ <<Packet(f, t)>> # <<>>
  OBVIOUS
<1>2. Packet(f, t).from = f /\ Packet(f, t).to = t
  BY DEF Packet
<1>3. QED
  BY <1>1, <1>2 DEF Chain

\* The queue without its first packet.
LEMMA ChainPops ==
  ASSUME NEW q \in Seq(Packets), NEW f \in Nat, NEW t \in Nat, Chain(q, f, t), q # <<>>
  PROVE  Tail(q) \in Seq(Packets) /\ Len(Tail(q)) = Len(q) - 1 /\ Chain(Tail(q), q[1].to, t)
<1> DEFINE r == Tail(q)
<1>1. /\ r \in Seq(Packets) /\ Len(r) = Len(q) - 1 /\ Len(q) \in Nat /\ Len(q) # 0
      /\ DOMAIN q = 1 .. Len(q) /\ DOMAIN r = 1 .. Len(q) - 1
      /\ \A i \in 1 .. Len(q) - 1 : r[i] = q[i + 1]
  BY HeadTailProperties, LenProperties, EmptySeq
<1> HIDE DEF r
<1>2. ASSUME NEW i \in DOMAIN r
      PROVE  /\ r[i].from = IF i = 1 THEN q[1].to ELSE r[i - 1].to
             /\ r[i].from <= r[i].to
  <2>1. i \in 1 .. Len(q) - 1 /\ i + 1 \in DOMAIN q /\ i + 1 # 1 /\ (i + 1) - 1 = i
    BY <1>1
  <2>2. r[i] = q[i + 1]
    BY <2>1, <1>1
  <2>3. q[i + 1].from = q[i].to /\ q[i + 1].from <= q[i + 1].to
    BY <2>1 DEF Chain
  <2>4. CASE i = 1
    BY <2>2, <2>3, <2>4
  <2>5. CASE i # 1
    <3>1. i - 1 \in 1 .. Len(q) - 1 /\ (i - 1) + 1 = i
      BY <2>1, <2>5, <1>1
    <3>2. r[i - 1] = q[i]
      BY <3>1, <1>1
    <3>3. QED
      BY <2>2, <2>3, <2>5, <3>2
  <2>6. QED
    BY <2>4, <2>5
<1>3. t = IF r = <<>> THEN q[1].to ELSE r[Len(r)].to
  <2>1. t = q[Len(q)].to
    BY DEF Chain
  <2>2. CASE r = <<>>
    <3>1. Len(q) = 1
      BY <2>2, <1>1
    <3>2. QED
      BY <3>1, <2>1, <2>2
  <2>3. CASE r # <<>>
    <3>1. Len(r) # 0
      BY <2>3, <1>1, EmptySeq
    <3>2. Len(r) \in 1 .. Len(q) - 1 /\ Len(r) + 1 = Len(q)
      BY <3>1, <1>1
    <3>3. QED
      BY <3>2, <1>1, <2>1, <2>3
  <2>4. QED
    BY <2>2, <2>3
<1>4. QED
  BY <1>1, <1>2, <1>3 DEF Chain, r

\* The queue when n bytes of its first packet are gone.
LEMMA ChainShrinks ==
  ASSUME NEW q \in Seq(Packets), NEW f \in Nat, NEW t \in Nat, Chain(q, f, t), q # <<>>,
         NEW n \in Nat, f + n <= q[1].to
  PROVE  Chain([q EXCEPT ![1] = Packet(f + n, q[1].to)], f + n, t)
<1> DEFINE r == [q EXCEPT ![1] = Packet(f + n, q[1].to)]
<1>1. /\ Len(q) \in Nat /\ Len(q) # 0 /\ DOMAIN q = 1 .. Len(q)
      /\ \A i \in 1 .. Len(q) : q[i] \in Packets
  BY LenProperties, EmptySeq, ElementOfSeq
<1>2. /\ DOMAIN r = DOMAIN q
      /\ r[1] = Packet(f + n, q[1].to)
      /\ \A i \in DOMAIN q : i # 1 => r[i] = q[i]
  BY <1>1
<1>3. q[1].to \in Nat /\ Packet(f + n, q[1].to) \in Packets
  BY <1>1 DEF Packet, Packets
<1>4. r \in Seq(Packets) /\ Len(r) = Len(q) /\ r # <<>>
  BY <1>1, <1>3, ExceptSeq, EmptySeq
<1> HIDE DEF r
<1>5. r[1].from = f + n /\ r[1].to = q[1].to
  BY <1>2 DEF Packet
<1>6. \A i \in DOMAIN q : r[i].to = q[i].to
  BY <1>2, <1>5
<1>7. ASSUME NEW i \in DOMAIN r
      PROVE  /\ r[i].from = IF i = 1 THEN f + n ELSE r[i - 1].to
             /\ r[i].from <= r[i].to
  <2>1. CASE i = 1
    BY <2>1, <1>5
  <2>2. CASE i # 1
    <3>1. i \in DOMAIN q /\ i - 1 \in DOMAIN q /\ r[i] = q[i]
      BY <2>2, <1>1, <1>2
    <3>2. QED
      BY <3>1, <2>2, <1>6 DEF Chain
  <2>3. QED
    BY <2>1, <2>2
<1>8. t = r[Len(r)].to
  BY <1>1, <1>4, <1>6 DEF Chain
<1>9. QED
  BY <1>4, <1>7, <1>8 DEF Chain, r

-----------------------------------------------------------------------------
(* Types, and the socket is watched while bytes wait. *)

Forward == \A i \in DOMAIN sendQueue : sendQueue[i].from <= sendQueue[i].to

SendInv == SendTypeOK /\ Forward /\ PendingIsWatched

LEMMA RoomFacts ==
  ASSUME SendTypeOK, NEW size \in Nat
  PROVE  /\ SendCap \in Nat /\ Len(buf) \in Nat /\ Begin(size) \in Nat /\ Room(size) \in Nat
         /\ Begin(size) + Len(buf) + Room(size) = SendCap
<1>1. SendCap \in Nat /\ Len(buf) \in Nat /\ begin \in Nat /\ begin + Len(buf) <= SendCap
  BY SendAssumption, LenProperties DEF SendTypeOK
<1>2. Begin(size) = 0 \/ Begin(size) = begin
  BY DEF Begin
<1>3. QED
  BY <1>1, <1>2 DEF Room

LEMMA AcceptedType ==
  ASSUME SendTypeOK
  PROVE  Accepted \in Nat
<1>1. ends \in Seq(Nat) /\ (ends # <<>> => Len(ends) \in 1 .. Len(ends))
  BY LenProperties, EmptySeq DEF SendTypeOK
<1>2. QED
  BY <1>1, ElementOfSeq DEF Accepted

\* Copying n bytes of a packet to the buffer.
LEMMA CopyType ==
  ASSUME SendTypeOK, NEW from \in Nat, NEW n \in Nat
  PROVE  /\ buf \o Bytes(from, from + n) \in Seq(Nat)
         /\ Len(buf \o Bytes(from, from + n)) = Len(buf) + n
<1>1. from + n \in Nat /\ from <= from + n /\ (from + n) - from = n
  OBVIOUS
<1>2. Bytes(from, from + n) \in Seq(Nat) /\ Len(Bytes(from, from + n)) = (from + n) - from
  BY <1>1, BytesType
<1>3. QED
  BY <1>1, <1>2, ConcatProperties DEF SendTypeOK

\* What the socket has not taken stays in the buffer, where it is.
LEMMA TrySendType ==
  ASSUME SendTypeOK, NEW b \in Seq(Nat), NEW at \in Nat, at + Len(b) <= SendCap,
         NEW k \in 0 .. Len(b), TrySend(at, b, k)
  PROVE  /\ wire' \in Seq(Nat) /\ Rest(b, k) \in Seq(Nat) /\ Len(Rest(b, k)) = Len(b) - k
         /\ begin' \in Nat /\ begin' + Len(Rest(b, k)) <= SendCap
         /\ Len(b) \in Nat
<1>1. /\ Len(b) \in Nat /\ SendCap \in Nat
      /\ SubSeq(b, 1, k) \in Seq(Nat) /\ Rest(b, k) \in Seq(Nat) /\ Len(Rest(b, k)) = Len(b) - k
  BY SplitType, LenProperties, SendAssumption
<1>2. wire \o SubSeq(b, 1, k) \in Seq(Nat)
  BY <1>1, ConcatProperties DEF SendTypeOK
<1>3. QED
  BY <1>1, <1>2 DEF TrySend

LEMMA EnqueueInv ==
  ASSUME SendInv, NEW p \in Packets, p.from <= p.to, Enqueue(p)
  PROVE  /\ begin' \in Nat /\ buf' \in Seq(Nat) /\ begin' + Len(buf') <= SendCap
         /\ sendQueue' \in Seq(Packets) /\ Len(sendQueue') <= QueueMax + 1
         /\ wire' \in Seq(Nat) /\ watched' \in BOOLEAN
         /\ sendQueue' # <<>> /\ Forward' /\ PendingIsWatched'
<1>1. sendQueue \in Seq(Packets)
  BY DEF SendInv, SendTypeOK, Packets
<1>2. /\ sendQueue' \in Seq(Packets) /\ sendQueue' # <<>>
      /\ Len(sendQueue) \in Nat /\ Len(sendQueue') = Len(sendQueue) + 1
      /\ \A i \in 1 .. Len(sendQueue) : sendQueue'[i] = sendQueue[i]
      /\ sendQueue'[Len(sendQueue) + 1] = p
      /\ DOMAIN sendQueue' = 1 .. Len(sendQueue) + 1
  BY <1>1, AppendFacts DEF Enqueue
<1>3. Len(sendQueue') <= QueueMax + 1
  BY <1>2, SendAssumption DEF Enqueue
<1>4. DOMAIN sendQueue = 1 .. Len(sendQueue)
  BY <1>1, LenProperties
<1>5. Forward'
  BY <1>2, <1>4 DEF SendInv, Forward
<1>6. PendingIsWatched'
  BY DEF SendInv, PendingIsWatched, Enqueue
<1>7. begin' = begin /\ buf' = buf /\ wire' = wire /\ watched' = watched
  BY DEF Enqueue
<1>8. /\ begin \in Nat /\ buf \in Seq(Nat) /\ begin + Len(buf) <= SendCap
      /\ wire \in Seq(Nat) /\ watched \in BOOLEAN
  BY DEF SendInv, SendTypeOK
<1>9. QED
  BY <1>2, <1>3, <1>5, <1>6, <1>7, <1>8

\* A queue that holds one packet.
LEMMA OneWaits ==
  ASSUME NEW from \in Nat, NEW to \in Nat, from <= to, sendQueue' = <<Packet(from, to)>>
  PROVE  /\ sendQueue' \in Seq(Packets) /\ Len(sendQueue') = 1 /\ Len(sendQueue') <= QueueMax + 1
         /\ sendQueue' # <<>> /\ Forward'
<1>1. Packet(from, to) \in Packets /\ Packet(from, to).from = from /\ Packet(from, to).to = to
  BY DEF Packet, Packets
<1>2. /\ sendQueue' \in Seq(Packets) /\ Len(sendQueue') = 1 /\ sendQueue' # <<>>
      /\ DOMAIN sendQueue' = {1} /\ sendQueue'[1] = Packet(from, to)
  BY <1>1
<1>3. QED
  BY <1>1, <1>2, SendAssumption DEF Forward

LEMMA SpillInv ==
  ASSUME SendInv, NEW p \in Packets, p.from <= p.to, Spill(p)
  PROVE  /\ begin' \in Nat /\ buf' \in Seq(Nat) /\ begin' + Len(buf') <= SendCap
         /\ sendQueue' \in Seq(Packets) /\ Len(sendQueue') <= QueueMax + 1
         /\ wire' \in Seq(Nat) /\ watched' \in BOOLEAN
         /\ sendQueue' # <<>> /\ Forward' /\ PendingIsWatched'
<1> DEFINE n == Room(Size(p))
<1>1. p.from \in Nat /\ p.to \in Nat /\ Size(p) \in Nat /\ Size(p) = p.to - p.from
  BY DEF Packets, Size
<1>2. /\ SendTypeOK /\ n \in Nat /\ n < Size(p) /\ Begin(Size(p)) \in Nat
      /\ Begin(Size(p)) + Len(buf) + n = SendCap /\ Len(buf) \in Nat
  BY <1>1, RoomFacts DEF SendInv, Spill
<1>3. begin' = Begin(Size(p)) /\ buf' = buf \o Bytes(p.from, p.from + n)
  BY DEF Spill
<1>4. sendQueue' = <<Packet(p.from + n, p.to)>> /\ watched' = TRUE /\ wire' = wire
  BY DEF Spill
<1> HIDE DEF n
<1>5. buf' \in Seq(Nat) /\ Len(buf') = Len(buf) + n
  BY <1>1, <1>2, <1>3, CopyType
<1>6. p.from + n \in Nat /\ p.from + n <= p.to
  BY <1>1, <1>2
<1>7. /\ sendQueue' \in Seq(Packets) /\ Len(sendQueue') <= QueueMax + 1
      /\ sendQueue' # <<>> /\ Forward'
  BY <1>1, <1>4, <1>6, OneWaits
<1>8. begin' + Len(buf') <= SendCap
  BY <1>2, <1>3, <1>5
<1>9. QED
  BY <1>2, <1>3, <1>4, <1>5, <1>7, <1>8 DEF PendingIsWatched, SendTypeOK

LEMMA SendAllInv ==
  ASSUME SendInv, NEW p \in Packets, p.from <= p.to, SendAll(p)
  PROVE  /\ begin' = 0 /\ buf' = <<>> /\ sendQueue' = <<>>
         /\ wire' \in Seq(Nat) /\ watched' \in BOOLEAN
<1> DEFINE b == buf \o Bytes(p.from, p.to)
<1>1. p.from \in Nat /\ p.to \in Nat /\ Size(p) \in Nat /\ p.to = p.from + Size(p)
  BY DEF Packets, Size
<1>2. b \in Seq(Nat)
  BY <1>1, CopyType DEF SendInv
<1>3. TrySend(Begin(Size(p)), b, Len(b)) /\ buf' = <<>> /\ sendQueue' = <<>> /\ watched' = watched
  BY DEF SendAll
<1> HIDE DEF b
<1>4. SubSeq(b, 1, Len(b)) \in Seq(Nat)
  <2>1. Len(b) \in 0 .. Len(b)
    BY <1>2, LenProperties
  <2>2. QED
    BY <1>2, <2>1, SplitType
<1>5. wire' \in Seq(Nat)
  BY <1>3, <1>4, ConcatProperties DEF TrySend, SendInv, SendTypeOK
<1>6. QED
  BY <1>3, <1>5 DEF TrySend, SendInv, SendTypeOK

LEMMA SendSomeInv ==
  ASSUME SendInv, NEW p \in Packets, p.from <= p.to,
         NEW k \in Nat, SendSome(p, k)
  PROVE  /\ begin' \in Nat /\ buf' \in Seq(Nat) /\ begin' + Len(buf') <= SendCap
         /\ sendQueue' \in Seq(Packets) /\ Len(sendQueue') <= QueueMax + 1
         /\ wire' \in Seq(Nat) /\ watched' \in BOOLEAN
         /\ sendQueue' # <<>> /\ Forward' /\ PendingIsWatched'
<1> DEFINE b == buf \o Bytes(p.from, p.to)
           at == Begin(Size(p))
           pad == [i \in 1 .. Size(p) |-> Stale]
           junk == IF SendCap - (at + Len(b)) >= Size(p) THEN pad ELSE <<>>
<1>1. p.from \in Nat /\ p.to \in Nat /\ Size(p) \in Nat /\ p.to = p.from + Size(p)
  BY DEF Packets, Size
<1>2. b \in Seq(Nat) /\ Len(b) = Len(buf) + Size(p)
  BY <1>1, CopyType DEF SendInv
<1>3. /\ at \in Nat /\ SendCap \in Nat /\ Len(buf) \in Nat /\ Room(Size(p)) \in Nat
      /\ at + Len(buf) + Room(Size(p)) = SendCap
  BY <1>1, RoomFacts DEF SendInv
<1>4. pad \in Seq(Nat) /\ Len(pad) = Size(p)
  <2>1. pad \in [1 .. Size(p) -> Nat]
    BY DEF Stale
  <2>2. pad \in Seq(Nat)
    BY <1>1, <2>1, SeqDef
  <2>3. QED
    BY <1>1, <2>1, <2>2, LenProperties
<1>5. Room(Size(p)) >= Size(p) /\ k < Len(b)
  BY DEF SendSome
<1>6. TrySend(at, b, k) /\ buf' = Rest(b, k) \o junk
  BY DEF SendSome
<1>7. sendQueue' = <<Packet(p.to, p.to)>> /\ watched' = TRUE
  BY DEF SendSome
<1> HIDE DEF b, at, pad
<1>8. junk \in Seq(Nat) /\ Len(junk) = IF SendCap - (at + Len(b)) >= Size(p) THEN Size(p) ELSE 0
  BY <1>4, EmptySeq
<1> HIDE DEF junk
<1>9. k \in 0 .. Len(b) /\ at + Len(b) <= SendCap
  BY <1>1, <1>2, <1>3, <1>5
<1>10. /\ wire' \in Seq(Nat) /\ Rest(b, k) \in Seq(Nat) /\ Len(Rest(b, k)) = Len(b) - k
       /\ begin' = at + k
  <2>1. /\ wire' \in Seq(Nat) /\ Rest(b, k) \in Seq(Nat) /\ Len(Rest(b, k)) = Len(b) - k
        /\ Len(b) \in Nat
    BY <1>2, <1>3, <1>6, <1>9, TrySendType DEF SendInv
  <2>2. k # Len(b)
    BY <1>5, <2>1
  <2>3. QED
    BY <2>1, <2>2, <1>6 DEF TrySend
<1>11. buf' \in Seq(Nat) /\ Len(buf') = Len(b) - k + Len(junk)
  BY <1>6, <1>8, <1>10, ConcatProperties
<1>12. begin' + Len(buf') <= SendCap
  <2>1. Len(b) \in Nat /\ Len(junk) \in Nat
    BY <1>2, <1>8, LenProperties
  <2>2. begin' + Len(buf') = at + Len(b) + Len(junk)
    BY <2>1, <1>3, <1>10, <1>11
  <2>3. at + Len(b) + Len(junk) <= SendCap
    BY <2>1, <1>1, <1>3, <1>8, <1>9
  <2>4. QED
    BY <2>2, <2>3
<1>13. /\ sendQueue' \in Seq(Packets) /\ Len(sendQueue') <= QueueMax + 1
       /\ sendQueue' # <<>> /\ Forward'
  BY <1>1, <1>7, OneWaits
<1>14. QED
  BY <1>3, <1>7, <1>10, <1>11, <1>12, <1>13 DEF PendingIsWatched

LEMMA SendPacketInv ==
  ASSUME SendInv, NEW size \in Sizes, SendPacket(size)
  PROVE  SendInv'
<1> DEFINE p == Packet(Accepted, Accepted + size)
<1>1. size \in Nat /\ Accepted \in Nat
  BY SendAssumption, AcceptedType DEF SendInv
<1>2. p \in Packets /\ p.from <= p.to /\ p.to \in Nat /\ Size(p) = size
  BY <1>1 DEF Packet, Packets, Size
<1>3. /\ Enqueue(p) \/ Spill(p) \/ SendAll(p) \/ \E k \in 0 .. Len(buf) + size : SendSome(p, k)
      /\ ends' = Append(ends, p.to) /\ drain' = drain /\ drain = "no"
  BY DEF SendPacket
<1> HIDE DEF p
<1>4. ends' \in Seq(Nat)
  BY <1>2, <1>3, AppendProperties DEF SendInv, SendTypeOK
<1>5. /\ begin' \in Nat /\ buf' \in Seq(Nat) /\ begin' + Len(buf') <= SendCap
      /\ sendQueue' \in Seq(Packets) /\ Len(sendQueue') <= QueueMax + 1
      /\ wire' \in Seq(Nat) /\ watched' \in BOOLEAN
      /\ Forward' /\ PendingIsWatched'
  <2>1. CASE Enqueue(p)
    BY <2>1, <1>2, EnqueueInv
  <2>2. CASE Spill(p)
    BY <2>2, <1>2, SpillInv
  <2>3. CASE SendAll(p)
    <3>1. /\ begin' = 0 /\ buf' = <<>> /\ sendQueue' = <<>>
          /\ wire' \in Seq(Nat) /\ watched' \in BOOLEAN
      BY <2>3, <1>2, SendAllInv
    <3>2. buf' \in Seq(Nat) /\ Len(buf') = 0 /\ sendQueue' \in Seq(Packets) /\ Len(sendQueue') = 0
      BY <3>1, EmptySeq
    <3>3. Forward' /\ PendingIsWatched'
      BY <3>1 DEF Forward, PendingIsWatched
    <3>4. QED
      BY <3>1, <3>2, <3>3, SendAssumption
  <2>4. CASE \E k \in 0 .. Len(buf) + size : SendSome(p, k)
    <3>1. PICK k \in Nat : SendSome(p, k)
      BY <2>4
    <3>2. QED
      BY <3>1, <1>2, SendSomeInv
  <2>5. QED
    BY <1>3, <2>1, <2>2, <2>3, <2>4
<1>6. drain' = "no"
  BY <1>3
<1>7. QED
  BY <1>4, <1>5, <1>6 DEF SendInv, SendTypeOK, Packets

LEMMA DrainInv ==
  ASSUME SendInv, NEW k \in 0 .. Len(buf), TrySend(begin, buf, k), buf' = Rest(buf, k)
  PROVE  begin' \in Nat /\ buf' \in Seq(Nat) /\ begin' + Len(buf') <= SendCap /\ wire' \in Seq(Nat)
<1>1. buf \in Seq(Nat) /\ begin \in Nat /\ begin + Len(buf) <= SendCap
  BY DEF SendInv, SendTypeOK
<1>2. QED
  BY <1>1, TrySendType DEF SendInv

LEMMA DrainSomeInv ==
  ASSUME SendInv, NEW k \in Nat, DrainSome(k)
  PROVE  SendInv'
<1>1. k \in 0 .. Len(buf) /\ TrySend(begin, buf, k) /\ buf' = Rest(buf, k)
  BY LenProperties DEF DrainSome, SendInv, SendTypeOK
<1>2. begin' \in Nat /\ buf' \in Seq(Nat) /\ begin' + Len(buf') <= SendCap /\ wire' \in Seq(Nat)
  BY <1>1, DrainInv
<1>3. drain' = "no" /\ ends' = ends /\ sendQueue' = sendQueue /\ watched' = watched
  BY DEF DrainSome
<1>4. SendTypeOK'
  BY <1>2, <1>3 DEF SendInv, SendTypeOK
<1>5. Forward'
  BY <1>3 DEF SendInv, Forward
<1>6. PendingIsWatched'
  <2>1. buf # <<>>
    BY LenProperties, EmptySeq DEF DrainSome, SendInv, SendTypeOK
  <2>2. QED
    BY <2>1, <1>3 DEF SendInv, PendingIsWatched
<1>7. QED
  BY <1>4, <1>5, <1>6 DEF SendInv

LEMMA DrainAllInv ==
  ASSUME SendInv, DrainAll
  PROVE  SendInv'
<1>1. Len(buf) \in 0 .. Len(buf) /\ buf \in Seq(Nat)
  BY LenProperties DEF SendInv, SendTypeOK
<1>2. Rest(buf, Len(buf)) = <<>>
  <2>1. Rest(buf, Len(buf)) \in Seq(Nat) /\ Len(Rest(buf, Len(buf))) = Len(buf) - Len(buf)
    BY <1>1, SplitType
  <2>2. Len(buf) - Len(buf) = 0
    BY <1>1
  <2>3. QED
    BY <2>1, <2>2, EmptySeq
<1>3. begin' \in Nat /\ buf' \in Seq(Nat) /\ begin' + Len(buf') <= SendCap /\ wire' \in Seq(Nat)
  BY <1>1, <1>2, DrainInv DEF DrainAll
<1>4. /\ ends' = ends /\ sendQueue' = sendQueue
      /\ buf' = <<>>
      /\ \/ sendQueue = <<>> /\ watched' = FALSE /\ drain' = "no"
         \/ sendQueue # <<>> /\ watched' = watched /\ drain' = "refill"
  BY DEF DrainAll
<1>5. SendTypeOK'
  BY <1>3, <1>4 DEF SendInv, SendTypeOK
<1>6. Forward' /\ PendingIsWatched'
  BY <1>4 DEF SendInv, Forward, PendingIsWatched
<1>7. QED
  BY <1>5, <1>6 DEF SendInv

\* What Refill moves: n bytes of the first packet.
Moved == LET p == Head(sendQueue) IN IF Room(Size(p)) < Size(p) THEN Room(Size(p)) ELSE Size(p)

LEMMA RefillFacts ==
  ASSUME SendInv, Refill
  PROVE  LET p == sendQueue[1] IN
         /\ sendQueue \in Seq(Packets) /\ sendQueue # <<>> /\ Head(sendQueue) = p
         /\ p \in Packets /\ p.from \in Nat /\ p.to \in Nat
         /\ Moved \in Nat /\ p.from + Moved \in Nat /\ p.from + Moved <= p.to
         /\ buf' = buf \o Bytes(p.from, p.from + Moved)
         /\ buf' \in Seq(Nat) /\ Len(buf') = Len(buf) + Moved
         /\ begin' \in Nat /\ begin' + Len(buf') <= SendCap
         /\ \/ /\ sendQueue' = [sendQueue EXCEPT ![1] = Packet(p.from + Moved, p.to)]
               /\ drain' = "send"
            \/ /\ sendQueue' = Tail(sendQueue) /\ p.from + Moved = p.to
               /\ drain' = IF Tail(sendQueue) = <<>> THEN "send" ELSE "refill"
         /\ ends' = ends /\ wire' = wire /\ watched' = watched
<1> DEFINE p == sendQueue[1]
<1>1. sendQueue \in Seq(Packets) /\ sendQueue # <<>> /\ Head(sendQueue) = p
  BY DEF SendInv, SendTypeOK, Packets, Refill
<1>2. Len(sendQueue) \in Nat \ {0} /\ DOMAIN sendQueue = 1 .. Len(sendQueue)
  BY <1>1, LenProperties, EmptySeq
<1>3. p \in Packets /\ p.from <= p.to
  BY <1>1, <1>2, ElementOfSeq DEF SendInv, Forward
<1>4. p.from \in Nat /\ p.to \in Nat /\ Size(p) \in Nat /\ p.from + Size(p) = p.to
  BY <1>3 DEF Packets, Size
<1> DEFINE s == Size(p)
           n == IF Room(s) < s THEN Room(s) ELSE s
<1>5. Moved = n
  BY <1>1 DEF Moved
<1>6. /\ begin' = Begin(s)
      /\ buf' = buf \o Bytes(p.from, p.from + n)
      /\ ends' = ends /\ wire' = wire /\ watched' = watched
  BY <1>1 DEF Refill
<1>7. \/ /\ sendQueue' = [sendQueue EXCEPT ![1] = Packet(p.from + n, p.to)]
         /\ drain' = "send"
      \/ /\ sendQueue' = Tail(sendQueue) /\ ~ (n < s)
         /\ drain' = IF Tail(sendQueue) = <<>> THEN "send" ELSE "refill"
  BY <1>1 DEF Refill
<1> HIDE DEF p, s
<1>8. s \in Nat /\ p.from + s = p.to
  BY <1>4 DEF s
<1>9. /\ SendCap \in Nat /\ Len(buf) \in Nat /\ Begin(s) \in Nat /\ Room(s) \in Nat
      /\ Begin(s) + Len(buf) + Room(s) = SendCap
  BY <1>8, RoomFacts DEF SendInv
<1>10. n \in Nat /\ n <= s /\ n <= Room(s)
  BY <1>8, <1>9
<1> HIDE DEF n
<1>11. buf' \in Seq(Nat) /\ Len(buf') = Len(buf) + n
  BY <1>4, <1>6, <1>10, CopyType DEF SendInv
<1>12. begin' \in Nat /\ begin' + Len(buf') <= SendCap
  BY <1>6, <1>9, <1>10, <1>11
<1>13. p.from + n \in Nat /\ p.from + n <= p.to /\ (~ (n < s) => p.from + n = p.to)
  BY <1>4, <1>8, <1>10
<1>14. QED
  BY <1>1, <1>3, <1>4, <1>5, <1>6, <1>7, <1>10, <1>11, <1>12, <1>13 DEF p

LEMMA RefillInv ==
  ASSUME SendInv, Refill
  PROVE  SendInv'
<1> DEFINE p == sendQueue[1]
           h == Packet(p.from + Moved, p.to)
<1>1. /\ sendQueue \in Seq(Packets) /\ sendQueue # <<>>
      /\ p.to \in Nat /\ p.from + Moved \in Nat /\ p.from + Moved <= p.to
      /\ buf' \in Seq(Nat) /\ begin' \in Nat /\ begin' + Len(buf') <= SendCap
      /\ ends' = ends /\ wire' = wire /\ watched' = watched
  BY RefillFacts
<1>2. \/ sendQueue' = [sendQueue EXCEPT ![1] = h] /\ drain' = "send"
      \/ /\ sendQueue' = Tail(sendQueue)
         /\ drain' = IF Tail(sendQueue) = <<>> THEN "send" ELSE "refill"
  BY RefillFacts
<1>3. h \in Packets /\ h.from <= h.to
  BY <1>1 DEF Packet, Packets
<1>4. /\ Len(sendQueue) \in Nat \ {0} /\ DOMAIN sendQueue = 1 .. Len(sendQueue)
      /\ Len(sendQueue) <= QueueMax + 1 /\ QueueMax \in Nat
      /\ \A i \in 1 .. Len(sendQueue) : sendQueue[i].from <= sendQueue[i].to
  BY <1>1, LenProperties, EmptySeq, SendAssumption DEF SendInv, SendTypeOK, Forward
<1> HIDE DEF h, p
<1>5. /\ sendQueue' \in Seq(Packets) /\ Len(sendQueue') <= QueueMax + 1
      /\ \A i \in DOMAIN sendQueue' : sendQueue'[i].from <= sendQueue'[i].to
      /\ drain' \in {"no", "send", "refill"} /\ (drain' = "refill" => sendQueue' # <<>>)
  <2>1. CASE sendQueue' = [sendQueue EXCEPT ![1] = h] /\ drain' = "send"
    <3>1. /\ sendQueue' \in Seq(Packets) /\ Len(sendQueue') = Len(sendQueue)
          /\ \A i \in 1 .. Len(sendQueue) : sendQueue'[i] = IF i = 1 THEN h ELSE sendQueue[i]
      BY <2>1, <1>1, <1>3, <1>4, ExceptSeq
    <3>2. DOMAIN sendQueue' = 1 .. Len(sendQueue)
      BY <3>1, LenProperties
    <3>3. QED
      BY <3>1, <3>2, <2>1, <1>3, <1>4
  <2>2. CASE /\ sendQueue' = Tail(sendQueue)
             /\ drain' = IF Tail(sendQueue) = <<>> THEN "send" ELSE "refill"
    <3>1. /\ sendQueue' \in Seq(Packets) /\ Len(sendQueue') = Len(sendQueue) - 1
          /\ \A i \in 1 .. Len(sendQueue') : sendQueue'[i] = sendQueue[i + 1]
      BY <2>2, <1>1, HeadTailProperties
    <3>2. DOMAIN sendQueue' = 1 .. Len(sendQueue) - 1 /\ Len(sendQueue') <= QueueMax + 1
      BY <3>1, <1>4, LenProperties
    <3>3. \A i \in DOMAIN sendQueue' : sendQueue'[i].from <= sendQueue'[i].to
      BY <3>1, <3>2, <1>4
    <3>4. QED
      BY <3>1, <3>2, <3>3, <2>2
  <2>3. QED
    BY <1>2, <2>1, <2>2
<1>6. SendTypeOK'
  BY <1>1, <1>5 DEF SendInv, SendTypeOK, Packets
<1>7. Forward' /\ PendingIsWatched'
  BY <1>1, <1>5 DEF Forward, PendingIsWatched, SendInv
<1>8. QED
  BY <1>6, <1>7 DEF SendInv

LEMMA SendInvInit ==
  ASSUME SendInit
  PROVE  SendInv
<1>1. ends = <<>> /\ buf = <<>> /\ sendQueue = <<>> /\ wire = <<>> /\ begin = 0
  BY DEF SendInit
<1>2. ends \in Seq(Nat) /\ buf \in Seq(Nat) /\ wire \in Seq(Nat) /\ Len(buf) = 0
  BY <1>1, EmptySeq
<1>3. sendQueue \in Seq([from : Nat, to : Nat]) /\ Len(sendQueue) = 0
  BY <1>1, EmptySeq
<1>4. SendTypeOK
  <2>1. Len(sendQueue) <= QueueMax + 1 /\ begin \in Nat /\ begin + Len(buf) <= SendCap
    BY <1>1, <1>2, <1>3, SendAssumption
  <2>2. watched \in BOOLEAN /\ drain = "no"
    BY DEF SendInit
  <2>3. QED
    BY <1>2, <1>3, <2>1, <2>2 DEF SendTypeOK
<1>5. QED
  BY <1>1, <1>4 DEF SendInv, Forward, PendingIsWatched

LEMMA SendInvStep ==
  ASSUME SendInv, [SendNext]_sendVars
  PROVE  SendInv'
<1>1. CASE UNCHANGED sendVars
  BY <1>1 DEF sendVars, SendInv, SendTypeOK, Forward, PendingIsWatched
<1>2. ASSUME NEW size \in Sizes, SendPacket(size)
      PROVE  SendInv'
  BY <1>2, SendPacketInv
<1>3. CASE WriteEvent
  <2>1. /\ drain' = "send"
        /\ UNCHANGED <<ends, begin, buf, sendQueue, wire, watched>>
    BY <1>3 DEF WriteEvent
  <2>2. QED
    BY <2>1 DEF SendInv, SendTypeOK, Forward, PendingIsWatched
<1>4. CASE DrainAll
  BY <1>4, DrainAllInv
<1>5. CASE Refill
  BY <1>5, RefillInv
<1>6. ASSUME NEW k \in 0 .. SendCap, DrainSome(k)
      PROVE  SendInv'
  <2>1. k \in Nat
    BY SendAssumption
  <2>2. QED
    BY <1>6, <2>1, DrainSomeInv
<1>7. QED
  BY <1>1, <1>2, <1>3, <1>4, <1>5, <1>6 DEF SendNext

\* A step of the link is a step of the sender or leaves it alone.
LEMMA LinkStep ==
  ASSUME [TcpNext]_linkVars
  PROVE  [SendNext]_sendVars
<1>1. QED
  BY DEF TcpNext, linkVars, Close

\* The buffer, the queue and the socket keep their types: the data never runs past
\* the end of ConnectionBuffer, and the queue holds at most one packet more than the
\* limit of sendPacket.
THEOREM SendTypeCorrect == TcpSpec => []SendTypeOK
<1>1. TcpInit => SendInv
  BY SendInvInit DEF TcpInit
<1>2. SendInv /\ [TcpNext]_linkVars => SendInv'
  BY SendInvStep, LinkStep
<1>3. SendInv => SendTypeOK
  BY DEF SendInv
<1>4. QED
  BY <1>1, <1>2, <1>3, PTL DEF TcpSpec

\* Whatever waits in the buffer or the queue, epoll is asked for the write event
\* that will send it.
THEOREM WaitingIsWatched == TcpSpec => []PendingIsWatched
<1>1. TcpInit => SendInv
  BY SendInvInit DEF TcpInit
<1>2. SendInv /\ [TcpNext]_linkVars => SendInv'
  BY SendInvStep, LinkStep
<1>3. SendInv => PendingIsWatched
  BY DEF SendInv
<1>4. QED
  BY <1>1, <1>2, <1>3, PTL DEF TcpSpec

-----------------------------------------------------------------------------
(* The stream stays intact where sendPacket does not commit a packet twice.    *)

StreamInv == Run(wire, buf) /\ Chain(sendQueue, Len(wire) + Len(buf), Accepted)

LEMMA StreamInvMeans ==
  StreamInv <=> StreamIntact
<1>1. QED
  BY DEF StreamInv, StreamIntact, Run, Chain

LEMMA StreamLengths ==
  ASSUME SendTypeOK
  PROVE  /\ wire \in Seq(Nat) /\ buf \in Seq(Nat) /\ Len(wire) \in Nat /\ Len(buf) \in Nat
         /\ sendQueue \in Seq(Packets) /\ ends \in Seq(Nat) /\ Accepted \in Nat
<1>1. QED
  BY LenProperties, AcceptedType DEF SendTypeOK, Packets

LEMMA AcceptedGrows ==
  ASSUME SendTypeOK, NEW to \in Nat, ends' = Append(ends, to)
  PROVE  Accepted' = to
<1>1. /\ ends' # <<>> /\ Len(ends) \in Nat /\ Len(ends') = Len(ends) + 1
      /\ ends'[Len(ends) + 1] = to
  <2>1. ends \in Seq(Nat)
    BY DEF SendTypeOK
  <2>2. QED
    BY <2>1, AppendFacts
<1>2. QED
  BY <1>1 DEF Accepted

\* The packet is copied to the buffer from its first byte on, and k bytes of the
\* buffer are sent.
LEMMA CopyAndSend ==
  ASSUME SendTypeOK, StreamInv, sendQueue = <<>>, NEW to \in Nat, Accepted <= to,
         NEW b, b = buf \o Bytes(Accepted, to),
         NEW k \in 0 .. Len(b), NEW at, TrySend(at, b, k), buf' = Rest(b, k)
  PROVE  Run(wire', buf') /\ Len(wire') + Len(buf') = to /\ Len(wire') + Len(buf') \in Nat
<1>1. /\ wire \in Seq(Nat) /\ buf \in Seq(Nat) /\ Len(wire) \in Nat /\ Len(buf) \in Nat
      /\ Accepted \in Nat
  BY StreamLengths
<1>2. Accepted = Len(wire) + Len(buf) /\ Run(wire, buf)
  BY DEF StreamInv, Chain
<1>3. Run(wire, b)
  BY <1>1, <1>2, RunExtends
<1>4. /\ to - Accepted \in Nat /\ to = Accepted + (to - Accepted)
  BY <1>1
<1>5. b \in Seq(Nat) /\ Len(b) = Len(buf) + (to - Accepted)
  BY <1>1, <1>4, CopyType
<1>6. wire' = wire \o SubSeq(b, 1, k)
  BY DEF TrySend
<1>7. /\ Run(wire', buf') /\ Len(wire') = Len(wire) + k /\ Len(buf') = Len(b) - k
  BY <1>1, <1>3, <1>5, <1>6, RunSends
<1>8. Len(b) \in Nat
  BY <1>5, LenProperties
<1>9. Len(wire') + Len(buf') = Len(wire) + Len(b)
  BY <1>1, <1>7, <1>8
<1>10. Len(wire) + Len(b) = to
  BY <1>1, <1>2, <1>5
<1>11. QED
  BY <1>7, <1>9, <1>10

LEMMA StreamEnqueue ==
  ASSUME SendInv, StreamInv, NEW to \in Nat, Accepted <= to, Enqueue(Packet(Accepted, to))
  PROVE  Run(wire', buf') /\ Chain(sendQueue', Len(wire') + Len(buf'), to)
<1> DEFINE p == Packet(Accepted, to)
<1>1. /\ sendQueue \in Seq(Packets) /\ Len(wire) + Len(buf) \in Nat /\ Accepted \in Nat
  BY StreamLengths DEF SendInv
<1>2. p \in Packets /\ p.from = Accepted /\ p.to = to
  BY <1>1 DEF Packet, Packets
<1>3. sendQueue' = Append(sendQueue, p) /\ wire' = wire /\ buf' = buf
  BY DEF Enqueue
<1> HIDE DEF p
<1>4. Chain(sendQueue', Len(wire) + Len(buf), to)
  BY <1>1, <1>2, <1>3, ChainAppends DEF StreamInv
<1>5. QED
  BY <1>3, <1>4 DEF StreamInv

LEMMA StreamSpill ==
  ASSUME SendInv, StreamInv, NEW to \in Nat, Accepted <= to, Spill(Packet(Accepted, to))
  PROVE  Run(wire', buf') /\ Chain(sendQueue', Len(wire') + Len(buf'), to)
<1> DEFINE p == Packet(Accepted, to)
           n == Room(Size(p))
<1>1. /\ wire \in Seq(Nat) /\ buf \in Seq(Nat) /\ Len(wire) \in Nat /\ Len(buf) \in Nat
      /\ Accepted \in Nat /\ SendTypeOK
  BY StreamLengths DEF SendInv
<1>2. p.from = Accepted /\ p.to = to /\ Size(p) = to - Accepted /\ Size(p) \in Nat
  BY <1>1 DEF Packet, Size
<1>3. n \in Nat
  BY <1>1, <1>2, RoomFacts
<1>4. /\ n < Size(p) /\ sendQueue = <<>> /\ wire' = wire
      /\ buf' = buf \o Bytes(p.from, p.from + n)
      /\ sendQueue' = <<Packet(p.from + n, p.to)>>
  BY DEF Spill
<1> HIDE DEF p, n
<1>5. Accepted = Len(wire) + Len(buf) /\ Run(wire, buf)
  BY <1>4 DEF StreamInv, Chain
<1>6. /\ Accepted + n \in Nat /\ Len(wire) + Len(buf) <= Accepted + n /\ Accepted + n <= to
  BY <1>1, <1>2, <1>3, <1>4, <1>5
<1>7. Run(wire', buf')
  BY <1>1, <1>2, <1>4, <1>5, <1>6, RunExtends
<1>8. Len(buf') = Len(buf) + n
  BY <1>1, <1>2, <1>3, <1>4, CopyType
<1>9. Len(wire') + Len(buf') = Accepted + n
  <2>1. Len(wire') = Len(wire)
    BY <1>4
  <2>2. Accepted = Len(wire) + Len(buf)
    BY <1>5
  <2>3. QED
    BY <2>1, <2>2, <1>1, <1>3, <1>8
<1>10. Chain(sendQueue', Accepted + n, to)
  BY <1>2, <1>4, <1>6, ChainOfOne
<1>11. QED
  BY <1>7, <1>9, <1>10

LEMMA StreamSendAll ==
  ASSUME SendInv, StreamInv, NEW to \in Nat, Accepted <= to, SendAll(Packet(Accepted, to))
  PROVE  Run(wire', buf') /\ Chain(sendQueue', Len(wire') + Len(buf'), to)
<1> DEFINE p == Packet(Accepted, to)
           b == buf \o Bytes(Accepted, to)
<1>1. p.from = Accepted /\ p.to = to
  BY DEF Packet
<1>2. /\ sendQueue = <<>> /\ sendQueue' = <<>> /\ buf' = <<>>
      /\ TrySend(Begin(Size(p)), b, Len(b))
  BY <1>1 DEF SendAll
<1>3. Accepted \in Nat /\ to - Accepted \in Nat /\ to = Accepted + (to - Accepted)
  BY StreamLengths DEF SendInv
<1>4. b \in Seq(Nat)
  BY <1>3, CopyType DEF SendInv
<1> HIDE DEF p, b
<1>5. Len(b) \in Nat /\ Len(b) \in 0 .. Len(b) /\ Len(b) - Len(b) = 0
  BY <1>4, LenProperties
<1>6. Rest(b, Len(b)) = <<>>
  BY <1>4, <1>5, SplitType, EmptySeq
<1>7. Run(wire', buf') /\ Len(wire') + Len(buf') = to
  BY <1>2, <1>5, <1>6, CopyAndSend DEF b, SendInv
<1>8. QED
  BY <1>2, <1>7 DEF Chain

LEMMA StreamSendSome ==
  ASSUME SendInv, StreamInv, NEW size \in Sizes, ~ Recommit, NEW k \in Nat,
         SendSome(Packet(Accepted, Accepted + size), k),
         ends' = Append(ends, Accepted + size)
  PROVE  Run(wire', buf') /\ Chain(sendQueue', Len(wire') + Len(buf'), Accepted + size)
<1> DEFINE to == Accepted + size
           p == Packet(Accepted, to)
           b == buf \o Bytes(Accepted, to)
           at == Begin(Size(p))
           pad == [i \in 1 .. Size(p) |-> Stale]
           junk == IF SendCap - (at + Len(b)) >= Size(p) THEN pad ELSE <<>>
<1>1. /\ Accepted \in Nat /\ size \in Nat /\ to \in Nat /\ Accepted <= to
      /\ Len(buf) \in Nat /\ SendCap \in Nat
  BY StreamLengths, SendAssumption DEF SendInv
<1>2. p.from = Accepted /\ p.to = to /\ Size(p) = size
  BY <1>1 DEF Packet, Size
<1>3. /\ sendQueue = <<>> /\ k < Len(b) /\ TrySend(at, b, k) /\ buf' = Rest(b, k) \o junk
      /\ sendQueue' = <<Packet(to, to)>>
  BY <1>2 DEF SendSome
<1>4. b \in Seq(Nat) /\ Len(b) = Len(buf) + size
  BY <1>1, CopyType DEF SendInv
<1>5. at \in Nat
  BY <1>1, <1>2, RoomFacts DEF SendInv
<1> HIDE DEF p, b, at, pad, to
<1>6. junk = <<>>
  <2>1. ~ (2 * size <= SendCap - (at + Len(buf)))
    <3>1. sendQueue = <<>> /\ sendQueue' # <<>>
      BY <1>3
    <3>2. at = Begin(size)
      BY <1>2 DEF at
    <3>3. QED
      BY <3>1, <3>2 DEF Recommit
  <2>2. ~ (SendCap - (at + Len(b)) >= Size(p))
    BY <2>1, <1>1, <1>2, <1>4, <1>5
  <2>3. QED
    BY <2>2
<1> HIDE DEF junk
<1>7. k \in 0 .. Len(b)
  BY <1>1, <1>3, <1>4
<1>8. buf' = Rest(b, k)
  <2>1. Rest(b, k) \in Seq(Nat)
    BY <1>4, <1>7, SplitType
  <2>2. QED
    BY <2>1, <1>3, <1>6, ConcatEmptySeq
<1>9. Run(wire', buf') /\ Len(wire') + Len(buf') = to
  BY <1>1, <1>3, <1>7, <1>8, CopyAndSend DEF b, SendInv
<1>10. Chain(sendQueue', to, to)
  BY <1>1, <1>3, ChainOfOne
<1>11. QED
  BY <1>9, <1>10 DEF to

LEMMA StreamDrains ==
  ASSUME SendInv, StreamInv, NEW k \in 0 .. Len(buf), TrySend(begin, buf, k), buf' = Rest(buf, k),
         sendQueue' = sendQueue, ends' = ends
  PROVE  StreamInv'
<1>1. wire \in Seq(Nat) /\ buf \in Seq(Nat) /\ Len(wire) \in Nat /\ Len(buf) \in Nat
  BY StreamLengths DEF SendInv
<1>2. wire' = wire \o SubSeq(buf, 1, k)
  BY DEF TrySend
<1>3. Run(wire', buf') /\ Len(wire') = Len(wire) + k /\ Len(buf') = Len(buf) - k
  BY <1>1, <1>2, RunSends DEF StreamInv
<1>4. Len(wire') + Len(buf') = Len(wire) + Len(buf)
  BY <1>1, <1>3
<1>5. Accepted' = Accepted
  BY DEF Accepted
<1>6. QED
  BY <1>3, <1>4, <1>5 DEF StreamInv

LEMMA StreamRefill ==
  ASSUME SendInv, StreamInv, Refill
  PROVE  StreamInv'
<1> DEFINE p == sendQueue[1]
           f == Len(wire) + Len(buf)
<1>1. /\ wire \in Seq(Nat) /\ buf \in Seq(Nat) /\ Len(wire) \in Nat /\ Len(buf) \in Nat
      /\ Accepted \in Nat /\ f \in Nat
  BY StreamLengths DEF SendInv
<1>2. /\ sendQueue \in Seq(Packets) /\ sendQueue # <<>>
      /\ p.from \in Nat /\ p.to \in Nat
      /\ Moved \in Nat /\ p.from + Moved \in Nat /\ p.from + Moved <= p.to
      /\ buf' = buf \o Bytes(p.from, p.from + Moved) /\ Len(buf') = Len(buf) + Moved
      /\ ends' = ends /\ wire' = wire
  BY RefillFacts
<1>3. \/ sendQueue' = [sendQueue EXCEPT ![1] = Packet(p.from + Moved, p.to)]
      \/ sendQueue' = Tail(sendQueue) /\ p.from + Moved = p.to
  BY RefillFacts
<1>4. p.from = f
  <2>1. 1 \in DOMAIN sendQueue
    BY <1>2, LenProperties, EmptySeq
  <2>2. QED
    BY <2>1 DEF StreamInv, Chain
<1> HIDE DEF p
<1>5. Run(wire', buf')
  <2>1. f <= f + Moved /\ f + Moved \in Nat
    BY <1>1, <1>2
  <2>2. QED
    BY <2>1, <1>1, <1>2, <1>4, RunExtends DEF StreamInv
<1>6. Len(wire') + Len(buf') = f + Moved
  <2>1. Len(wire') = Len(wire)
    BY <1>2
  <2>2. Len(buf') = Len(buf) + Moved /\ Moved \in Nat
    BY <1>2
  <2>3. Len(wire) \in Nat /\ Len(buf) \in Nat
    BY <1>1
  <2>4. Len(wire) + (Len(buf) + Moved) = (Len(wire) + Len(buf)) + Moved
    BY <2>2, <2>3
  <2>5. QED
    BY <2>1, <2>2, <2>4
<1>7. Chain(sendQueue, f, Accepted)
  BY DEF StreamInv
<1> HIDE DEF f
<1>8. Chain(sendQueue', f + Moved, Accepted)
  <2>1. CASE sendQueue' = [sendQueue EXCEPT ![1] = Packet(p.from + Moved, p.to)]
    BY <2>1, <1>1, <1>2, <1>4, <1>7, ChainShrinks DEF p
  <2>2. CASE sendQueue' = Tail(sendQueue) /\ p.from + Moved = p.to
    BY <2>2, <1>1, <1>2, <1>4, <1>7, ChainPops DEF p
  <2>3. QED
    BY <1>3, <2>1, <2>2
<1>9. Accepted' = Accepted
  BY <1>2 DEF Accepted
<1>10. QED
  BY <1>5, <1>6, <1>8, <1>9 DEF StreamInv

LEMMA StreamSendPacket ==
  ASSUME SendInv, StreamInv, ~ Recommit, NEW size \in Sizes, SendPacket(size)
  PROVE  StreamInv'
<1> DEFINE to == Accepted + size
           p == Packet(Accepted, to)
<1>1. Accepted \in Nat /\ size \in Nat /\ to \in Nat /\ Accepted <= to
  BY StreamLengths, SendAssumption DEF SendInv
<1>2. /\ Enqueue(p) \/ Spill(p) \/ SendAll(p) \/ \E k \in 0 .. Len(buf) + size : SendSome(p, k)
      /\ ends' = Append(ends, p.to) /\ p.to = to
  BY DEF SendPacket, Packet
<1>3. Accepted' = to
  BY <1>1, <1>2, AcceptedGrows DEF SendInv
<1>4. Run(wire', buf') /\ Chain(sendQueue', Len(wire') + Len(buf'), to)
  <2>1. CASE Enqueue(p)
    BY <2>1, <1>1, StreamEnqueue
  <2>2. CASE Spill(p)
    BY <2>2, <1>1, StreamSpill
  <2>3. CASE SendAll(p)
    BY <2>3, <1>1, StreamSendAll
  <2>4. CASE \E k \in 0 .. Len(buf) + size : SendSome(p, k)
    <3>1. PICK k \in Nat : SendSome(p, k)
      BY <2>4
    <3>2. ends' = Append(ends, Accepted + size)
      BY <1>2
    <3>3. QED
      BY <3>1, <3>2, StreamSendSome
  <2>5. QED
    BY <1>2, <2>1, <2>2, <2>3, <2>4
<1> HIDE DEF to, p
<1>5. QED
  BY <1>3, <1>4 DEF StreamInv

LEMMA StreamStep ==
  ASSUME SendInv, StreamInv, ~ Recommit, [SendNext]_sendVars
  PROVE  StreamInv'
<1>1. CASE UNCHANGED sendVars
  BY <1>1 DEF sendVars, StreamInv, Run, Chain, Accepted
<1>2. ASSUME NEW size \in Sizes, SendPacket(size)
      PROVE  StreamInv'
  BY <1>2, StreamSendPacket
<1>3. CASE WriteEvent
  BY <1>3 DEF WriteEvent, StreamInv, Run, Chain, Accepted
<1>4. CASE DrainAll
  <2>1. Len(buf) \in 0 .. Len(buf) /\ buf \in Seq(Nat) /\ Len(buf) - Len(buf) = 0
    BY LenProperties DEF SendInv, SendTypeOK
  <2>2. Rest(buf, Len(buf)) = <<>>
    BY <2>1, SplitType, EmptySeq
  <2>3. /\ TrySend(begin, buf, Len(buf)) /\ buf' = <<>>
        /\ sendQueue' = sendQueue /\ ends' = ends
    BY <1>4 DEF DrainAll
  <2>4. QED
    BY <2>1, <2>2, <2>3, StreamDrains
<1>5. CASE Refill
  BY <1>5, StreamRefill
<1>6. ASSUME NEW k \in 0 .. SendCap, DrainSome(k)
      PROVE  StreamInv'
  <2>1. k \in 0 .. Len(buf)
    BY <1>6, SendAssumption, LenProperties DEF DrainSome, SendInv, SendTypeOK
  <2>2. QED
    BY <1>6, <2>1, StreamDrains DEF DrainSome
<1>7. QED
  BY <1>1, <1>2, <1>3, <1>4, <1>5, <1>6 DEF SendNext

\* Whatever the sizes of the packets and however much or little the socket takes,
\* only the second copy that sendPacket commits of a packet the socket did not take
\* whole can spoil the stream: every other step of sendPacket and of the write event
\* keeps the accepted packets in order, each byte once and nothing else.
THEOREM StreamSpoiltByRecommitOnly == TcpSpec => OnlyRecommitSpoils
<1>1. TcpInit => SendInv
  BY SendInvInit DEF TcpInit
<1>2. SendInv /\ [TcpNext]_linkVars => SendInv'
  BY SendInvStep, LinkStep
<1>3. SendInv /\ [TcpNext]_linkVars => [StreamIntact /\ ~ Recommit => StreamIntact']_sendVars
  <2> SUFFICES ASSUME SendInv, [TcpNext]_linkVars, StreamIntact, ~ Recommit
               PROVE  StreamIntact'
    OBVIOUS
  <2>1. StreamInv
    BY StreamInvMeans
  <2>2. StreamInv'
    BY <2>1, LinkStep, StreamStep
  <2>3. (StreamInv <=> StreamIntact)'
    BY StreamInvMeans, PTL
  <2>4. QED
    BY <2>2, <2>3
<1>4. QED
  BY <1>1, <1>2, <1>3, PTL DEF TcpSpec, OnlyRecommitSpoils

-----------------------------------------------------------------------------
(* The receiving side, for buffers and queues of any size and packets of any  *)
(* sizes, and whatever the sender has put on the wire.                        *)

\* The packets end one after the other.
EndsRise ==
  /\ ends \in Seq(Nat)
  /\ \A i, j \in DOMAIN ends : i < j => ends[i] < ends[j]

\* What the receiver has handed on or holds for the main timer thread.
Out == got \o recvQueue

RecvInv ==
  /\ EndsRise /\ parsed <= Accepted
  /\ RecvTypeOK /\ DeliveredInOrder

\* A packet that is accepted ends behind all others.
LEMMA AcceptedIsLast ==
  ASSUME EndsRise, NEW i \in DOMAIN ends
  PROVE  ends[i] <= Accepted /\ Accepted \in Nat
<1>1. ends # <<>> /\ DOMAIN ends = 1 .. Len(ends) /\ Len(ends) \in Nat
      /\ \A j \in DOMAIN ends : ends[j] \in Nat
  BY LenProperties DEF EndsRise
<1>2. Len(ends) \in DOMAIN ends /\ i \in 1 .. Len(ends) /\ Accepted = ends[Len(ends)]
  BY <1>1 DEF Accepted
<1>3. QED
  BY <1>1, <1>2 DEF EndsRise

LEMMA EndsStep ==
  ASSUME EndsRise, NEW size \in Nat \ {0}, ends' = Append(ends, Accepted + size)
  PROVE  /\ EndsRise' /\ Accepted' = Accepted + size /\ Accepted \in Nat
         /\ DOMAIN ends \subseteq DOMAIN ends'
         /\ \A i \in DOMAIN ends : ends'[i] = ends[i]
         /\ \A i \in DOMAIN ends' \ DOMAIN ends : ends'[i] = Accepted'
<1>1. Accepted \in Nat
  <2>1. CASE ends = <<>>
    BY <2>1 DEF Accepted
  <2>2. CASE ends # <<>>
    <3>1. Len(ends) \in DOMAIN ends
      BY <2>2, LenProperties, EmptySeq DEF EndsRise
    <3>2. QED
      BY <3>1, AcceptedIsLast
  <2>3. QED
    BY <2>1, <2>2
<1>2. ends \in Seq(Nat) /\ DOMAIN ends = 1 .. Len(ends) /\ Accepted + size \in Nat
  BY <1>1, LenProperties DEF EndsRise
<1>3. /\ ends' \in Seq(Nat) /\ ends' # <<>>
      /\ Len(ends) \in Nat /\ Len(ends') = Len(ends) + 1
      /\ \A i \in 1 .. Len(ends) : ends'[i] = ends[i]
      /\ ends'[Len(ends) + 1] = Accepted + size
      /\ DOMAIN ends' = 1 .. Len(ends) + 1
  BY <1>2, AppendFacts
<1>4. Accepted' = Accepted + size
  BY <1>3 DEF Accepted
<1>5. ASSUME NEW i \in DOMAIN ends', NEW j \in DOMAIN ends', i < j
      PROVE  ends'[i] < ends'[j]
  <2>1. i \in 1 .. Len(ends)
    BY <1>3, <1>5
  <2>2. CASE j \in 1 .. Len(ends)
    BY <1>2, <1>3, <1>5, <2>1, <2>2 DEF EndsRise
  <2>3. CASE j = Len(ends) + 1
    <3>1. ends[i] <= Accepted /\ ends[i] \in Nat
      BY <1>2, <2>1, AcceptedIsLast, ElementOfSeq
    <3>2. QED
      BY <1>1, <1>3, <2>1, <2>3, <3>1
  <2>4. QED
    BY <1>3, <2>2, <2>3
<1>6. QED
  BY <1>1, <1>2, <1>3, <1>4, <1>5 DEF EndsRise

\* The first k bytes of the buffer on the wire make it longer.
LEMMA WireGrows ==
  ASSUME wire \in Seq(Nat), NEW b \in Seq(Nat), NEW k \in 0 .. Len(b),
         wire' = wire \o SubSeq(b, 1, k)
  PROVE  Len(wire) \in Nat /\ Len(wire') \in Nat /\ Len(wire) <= Len(wire')
<1>1. SubSeq(b, 1, k) \in Seq(Nat)
  BY SplitType
<1>2. QED
  BY <1>1, ConcatProperties, LenProperties

\* What a step of the sender is to the receiver.
LEMMA SenderStep ==
  ASSUME SendTypeOK, [SendNext]_sendVars
  PROVE  /\ Len(wire) \in Nat /\ Len(wire') \in Nat /\ Len(wire) <= Len(wire')
         /\ ends' = ends \/ \E size \in Sizes : ends' = Append(ends, Accepted + size)
<1>0. /\ wire \in Seq(Nat) /\ buf \in Seq(Nat) /\ Len(wire) \in Nat /\ Len(buf) \in Nat
      /\ Accepted \in Nat
  BY StreamLengths
<1>1. ASSUME NEW size \in Sizes, SendPacket(size)
      PROVE  /\ Len(wire') \in Nat /\ Len(wire) <= Len(wire')
             /\ ends' = Append(ends, Accepted + size)
  <2> DEFINE p == Packet(Accepted, Accepted + size)
             b == buf \o Bytes(p.from, p.to)
  <2>1. p.to = Accepted + size /\ p.from = Accepted /\ size \in Nat
    BY SendAssumption DEF Packet
  <2>2. b \in Seq(Nat) /\ Len(b) \in Nat
    BY <1>0, <2>1, CopyType, LenProperties
  <2>3. ends' = Append(ends, Accepted + size)
    BY <1>1, <2>1 DEF SendPacket
  <2>4. CASE Enqueue(p) \/ Spill(p)
    BY <1>0, <2>3, <2>4 DEF Enqueue, Spill
  <2>5. CASE SendAll(p)
    <3>1. wire' = wire \o SubSeq(b, 1, Len(b)) /\ Len(b) \in 0 .. Len(b)
      BY <2>2, <2>5 DEF SendAll, TrySend
    <3>2. QED
      BY <1>0, <2>2, <2>3, <3>1, WireGrows
  <2>6. ASSUME NEW k \in 0 .. Len(buf) + size, SendSome(p, k)
        PROVE  Len(wire') \in Nat /\ Len(wire) <= Len(wire')
    <3>1. wire' = wire \o SubSeq(b, 1, k) /\ k < Len(b)
      BY <2>6 DEF SendSome, TrySend
    <3>2. k \in 0 .. Len(b)
      BY <1>0, <2>1, <2>2, <3>1
    <3>3. QED
      BY <1>0, <2>2, <3>1, <3>2, WireGrows
  <2>7. QED
    BY <1>1, <2>3, <2>4, <2>5, <2>6 DEF SendPacket
<1>2. ASSUME NEW k \in 0 .. SendCap, DrainSome(k)
      PROVE  Len(wire') \in Nat /\ Len(wire) <= Len(wire') /\ ends' = ends
  <2>1. wire' = wire \o SubSeq(buf, 1, k) /\ k \in 0 .. Len(buf)
    BY <1>0, <1>2, SendAssumption DEF DrainSome, TrySend
  <2>2. QED
    BY <1>0, <1>2, <2>1, WireGrows DEF DrainSome
<1>3. CASE DrainAll
  <2>1. wire' = wire \o SubSeq(buf, 1, Len(buf)) /\ Len(buf) \in 0 .. Len(buf)
    BY <1>0, <1>3 DEF DrainAll, TrySend
  <2>2. QED
    BY <1>0, <1>3, <2>1, WireGrows DEF DrainAll
<1>4. CASE WriteEvent \/ Refill \/ UNCHANGED sendVars
  BY <1>0, <1>4 DEF WriteEvent, Refill, sendVars
<1>5. QED
  BY <1>0, <1>1, <1>2, <1>3, <1>4 DEF SendNext

\* A step of the sender adds packets behind those the receiver knows of.
LEMMA SenderKeepsRecv ==
  ASSUME SendTypeOK, RecvInv, [SendNext]_sendVars, UNCHANGED <<recvVars, closed>>
  PROVE  RecvInv'
<1>1. /\ Len(wire) \in Nat /\ Len(wire') \in Nat /\ Len(wire) <= Len(wire')
      /\ ends' = ends \/ \E size \in Sizes : ends' = Append(ends, Accepted + size)
  BY SenderStep
<1>2. /\ EndsRise' /\ Accepted \in Nat /\ Accepted' \in Nat /\ Accepted <= Accepted'
      /\ DOMAIN ends \subseteq DOMAIN ends'
      /\ \A i \in DOMAIN ends : ends'[i] = ends[i]
      /\ \A i \in DOMAIN ends' \ DOMAIN ends : ends'[i] = Accepted' /\ Accepted' > Accepted
  <2>1. CASE ends' = ends
    BY <2>1, StreamLengths DEF RecvInv, EndsRise, Accepted
  <2>2. ASSUME NEW size \in Sizes, ends' = Append(ends, Accepted + size)
        PROVE  /\ EndsRise' /\ Accepted \in Nat /\ Accepted' \in Nat /\ Accepted <= Accepted'
               /\ DOMAIN ends \subseteq DOMAIN ends'
               /\ \A i \in DOMAIN ends : ends'[i] = ends[i]
               /\ \A i \in DOMAIN ends' \ DOMAIN ends : ends'[i] = Accepted' /\ Accepted' > Accepted
    <3>1. size \in Nat \ {0}
      BY SendAssumption
    <3>2. QED
      BY <2>2, <3>1, EndsStep DEF RecvInv
  <2>3. QED
    BY <1>1, <2>1, <2>2
<1>3. /\ taken' = taken /\ parsed' = parsed /\ rbegin' = rbegin /\ reading' = reading
      /\ lost' = lost /\ recvQueue' = recvQueue /\ got' = got /\ erased' = erased
      /\ closed' = closed
  BY DEF recvVars
<1>4. RecvTypeOK'
  <2>1. got \in Seq(DOMAIN ends') /\ recvQueue \in Seq(DOMAIN ends')
    BY <1>2, SeqMonotonic DEF RecvInv, RecvTypeOK
  <2>2. taken <= Len(wire')
    BY <1>1 DEF RecvInv, RecvTypeOK
  <2>3. QED
    BY <1>2, <1>3, <2>1, <2>2 DEF RecvInv, RecvTypeOK
<1>5. DeliveredInOrder'
  <2>1. \A i \in DOMAIN Out : Out[i] \in DOMAIN ends
    <3>1. Out \in Seq(DOMAIN ends)
      BY ConcatProperties DEF RecvInv, RecvTypeOK, Out
    <3>2. QED
      BY <3>1, LenProperties
  <2>2. \A p \in DOMAIN ends' \ DOMAIN ends : ~ (ends'[p] <= parsed)
    BY <1>2 DEF RecvInv, RecvTypeOK
  <2>3. lost \subseteq DOMAIN ends
    BY DEF RecvInv, RecvTypeOK
  <2>4. Out' = Out
    BY <1>3 DEF Out
  <2>5. \A p \in DOMAIN ends' :
          ends'[p] <= parsed <=> p \in lost \/ \E i \in DOMAIN Out : Out[i] = p
    <3>1. ASSUME NEW p \in DOMAIN ends
          PROVE  ends'[p] <= parsed <=> p \in lost \/ \E i \in DOMAIN Out : Out[i] = p
      BY <1>2 DEF RecvInv, DeliveredInOrder, Out
    <3>2. QED
      BY <2>1, <2>2, <2>3, <3>1
  <2>6. QED
    BY <1>3, <2>4, <2>5 DEF RecvInv, DeliveredInOrder, Out
<1>6. QED
  BY <1>2, <1>3, <1>4, <1>5 DEF RecvInv, RecvTypeOK

\* The receiver's steps that parse nothing.
LEMMA QuietRecv ==
  ASSUME RecvInv, UNCHANGED <<taken, parsed, rbegin, lost, recvQueue, got>>,
         UNCHANGED sendVars, closed' \in BOOLEAN,
         reading' \in {"no", "event", "loop"}, erased' \in BOOLEAN
  PROVE  RecvInv'
BY DEF RecvInv, EndsRise, RecvTypeOK, DeliveredInOrder, Accepted, sendVars

\* What moves from the queue to the main timer thread stays in order.
LEMMA GetPacketRecv ==
  ASSUME RecvInv, GetPacket, UNCHANGED <<sendVars, closed>>
  PROVE  RecvInv'
<1>1. /\ got \in Seq(DOMAIN ends) /\ recvQueue \in Seq(DOMAIN ends) /\ recvQueue # <<>>
      /\ got' = Append(got, Head(recvQueue)) /\ recvQueue' = Tail(recvQueue)
      /\ UNCHANGED <<taken, parsed, rbegin, reading, lost, erased, ends, wire, closed>>
  BY DEF RecvInv, RecvTypeOK, GetPacket, sendVars
<1>2. /\ Head(recvQueue) \in DOMAIN ends /\ Tail(recvQueue) \in Seq(DOMAIN ends)
      /\ Len(Tail(recvQueue)) = Len(recvQueue) - 1
      /\ \A i \in 1 .. Len(Tail(recvQueue)) : Tail(recvQueue)[i] = recvQueue[i + 1]
      /\ Head(recvQueue) = recvQueue[1]
      /\ Len(recvQueue) \in Nat /\ Len(got) \in Nat
  BY <1>1, HeadTailProperties, LenProperties
<1>3. /\ got' \in Seq(DOMAIN ends) /\ Len(got') = Len(got) + 1
      /\ \A i \in 1 .. Len(got) : got'[i] = got[i]
      /\ got'[Len(got) + 1] = Head(recvQueue)
  BY <1>1, <1>2, AppendProperties
<1>4. Out' = Out
  <2>1. Out \in Seq(DOMAIN ends) /\ Len(Out) = Len(got) + Len(recvQueue)
        /\ \A i \in 1 .. Len(got) + Len(recvQueue) :
             Out[i] = IF i <= Len(got) THEN got[i] ELSE recvQueue[i - Len(got)]
    BY <1>1, ConcatProperties DEF Out
  <2>2. Out' \in Seq(DOMAIN ends) /\ Len(Out') = Len(got') + Len(recvQueue')
        /\ \A i \in 1 .. Len(got') + Len(recvQueue') :
             Out'[i] = IF i <= Len(got') THEN got'[i] ELSE recvQueue'[i - Len(got')]
    BY <1>1, <1>2, <1>3, ConcatProperties DEF Out
  <2>3. Len(Out') = Len(Out) /\ Len(Out) \in Nat
    BY <1>1, <1>2, <1>3, <2>1, <2>2
  <2>4. ASSUME NEW i \in 1 .. Len(Out')
        PROVE  Out'[i] = Out[i]
    <3>0. i \in Nat /\ i \in 1 .. Len(got) + Len(recvQueue)
          /\ i \in 1 .. Len(got') + Len(recvQueue') /\ Len(got) <= Len(got')
      BY <1>2, <1>3, <2>1, <2>2, <2>3
    <3>1. CASE i <= Len(got)
      <4>1. Out[i] = got[i]
        BY <2>1, <3>0, <3>1
      <4>2. Out'[i] = got'[i]
        BY <1>2, <1>3, <2>2, <3>0, <3>1
      <4>3. i \in 1 .. Len(got)
        BY <1>2, <3>0, <3>1
      <4>4. QED
        BY <1>3, <4>1, <4>2, <4>3
    <3>2. CASE i = Len(got) + 1
      BY <1>1, <1>2, <1>3, <2>1, <2>2, <2>3, <3>2
    <3>3. CASE i > Len(got) + 1
      <4>1. i - Len(got') \in 1 .. Len(Tail(recvQueue)) /\ (i - Len(got')) + 1 = i - Len(got)
        BY <1>1, <1>2, <1>3, <2>1, <2>3, <3>3
      <4>2. QED
        BY <1>1, <1>2, <1>3, <2>1, <2>2, <2>3, <3>3, <4>1
    <3>4. QED
      BY <1>2, <3>1, <3>2, <3>3
  <2>5. QED
    BY <2>1, <2>2, <2>3, <2>4, SeqEqual
<1>5. RecvTypeOK'
  <2>1. got' \in Seq(DOMAIN ends') /\ recvQueue' \in Seq(DOMAIN ends')
    BY <1>1, <1>2, <1>3
  <2>2. Len(recvQueue') <= RecvMax
    BY <1>1, <1>2, RecvAssumption DEF RecvInv, RecvTypeOK
  <2>3. QED
    BY <1>1, <2>1, <2>2 DEF RecvInv, RecvTypeOK
<1>6. DeliveredInOrder'
  BY <1>1, <1>4 DEF RecvInv, DeliveredInOrder, Out
<1>7. QED
  BY <1>1, <1>5, <1>6 DEF RecvInv, EndsRise, Accepted

\* A packet that is complete is put behind the others, or lost.
LEMMA CompletePacket ==
  ASSUME RecvInv, NEW p \in DOMAIN ends, Current(p), parsed' = ends[p], ends' = ends,
         PushPacket(p), got' = got
  PROVE  /\ recvQueue' \in Seq(DOMAIN ends) /\ Len(recvQueue') <= RecvMax
         /\ lost' \subseteq DOMAIN ends /\ DeliveredInOrder'
<1>1. /\ got \in Seq(DOMAIN ends) /\ recvQueue \in Seq(DOMAIN ends) /\ lost \subseteq DOMAIN ends
      /\ Len(recvQueue) \in Nat /\ Len(recvQueue) <= RecvMax /\ RecvMax \in Nat
      /\ parsed \in Nat /\ DOMAIN ends = 1 .. Len(ends) /\ Len(ends) \in Nat
      /\ \A q \in DOMAIN ends : ends[q] \in Nat
  BY LenProperties, RecvAssumption DEF RecvInv, RecvTypeOK, EndsRise
<1>2. /\ \A i, j \in DOMAIN Out : i < j => Out[i] < Out[j]
      /\ \A q \in DOMAIN ends :
           ends[q] <= parsed <=> q \in lost \/ \E i \in DOMAIN Out : Out[i] = q
  BY DEF RecvInv, DeliveredInOrder, Out
<1>3. ASSUME NEW q \in DOMAIN ends
      PROVE  /\ ends[q] <= ends[p] <=> ends[q] <= parsed \/ q = p
             /\ ends[q] <= parsed => q < p
  <2>1. parsed < ends[p]
    BY DEF Current
  <2>2. CASE q < p
    <3>1. p - 1 \in DOMAIN ends /\ p # 1 /\ ends[p - 1] <= parsed
      BY <1>1, <2>2 DEF Current, Start
    <3>2. ends[q] <= ends[p - 1]
      <4>1. CASE q = p - 1
        BY <1>1, <3>1, <4>1
      <4>2. CASE q # p - 1
        <5>1. q < p - 1
          BY <1>1, <2>2, <4>2
        <5>2. ends[q] < ends[p - 1]
          BY <3>1, <5>1 DEF RecvInv, EndsRise
        <5>3. QED
          BY <1>1, <3>1, <5>2
      <4>3. QED
        BY <4>1, <4>2
    <3>3. QED
      BY <1>1, <2>1, <2>2, <3>1, <3>2
  <2>3. CASE q = p
    BY <1>1, <2>1, <2>3
  <2>4. CASE q > p
    <3>1. ends[p] < ends[q]
      BY <2>4 DEF RecvInv, EndsRise
    <3>2. QED
      BY <1>1, <2>1, <2>4, <3>1
  <2>5. QED
    BY <1>1, <2>2, <2>3, <2>4
<1>4. /\ Out \in Seq(DOMAIN ends) /\ DOMAIN Out = 1 .. Len(Out) /\ Len(Out) \in Nat
      /\ \A i \in DOMAIN Out : Out[i] \in DOMAIN ends
  BY <1>1, ConcatProperties, LenProperties DEF Out
<1>5. CASE Len(recvQueue) < RecvMax
  <2>1. recvQueue' = Append(recvQueue, p) /\ lost' = lost
    BY <1>5 DEF PushPacket
  <2>2. recvQueue' \in Seq(DOMAIN ends) /\ Len(recvQueue') = Len(recvQueue) + 1
    BY <1>1, <2>1, AppendProperties
  <2>3. Out' = Append(Out, p)
    <3>1. <<p>> \in Seq(DOMAIN ends)
      OBVIOUS
    <3>2. recvQueue' = recvQueue \o <<p>>
      BY <1>1, <2>1, AppendIsConcat
    <3>3. Out' = Out \o <<p>>
      BY <1>1, <3>1, <3>2, ConcatAssociative DEF Out
    <3>4. QED
      BY <1>4, <3>3, AppendIsConcat
  <2>4. /\ DOMAIN Out' = 1 .. Len(Out) + 1
        /\ \A i \in 1 .. Len(Out) : Out'[i] = Out[i]
        /\ Out'[Len(Out) + 1] = p
    BY <1>4, <2>3, AppendFacts
  <2>5. \A i, j \in DOMAIN Out' : i < j => Out'[i] < Out'[j]
    <3>1. \A i \in 1 .. Len(Out) : Out[i] < p
      BY <1>2, <1>3, <1>4
    <3>2. QED
      BY <1>2, <1>4, <2>4, <3>1
  <2>6. \A q \in DOMAIN ends : (\E i \in DOMAIN Out' : Out'[i] = q)
                                 <=> q = p \/ \E i \in DOMAIN Out : Out[i] = q
    BY <1>4, <2>4
  <2>7. \A q \in DOMAIN ends :
          ends[q] <= ends[p] <=> q \in lost \/ \E i \in DOMAIN Out' : Out'[i] = q
    BY <1>2, <1>3, <2>6
  <2>8. DeliveredInOrder'
    <3>1. \A q \in DOMAIN ends' :
            ends'[q] <= parsed' <=> q \in lost' \/ \E i \in DOMAIN Out' : Out'[i] = q
      BY <2>1, <2>7
    <3>2. QED
      BY <2>5, <3>1 DEF DeliveredInOrder, Out
  <2>9. Len(recvQueue') <= RecvMax
    BY <1>1, <1>5, <2>2
  <2>10. QED
    BY <1>1, <2>1, <2>2, <2>8, <2>9
<1>6. CASE ~ (Len(recvQueue) < RecvMax)
  <2>1. recvQueue' = recvQueue /\ lost' = lost \cup {p}
    BY <1>6 DEF PushPacket
  <2>2. Out' = Out
    BY <2>1 DEF Out
  <2>3. \A q \in DOMAIN ends :
          ends[q] <= ends[p] <=> q \in lost' \/ \E i \in DOMAIN Out : Out[i] = q
    BY <1>2, <1>3, <2>1
  <2>4. QED
    BY <1>1, <1>2, <2>1, <2>2, <2>3 DEF DeliveredInOrder, Out
<1>7. QED
  BY <1>5, <1>6

\* Bytes of a packet that is not complete deliver nothing.
LEMMA PartOfPacket ==
  ASSUME RecvInv, NEW p \in DOMAIN ends, Current(p), ends' = ends,
         parsed' \in Nat, parsed <= parsed', parsed' < ends[p],
         UNCHANGED <<recvQueue, lost, got>>
  PROVE  DeliveredInOrder'
<1>1. /\ parsed \in Nat /\ DOMAIN ends = 1 .. Len(ends) /\ Len(ends) \in Nat
      /\ \A q \in DOMAIN ends : ends[q] \in Nat
  BY LenProperties DEF RecvInv, RecvTypeOK, EndsRise
<1>2. ASSUME NEW q \in DOMAIN ends
      PROVE  ends[q] <= parsed' <=> ends[q] <= parsed
  <2>1. CASE q < p
    <3>1. p - 1 \in DOMAIN ends /\ p # 1 /\ ends[p - 1] <= parsed
      BY <1>1, <2>1 DEF Current, Start
    <3>2. ends[q] <= ends[p - 1]
      <4>1. CASE q = p - 1
        BY <1>1, <3>1, <4>1
      <4>2. CASE q # p - 1
        <5>1. q < p - 1
          BY <1>1, <2>1, <4>2
        <5>2. ends[q] < ends[p - 1]
          BY <3>1, <5>1 DEF RecvInv, EndsRise
        <5>3. QED
          BY <1>1, <3>1, <5>2
      <4>3. QED
        BY <4>1, <4>2
    <3>3. QED
      BY <1>1, <3>1, <3>2
  <2>2. CASE q >= p
    <3>1. ends[p] <= ends[q]
      <4>1. CASE q = p
        BY <1>1, <4>1
      <4>2. CASE q # p
        <5>1. p < q
          BY <1>1, <2>2, <4>2
        <5>2. ends[p] < ends[q]
          BY <5>1 DEF RecvInv, EndsRise
        <5>3. QED
          BY <1>1, <5>2
      <4>3. QED
        BY <4>1, <4>2
    <3>2. QED
      BY <1>1, <3>1
  <2>3. QED
    BY <1>1, <2>1, <2>2
<1>3. QED
  BY <1>2 DEF RecvInv, DeliveredInOrder

\* Reading and parsing.
LEMMA RecvSomeInv ==
  ASSUME SendTypeOK, RecvInv, NEW k \in 0 .. RecvCap, RecvSome(k), UNCHANGED <<sendVars, closed>>
  PROVE  RecvInv'
<1> DEFINE n == taken' - parsed
           at == RecvBegin
<1>1. PICK p \in DOMAIN ends : Current(p) /\ Parse(p, at)
  BY DEF RecvSome
<1> DEFINE m == ParseSize(p, n)
<1>2. /\ parsed \in Nat /\ taken \in Nat /\ parsed <= taken /\ taken <= Len(wire)
      /\ rbegin \in Nat /\ rbegin + (taken - parsed) <= RecvCap /\ RecvCap \in Nat
      /\ HeaderSize \in Nat \ {0} /\ Len(wire) \in Nat /\ k \in Nat
  BY StreamLengths, RecvAssumption DEF RecvInv, RecvTypeOK
<1>3. /\ at \in Nat /\ at + (taken - parsed) + k <= RecvCap
      /\ taken' = taken + k /\ taken' <= Len(wire)
  <2>1. at \in Nat /\ at + (taken - parsed) <= RecvCap
    BY <1>2 DEF RecvBegin, TailUsed
  <2>2. k <= RecvCap - (at + (taken - parsed)) /\ k <= Len(wire) - taken /\ taken' = taken + k
    BY DEF RecvSome, RecvRoom
  <2>3. QED
    BY <1>2, <2>1, <2>2
<1>4. n \in Nat /\ at + n <= RecvCap
  BY <1>2, <1>3
<1>5. ends[p] \in Nat /\ parsed < ends[p] /\ ends[p] <= Accepted /\ Accepted \in Nat
  <2>1. EndsRise
    BY DEF RecvInv
  <2>2. ends[p] \in Nat
    BY <2>1, LenProperties DEF EndsRise
  <2>3. ends[p] <= Accepted /\ Accepted \in Nat
    BY <2>1, AcceptedIsLast
  <2>4. QED
    BY <1>1, <2>2, <2>3 DEF Current
<1>6. m \in Nat /\ m <= n /\ parsed + m <= ends[p]
  BY <1>2, <1>4, <1>5 DEF ParseSize
<1>7. /\ parsed' = parsed + m /\ rbegin' = (IF m = n THEN 0 ELSE at + m)
      /\ IF parsed' = ends[p] THEN PushPacket(p) /\ reading' = "loop"
         ELSE reading' = "no" /\ UNCHANGED <<recvQueue, lost>>
  BY <1>1 DEF Parse
<1>8. ends' = ends /\ wire' = wire /\ closed' = closed /\ got' = got /\ erased' = erased
  BY DEF sendVars, RecvSome
<1> HIDE DEF m, at
<1>9. /\ parsed' \in Nat /\ taken' \in Nat /\ parsed' <= taken' /\ taken' <= Len(wire)
      /\ rbegin' \in Nat /\ rbegin' + (taken' - parsed') <= RecvCap
      /\ parsed' <= Accepted /\ parsed <= parsed' /\ parsed' <= ends[p]
  BY <1>2, <1>3, <1>4, <1>5, <1>6, <1>7
<1>10. /\ recvQueue' \in Seq(DOMAIN ends) /\ Len(recvQueue') <= RecvMax
       /\ lost' \subseteq DOMAIN ends /\ DeliveredInOrder'
  <2>1. CASE parsed' = ends[p]
    BY <1>1, <1>7, <1>8, <2>1, CompletePacket
  <2>2. CASE parsed' # ends[p]
    <3>1. parsed' < ends[p]
      BY <1>5, <1>9, <2>2
    <3>2. recvQueue' = recvQueue /\ lost' = lost
      BY <1>7, <2>2
    <3>3. DeliveredInOrder'
      BY <1>1, <1>8, <1>9, <3>1, <3>2, PartOfPacket
    <3>4. QED
      BY <3>2, <3>3 DEF RecvInv, RecvTypeOK
  <2>3. QED
    BY <2>1, <2>2
<1>11. RecvTypeOK'
  BY <1>7, <1>8, <1>9, <1>10 DEF RecvInv, RecvTypeOK
<1>12. QED
  BY <1>8, <1>9, <1>10, <1>11 DEF RecvInv, EndsRise, Accepted

LEMMA RecvInit0 ==
  ASSUME SendInit, RecvInit
  PROVE  RecvInv
<1>1. /\ ends = <<>> /\ DOMAIN ends = {} /\ wire = <<>> /\ Len(wire) = 0
      /\ got = <<>> /\ recvQueue = <<>> /\ lost = {} /\ parsed = 0 /\ taken = 0
  BY DEF SendInit, RecvInit
<1>2. got \in Seq(DOMAIN ends) /\ recvQueue \in Seq(DOMAIN ends) /\ ends \in Seq(Nat)
      /\ Len(recvQueue) = 0
  BY <1>1, EmptySeq
<1>3. RecvTypeOK
  <2>1. closed \in BOOLEAN /\ erased \in BOOLEAN /\ reading = "no" /\ rbegin = 0
    BY DEF RecvInit
  <2>2. Len(recvQueue) <= RecvMax /\ 0 <= RecvCap
    BY <1>2, RecvAssumption
  <2>3. QED
    BY <1>1, <1>2, <2>1, <2>2 DEF RecvTypeOK
<1>4. DOMAIN Out = {}
  <2>1. Out \in Seq({}) /\ Len(Out) = 0
    BY <1>1, EmptySeq, ConcatProperties DEF Out
  <2>2. QED
    BY <2>1, LenProperties
<1>5. DeliveredInOrder
  BY <1>1, <1>4 DEF DeliveredInOrder, Out
<1>6. QED
  BY <1>1, <1>2, <1>3, <1>5 DEF RecvInv, EndsRise, Accepted

\* Every step of the link keeps what the receiver owes.
LEMMA RecvInvStep ==
  ASSUME SendTypeOK, RecvInv, [TcpNext]_linkVars
  PROVE  RecvInv'
<1>1. CASE SendNext /\ UNCHANGED <<recvVars, closed>>
  BY <1>1, SenderKeepsRecv
<1>2. CASE RecvNext /\ UNCHANGED <<sendVars, closed>>
  <2>1. CASE ReadEvent
    BY <1>2, <2>1, QuietRecv DEF ReadEvent, RecvInv, RecvTypeOK
  <2>2. CASE RecvDone
    BY <1>2, <2>2, QuietRecv DEF RecvDone, RecvInv, RecvTypeOK
  <2>3. CASE RecvClosed
    BY <1>2, <2>3, QuietRecv DEF RecvClosed, RecvInv, RecvTypeOK
  <2>4. CASE GetPacket
    BY <1>2, <2>4, GetPacketRecv
  <2>5. ASSUME NEW k \in 0 .. RecvCap, RecvSome(k) PROVE RecvInv'
    BY <1>2, <2>5, RecvSomeInv
  <2>6. QED
    BY <1>2, <2>1, <2>2, <2>3, <2>4, <2>5 DEF RecvNext
<1>3. CASE Close
  <2>1. closed' = TRUE /\ UNCHANGED <<sendVars, recvVars>>
    BY <1>3 DEF Close
  <2>2. QED
    BY <2>1, QuietRecv DEF recvVars, RecvInv, RecvTypeOK
<1>4. CASE UNCHANGED linkVars
  BY <1>4, QuietRecv DEF linkVars, recvVars, RecvInv, RecvTypeOK
<1>5. QED
  BY <1>1, <1>2, <1>3, <1>4 DEF TcpNext

LEMMA RecvInvariance == TcpSpec => []RecvInv
<1>1. TcpInit => RecvInv
  BY RecvInit0 DEF TcpInit
<1>2. SendTypeOK /\ RecvInv /\ [TcpNext]_linkVars => RecvInv'
  BY RecvInvStep
<1>3. QED
  BY <1>1, <1>2, SendTypeCorrect, PTL DEF TcpSpec

\* The receive buffer, the queue and the packets keep their types; the data stays
\* inside the buffer of tryRecv, and the queue inside its limit.
THEOREM RecvTypeCorrect == TcpSpec => []RecvTypeOK
<1>1. RecvInv => RecvTypeOK
  BY DEF RecvInv
<1>2. QED
  BY <1>1, RecvInvariance, PTL

\* However the stream is cut into reads, packets reach the main timer thread in the
\* order in which they were sent, none twice; one that does not arrive was lost to a
\* full receive queue.
THEOREM PacketsDeliveredInOrder == TcpSpec => []DeliveredInOrder
<1>1. RecvInv => DeliveredInOrder
  BY DEF RecvInv
<1>2. QED
  BY <1>1, RecvInvariance, PTL

=============================================================================
