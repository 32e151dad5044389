----------------------------- MODULE HttpProofs -----------------------------
(***************************************************************************)
(* Proofs about the http gateway.                                          *)
(*                                                                         *)
(* HttpConnections, for any number of connections and descriptors and a    *)
(* receive queue of any length: the two tables agree although addConnection*)
(* lets epoll see a connection before its packet is there, and a           *)
(* connection is looked up by its id under one lock and erased under the   *)
(* next.                                                                   *)
(*                                                                         *)
(* HttpStream, for any bytes in any pieces: http_parser_execute calls the  *)
(* callbacks of HttpPacket in order, fails no assertion, and reads the     *)
(* same wherever the socket's reads cut the bytes.                         *)
(*                                                                         *)
(* HttpUrl, for URLs of any length: http_parser_parse_url and              *)
(* http_parse_host cut a URL into fields that lie one after the other.     *)
(***************************************************************************)
EXTENDS HttpConnections, HttpStream, HttpUrl, TLAPS, FiniteSetTheorems, SequenceTheorems

Events == [fd : Fds, event : {"read", "error"}]
Handlings == [conn : Conns \cup {None}, fd : Fds,
              event : {"read", "reading", "error", "unwatch"}]

HttpTypeOK ==
  /\ fd \in [Conns -> Fds \cup {None}] /\ adding \in Conns \cup {None} /\ locked \in BOOLEAN
  /\ allConns \in [Fds -> Conns \cup {None}] /\ hcid2Conns \subseteq Conns
  /\ recvPacket \subseteq Conns /\ erasing \in Conns \cup {None} /\ events \subseteq Events
  /\ epoll \subseteq Fds
  /\ handling = None \/ handling \in Handlings
  /\ erased \in [Conns -> Nat]

\* The connection has been accepted: it has its descriptor.
Accepted(c) == c \in Conns /\ fd[c] \in Fds

\* Who holds a connection holds one that was accepted.
HoldersKnow ==
  /\ adding # None => Accepted(adding)
  /\ erasing # None => Accepted(erasing)
  /\ \A c \in hcid2Conns : Accepted(c)
  /\ handling # None /\ handling.event # "unwatch" => Accepted(handling.conn)

\* A connection goes into the table once, into an empty place, and has its packet
\* by the time the lock is released.
AddedOnce ==
  /\ locked => adding # None
  /\ \A c \in Conns : fd[c] = None => erased[c] = 0
  /\ adding # None /\ ~ locked => allConns[fd[adding]] = None /\ erased[adding] = 0
  /\ \A f \in Fds : allConns[f] # None =>
       allConns[f] \in recvPacket \/ (locked /\ adding = allConns[f])

HttpInv == HttpTypeOK /\ HoldersKnow /\ AddedOnce /\ TablesAgree

---------------------------------------------------------------------------
\* addConnection

\* A connection is accepted.
LEMMA AcceptKeeps ==
  ASSUME HttpInv, NEW c \in Conns, NEW f \in Fds, Accept(c, f)
  PROVE  HttpInv'
<1>1. /\ adding = None /\ adding' = c /\ fd[c] = None /\ fd' = [fd EXCEPT ![c] = f]
      /\ \A d \in Conns : fd[d] = f => ~ Referenced(d)
      /\ UNCHANGED <<locked, allConns, hcid2Conns, epoll, recvPacket, events, handling, erasing,
                     erased>>
  BY DEF Accept
<1>2. ~ locked /\ fd \in [Conns -> Fds \cup {None}] /\ None \notin Conns \cup Fds
  BY <1>1, HttpAssumption DEF HttpInv, HttpTypeOK, AddedOnce
<1>3. fd'[c] = f /\ \A d \in Conns : d # c => fd'[d] = fd[d]
  BY <1>1, <1>2
<1>4. \A d : Accepted(d) => d # c /\ Accepted(d)'
  BY <1>1, <1>2, <1>3 DEF Accepted
<1>5. \A g \in Fds : allConns[g] # None => allConns[g] \in Conns /\ fd[allConns[g]] = g
                                           /\ allConns[g] # c
  BY <1>1, <1>2 DEF HttpInv, HttpTypeOK, TablesAgree
<1>6. allConns[f] = None
  <2>1. SUFFICES ASSUME allConns[f] # None PROVE FALSE
    OBVIOUS
  <2>2. Referenced(allConns[f])
    BY DEF Referenced
  <2>3. QED
    BY <1>1, <1>5, <2>1, <2>2
<1>7. HttpTypeOK'
  BY <1>1 DEF HttpInv, HttpTypeOK
<1>8. HoldersKnow'
  BY <1>1, <1>3, <1>4 DEF HttpInv, HoldersKnow, Accepted
<1>9. AddedOnce'
  BY <1>1, <1>2, <1>3, <1>6 DEF HttpInv, AddedOnce
<1>10. TablesAgree'
  BY <1>1, <1>3, <1>5 DEF HttpInv, TablesAgree, Handles
<1>11. QED
  BY <1>7, <1>8, <1>9, <1>10 DEF HttpInv

\* addConnection inserts it and tells epoll.
LEMMA AddInsertKeeps ==
  ASSUME HttpInv, AddInsert
  PROVE  HttpInv'
<1> DEFINE f == fd[adding]
<1>1. /\ adding # None /\ ~ locked /\ locked' = TRUE
      /\ hcid2Conns' = hcid2Conns \cup (IF allConns[f] = None THEN {adding} ELSE {})
      /\ allConns' = [allConns EXCEPT ![f] = IF @ = None THEN adding ELSE @]
      /\ epoll' = epoll \cup {f}
      /\ UNCHANGED <<fd, adding, recvPacket, events, handling, erasing, erased>>
  BY DEF AddInsert
<1>2. /\ f \in Fds /\ adding \in Conns /\ allConns[f] = None /\ erased[adding] = 0
      /\ allConns \in [Fds -> Conns \cup {None}]
  BY <1>1 DEF HttpInv, HttpTypeOK, HoldersKnow, AddedOnce, Accepted
<1>3. /\ hcid2Conns' = hcid2Conns \cup {adding} /\ allConns' = [allConns EXCEPT ![f] = adding]
  BY <1>1, <1>2
<1>4. allConns'[f] = adding /\ \A g \in Fds : g # f => allConns'[g] = allConns[g]
  BY <1>2, <1>3
<1>5. HttpTypeOK'
  BY <1>1, <1>2, <1>3 DEF HttpInv, HttpTypeOK
<1>6. HoldersKnow'
  BY <1>1, <1>2, <1>3 DEF HttpInv, HoldersKnow, Accepted
<1>7. AddedOnce'
  BY <1>1, <1>4 DEF HttpInv, AddedOnce
<1>8. TablesAgree'
  BY <1>1, <1>2, <1>3, <1>4 DEF HttpInv, TablesAgree, Handles
<1>9. QED
  BY <1>5, <1>6, <1>7, <1>8 DEF HttpInv

\* addConnection makes the packet and unlocks.
LEMMA AddPacketKeeps ==
  ASSUME HttpInv, AddPacket
  PROVE  HttpInv'
<1>1. /\ adding # None /\ locked /\ recvPacket' = recvPacket \cup {adding}
      /\ locked' = FALSE /\ adding' = None
      /\ UNCHANGED <<fd, allConns, hcid2Conns, epoll, events, handling, erasing, erased>>
  BY DEF AddPacket
<1>2. HttpTypeOK'
  BY <1>1 DEF HttpInv, HttpTypeOK
<1>3. HoldersKnow' /\ AddedOnce' /\ TablesAgree'
  BY <1>1 DEF HttpInv, HoldersKnow, Accepted, AddedOnce, TablesAgree, Handles
<1>4. QED
  BY <1>2, <1>3 DEF HttpInv

\* addConnection finds the place taken.
LEMMA AddRefusedKeeps ==
  ASSUME HttpInv, AddRefused
  PROVE  HttpInv'
<1>1. /\ adding # None /\ ~ locked /\ hcid2Conns' = hcid2Conns \cup {adding} /\ adding' = None
      /\ UNCHANGED <<fd, locked, allConns, epoll, recvPacket, events, handling, erasing, erased>>
  BY DEF AddRefused
<1>2. HttpTypeOK'
  BY <1>1 DEF HttpInv, HttpTypeOK
<1>3. HoldersKnow' /\ AddedOnce' /\ TablesAgree'
  BY <1>1 DEF HttpInv, HoldersKnow, Accepted, AddedOnce, TablesAgree, Handles
<1>4. QED
  BY <1>2, <1>3 DEF HttpInv

---------------------------------------------------------------------------
\* eraseConnection

\* Whoever else holds the connection, it leaves both tables and is told once.
LEMMA EraseKeeps ==
  ASSUME HttpInv, ~ locked, NEW c, Accepted(c), Erase(c),
         UNCHANGED <<fd, adding, locked, recvPacket, events>>,
         erasing' \in {erasing, None},
         handling' \in {handling, None} \/ (handling' \in Handlings /\ handling'.event = "unwatch")
  PROVE  HttpInv'
<1> DEFINE f == fd[c]
           d == allConns[f]
<1>1. /\ f \in Fds /\ allConns \in [Fds -> Conns \cup {None}] /\ erased \in [Conns -> Nat]
      /\ None \notin Conns
      /\ \A g \in Fds : allConns[g] # None =>
           /\ allConns[g] \in hcid2Conns /\ erased[allConns[g]] = 0 /\ fd[allConns[g]] = g
  BY HttpAssumption DEF HttpInv, HttpTypeOK, TablesAgree, Accepted
<1>2. CASE d = None
  <2>1. UNCHANGED <<allConns, hcid2Conns, epoll, erased>>
    BY <1>2 DEF Erase
  <2>2. HttpTypeOK' /\ HoldersKnow' /\ AddedOnce'
    BY <2>1 DEF HttpInv, HttpTypeOK, HoldersKnow, Accepted, AddedOnce
  <2>3. TablesAgree'
    BY <2>1 DEF HttpInv, TablesAgree, Handles
  <2>4. QED
    BY <2>2, <2>3 DEF HttpInv
<1>3. CASE d # None
  <2>1. /\ hcid2Conns' = hcid2Conns \ {d} /\ erased' = [erased EXCEPT ![d] = @ + 1]
        /\ allConns' = [allConns EXCEPT ![f] = None] /\ epoll' = epoll \ {f}
    BY <1>3 DEF Erase
  <2>2. d \in Conns /\ fd[d] = f /\ erased[d] = 0
    BY <1>1, <1>3
  <2>3. erased'[d] = 1 /\ erased' \in [Conns -> Nat]
        /\ \A e \in Conns : e # d => erased'[e] = erased[e]
    BY <1>1, <2>1, <2>2
  <2>4. allConns'[f] = None /\ \A g \in Fds : g # f => allConns'[g] = allConns[g]
    BY <1>1, <2>1
  <2>5. \A g \in Fds : g # f /\ allConns[g] # None => allConns[g] # d
    BY <1>1, <2>2
  <2>6. adding # d
    BY <1>3, <2>2 DEF HttpInv, AddedOnce
  <2> HIDE DEF d, f
  <2>7. HttpTypeOK'
    BY <1>1, <2>1, <2>3 DEF HttpInv, HttpTypeOK
  <2>8. HoldersKnow'
    BY <2>1 DEF HttpInv, HoldersKnow, Accepted
  <2>9. AddedOnce'
    <3>1. \A e \in Conns : fd'[e] = None => erased'[e] = 0
      BY <1>1, <2>2, <2>3, HttpAssumption DEF HttpInv, AddedOnce
    <3>2. adding' # None => allConns'[fd'[adding']] = None /\ erased'[adding'] = 0
      BY <1>1, <2>3, <2>4, <2>6 DEF HttpInv, HttpTypeOK, HoldersKnow, Accepted, AddedOnce
    <3>3. \A g \in Fds : allConns'[g] # None => allConns'[g] \in recvPacket
      BY <2>4 DEF HttpInv, AddedOnce
    <3>4. QED
      BY <3>1, <3>2, <3>3 DEF AddedOnce
  <2>10. TablesAgree'
    <3>1. \A g \in Fds : allConns'[g] # None =>
            /\ allConns'[g] \in hcid2Conns' /\ erased'[allConns'[g]] = 0 /\ fd'[allConns'[g]] = g
      BY <1>1, <2>1, <2>3, <2>4, <2>5
    <3>2. \A e \in Conns : erased'[e] <= 1
      BY <2>2, <2>3 DEF HttpInv, TablesAgree
    <3>3. Handles("read")' \/ Handles("reading")' => handling'.conn \in recvPacket'
      BY DEF HttpInv, TablesAgree, Handles
    <3>4. QED
      BY <3>1, <3>2, <3>3 DEF TablesAgree
  <2>11. QED
    BY <2>7, <2>8, <2>9, <2>10 DEF HttpInv
<1>4. QED
  BY <1>2, <1>3

---------------------------------------------------------------------------
\* The epoll thread.

\* The epoll thread finds the connection of an event, under the lock.
LEMMA DispatchKeeps ==
  ASSUME HttpInv, NEW e \in events, Dispatch(e)
  PROVE  HttpInv'
<1>1. /\ handling = None /\ ~ locked /\ events' \subseteq events
      /\ handling' = IF allConns[e.fd] = None
                     THEN IF e.event = "error" THEN [conn |-> None, fd |-> e.fd, event |-> "unwatch"]
                                               ELSE None
                     ELSE [conn |-> allConns[e.fd], fd |-> e.fd, event |-> e.event]
      /\ UNCHANGED <<fd, adding, locked, allConns, hcid2Conns, epoll, recvPacket, erasing, erased>>
  BY DEF Dispatch
<1>2. e.fd \in Fds /\ e.event \in {"read", "error"} /\ allConns[e.fd] \in Conns \cup {None}
  BY DEF HttpInv, HttpTypeOK, Events
<1>3. /\ handling' = None \/ handling' \in Handlings
      /\ handling' # None /\ handling'.event # "unwatch" =>
           allConns[e.fd] # None /\ handling'.conn = allConns[e.fd]
  BY <1>1, <1>2 DEF Handlings
<1>4. allConns[e.fd] # None => Accepted(allConns[e.fd]) /\ allConns[e.fd] \in recvPacket
  BY <1>1, <1>2 DEF HttpInv, TablesAgree, AddedOnce, Accepted
<1>5. HttpTypeOK'
  BY <1>1, <1>3 DEF HttpInv, HttpTypeOK
<1>6. HoldersKnow' /\ AddedOnce'
  BY <1>1, <1>3, <1>4 DEF HttpInv, HoldersKnow, Accepted, AddedOnce
<1>7. TablesAgree'
  BY <1>1, <1>3, <1>4 DEF HttpInv, TablesAgree, Handles
<1>8. QED
  BY <1>5, <1>6, <1>7 DEF HttpInv

\* It reads what the socket has.
LEMMA ReadSomeKeeps ==
  ASSUME HttpInv, ReadSome
  PROVE  HttpInv'
<1>1. /\ handling # None /\ handling.event \in {"read", "reading"}
      /\ handling' = [handling EXCEPT !.event = "reading"]
      /\ UNCHANGED <<fd, adding, locked, allConns, hcid2Conns, epoll, recvPacket, events, erasing,
                     erased>>
  BY DEF ReadSome, Handles
<1>2. handling \in Handlings
  BY <1>1 DEF HttpInv, HttpTypeOK
<1>3. handling' \in Handlings /\ handling'.conn = handling.conn /\ handling'.event = "reading"
  BY <1>1, <1>2 DEF Handlings
<1>4. Accepted(handling.conn) /\ handling.conn \in recvPacket
  BY <1>1 DEF HttpInv, HoldersKnow, TablesAgree, Handles
<1>5. HttpTypeOK'
  BY <1>1, <1>3 DEF HttpInv, HttpTypeOK
<1>6. HoldersKnow' /\ AddedOnce'
  BY <1>1, <1>3, <1>4 DEF HttpInv, HoldersKnow, Accepted, AddedOnce
<1>7. TablesAgree'
  BY <1>1, <1>3, <1>4 DEF HttpInv, TablesAgree, Handles
<1>8. QED
  BY <1>5, <1>6, <1>7 DEF HttpInv

\* It waits again.
LEMMA WaitKeeps ==
  ASSUME HttpInv, Wait
  PROVE  HttpInv'
<1>1. /\ events' = {[fd |-> fd[c], event |-> Kind(input[c])] :
                      c \in {c \in Conns : Referenced(c) /\ fd[c] \in epoll /\ input[c] # None}}
      /\ UNCHANGED <<fd, adding, locked, allConns, hcid2Conns, epoll, recvPacket, handling, erasing,
                     erased>>
  BY DEF Wait
<1>2. \A i : Kind(i) \in {"read", "error"}
  BY DEF Kind
<1>3. events' \subseteq Events
  BY <1>1, <1>2 DEF Events, HttpInv, HttpTypeOK
<1>4. HttpTypeOK'
  BY <1>1, <1>3 DEF HttpInv, HttpTypeOK
<1>5. HoldersKnow' /\ AddedOnce' /\ TablesAgree'
  BY <1>1 DEF HttpInv, HoldersKnow, Accepted, AddedOnce, TablesAgree, Handles
<1>6. QED
  BY <1>4, <1>5 DEF HttpInv

\* A step of any thread.
LEMMA HttpStep ==
  ASSUME HttpInv, [HttpNext]_httpVars
  PROVE  HttpInv'
<1>1. ASSUME NEW c \in Conns, EraseFind(c) PROVE HttpInv'
  <2>1. /\ c \in hcid2Conns /\ erasing' = c
        /\ UNCHANGED <<fd, adding, locked, allConns, hcid2Conns, epoll, recvPacket, events, handling,
                       erased>>
    BY <1>1 DEF EraseFind
  <2>2. QED
    BY <2>1 DEF HttpInv, HttpTypeOK, HoldersKnow, Accepted, AddedOnce, TablesAgree, Handles
<1>2. CASE EraseFound
  <2>1. /\ erasing # None /\ ~ locked /\ Erase(erasing) /\ erasing' = None /\ handling' = handling
        /\ UNCHANGED <<fd, adding, locked, recvPacket, events>>
    BY <1>2 DEF EraseFound
  <2>2. Accepted(erasing)
    BY <2>1 DEF HttpInv, HoldersKnow
  <2>3. QED
    BY <2>1, <2>2, EraseKeeps
<1>3. CASE ReadClosed
  <2>1. /\ handling # None /\ handling.event \in {"read", "reading"} /\ ~ locked
        /\ Erase(handling.conn) /\ handling' = None /\ erasing' = erasing
        /\ UNCHANGED <<fd, adding, locked, recvPacket, events>>
    BY <1>3 DEF ReadClosed, Handles
  <2>2. Accepted(handling.conn)
    BY <2>1 DEF HttpInv, HoldersKnow
  <2>3. QED
    BY <2>1, <2>2, EraseKeeps
<1>4. CASE ErrorEvent
  <2>1. /\ handling # None /\ handling.event = "error" /\ ~ locked
        /\ Erase(handling.conn) /\ handling' = [handling EXCEPT !.conn = None, !.event = "unwatch"]
        /\ erasing' = erasing /\ UNCHANGED <<fd, adding, locked, recvPacket, events>>
    BY <1>4 DEF ErrorEvent, Handles
  <2>2. Accepted(handling.conn) /\ handling \in Handlings
    BY <2>1 DEF HttpInv, HoldersKnow, HttpTypeOK
  <2>3. handling' \in Handlings /\ handling'.event = "unwatch"
    BY <2>1, <2>2 DEF Handlings
  <2>4. QED
    BY <2>1, <2>2, <2>3, EraseKeeps
<1>5. CASE ReadNothing \/ Unwatch
  <2>1. /\ handling' = None
        /\ epoll' \subseteq epoll
        /\ UNCHANGED <<fd, adding, locked, allConns, hcid2Conns, recvPacket, events, erasing, erased>>
    BY <1>5 DEF ReadNothing, Unwatch
  <2>2. QED
    BY <2>1 DEF HttpInv, HttpTypeOK, HoldersKnow, Accepted, AddedOnce, TablesAgree, Handles
<1>6. CASE GetPacket \/ UNCHANGED httpVars \/ \E c \in Conns : Arrive(c)
  <2>1. UNCHANGED <<fd, adding, locked, allConns, hcid2Conns, epoll, recvPacket, events, handling,
                    erasing, erased>>
    BY <1>6 DEF GetPacket, Arrive, httpVars
  <2>2. QED
    BY <2>1 DEF HttpInv, HttpTypeOK, HoldersKnow, Accepted, AddedOnce, TablesAgree, Handles
<1>7. QED
  BY <1>1, <1>2, <1>3, <1>4, <1>5, <1>6, AcceptKeeps, AddInsertKeeps, AddPacketKeeps,
     AddRefusedKeeps, DispatchKeeps, ReadSomeKeeps, WaitKeeps DEF HttpNext

\* No connection yet.
LEMMA HttpInitial == HttpInit => HttpInv
<1> SUFFICES ASSUME HttpInit PROVE HttpInv
  OBVIOUS
<1>1. /\ fd = [c \in Conns |-> None] /\ adding = None /\ locked = FALSE
      /\ allConns = [f \in Fds |-> None] /\ hcid2Conns = {} /\ epoll = {} /\ recvPacket = {}
      /\ events = {} /\ handling = None /\ erasing = None /\ erased = [c \in Conns |-> 0]
  BY DEF HttpInit
<1>2. HttpTypeOK
  BY <1>1 DEF HttpTypeOK
<1>3. HoldersKnow /\ AddedOnce
  BY <1>1 DEF HoldersKnow, AddedOnce
<1>4. TablesAgree
  BY <1>1 DEF TablesAgree, Handles
<1>5. QED
  BY <1>2, <1>3, <1>4 DEF HttpInv

\* The invariant holds always.
LEMMA HttpInvariance == HttpSpec => []HttpInv
BY HttpInitial, HttpStep, PTL DEF HttpSpec

\* The tables and the holders keep their types.
THEOREM HttpTypeCorrect == HttpSpec => []HttpTypeOK
<1>1. HttpInv => HttpTypeOK
  BY DEF HttpInv
<1>2. QED
  BY <1>1, HttpInvariance, PTL

\* Whatever threads add, look up, erase and wait at the same time: nobody reads
\* into a packet that is not there, a connection is erased once, and one that
\* gets events can be answered under its id.
THEOREM TablesAlwaysAgree == HttpSpec => []TablesAgree
<1>1. HttpInv => TablesAgree
  BY DEF HttpInv
<1>2. QED
  BY <1>1, HttpInvariance, PTL

-----------------------------------------------------------------------------
(* Parsers. *)

FieldNames ==
  {"type", "state", "flags", "header_state", "index", "nread", "content_length", "http_major",
   "http_minor", "status_code", "method", "upgrade", "http_errno", "again", "marks", "skim", "calls"}

IsParser(x) == DOMAIN x = FieldNames

StartStates == {"s_start_req_or_res", "s_start_req", "s_start_res"}
VersionStates == {"s_res_HT", "s_res_HTTP", "s_res_http_major", "s_res_http_dot",
                  "s_res_http_minor"}
StatusStates == {"s_res_http_end", "s_res_first_status_code", "s_res_status_code",
                 "s_res_status_start"}
HttpStates == {"s_req_http_start", "s_req_http_HT", "s_req_http_HTTP", "s_req_http_major",
               "s_req_http_dot", "s_req_http_minor", "s_req_http_end", "s_req_line_almost_done"}
Beginnings == VersionStates \cup StatusStates \cup {"s_req_method", "s_req_spaces_before_url"}
UrlCollected == UrlStates \ {"s_req_spaces_before_url"}
FirstLine  == Beginnings \cup UrlCollected \cup HttpStates
              \cup {"s_res_status", "s_res_line_almost_done"}
Discarding == {"s_header_value_discard_ws", "s_header_value_discard_ws_almost_done",
               "s_header_value_discard_lws"}
ChunkSizes == {"s_chunk_size", "s_chunk_parameters", "s_chunk_size_almost_done"}
ChunkDatas == {"s_chunk_data", "s_chunk_data_almost_done", "s_chunk_data_done"}
Collecting == {"s_body_identity", "s_body_identity_eof", "s_chunk_data", "s_chunk_data_almost_done"}

\* What is marked follows from the state, but for the body.
Marked(x) ==
  /\ x.marks \subseteq MarksAtStart(x.state) \cup {"body"}
  /\ MarksAtStart(x.state) \subseteq x.marks
  /\ "body" \in x.marks => x.state \in Collecting

\* What is to come of a body.
Measured(x) ==
  /\ x.content_length \in 0 .. ULLONG_MAX
  /\ x.state \in {"s_body_identity", "s_chunk_data"} => x.content_length \notin {0, ULLONG_MAX}
  /\ x.state = "s_chunk_data_almost_done" => x.content_length = 0
  /\ x.state \in ChunkSizes => x.content_length # ULLONG_MAX

\* The flags that go with a state.
Flagged(x) ==
  /\ x.state \in ChunkSizes \cup ChunkDatas \cup {"s_chunk_size_start"} => "CHUNKED" \in x.flags
  /\ x.state \in FirstLine => x.flags = {}

\* The value of a header is not read while only its name is known.
Valued(x) ==
  x.state = "s_header_value" => x.header_state \notin {Name("connection"), Name("transfer-encoding")}

\* A parser that may be in any turn of the loop.
Sane(x) ==
  /\ IsParser(x) /\ x.state \in States /\ Marked(x) /\ Measured(x) /\ Flagged(x) /\ Valued(x)

\* A parser that has met an error: http_parser_execute returned at once.
Refused(x) ==
  IsParser(x) /\ x.marks = {} /\ x.again = FALSE /\ x.http_errno \notin {"OK", "PAUSED", "ASSERT"}

\* What a turn leaves behind; none of them fails an assertion.
Good(x) ==
  \/ Refused(x)
  \/ /\ Sane(x)
     /\ x.state = "s_chunk_size_start" => x.nread = 0
     /\ x.http_errno = "OK" \/ (x.http_errno = "PAUSED" /\ x.again = FALSE)

\* What a turn begins with: the byte of a chunk size has been counted.
Ready(x) ==
  /\ Sane(x) /\ x.http_errno = "OK" /\ x.again = FALSE
  /\ x.state = "s_chunk_size_start" => x.nread = 1

\* The states that code goes to with `goto reexecute', by how many may follow.
Third  == {"s_headers_done", "s_message_done"}
Second == Third \cup {"s_headers_almost_done"}
First  == Second \cup {"s_header_field_start", "s_header_value_start"}

\* y goes back to reexecute further on than x.
Climbs(x, y) ==
  y.again # FALSE =>
    /\ y.http_errno = "OK" /\ y.again = TRUE /\ y.state \in First /\ x.state \notin Third
    /\ x.state \in First => y.state \in Second
    /\ x.state \in Second => y.state \in Third

(* Callbacks. *)

Callbacks == Kinds \cup {"message_begin", "headers_complete", "chunk_header", "chunk_complete",
                         "message_complete"}

\* The last callback of a turn, or the one before it.
Latest(calls, last) == IF calls = <<>> THEN last ELSE calls[Len(calls)]

InOrder(calls, last) ==
  \A i \in DOMAIN calls : (IF i = 1 THEN last ELSE calls[i - 1]) \in After(calls[i])

\* The callbacks before a header line, of a message or of the trailer of a chunked body.
Heads(flags) == IF "TRAILING" \in flags THEN {"chunk_header", "header_value"}
                ELSE {"message_begin", "url", "status", "header_value"}

\* The callbacks that may have been the last ones in a state.
Leads(from, flags) ==
  CASE from \in StartStates -> {"none", "message_complete", "message_begin"}
    [] from \in Beginnings -> {"message_begin"}
    [] from \in UrlCollected \cup HttpStates -> {"message_begin", "url"}
    [] from \in {"s_res_status", "s_res_line_almost_done"} -> {"message_begin", "status"}
    [] from \in {"s_header_field_start", "s_headers_almost_done"} -> Heads(flags)
    [] from = "s_header_field" -> Heads(flags) \cup {"header_field"}
    [] from \in Discarding -> {"header_field"}
    [] from = "s_header_value" -> {"header_field", "header_value"}
    [] from \in {"s_header_value_start", "s_header_value_lws", "s_header_almost_done"} -> {"header_value"}
    [] from = "s_headers_done" -> {"headers_complete"}
    [] from \in ChunkSizes \cup {"s_chunk_size_start"} -> {"headers_complete", "chunk_complete"}
    [] from \in ChunkDatas -> {"chunk_header", "body"}
    [] from \in {"s_body_identity", "s_body_identity_eof"} -> {"headers_complete", "body"}
    [] from = "s_message_done" -> {"chunk_complete", "body"}
    [] OTHER -> Callbacks \cup {"none"}

Ordered(x, last) == x.calls \in Seq(Callbacks) /\ InOrder(x.calls, last)
Told(x, last) == Latest(x.calls, last) \in Leads(x.state, x.flags)

\* What a turn makes of a parser that is Ready.
Fine(x, y, last) ==
  /\ Good(y) /\ Climbs(x, y) /\ Ordered(y, last)
  /\ y.http_errno \in {"OK", "PAUSED"} => Told(y, last)

\* MARK is set again on entry for the states that are in the middle of data.
LEMMA MarksTable ==
  /\ MarksAtStart("s_header_field") = {"header_field"}
  /\ MarksAtStart("s_header_value") = {"header_value"}
  /\ MarksAtStart("s_res_status") = {"status"}
  /\ \A x \in UrlCollected : MarksAtStart(x) = {"url"}
  /\ \A x \in States \ (UrlCollected \cup {"s_header_field", "s_header_value", "s_res_status"}) :
       MarksAtStart(x) = {}
BY DEF MarksAtStart, States, UrlStates, UrlCollected, HeaderStates, BodyStates

\* Leads, a state at a time.
LEMMA LeadsTable ==
  ASSUME NEW flags
  PROVE  /\ \A x \in StartStates : Leads(x, flags) = {"none", "message_complete", "message_begin"}
         /\ \A x \in Beginnings : Leads(x, flags) = {"message_begin"}
         /\ \A x \in UrlCollected \cup HttpStates : Leads(x, flags) = {"message_begin", "url"}
         /\ \A x \in {"s_res_status", "s_res_line_almost_done"} : Leads(x, flags) =
              {"message_begin", "status"}
         /\ \A x \in {"s_header_field_start", "s_headers_almost_done"} : Leads(x, flags) = Heads(flags)
         /\ Leads("s_header_field", flags) = Heads(flags) \cup {"header_field"}
         /\ \A x \in Discarding : Leads(x, flags) = {"header_field"}
         /\ Leads("s_header_value", flags) = {"header_field", "header_value"}
         /\ \A x \in {"s_header_value_start", "s_header_value_lws", "s_header_almost_done"} :
              Leads(x, flags) = {"header_value"}
         /\ Leads("s_headers_done", flags) = {"headers_complete"}
         /\ \A x \in ChunkSizes \cup {"s_chunk_size_start"} : Leads(x, flags) =
              {"headers_complete", "chunk_complete"}
         /\ \A x \in ChunkDatas : Leads(x, flags) = {"chunk_header", "body"}
         /\ \A x \in {"s_body_identity", "s_body_identity_eof"} : Leads(x, flags) =
              {"headers_complete", "body"}
         /\ Leads("s_message_done", flags) = {"chunk_complete", "body"}
         /\ Leads("s_dead", flags) = Callbacks \cup {"none"}
BY DEF Leads, StartStates, Beginnings, UrlCollected, HttpStates, Discarding, ChunkSizes, ChunkDatas,
       UrlStates, VersionStates, StatusStates

\* States in which nothing is known but what is marked.
Calm == StartStates \cup FirstLine \cup Discarding \cup
  {"s_dead", "s_header_field_start", "s_header_field", "s_header_value_start",
   "s_header_value_lws", "s_header_almost_done", "s_headers_almost_done", "s_headers_done",
   "s_body_identity_eof", "s_message_done"}

\* What MARK and the flags are in these states.
LEMMA CalmStates ==
  ASSUME NEW from \in Calm
  PROVE  /\ from \in States /\ "body" \notin MarksAtStart(from)
         /\ from \notin ChunkSizes \cup ChunkDatas \cup
              {"s_chunk_size_start", "s_body_identity", "s_header_value"}
         /\ from \notin {"s_chunk_data", "s_chunk_data_almost_done"}
BY DEF Calm, States, StartStates, FirstLine, Beginnings, UrlCollected, Discarding, VersionStates,
       StatusStates, UrlStates, HttpStates, HeaderStates, BodyStates, ChunkSizes, ChunkDatas, MarksAtStart

\* A parser that comes to one of them is as it should be.
LEMMA CalmGood ==
  ASSUME NEW x, IsParser(x), x.http_errno = "OK" \/ (x.http_errno = "PAUSED" /\ x.again = FALSE),
         x.state \in Calm, x.marks = MarksAtStart(x.state),
         x.content_length \in 0 .. ULLONG_MAX, x.state \in FirstLine => x.flags = {}
  PROVE  Good(x)
BY CalmStates DEF Good, Sane, Marked, Measured, Flagged, Valued

\* One more callback, after one it may follow, leaves the callbacks in order.
LEMMA AppendOrdered ==
  ASSUME NEW calls \in Seq(Callbacks), NEW last, NEW c \in Callbacks, InOrder(calls, last),
         Latest(calls, last) \in After(c)
  PROVE  /\ Append(calls, c) \in Seq(Callbacks) /\ InOrder(Append(calls, c), last)
         /\ Latest(Append(calls, c), last) = c
<1> DEFINE n == Len(calls)  a == Append(calls, c)
<1>1. n \in Nat /\ DOMAIN calls = 1 .. n /\ (n = 0 <=> calls = <<>>)
  OBVIOUS
<1>2. a \in Seq(Callbacks) /\ Len(a) = n + 1 /\ a # <<>> /\ a[n + 1] = c /\ \A i \in 1 .. n : a[i] = calls[i]
  OBVIOUS
<1>3. DOMAIN a = 1 .. n + 1
  BY <1>1, <1>2
<1>4. ASSUME NEW i \in 1 .. n + 1
      PROVE  (IF i = 1 THEN last ELSE a[i - 1]) \in After(a[i])
  <2>1. CASE i \in 1 .. n
    <3>1. (IF i = 1 THEN last ELSE calls[i - 1]) \in After(calls[i])
      BY <2>1, <1>1 DEF InOrder
    <3>2. QED
      BY <3>1, <2>1, <1>1, <1>2
  <2>2. CASE i = n + 1
    <3>1. (IF i = 1 THEN last ELSE a[i - 1]) = Latest(calls, last)
      <4>1. CASE n = 0
        BY <4>1, <2>2, <1>1 DEF Latest
      <4>2. CASE n # 0
        <5>1. i # 1 /\ i - 1 = n /\ n \in 1 .. n /\ calls # <<>>
          BY <4>2, <2>2, <1>1
        <5>2. QED
          BY <5>1, <1>2 DEF Latest
      <4>3. QED
        BY <4>1, <4>2
    <3>2. QED
      BY <3>1, <2>2, <1>2
  <2>3. QED
    BY <1>1, <2>1, <2>2
<1>5. QED
  BY <1>2, <1>3, <1>4 DEF InOrder, Latest

\* A turn that ends in an error calls nothing more back.
LEMMA RefusedFine ==
  ASSUME NEW x, NEW y, NEW last, Ordered(x, last), Refused(y), y.calls = x.calls
  PROVE  Fine(x, y, last)
BY DEF Fine, Good, Climbs, Ordered, Refused

\* A turn that calls nothing back.
LEMMA KeptFine ==
  ASSUME NEW x, NEW y, NEW last, Ordered(x, last), Told(x, last), Good(y), Climbs(x, y), y.calls = x.calls,
         Leads(x.state, x.flags) \subseteq Leads(y.state, y.flags)
  PROVE  Fine(x, y, last)
BY DEF Fine, Ordered, Told

\* A turn that calls c back.
LEMMA CalledFine ==
  ASSUME NEW x, NEW y, NEW last, Ordered(x, last), Told(x, last), Good(y), Climbs(x, y),
         NEW c \in Callbacks, y.calls = Append(x.calls, c),
         Leads(x.state, x.flags) \subseteq After(c), c \in Leads(y.state, y.flags)
  PROVE  Fine(x, y, last)
BY AppendOrdered DEF Fine, Ordered, Told

\* After, a callback at a time.
LEMMA AfterTable ==
  /\ After("message_begin") = {"none", "message_complete", "message_begin"}
  /\ After("url") = {"message_begin", "url"}
  /\ After("status") = {"message_begin", "status"}
  /\ After("header_field") = {"message_begin", "url", "status", "header_field", "header_value",
                              "chunk_header"}
  /\ After("header_value") = {"header_field", "header_value"}
  /\ After("headers_complete") = {"message_begin", "url", "status", "header_value"}
  /\ After("chunk_header") = {"headers_complete", "chunk_complete"}
  /\ After("body") = {"headers_complete", "chunk_header", "body"}
  /\ After("chunk_complete") = {"body", "chunk_header", "header_value"}
  /\ After("message_complete") = {"headers_complete", "body", "chunk_complete"}
  /\ Callbacks = {"url", "status", "header_field", "header_value", "body", "message_begin",
                  "headers_complete", "chunk_header", "chunk_complete", "message_complete"}
BY DEF After, Callbacks, Kinds

\* Outside a body, what is marked is a matter of the state.
LEMMA ReadyFacts ==
  ASSUME NEW x, Ready(x), x.state \notin Collecting
  PROVE  /\ IsParser(x) /\ x.http_errno = "OK" /\ x.again = FALSE /\ x.content_length \in 0 .. ULLONG_MAX
         /\ x.marks = MarksAtStart(x.state) /\ x.state \in States
         /\ x.state \in FirstLine => x.flags = {}
BY DEF Ready, Sane, Measured, Marked, Flagged

\* A parser that goes on.
Going(x) == IsParser(x) /\ x.http_errno = "OK" /\ x.again = FALSE

-----------------------------------------------------------------------------
(* Turns: the first line. *)

\* The first byte of a request: on_message_begin, and the method.
LEMMA StartReqTurn ==
  ASSUME NEW x, NEW last, NEW t, Ready(x), Ordered(x, last), Told(x, last),
         x.state \in {"s_start_req", "s_start_req_or_res"}
  PROVE  /\ x.state = "s_start_req" => Fine(x, StartReq(x, t), last)
         /\ x.state = "s_start_req_or_res" => Fine(x, StartReqOrRes(x, t), last)
<1>1. /\ IsParser(x) /\ x.http_errno = "OK" /\ x.again = FALSE /\ x.marks = {}
      /\ x.content_length \in 0 .. ULLONG_MAX
  BY MarksTable DEF Ready, Sane, Measured, Marked, Collecting, States, UrlCollected, UrlStates
<1>2. ULLONG_MAX \in 0 .. ULLONG_MAX
  BY ParserAssumption
<1>3. /\ "s_req_method" \in Calm \cap FirstLine /\ "s_res_HT" \in Calm \cap FirstLine
      /\ MarksAtStart("s_req_method") = {} /\ MarksAtStart("s_res_HT") = {}
      /\ x.state \in Calm /\ x.state \notin FirstLine /\ MarksAtStart(x.state) = {}
  BY DEF Calm, FirstLine, Beginnings, MarksAtStart, StartStates, VersionStates, StatusStates,
         UrlCollected, UrlStates, HttpStates
<1>4. /\ Leads(x.state, x.flags) \subseteq After("message_begin") /\ "message_begin" \in Callbacks
      /\ \A flags : "message_begin" \in Leads("s_req_method", flags) /\
           "message_begin" \in Leads("s_res_HT", flags)
  <2>1. Leads(x.state, x.flags) = {"none", "message_complete", "message_begin"}
    BY LeadsTable DEF StartStates
  <2>2. ASSUME NEW flags
        PROVE  Leads("s_req_method", flags) = {"message_begin"} /\
               Leads("s_res_HT", flags) = {"message_begin"}
    BY LeadsTable DEF Beginnings, VersionStates
  <2>3. QED
    BY <2>1, <2>2, AfterTable
<1>5. ASSUME NEW y, IsParser(y), y.http_errno = "OK", y.again = FALSE, y.marks = {}, y.flags = {},
             y.content_length = ULLONG_MAX, y.state \in {"s_req_method", "s_res_HT"},
             y.calls = Append(x.calls, "message_begin")
      PROVE  Fine(x, y, last)
  <2>1. Good(y)
    BY <1>2, <1>3, <1>5, CalmGood
  <2>2. "message_begin" \in Leads(y.state, y.flags) /\ Climbs(x, y)
    BY <1>4, <1>5 DEF Climbs
  <2>3. QED
    BY <1>4, <1>5, <2>1, <2>2, CalledFine
<1>6. Fine(x, x, last)
  <2>1. Good(x)
    BY <1>1, <1>3, CalmGood
  <2>2. QED
    BY <1>1, <2>1, KeptFine DEF Climbs
<1>7. ASSUME NEW z, IsParser(z), z.http_errno = "OK", z.again = FALSE, z.marks = {}, z.calls = x.calls
      PROVE  Fine(x, StartReq(z, t), last) \/ StartReq(z, t) = z
  <2> DEFINE y == StartReq(z, t)
  <2>1. \/ y = z
        \/ Refused(y) /\ y.calls = x.calls
        \/ /\ IsParser(y) /\ y.http_errno = "OK" /\ y.again = FALSE /\ y.marks = {} /\ y.flags = {}
           /\ y.content_length = ULLONG_MAX /\ y.state = "s_req_method"
           /\ y.calls = Append(x.calls, "message_begin")
    BY <1>7 DEF StartReq, Fresh, Call, Err, Refused, IsParser, FieldNames
  <2>2. QED
    BY <2>1, <1>5, RefusedFine
<1>8. CASE x.state = "s_start_req"
  BY <1>1, <1>6, <1>7, <1>8
<1>9. CASE x.state = "s_start_req_or_res"
  <2> DEFINE z == [x EXCEPT !.type = "request"]
             h == Call([Go(Fresh(x), "s_res_HT") EXCEPT !.type = "response"], "message_begin")
  <2>1. /\ IsParser(z) /\ z.http_errno = "OK" /\ z.again = FALSE /\ z.marks = {} /\ z.calls = x.calls
        /\ IsParser(h) /\ h.http_errno = "OK" /\ h.again = FALSE /\ h.marks = {} /\ h.flags = {}
        /\ h.content_length = ULLONG_MAX /\ h.state = "s_res_HT" /\ h.calls = Append(x.calls, "message_begin")
    BY <1>1 DEF Call, Go, Fresh, IsParser, FieldNames
  <2>2. CASE t \in LineEnds
    BY <2>2, <1>6, <1>9 DEF StartReqOrRes
  <2>3. CASE t \notin LineEnds /\ t = <<"HTTP", 1>>
    BY <2>1, <2>3, <1>5, <1>9 DEF StartReqOrRes
  <2>4. CASE t \notin LineEnds /\ t # <<"HTTP", 1>>
    <3>1. StartReqOrRes(x, t) = StartReq(z, t)
      BY <2>4 DEF StartReqOrRes
    <3>2. StartReq(z, t) # z
      <4>1. \/ StartReq(z, t).http_errno = "INVALID_METHOD" 
            \/ StartReq(z, t).state = "s_req_method"
        BY <2>4, <2>1 DEF StartReq, Fresh, Call, Err, IsParser, FieldNames
      <4>2. z.state = "s_start_req_or_res"
        BY <1>1, <1>9 DEF IsParser, FieldNames
      <4>3. QED
        BY <4>1, <4>2, <2>1
    <3>3. QED
      BY <1>7, <1>9, <2>1, <3>1, <3>2
  <2>5. QED
    BY <2>2, <2>3, <2>4, <1>9
<1>10. QED
  BY <1>8, <1>9

\* The first byte of a response.
LEMMA StartResTurn ==
  ASSUME NEW x, NEW last, NEW t, Ready(x), Ordered(x, last), Told(x, last), x.state = "s_start_res"
  PROVE  Fine(x, StartRes(x, t), last)
<1> DEFINE y == StartRes(x, t)
<1>1. /\ IsParser(x) /\ x.http_errno = "OK" /\ x.again = FALSE /\ x.marks = {}
  BY MarksTable DEF Ready, Sane, Measured, Marked, Collecting, States, UrlCollected, UrlStates
<1>2. \/ Refused(y) /\ y.calls = x.calls
      \/ /\ IsParser(y) /\ y.http_errno = "OK" /\ y.again = FALSE /\ y.marks = {} /\ y.flags = {}
         /\ y.content_length = ULLONG_MAX /\ y.state \in {"s_res_HT", "s_start_res"}
         /\ y.calls = Append(x.calls, "message_begin")
  BY <1>1 DEF StartRes, Go, Fresh, Call, Err, Refused, IsParser, FieldNames
<1>3. /\ {"s_res_HT", "s_start_res"} \subseteq Calm
      /\ MarksAtStart("s_start_res") = {} /\ MarksAtStart("s_res_HT") = {}
      /\ ULLONG_MAX \in 0 .. ULLONG_MAX
  BY ParserAssumption DEF Calm, FirstLine, Beginnings, MarksAtStart, StartStates, VersionStates, StatusStates,
         UrlCollected, UrlStates, HttpStates
<1>4. /\ Leads(x.state, x.flags) \subseteq After("message_begin") /\ "message_begin" \in Callbacks
      /\ \A flags : "message_begin" \in Leads("s_start_res", flags) /\
           "message_begin" \in Leads("s_res_HT", flags)
  BY LeadsTable, AfterTable DEF StartStates, Beginnings, VersionStates
<1>5. QED
  BY <1>2, <1>3, <1>4, CalmGood, CalledFine, RefusedFine DEF Climbs

\* The method, up to its blank.
LEMMA ReqMethodTurn ==
  ASSUME NEW x, NEW last, NEW t, Ready(x), Ordered(x, last), Told(x, last), x.state = "s_req_method"
  PROVE  Fine(x, ReqMethod(x, t), last)
<1> DEFINE y == ReqMethod(x, t)
<1>1. /\ IsParser(x) /\ x.http_errno = "OK" /\ x.again = FALSE /\ x.marks = {} /\ x.flags = {}
      /\ x.content_length \in 0 .. ULLONG_MAX
  BY MarksTable DEF Ready, Sane, Measured, Marked, Flagged, FirstLine, Beginnings, Collecting, States,
                    UrlCollected, UrlStates
<1>2. \/ Refused(y) /\ y.calls = x.calls
      \/ /\ IsParser(y) /\ y.http_errno = "OK" /\ y.again = FALSE /\ y.marks = {} /\ y.flags = {}
         /\ y.content_length = x.content_length /\ y.state \in {"s_req_method", "s_req_spaces_before_url"}
         /\ y.calls = x.calls
  BY <1>1 DEF ReqMethod, Go, Err, Refused, IsParser, FieldNames
<1>3. \A z \in {"s_req_method", "s_req_spaces_before_url"} :
         z \in Calm /\ MarksAtStart(z) = {} /\ \A flags : Leads(z, flags) = {"message_begin"}
  BY LeadsTable DEF Calm, FirstLine, Beginnings, MarksAtStart, UrlStates
<1>4. QED
  BY <1>1, <1>2, <1>3, CalmGood, KeptFine, RefusedFine DEF Climbs

\* The version of a response, and of a request after its url.
LEMMA VersionTurn ==
  ASSUME NEW x, NEW last, NEW t, Ready(x), Ordered(x, last), Told(x, last)
  PROVE  /\ x.state \in VersionStates => Fine(x, ResVersion(x, t), last)
         /\ x.state \in HttpStates \ {"s_req_http_start", "s_req_http_end", "s_req_line_almost_done"} =>
              Fine(x, ReqVersion(x, t), last)
<1>1. ASSUME x.state \in VersionStates \cup HttpStates
      PROVE  /\ IsParser(x) /\ x.http_errno = "OK" /\ x.again = FALSE /\ x.marks = {} /\ x.flags = {}
             /\ x.content_length \in 0 .. ULLONG_MAX
  BY <1>1, MarksTable DEF Ready, Sane, Measured, Marked, Flagged, FirstLine, Beginnings, Collecting, States,
     UrlCollected, UrlStates, VersionStates, HttpStates
<1>2. CASE x.state \in VersionStates
  <2> DEFINE y == ResVersion(x, t)
  <2>1. \/ Refused(y) /\ y.calls = x.calls
        \/ /\ IsParser(y) /\ y.http_errno = "OK" /\ y.again = FALSE /\ y.marks = {} /\ y.flags = {}
           /\ y.content_length = x.content_length /\ y.state \in VersionStates \cup {"s_res_http_end"}
           /\ y.calls = x.calls
    BY <1>1, <1>2 DEF ResVersion, Version, Go, Err, Refused, IsParser, FieldNames, VersionStates
  <2>2. \A z \in VersionStates \cup {"s_res_http_end"} :
           z \in Calm /\ MarksAtStart(z) = {} /\ \A flags : Leads(z, flags) = {"message_begin"}
    BY LeadsTable DEF Calm, FirstLine, Beginnings, VersionStates, StatusStates, MarksAtStart, UrlStates
  <2>3. QED
    BY <1>1, <1>2, <2>1, <2>2, CalmGood, KeptFine, RefusedFine DEF Climbs, VersionStates, HttpStates
<1>3. CASE x.state \in HttpStates \ {"s_req_http_start", "s_req_http_end", "s_req_line_almost_done"}
  <2> DEFINE y == ReqVersion(x, t)
  <2>1. \/ Refused(y) /\ y.calls = x.calls
        \/ /\ IsParser(y) /\ y.http_errno = "OK" /\ y.again = FALSE /\ y.marks = {} /\ y.flags = {}
           /\ y.content_length = x.content_length /\ y.state \in HttpStates
           /\ y.calls = x.calls
    BY <1>1, <1>3 DEF ReqVersion, Version, Go, Err, Refused, IsParser, FieldNames, HttpStates
  <2>2. \A z \in HttpStates :
           z \in Calm /\ MarksAtStart(z) = {} /\ \A flags : Leads(z, flags) = {"message_begin", "url"}
    BY LeadsTable DEF Calm, FirstLine, HttpStates, MarksAtStart, UrlStates
  <2>3. QED
    BY <1>1, <1>3, <2>1, <2>2, CalmGood, KeptFine, RefusedFine DEF Climbs, VersionStates, HttpStates
<1>4. QED
  BY <1>2, <1>3

\* The status code, and the reason phrase that on_status is given.
LEMMA ResStatusTurn ==
  ASSUME NEW x, NEW last, NEW t, Ready(x), Ordered(x, last), Told(x, last),
         x.state \in StatusStates \cup {"s_res_status"}
  PROVE  Fine(x, ResStatus(x, t), last)
<1> DEFINE y == ResStatus(x, t)
           Next == {"s_header_field_start", "s_res_line_almost_done"}
<1>1. /\ IsParser(x) /\ x.http_errno = "OK" /\ x.again = FALSE /\ x.flags = {}
      /\ x.content_length \in 0 .. ULLONG_MAX
      /\ x.marks = IF x.state = "s_res_status" THEN {"status"} ELSE {}
  <2>1. x.state \in FirstLine /\ x.state \notin Collecting /\ x.state \notin UrlCollected
        /\ x.state \notin {"s_header_field", "s_header_value"}
    BY DEF FirstLine, Beginnings, Collecting, UrlCollected, UrlStates, StatusStates
  <2>2. QED
    BY <2>1, ReadyFacts, MarksTable
<1>2. CASE x.state = "s_res_status"
  <2>1. /\ IsParser(y) /\ y.http_errno = "OK" /\ y.again = FALSE /\ y.flags = {}
        /\ y.content_length = x.content_length
        /\ \/ y.state = "s_res_status" /\ y.marks = {"status"} /\ y.calls = x.calls
           \/ y.state \in Next /\ y.marks = {} /\ y.calls = Append(x.calls, "status")
    BY <1>1, <1>2 DEF ResStatus, LineEnd, Data, Call, Go, IsParser, FieldNames
  <2>2. /\ Next \cup {"s_res_status"} \subseteq Calm
        /\ MarksAtStart("s_res_status") = {"status"} /\ \A z \in Next : MarksAtStart(z) = {}
        /\ "status" \in Leads("s_header_field_start", {}) /\ "status" \in Leads("s_res_line_almost_done", {})
        /\ Leads("s_res_status", {}) \subseteq After("status") /\ "status" \in Callbacks
    BY LeadsTable, AfterTable, MarksTable DEF Calm, FirstLine, MarksAtStart, UrlStates, Heads
  <2>3. Good(y) /\ Climbs(x, y)
    BY <1>1, <2>1, <2>2, CalmGood DEF Climbs
  <2>4. QED
    BY <1>1, <1>2, <2>1, <2>2, <2>3, KeptFine, CalledFine
<1>3. CASE x.state \in StatusStates
  <2>1. \/ Refused(y) /\ y.calls = x.calls
        \/ /\ IsParser(y) /\ y.http_errno = "OK" /\ y.again = FALSE /\ y.flags = {}
           /\ y.content_length = x.content_length /\ y.calls = x.calls
           /\ \/ y.state = "s_res_status" /\ y.marks = {"status"}
              \/ y.state \in Next \cup StatusStates /\ y.marks = {}
    BY <1>1, <1>3 DEF ResStatus, LineEnd, Mark, Go, Err, Refused, IsParser, FieldNames, StatusStates
  <2>2. /\ Next \cup StatusStates \cup {"s_res_status"} \subseteq Calm
        /\ MarksAtStart("s_res_status") = {"status"} /\ \A z \in Next \cup StatusStates : MarksAtStart(z) = {}
    BY MarksTable DEF Calm, FirstLine, Beginnings, MarksAtStart, UrlStates, StatusStates
  <2>3. /\ Leads(x.state, {}) = {"message_begin"}
        /\ \A z \in Next \cup StatusStates \cup {"s_res_status"} : "message_begin" \in Leads(z, {})
    <3>1. /\ x.state \in Beginnings /\ StatusStates \subseteq Beginnings
          /\ Heads({}) = {"message_begin", "url", "status", "header_value"}
      BY <1>3 DEF Beginnings, Heads
    <3>2. \A z \in Beginnings : Leads(z, {}) = {"message_begin"}
      BY LeadsTable
    <3>3. /\ Leads("s_header_field_start", {}) = Heads({})
          /\ Leads("s_res_line_almost_done", {}) = {"message_begin", "status"}
          /\ Leads("s_res_status", {}) = {"message_begin", "status"}
      BY LeadsTable
    <3>4. QED
      BY <3>1, <3>2, <3>3
  <2>4. CASE Refused(y) /\ y.calls = x.calls
    BY <2>4, RefusedFine
  <2>5. CASE ~ (Refused(y) /\ y.calls = x.calls)
    <3>1. Good(y) /\ Climbs(x, y)
      BY <1>1, <2>1, <2>2, <2>5, CalmGood DEF Climbs
    <3>2. QED
      BY <1>1, <2>1, <2>3, <2>5, <3>1, KeptFine
  <2>6. QED
    BY <2>4, <2>5
<1>4. QED
  BY <1>2, <1>3

\* parse_url_char stays among the states of a url, or answers s_dead.
LEMMA UrlCharStates ==
  ASSUME NEW from, NEW t
  PROVE  ParseUrlChar(from, t) \in UrlCollected \cup {"s_dead"}
<1>1. {"s_req_path", "s_req_schema", "s_req_schema_slash", "s_req_schema_slash_slash", "s_req_server_start",
       "s_req_query_string_start", "s_req_server_with_at", "s_req_server", "s_req_fragment_start",
       "s_req_query_string", "s_req_fragment"} \subseteq UrlCollected
  BY DEF UrlCollected, UrlStates
<1>2. \/ ParseUrlChar(from, t) = from /\ from \in {"s_req_schema", "s_req_path", "s_req_fragment_start",
                                          "s_req_fragment"}
      \/ ParseUrlChar(from, t) \in {"s_req_path", "s_req_schema", "s_req_schema_slash",
                                 "s_req_schema_slash_slash",
            "s_req_server_start", "s_req_query_string_start", "s_req_server_with_at", "s_req_server",
            "s_req_fragment_start", "s_req_query_string", "s_req_fragment", "s_dead"}
  BY DEF ParseUrlChar
<1>3. QED
  BY <1>1, <1>2

\* A byte of the url is marked, or refused.
UrlKept(z, y) ==
  /\ y.calls = z.calls
  /\ \/ Refused(y)
     \/ /\ Going(y) /\ y.marks = {"url"} /\ y.flags = z.flags /\ y.content_length = z.content_length
        /\ y.state \in UrlCollected

\* A byte of the url.
LEMMA UrlByteOf ==
  ASSUME NEW z, NEW n, NEW t, Going(z), z.marks = {"url"}
  PROVE  UrlKept(z, UrlByte(z, n, t))
<1>1. ParseUrlChar(n, t) # "s_dead" => ParseUrlChar(n, t) \in UrlCollected
  BY UrlCharStates
<1>2. QED
  BY <1>1 DEF UrlKept, Going, UrlByte, Err, Go, Refused, IsParser, FieldNames

\* The url of a request, up to the blank or the line end that on_url is called at.
LEMMA ReqUrlTurn ==
  ASSUME NEW x, NEW last, NEW t, Ready(x), Ordered(x, last), Told(x, last), x.state \in UrlStates
  PROVE  Fine(x, ReqUrl(x, t), last)
<1> DEFINE y == ReqUrl(x, t)
           Begins == x.state = "s_req_spaces_before_url"
           Next == {"s_req_http_start", "s_req_line_almost_done", "s_header_field_start"}
           Byte(z, n) == y = UrlByte(z, n, t) /\ IsParser(z) /\ z.http_errno = "OK" /\ z.again = FALSE
                         /\ z.marks = {"url"} /\ z.flags = {} /\ z.content_length = x.content_length
                         /\ z.calls = x.calls
<1>1. /\ IsParser(x) /\ x.http_errno = "OK" /\ x.again = FALSE /\ x.flags = {}
      /\ x.content_length \in 0 .. ULLONG_MAX
      /\ x.marks = IF Begins THEN {} ELSE {"url"}
  <2>1. x.state \in FirstLine /\ x.state \notin Collecting /\ (x.state \in UrlCollected \/ Begins)
        /\ "s_req_spaces_before_url" \notin UrlCollected
        /\ x.state \notin {"s_header_field", "s_header_value", "s_res_status"}
    BY DEF FirstLine, Beginnings, Collecting, UrlCollected, UrlStates
  <2>2. x.marks = MarksAtStart(x.state) /\ x.state \in States
    BY <2>1, ReadyFacts
  <2>3. x.marks = IF Begins THEN {} ELSE {"url"}
    BY <2>1, <2>2, MarksTable
  <2>4. QED
    BY <2>1, <2>3, ReadyFacts
<1>2. \/ Refused(y) /\ y.calls = x.calls
      \/ Begins /\ y = x
      \/ Byte(Mark(x, "url"), "s_req_server_start") \/ Byte(Mark(x, "url"), x.state)
      \/ Byte(x, x.state)
      \/ /\ ~ Begins /\ IsParser(y) /\ y.http_errno = "OK" /\ y.again = FALSE /\ y.marks = {} /\ y.flags = {}
         /\ y.content_length = x.content_length /\ y.state \in Next /\ y.calls = Append(x.calls, "url")
  <2>1. CASE Begins
    <3>1. /\ IsParser(Mark(x, "url")) /\ Mark(x, "url").http_errno = "OK" /\ Mark(x, "url").again = FALSE
          /\ Mark(x, "url").marks = {"url"} /\ Mark(x, "url").flags = {} /\ Mark(x, "url").calls = x.calls
          /\ Mark(x, "url").content_length = x.content_length
      BY <1>1, <2>1 DEF Mark, IsParser, FieldNames
    <3>2. y = x \/ y = UrlByte(Mark(x, "url"), "s_req_server_start", t) \/
          y = UrlByte(Mark(x, "url"), x.state, t)
      BY <2>1 DEF ReqUrl
    <3>3. QED
      BY <2>1, <3>1, <3>2
  <2>2. CASE x.state \in {"s_req_schema", "s_req_schema_slash", "s_req_schema_slash_slash",
                          "s_req_server_start"}
    <3>1. y = Err(x, "INVALID_URL") \/ y = UrlByte(x, x.state, t)
      BY <2>2 DEF ReqUrl
    <3>2. Refused(Err(x, "INVALID_URL")) /\ Err(x, "INVALID_URL").calls = x.calls
      BY <1>1 DEF Err, Refused, IsParser, FieldNames
    <3>3. QED
      BY <1>1, <2>2, <3>1, <3>2
  <2>3. CASE x.state \notin {"s_req_schema", "s_req_schema_slash", "s_req_schema_slash_slash",
                             "s_req_server_start"}
             /\ ~ Begins
    <3>1. CASE t = SP
      <4>1. y = Data(Go(x, "s_req_http_start"), "url")
        BY <2>3, <3>1 DEF ReqUrl
      <4>2. QED
        BY <1>1, <2>3, <4>1 DEF Data, Call, Go, IsParser, FieldNames
    <3>2. CASE t # SP /\ t \in LineEnds
      <4>1. y = Data([LineEnd(x, t, "s_req_line_almost_done") EXCEPT !.http_major = 0, !.http_minor = 9],
                     "url")
        BY <2>3, <3>2 DEF ReqUrl
      <4>2. QED
        BY <1>1, <2>3, <4>1 DEF Data, Call, LineEnd, Go, IsParser, FieldNames
    <3>3. CASE t # SP /\ t \notin LineEnds
      <4>1. y = UrlByte(x, x.state, t)
        BY <2>3, <3>3 DEF ReqUrl
      <4>2. QED
        BY <1>1, <2>3, <4>1
    <3>4. QED
      BY <3>1, <3>2, <3>3
  <2>4. QED
    BY <2>1, <2>2, <2>3
<1>3. /\ UrlStates \cup Next \subseteq Calm
      /\ MarksAtStart("s_req_spaces_before_url") = {} /\ \A z \in Next : MarksAtStart(z) = {}
      /\ \A z \in UrlCollected : MarksAtStart(z) = {"url"}
  BY MarksTable DEF Calm, FirstLine, Beginnings, HttpStates, MarksAtStart, UrlStates, UrlCollected
<1>4. /\ Leads("s_req_spaces_before_url", {}) = {"message_begin"}
      /\ \A z \in UrlCollected : Leads(z, {}) = {"message_begin", "url"}
      /\ \A z \in Next : "url" \in Leads(z, {})
      /\ After("url") = {"message_begin", "url"} /\ "url" \in Callbacks
      /\ x.state \notin UrlCollected => Begins
  BY LeadsTable, AfterTable DEF Beginnings, Heads, HttpStates, UrlCollected
<1>5. ASSUME IsParser(y), y.http_errno = "OK", y.again = FALSE, y.marks = {"url"}, y.flags = {},
             y.content_length = x.content_length, y.state \in UrlCollected, y.calls = x.calls
      PROVE  Fine(x, y, last)
  <2>1. Good(y) /\ Climbs(x, y)
    BY <1>1, <1>3, <1>5, CalmGood DEF Climbs, UrlCollected
  <2>2. Leads(x.state, x.flags) \subseteq Leads(y.state, y.flags)
    BY <1>1, <1>4, <1>5
  <2>3. QED
    BY <1>5, <2>1, <2>2, KeptFine
<1>6. ASSUME NEW z, NEW n, Byte(z, n)
      PROVE  Fine(x, y, last)
  <2>1. \/ Refused(y) /\ y.calls = x.calls
        \/ /\ IsParser(y) /\ y.http_errno = "OK" /\ y.again = FALSE /\ y.marks = {"url"} /\ y.flags = {}
           /\ y.content_length = x.content_length /\ y.state \in UrlCollected /\ y.calls = x.calls
    <3>1. Going(z) /\ z.marks = {"url"} /\ y = UrlByte(z, n, t)
      BY <1>6 DEF Going
    <3>2. UrlKept(z, y)
      BY <3>1, UrlByteOf
    <3>3. QED
      BY <1>6, <3>2 DEF UrlKept, Going
  <2>2. QED
    BY <1>5, <2>1, RefusedFine
<1>7. CASE Begins /\ y = x
  <2>1. Good(y) /\ Climbs(x, y)
    BY <1>1, <1>3, <1>7, CalmGood DEF Climbs, UrlStates
  <2>2. QED
    BY <1>7, <2>1, KeptFine
<1>8. CASE /\ ~ Begins /\ IsParser(y) /\ y.http_errno = "OK" /\ y.again = FALSE /\ y.marks = {} /\
                y.flags = {}
           /\ y.content_length = x.content_length /\ y.state \in Next /\ y.calls = Append(x.calls, "url")
  <2>1. Good(y) /\ Climbs(x, y)
    BY <1>1, <1>3, <1>8, CalmGood DEF Climbs
  <2>2. QED
    BY <1>1, <1>4, <1>8, <2>1, CalledFine
<1>9. QED
  BY <1>2, <1>6, <1>7, <1>8, RefusedFine

\* What is between the url and the first header.
LEMMA ReqHttpTurn ==
  ASSUME NEW x, NEW last, NEW t, Ready(x), Ordered(x, last), Told(x, last),
         x.state \in {"s_req_http_start", "s_req_http_end", "s_req_line_almost_done",
                      "s_res_line_almost_done"}
  PROVE  Fine(x, ReqHttp(x, t), last)
<1> DEFINE y == ReqHttp(x, t)
           Req == {"s_req_http_start", "s_req_http_HT", "s_req_line_almost_done", "s_header_field_start"}
<1>1. /\ IsParser(x) /\ x.http_errno = "OK" /\ x.again = FALSE /\ x.flags = {}
      /\ x.content_length \in 0 .. ULLONG_MAX /\ x.marks = {}
  BY MarksTable DEF Ready, Sane, Measured, Marked, Flagged, FirstLine, HttpStates, Collecting, States,
     UrlCollected, UrlStates
<1>2. \/ Refused(y) /\ y.calls = x.calls
      \/ /\ IsParser(y) /\ y.http_errno = "OK" /\ y.again = FALSE /\ y.flags = {} /\ y.marks = {}
         /\ y.content_length = x.content_length /\ y.calls = x.calls
         /\ y.state \in Req /\ (x.state = "s_res_line_almost_done" => y.state = "s_header_field_start")
  BY <1>1 DEF ReqHttp, LineEnd, Go, Err, Refused, IsParser, FieldNames
<1>3. Req \subseteq Calm /\ \A z \in Req : MarksAtStart(z) = {}
  BY MarksTable DEF Calm, FirstLine, HttpStates, MarksAtStart, UrlStates
<1>4. /\ Leads("s_res_line_almost_done", {}) = {"message_begin", "status"}
      /\ \A z \in HttpStates : Leads(z, {}) = {"message_begin", "url"}
      /\ Leads("s_header_field_start", {}) = {"message_begin", "url", "status", "header_value"}
      /\ {"s_req_http_start", "s_req_http_HT", "s_req_line_almost_done",
          "s_req_http_end"} \subseteq HttpStates
  BY LeadsTable DEF Heads, HttpStates
<1>5. CASE Refused(y) /\ y.calls = x.calls
  BY <1>5, RefusedFine
<1>6. CASE ~ (Refused(y) /\ y.calls = x.calls)
  <2>1. Good(y) /\ Climbs(x, y)
    BY <1>1, <1>2, <1>3, <1>6, CalmGood DEF Climbs
  <2>2. Leads(x.state, x.flags) \subseteq Leads(y.state, y.flags)
    BY <1>1, <1>2, <1>4, <1>6
  <2>3. QED
    BY <1>2, <1>6, <2>1, <2>2, KeptFine
<1>7. QED
  BY <1>5, <1>6

-----------------------------------------------------------------------------
(* Turns: header fields. *)

\* The digits of a length.
LEMMA DigitOfRange == ASSUME NEW t PROVE DigitOf(t) \in 0 .. 4
BY DEF DigitOf

\* A parser that is in the middle of a header value.
LEMMA ValueGood ==
  ASSUME NEW x, Going(x), x.state = "s_header_value", x.marks = {"header_value"},
         x.content_length \in 0 .. ULLONG_MAX,
         x.header_state \notin {Name("connection"), Name("transfer-encoding")}
  PROVE  Good(x)
<1>1. x.state \in States /\ MarksAtStart(x.state) = {"header_value"}
  BY MarksTable DEF States, HeaderStates
<1>2. QED
  BY <1>1 DEF Going, Good, Sane, Marked, Measured, Flagged, Valued, ChunkSizes, ChunkDatas, FirstLine,
     Beginnings, VersionStates, StatusStates, UrlCollected, UrlStates, HttpStates

\* The header states that names and values are matched in.
LEMMA NamesAndValues ==
  ASSUME NEW w
  PROVE  /\ General \notin {Name("connection"), Name("transfer-encoding")}
         /\ Token \notin {Name("connection"), Name("transfer-encoding")}
         /\ TokenStart \notin {Name("connection"), Name("transfer-encoding")}
         /\ MatchingValue(w) \notin {Name("connection"), Name("transfer-encoding")}
         /\ Value(w) \notin {Name("connection"), Name("transfer-encoding")}
<1>1. General[1] # "h" /\ Token[1] # "h" /\ TokenStart[1] # "h" /\ MatchingValue(w)[1] # "h" /\
      Value(w)[1] # "h"
  BY DEF General, Token, TokenStart, MatchingValue, Value
<1>2. Name("connection")[1] = "h" /\ Name("transfer-encoding")[1] = "h"
  BY DEF Name
<1>3. QED
  BY <1>1, <1>2

\* The name of a header is none of the states of its value.
LEMMA NamesDiffer ==
  /\ Name("upgrade") # Name("transfer-encoding") /\ Name("upgrade") # Name("content-length")
  /\ Name("upgrade") # Name("connection") /\ Name("transfer-encoding") # Name("content-length")
  /\ Name("transfer-encoding") # Name("connection") /\ Name("content-length") # Name("connection")
  /\ \A w \in Names : Name(w) # TokenStart
<1>1. \A w, v : w # v => Name(w) # Name(v)
  BY DEF Name
<1>2. \A w : Name(w)[1] = "h" /\ TokenStart[1] # "h"
  BY DEF Name, TokenStart
<1>3. QED
  BY <1>1, <1>2

\* The values of Connection and of Transfer-Encoding differ.
LEMMA ValuesDiffer ==
  ASSUME NEW w, NEW v
  PROVE  /\ MatchingValue(w) # Value(v) /\ MatchingValue(w) # Token /\ MatchingValue(w) # TokenStart
         /\ Value(w) # Token /\ Value(w) # TokenStart /\ Token # TokenStart
         /\ w # v => MatchingValue(w) # MatchingValue(v) /\ Value(w) # Value(v)
<1>1. /\ MatchingValue(w)[1] = "h_matching_value" /\ Value(v)[1] = "h_value" /\ Value(w)[1] = "h_value"
      /\ TokenStart[1] = "h_matching_connection_token_start" /\ Token[1] = "h_matching_connection_token"
  BY DEF MatchingValue, Value, Token, TokenStart
<1>2. w # v => MatchingValue(w)[2] # MatchingValue(v)[2] /\ Value(w)[2] # Value(v)[2]
  BY DEF MatchingValue, Value
<1>3. QED
  BY <1>1, <1>2

\* A byte of a value never leads back to a header whose name alone is known.
LEMMA ValueStateOther ==
  ASSUME NEW h, NEW t
  PROVE  ValueState(h, t) \notin {Name("connection"), Name("transfer-encoding")}
<1>1. \E w : ValueState(h, t) \in {General, Token, TokenStart, MatchingValue(w), Value(w)}
  <2>1. CASE \E w \in ConnectionValues : h = MatchingValue(w)
    <3>1. PICK w \in ConnectionValues : h = MatchingValue(w)
      BY <2>1
    <3>2. h # MatchingValue("chunked")
      BY <3>1, ValuesDiffer DEF ConnectionValues
    <3>3. h # TokenStart /\ h # Token /\ h # Value("chunked") /\ h \notin {Value(v) : v \in ConnectionValues}
      BY <3>1, ValuesDiffer
    <3>4. ValueState(h, t) = IF t = <<h[2], 2>> THEN Value(h[2]) ELSE Token
      BY <3>1, <3>2, <3>3 DEF ValueState
    <3>5. QED
      BY <3>4
  <2>2. CASE h = MatchingValue("chunked")
    <3>1. h \notin {MatchingValue(w) : w \in ConnectionValues}
      BY <2>2, ValuesDiffer DEF ConnectionValues
    <3>2. h # TokenStart /\ h # Token /\ h # Value("chunked") /\ h \notin {Value(v) : v \in ConnectionValues}
      BY <2>2, ValuesDiffer
    <3>3. QED
      BY <2>2, <3>1, <3>2 DEF ValueState
  <2>3. CASE h = TokenStart
    <3>1. /\ h # Token /\ h # Value("chunked") /\ h # MatchingValue("chunked")
          /\ h \notin {Value(v) : v \in ConnectionValues} /\
               h \notin {MatchingValue(v) : v \in ConnectionValues}
      BY <2>3, ValuesDiffer
    <3>2. QED
      BY <2>3, <3>1 DEF ValueState
  <2>4. CASE h = Token
    <3>1. /\ h # TokenStart /\ h # Value("chunked") /\ h # MatchingValue("chunked")
          /\ h \notin {Value(v) : v \in ConnectionValues} /\
               h \notin {MatchingValue(v) : v \in ConnectionValues}
      BY <2>4, ValuesDiffer
    <3>2. QED
      BY <2>4, <3>1 DEF ValueState
  <2>5. CASE h = Value("chunked")
    <3>1. /\ h # TokenStart /\ h # Token /\ h # MatchingValue("chunked")
          /\ h \notin {Value(v) : v \in ConnectionValues} /\
               h \notin {MatchingValue(v) : v \in ConnectionValues}
      BY <2>5, ValuesDiffer DEF ConnectionValues
    <3>2. QED
      BY <2>5, <3>1 DEF ValueState
  <2>6. CASE \E w \in ConnectionValues : h = Value(w)
    <3>1. PICK w \in ConnectionValues : h = Value(w)
      BY <2>6
    <3>2. /\ h # TokenStart /\ h # Token /\ h # MatchingValue("chunked") /\ h # Value("chunked")
          /\ h \notin {MatchingValue(v) : v \in ConnectionValues}
      BY <3>1, ValuesDiffer DEF ConnectionValues
    <3>3. ValueState(h, t) = IF t = <<",">> THEN TokenStart ELSE IF t = SP THEN h ELSE Token
      BY <3>1, <3>2 DEF ValueState
    <3>4. QED
      BY <3>1, <3>3
  <2>7. QED
    BY <2>1, <2>2, <2>3, <2>4, <2>5, <2>6 DEF ValueState
<1>2. QED
  BY <1>1, NamesAndValues

\* The first byte of a header line.
LEMMA HeaderFieldStartTurn ==
  ASSUME NEW x, NEW last, NEW t, Ready(x), Ordered(x, last), Told(x, last), x.state = "s_header_field_start"
  PROVE  Fine(x, HeaderFieldStart(x, t), last)
<1> DEFINE y == HeaderFieldStart(x, t)
<1>1. Going(x) /\ x.marks = {} /\ x.content_length \in 0 .. ULLONG_MAX
  BY ReadyFacts, MarksTable DEF Going, Collecting, UrlCollected, UrlStates
<1>2. \/ Refused(y) /\ y.calls = x.calls
      \/ /\ IsParser(y) /\ y.http_errno = "OK" /\ y.flags = x.flags /\ y.content_length = x.content_length
         /\ y.calls = x.calls
         /\ \/ y.state = "s_headers_almost_done" /\ y.marks = {} /\ (y.again # FALSE => y.again = TRUE)
            \/ y.state = "s_header_field" /\ y.marks = {"header_field"} /\ y.again = FALSE
  BY <1>1 DEF HeaderFieldStart, Mark, Again, Go, Err, Refused, Going, IsParser, FieldNames
<1>3. /\ {"s_headers_almost_done", "s_header_field"} \subseteq Calm
      /\ {"s_headers_almost_done", "s_header_field"} \cap FirstLine = {}
      /\ MarksAtStart("s_headers_almost_done") = {} /\ MarksAtStart("s_header_field") = {"header_field"}
  BY MarksTable DEF Calm, MarksAtStart, FirstLine, Beginnings, VersionStates, StatusStates, UrlCollected,
                    UrlStates,
     HttpStates
<1>4. /\ Leads("s_header_field_start", x.flags) = Heads(x.flags)
      /\ Leads("s_headers_almost_done", x.flags) = Heads(x.flags)
      /\ Leads("s_header_field", x.flags) = Heads(x.flags) \cup {"header_field"}
  BY LeadsTable
<1>5. CASE Refused(y) /\ y.calls = x.calls
  BY <1>5, RefusedFine
<1>6. CASE ~ (Refused(y) /\ y.calls = x.calls)
  <2>1. Good(y)
    BY <1>1, <1>2, <1>3, <1>6, CalmGood
  <2>2. Climbs(x, y)
    BY <1>2, <1>6 DEF Climbs, First, Second, Third
  <2>3. Leads(x.state, x.flags) \subseteq Leads(y.state, y.flags)
    BY <1>2, <1>4, <1>6
  <2>4. QED
    BY <1>2, <1>6, <2>1, <2>2, <2>3, KeptFine
<1>7. QED
  BY <1>5, <1>6

\* The name of a header, up to the colon that on_header_field is called at.
LEMMA HeaderFieldTurn ==
  ASSUME NEW x, NEW last, NEW t, Ready(x), Ordered(x, last), Told(x, last), x.state = "s_header_field"
  PROVE  Fine(x, HeaderField(x, t), last)
<1> DEFINE y == HeaderField(x, t)
<1>1. Going(x) /\ x.marks = {"header_field"} /\ x.content_length \in 0 .. ULLONG_MAX
  BY ReadyFacts, MarksTable DEF Going, Collecting
<1>2. \/ Refused(y) /\ y.calls = x.calls
      \/ /\ Going(y) /\ y.flags = x.flags /\ y.content_length = x.content_length
         /\ \/ y.state = "s_header_field" /\ y.marks = {"header_field"} /\ y.calls = x.calls
            \/ y.state = "s_header_value_discard_ws" /\ y.marks = {} /\
                 y.calls = Append(x.calls, "header_field")
  BY <1>1 DEF HeaderField, Data, Call, Go, Err, Refused, Going, IsParser, FieldNames
<1>3. /\ {"s_header_value_discard_ws", "s_header_field"} \subseteq Calm
      /\ {"s_header_value_discard_ws", "s_header_field"} \cap FirstLine = {}
      /\ MarksAtStart("s_header_value_discard_ws") = {} /\ MarksAtStart("s_header_field") = {"header_field"}
  BY MarksTable DEF Calm, Discarding, MarksAtStart, FirstLine, Beginnings, VersionStates, StatusStates,
                    UrlCollected,
     UrlStates, HttpStates
<1>4. /\ Leads("s_header_field", x.flags) = Heads(x.flags) \cup {"header_field"}
      /\ "header_field" \in Leads("s_header_value_discard_ws", x.flags)
      /\ Heads(x.flags) \cup {"header_field"} \subseteq After("header_field")
      /\ "header_field" \in Callbacks
  BY LeadsTable, AfterTable DEF Heads, Discarding
<1>5. CASE Refused(y) /\ y.calls = x.calls
  BY <1>5, RefusedFine
<1>6. CASE ~ (Refused(y) /\ y.calls = x.calls)
  <2>1. Good(y) /\ Climbs(x, y)
    BY <1>1, <1>2, <1>3, <1>6, CalmGood DEF Climbs, Going
  <2>2. QED
    BY <1>2, <1>4, <1>6, <2>1, KeptFine, CalledFine
<1>7. QED
  BY <1>5, <1>6

\* The first byte of a header value.
LEMMA HeaderValueStartTurn ==
  ASSUME NEW x, NEW last, NEW t, Ready(x), Ordered(x, last), Told(x, last),
         x.state \in {"s_header_value_start", "s_header_value_discard_ws"}
  PROVE  Fine(x, HeaderValueStart(x, t), last)
<1> DEFINE y == HeaderValueStart(x, t)
           v == Mark(Go(x, "s_header_value"), "header_value")
           h == x.header_state
           Kept(z) == /\ Going(z) /\ z.calls = x.calls /\ z.state = "s_header_value"
                      /\ z.marks = {"header_value"} /\ z.content_length \in 0 .. ULLONG_MAX
           Start2 == Kept(y) /\ y.header_state \in {h, General, Token, MatchingValue("chunked"),
                                                    MatchingValue(t[1])}
<1>1. Going(x) /\ x.marks = {} /\ x.content_length \in 0 .. ULLONG_MAX
  BY ReadyFacts, MarksTable DEF Going, Collecting, UrlCollected, UrlStates
<1>2. /\ Kept(v) /\ v.header_state = h
      /\ Refused(Err(v, "INVALID_CONTENT_LENGTH")) /\ Err(v, "INVALID_CONTENT_LENGTH").calls = x.calls
      /\ Refused(Err(v, "UNEXPECTED_CONTENT_LENGTH")) /\ Err(v, "UNEXPECTED_CONTENT_LENGTH").calls = x.calls
  BY <1>1 DEF Mark, Go, Err, Refused, Going, IsParser, FieldNames
<1>3. DigitOf(t) \in 0 .. ULLONG_MAX
  BY DigitOfRange, ParserAssumption
<1>4. \/ Refused(y) /\ y.calls = x.calls
      \/ Kept(y) /\ y.header_state \notin {Name("connection"), Name("transfer-encoding")}
  <2>1. CASE h = Name("upgrade")
    <3>1. y = [v EXCEPT !.flags = @ \cup {"UPGRADE"}, !.header_state = General]
      BY <2>1, NamesDiffer DEF HeaderValueStart, Names
    <3>2. Kept(y) /\ y.header_state = General
      BY <3>1, <1>2 DEF Going, IsParser, FieldNames
    <3>3. QED
      BY <3>2, NamesAndValues
  <2>2. CASE h = Name("transfer-encoding")
    <3>1. y = [v EXCEPT !.header_state = IF t = <<"chunked", 1>> THEN MatchingValue("chunked") ELSE General]
      BY <2>2, NamesDiffer DEF HeaderValueStart, Names
    <3>2. Kept(y) /\ y.header_state \in {General, MatchingValue("chunked")}
      BY <3>1, <1>2 DEF Going, IsParser, FieldNames
    <3>3. QED
      BY <3>2, NamesAndValues
  <2>3. CASE h = Name("content-length")
    <3>1. \/ y = Err(v, "INVALID_CONTENT_LENGTH") \/ y = Err(v, "UNEXPECTED_CONTENT_LENGTH")
          \/ y = [v EXCEPT !.flags = @ \cup {"CONTENTLENGTH"}, !.content_length = DigitOf(t)]
      BY <2>3, NamesDiffer DEF HeaderValueStart, Names
    <3>2. CASE y = [v EXCEPT !.flags = @ \cup {"CONTENTLENGTH"}, !.content_length = DigitOf(t)]
      <4>1. Kept(y) /\ y.header_state = h
        BY <3>2, <1>2, <1>3 DEF Going, IsParser, FieldNames
      <4>2. h \notin {Name("connection"), Name("transfer-encoding")}
        BY <2>3 DEF Name
      <4>3. QED
        BY <4>1, <4>2
    <3>3. QED
      BY <3>1, <3>2, <1>2
  <2>4. CASE h = Name("connection")
    <3>1. y = [v EXCEPT !.header_state =
                 IF t \in {<<w, 1>> : w \in ConnectionValues} THEN MatchingValue(t[1]) ELSE Token]
      BY <2>4, NamesDiffer DEF HeaderValueStart, Names
    <3>2. Kept(y) /\ y.header_state \in {Token, MatchingValue(t[1])}
      BY <3>1, <1>2 DEF Going, IsParser, FieldNames
    <3>3. QED
      BY <3>2, NamesAndValues
  <2>5. CASE h \notin {Name("upgrade"), Name("transfer-encoding"), Name("content-length"), Name("connection")}
    <3>1. (y = v /\ h = TokenStart) \/ y = [v EXCEPT !.header_state = General]
      BY <2>5 DEF HeaderValueStart
    <3>2. Kept(y) /\ y.header_state \in {TokenStart, General}
      BY <3>1, <1>2 DEF Going, IsParser, FieldNames
    <3>3. QED
      BY <3>2, NamesAndValues
  <2>6. QED
    BY <2>1, <2>2, <2>3, <2>4, <2>5
<1>5. Leads(x.state, x.flags) \subseteq {"header_field", "header_value"}
  BY LeadsTable DEF Discarding
<1>6. CASE Kept(y) /\ y.header_state \notin {Name("connection"), Name("transfer-encoding")}
  <2>1. Good(y)
    BY <1>6, ValueGood
  <2>2. Climbs(x, y) /\ Leads(y.state, y.flags) = {"header_field", "header_value"}
    BY <1>6, LeadsTable DEF Climbs, Going
  <2>3. QED
    BY <1>5, <1>6, <2>1, <2>2, KeptFine
<1>7. QED
  BY <1>4, <1>6, RefusedFine

\* The blanks before a header value, and a value that is empty.
LEMMA DiscardBlanksTurn ==
  ASSUME NEW x, NEW last, NEW t, Ready(x), Ordered(x, last), Told(x, last), x.state \in Discarding
  PROVE  Fine(x, DiscardBlanks(x, t), last)
<1> DEFINE y == DiscardBlanks(x, t)
<1>1. Going(x) /\ x.marks = {} /\ x.content_length \in 0 .. ULLONG_MAX
  BY ReadyFacts, MarksTable DEF Going, Collecting, UrlCollected, UrlStates, Discarding
<1>2. \/ Refused(y) /\ y.calls = x.calls
      \/ x.state = "s_header_value_discard_ws" /\ y = HeaderValueStart(x, t)
      \/ /\ Going(y) /\ y.flags = x.flags /\ y.content_length = x.content_length /\ y.marks = {}
         /\ y.calls = x.calls /\ y.state \in Discarding
      \/ /\ IsParser(y) /\ y.http_errno = "OK" /\ y.content_length = x.content_length /\ y.marks = {}
         /\ y.calls = Append(x.calls, "header_value") /\ y.state = "s_header_field_start" /\ y.again = TRUE
         /\ x.state = "s_header_value_discard_lws"
  BY <1>1 DEF DiscardBlanks, Again, Call, Go, Err, Refused, Going, IsParser, FieldNames, Discarding
<1>3. /\ Discarding \cup {"s_header_field_start"} \subseteq Calm
      /\ (Discarding \cup {"s_header_field_start"}) \cap FirstLine = {}
      /\ \A z \in Discarding \cup {"s_header_field_start"} : MarksAtStart(z) = {}
  BY DEF Calm, Discarding, MarksAtStart, FirstLine, Beginnings, VersionStates, StatusStates, UrlCollected,
     UrlStates, HttpStates
<1>4. /\ \A z \in Discarding : \A flags : Leads(z, flags) = {"header_field"}
      /\ \A flags : "header_value" \in Leads("s_header_field_start", flags)
      /\ After("header_value") = {"header_field", "header_value"} /\ "header_value" \in Callbacks
  <2>1. ASSUME NEW flags
        PROVE  /\ \A z \in Discarding : Leads(z, flags) = {"header_field"}
               /\ "header_value" \in Leads("s_header_field_start", flags)
    BY LeadsTable DEF Heads
  <2>2. QED
    BY <2>1, AfterTable
<1>5. CASE x.state = "s_header_value_discard_ws" /\ y = HeaderValueStart(x, t)
  BY <1>5, HeaderValueStartTurn
<1>6. CASE /\ Going(y) /\ y.flags = x.flags /\ y.content_length = x.content_length /\ y.marks = {}
           /\ y.calls = x.calls /\ y.state \in Discarding
  <2>1. Good(y) /\ Climbs(x, y)
    BY <1>1, <1>3, <1>6, CalmGood DEF Climbs, Going
  <2>2. Leads(x.state, x.flags) \subseteq Leads(y.state, y.flags)
    <3>1. Leads(x.state, x.flags) = {"header_field"} /\ Leads(y.state, y.flags) = {"header_field"}
      BY <1>6, LeadsTable
    <3>2. QED
      BY <3>1
  <2>3. QED
    BY <1>6, <2>1, <2>2, KeptFine
<1>7. CASE /\ IsParser(y) /\ y.http_errno = "OK" /\ y.content_length = x.content_length /\ y.marks = {}
           /\ y.calls = Append(x.calls, "header_value") /\ y.state = "s_header_field_start" /\ y.again = TRUE
           /\ x.state = "s_header_value_discard_lws"
  <2>1. Good(y)
    BY <1>1, <1>3, <1>7, CalmGood
  <2>2. Climbs(x, y)
    BY <1>7 DEF Climbs, First, Second, Third
  <2>3. Leads(x.state, x.flags) \subseteq After("header_value") /\ "header_value" \in Leads(y.state, y.flags)
    <3>1. Leads(x.state, x.flags) = {"header_field"}
      BY LeadsTable
    <3>2. QED
      BY <1>4, <1>7, <3>1
  <2>4. QED
    BY <1>4, <1>7, <2>1, <2>2, <2>3, CalledFine
<1>8. QED
  BY <1>2, <1>5, <1>6, <1>7, RefusedFine

\* A header value, up to the line end that on_header_value is called at.
LEMMA HeaderValueTurn ==
  ASSUME NEW x, NEW last, NEW t, Ready(x), Ordered(x, last), Told(x, last), x.state = "s_header_value"
  PROVE  Fine(x, HeaderValue(x, t), last)
<1> DEFINE y == HeaderValue(x, t)
           h == x.header_state
           Ended == /\ Going(y) /\ y.content_length = x.content_length /\ y.marks = {}
                    /\ y.state \in {"s_header_almost_done", "s_header_value_lws"}
                    /\ y.calls = Append(x.calls, "header_value")
           Kept == /\ Going(y) /\ y.calls = x.calls /\ y.state = "s_header_value"
                   /\ y.marks = {"header_value"} /\ y.content_length \in 0 .. ULLONG_MAX
           Refuses == Refused(y) /\ y.calls = x.calls
<1>1. /\ Going(x) /\ x.marks = {"header_value"} /\ x.content_length \in 0 .. ULLONG_MAX
      /\ h \notin {Name("connection"), Name("transfer-encoding")}
  <2>1. h \notin {Name("connection"), Name("transfer-encoding")}
    BY DEF Ready, Sane, Valued
  <2>2. QED
    BY <2>1, ReadyFacts, MarksTable DEF Going, Collecting
<1>2. Ended \/ Refuses \/ (Kept /\ y.header_state \notin {Name("connection"), Name("transfer-encoding")})
  <2>1. CASE t = CR
    <3>1. y = [Data(Go(x, "s_header_almost_done"), "header_value") EXCEPT !.skim = FALSE]
      BY <2>1 DEF HeaderValue
    <3>2. QED
      BY <1>1, <3>1 DEF Data, Call, Go, Going, IsParser, FieldNames
  <2>2. CASE t = LF
    <3>1. y = [Data(Go(x, "s_header_value_lws"), "header_value") EXCEPT !.skim = FALSE]
      BY <2>2 DEF HeaderValue, CR, LF
    <3>2. QED
      BY <1>1, <3>1 DEF Data, Call, Go, Going, IsParser, FieldNames
  <2>3. CASE t \notin {CR, LF}
    <3> DEFINE z == [x EXCEPT !.content_length = @ * 10 + DigitOf(t)]
               w == [x EXCEPT !.header_state = ValueState(h, t), !.skim = h = General,
                              !.flags = IF t = <<",">> /\ h # Value("chunked") THEN @ \cup FlagOf(h) ELSE @]
    <3>1. \/ \E e \in {"INVALID_HEADER_TOKEN", "INVALID_CONTENT_LENGTH"} : y = Err(x, e)
          \/ y = x /\ h = Name("content-length")
          \/ y = z /\ h = Name("content-length") /\ ~ ((ULLONG_MAX - 10) \div 10 < x.content_length)
          \/ y = w
      <4>1. CASE t = <<"ctl">> /\ ~ x.skim
        <5>1. y = Err(x, "INVALID_HEADER_TOKEN")
          BY <2>3, <4>1 DEF HeaderValue
        <5>2. QED
          BY <5>1
      <4>2. CASE ~ (t = <<"ctl">> /\ ~ x.skim) /\ h = Name("content-length")
        BY <1>1, <2>3, <4>2, NamesDiffer DEF HeaderValue
      <4>3. CASE ~ (t = <<"ctl">> /\ ~ x.skim) /\ h # Name("content-length")
        BY <1>1, <2>3, <4>3 DEF HeaderValue
      <4>4. QED
        BY <4>1, <4>2, <4>3
    <3>2. ASSUME NEW e \in {"INVALID_HEADER_TOKEN", "INVALID_CONTENT_LENGTH"}, y = Err(x, e)
          PROVE  Refuses
      BY <1>1, <3>2 DEF Err, Refused, Going, IsParser, FieldNames
    <3>3. CASE y = x
      <4>1. Kept
        BY <1>1, <3>3
      <4>2. QED
        BY <1>1, <3>3, <4>1
    <3>4. CASE y = z /\ ~ ((ULLONG_MAX - 10) \div 10 < x.content_length)
      <4>1. \A c \in 0 .. ULLONG_MAX, d \in 0 .. 4 :
               ~ ((ULLONG_MAX - 10) \div 10 < c) => c * 10 + d \in 0 .. ULLONG_MAX
        BY ParserAssumption
      <4>2. x.content_length * 10 + DigitOf(t) \in 0 .. ULLONG_MAX
        BY <1>1, <3>4, <4>1, DigitOfRange
      <4>3. Going(y) /\ y.calls = x.calls /\ y.state = "s_header_value" /\ y.marks = {"header_value"}
            /\ y.content_length = x.content_length * 10 + DigitOf(t) /\ y.header_state = h
        BY <1>1, <3>4 DEF Going, IsParser, FieldNames
      <4>4. QED
        BY <1>1, <4>2, <4>3
    <3>5. CASE y = w
      <4>1. Kept /\ y.header_state = ValueState(h, t)
        BY <1>1, <3>5 DEF Going, IsParser, FieldNames
      <4>2. QED
        BY <4>1, ValueStateOther
    <3>6. QED
      BY <3>1, <3>2, <3>3, <3>4, <3>5
  <2>4. QED
    BY <2>1, <2>2, <2>3
<1>3. CASE Ended
  <2>1. /\ {"s_header_almost_done", "s_header_value_lws"} \subseteq Calm
        /\ {"s_header_almost_done", "s_header_value_lws"} \cap FirstLine = {}
        /\ \A z \in {"s_header_almost_done", "s_header_value_lws"} : MarksAtStart(z) = {}
    BY DEF Calm, MarksAtStart, FirstLine, Beginnings, VersionStates, StatusStates, UrlCollected,
       UrlStates, HttpStates
  <2>2. Good(y) /\ Climbs(x, y)
    BY <1>1, <1>3, <2>1, CalmGood DEF Climbs, Going
  <2>3. /\ Leads(x.state, x.flags) \subseteq After("header_value") /\ "header_value" \in Callbacks
        /\ "header_value" \in Leads(y.state, y.flags)
    BY <1>3, LeadsTable, AfterTable
  <2>4. QED
    BY <1>3, <2>2, <2>3, CalledFine
<1>4. CASE Kept /\ y.header_state \notin {Name("connection"), Name("transfer-encoding")}
  <2>1. Good(y) /\ Climbs(x, y)
    BY <1>4, ValueGood DEF Climbs, Going
  <2>2. Leads(x.state, x.flags) \subseteq Leads(y.state, y.flags)
    BY <1>4, LeadsTable
  <2>3. QED
    BY <1>4, <2>1, <2>2, KeptFine
<1>5. QED
  BY <1>2, <1>3, <1>4, RefusedFine

\* The end of a header line: the value goes on in the next line, or a header begins.
LEMMA HeaderLineEndTurn ==
  ASSUME NEW x, NEW last, NEW t, Ready(x), Ordered(x, last), Told(x, last),
         x.state \in {"s_header_almost_done", "s_header_value_lws"}
  PROVE  Fine(x, HeaderLineEnd(x, t), last)
<1> DEFINE y == HeaderLineEnd(x, t)
           Next == {"s_header_value_lws", "s_header_value_start", "s_header_field_start"}
<1>1. Going(x) /\ x.marks = {} /\ x.content_length \in 0 .. ULLONG_MAX
  BY ReadyFacts, MarksTable DEF Going, Collecting, UrlCollected, UrlStates
<1>2. \/ Refused(y) /\ y.calls = x.calls
      \/ /\ IsParser(y) /\ y.http_errno = "OK" /\ y.content_length = x.content_length /\ y.marks = {}
         /\ y.calls = x.calls
         /\ \/ y.state = "s_header_value_lws" /\ y.again = FALSE
            \/ y.state \in {"s_header_value_start", "s_header_field_start"} /\ y.again = TRUE
  BY <1>1 DEF HeaderLineEnd, Again, Go, Err, Refused, Going, IsParser, FieldNames
<1>3. Next \subseteq Calm /\ Next \cap FirstLine = {} /\ \A z \in Next : MarksAtStart(z) = {}
  BY DEF Calm, MarksAtStart, FirstLine, Beginnings, VersionStates, StatusStates, UrlCollected,
     UrlStates, HttpStates
<1>4. Leads(x.state, x.flags) = {"header_value"}
  BY LeadsTable
<1>5. CASE Refused(y) /\ y.calls = x.calls
  BY <1>5, RefusedFine
<1>6. CASE ~ (Refused(y) /\ y.calls = x.calls)
  <2>1. Good(y)
    BY <1>1, <1>2, <1>3, <1>6, CalmGood
  <2>2. Climbs(x, y)
    BY <1>2, <1>6 DEF Climbs, First, Second, Third
  <2>3. "header_value" \in Leads(y.state, y.flags)
    BY <1>2, <1>6, LeadsTable DEF Heads
  <2>4. QED
    BY <1>2, <1>4, <1>6, <2>1, <2>2, <2>3, KeptFine
<1>7. QED
  BY <1>5, <1>6

-----------------------------------------------------------------------------
(* Turns: the end of the headers, the body. *)

\* The message is complete, in a parser made from x.
Completes(x, y) ==
  /\ IsParser(y) /\ y.http_errno = "PAUSED" /\ y.again = FALSE /\ y.marks = {}
  /\ y.state \in {"s_dead", "s_start_req", "s_start_res"}
  /\ y.calls = Append(x.calls, "message_complete") /\ y.content_length \in 0 .. ULLONG_MAX

\* on_message_complete may be called where the message ends.
LEMMA CompletesFine ==
  ASSUME NEW x, NEW y, NEW last, Ordered(x, last), Told(x, last), Completes(x, y),
         Leads(x.state, x.flags) \subseteq After("message_complete")
  PROVE  Fine(x, y, last)
<1> DEFINE Next == {"s_dead", "s_start_req", "s_start_res"}
<1>1. Next \subseteq Calm /\ Next \cap FirstLine = {} /\ \A z \in Next : MarksAtStart(z) = {}
  BY DEF Calm, StartStates, MarksAtStart, FirstLine, Beginnings, VersionStates, StatusStates, UrlCollected,
     UrlStates, HttpStates
<1>2. Good(y) /\ Climbs(x, y)
  BY <1>1, CalmGood DEF Climbs, Completes
<1>3. "message_complete" \in Leads(y.state, y.flags) /\ "message_complete" \in Callbacks
  BY LeadsTable, AfterTable DEF Completes, StartStates
<1>4. QED
  BY <1>2, <1>3, CalledFine DEF Completes

\* The end of a message: a new one, or none when the connection is to close.
LEMMA MessageCompleteOf ==
  ASSUME NEW x, NEW z, Going(z), z.marks = {}, z.calls = x.calls, z.content_length \in 0 .. ULLONG_MAX
  PROVE  Completes(x, MessageComplete(z))
<1>1. NewMessage(z) \in {"s_dead", "s_start_req", "s_start_res"}
  BY DEF NewMessage
<1>2. QED
  BY <1>1 DEF MessageComplete, Call, Go, Completes, Going, IsParser, FieldNames

\* The states of a body that has a length.
BodyLike == ChunkSizes \cup ChunkDatas \cup {"s_chunk_size_start", "s_body_identity"}

\* A parser that is in a body.
LEMMA BodyGood ==
  ASSUME NEW x, IsParser(x), x.http_errno = "OK", x.state \in BodyLike, x.marks \subseteq {"body"},
         "body" \in x.marks => x.state \in Collecting, Measured(x),
         x.state # "s_body_identity" => "CHUNKED" \in x.flags,
         x.state = "s_chunk_size_start" => x.nread = 0
  PROVE  Good(x)
<1>1. /\ x.state \in States /\ MarksAtStart(x.state) = {} /\ x.state \notin FirstLine /\
           x.state # "s_header_value"
      /\ x.state \in ChunkSizes \cup ChunkDatas \cup {"s_chunk_size_start"} => x.state # "s_body_identity"
  BY DEF BodyLike, ChunkSizes, ChunkDatas, States, HeaderStates, BodyStates, MarksAtStart, FirstLine,
         Beginnings,
     VersionStates, StatusStates, UrlCollected, UrlStates, HttpStates
<1>2. QED
  BY <1>1 DEF Good, Sane, Marked, Flagged, Valued

\* The empty line after the headers: on_headers_complete, or the trailer has ended.
LEMMA HeadersAlmostDoneTurn ==
  ASSUME NEW x, NEW last, NEW t, NEW ret, Ready(x), Ordered(x, last), Told(x, last),
         x.state = "s_headers_almost_done"
  PROVE  Fine(x, HeadersAlmostDone(x, t, ret), last)
<1> DEFINE y == HeadersAlmostDone(x, t, ret)
           Next == {"s_message_done", "s_headers_done"}
           Goes(z, c) == y.state = z /\ y.calls = Append(x.calls, c)
<1>1. Going(x) /\ x.marks = {} /\ x.content_length \in 0 .. ULLONG_MAX
  BY ReadyFacts, MarksTable DEF Going, Collecting, UrlCollected, UrlStates
<1>2. \/ Refused(y) /\ y.calls = x.calls
      \/ /\ IsParser(y) /\ y.http_errno = "OK" /\ y.content_length = x.content_length /\ y.marks = {}
         /\ y.again = TRUE
         /\ \/ "TRAILING" \in x.flags /\ Goes("s_message_done", "chunk_complete")
            \/ "TRAILING" \notin x.flags /\ Goes("s_headers_done", "headers_complete")
  BY <1>1 DEF HeadersAlmostDone, Again, Call, Go, Err, Refused, Going, IsParser, FieldNames
<1>3. Next \subseteq Calm /\ Next \cap FirstLine = {} /\ \A z \in Next : MarksAtStart(z) = {}
  BY DEF Calm, MarksAtStart, FirstLine, Beginnings, VersionStates, StatusStates, UrlCollected,
     UrlStates, HttpStates
<1>4. /\ Leads(x.state, x.flags) = Heads(x.flags)
      /\ Leads("s_message_done", y.flags) = {"chunk_complete", "body"}
      /\ Leads("s_headers_done", y.flags) = {"headers_complete"}
      /\ "chunk_complete" \in Callbacks /\ "headers_complete" \in Callbacks
      /\ "TRAILING" \in x.flags => Heads(x.flags) \subseteq After("chunk_complete")
      /\ "TRAILING" \notin x.flags => Heads(x.flags) \subseteq After("headers_complete")
  BY LeadsTable, AfterTable DEF Heads
<1>5. CASE Refused(y) /\ y.calls = x.calls
  BY <1>5, RefusedFine
<1>6. CASE ~ (Refused(y) /\ y.calls = x.calls)
  <2>1. Good(y)
    BY <1>1, <1>2, <1>3, <1>6, CalmGood
  <2>2. Climbs(x, y)
    BY <1>2, <1>6 DEF Climbs, First, Second, Third
  <2>3. QED
    BY <1>2, <1>4, <1>6, <2>1, <2>2, CalledFine
<1>7. QED
  BY <1>5, <1>6

\* The choice of the body: none, chunks, a length, or up to the end of the connection.
LEMMA HeadersDoneTurn ==
  ASSUME NEW x, NEW last, Ready(x), Ordered(x, last), Told(x, last), x.state = "s_headers_done"
  PROVE  Fine(x, HeadersDone(x), last)
<1> DEFINE y == HeadersDone(x)
           z == [x EXCEPT !.nread = 0]
           Next == {"s_chunk_size_start", "s_body_identity", "s_body_identity_eof"}
<1>1. Going(x) /\ x.marks = {} /\ x.content_length \in 0 .. ULLONG_MAX
  BY ReadyFacts, MarksTable DEF Going, Collecting, UrlCollected, UrlStates
<1>2. Going(z) /\ z.marks = {} /\ z.content_length = x.content_length /\ z.calls = x.calls
      /\ z.flags = x.flags /\ z.nread = 0
  BY <1>1 DEF Going, IsParser, FieldNames
<1>3. \/ y = MessageComplete(z)
      \/ y = Go(z, "s_chunk_size_start") /\ "CHUNKED" \in x.flags
      \/ y = Go(z, "s_body_identity") /\ x.content_length \notin {0, ULLONG_MAX}
      \/ y = Go(z, "s_body_identity_eof")
  BY DEF HeadersDone
<1>4. /\ Leads(x.state, x.flags) = {"headers_complete"}
      /\ \A w \in Next : "headers_complete" \in Leads(w, x.flags)
      /\ "headers_complete" \in After("message_complete")
  BY LeadsTable, AfterTable
<1>5. CASE y = MessageComplete(z)
  BY <1>1, <1>2, <1>4, <1>5, MessageCompleteOf, CompletesFine
<1>6. ASSUME NEW w \in Next, y = Go(z, w), w = "s_chunk_size_start" => "CHUNKED" \in x.flags,
             w = "s_body_identity" => x.content_length \notin {0, ULLONG_MAX}
      PROVE  Fine(x, y, last)
  <2>1. /\ Going(y) /\ y.marks = {} /\ y.content_length = x.content_length /\ y.calls = x.calls
        /\ y.flags = x.flags /\ y.nread = 0 /\ y.state = w
    BY <1>2, <1>6 DEF Go, Going, IsParser, FieldNames
  <2>2. CASE w = "s_body_identity_eof"
    <3>1. w \in Calm /\ w \notin FirstLine /\ MarksAtStart(w) = {}
      BY <2>2 DEF Calm, MarksAtStart, FirstLine, Beginnings, VersionStates, StatusStates, UrlCollected,
         UrlStates, HttpStates
    <3>2. Good(y) /\ Climbs(x, y)
      BY <1>1, <2>1, <3>1, CalmGood DEF Going, Climbs
    <3>3. QED
      BY <1>4, <2>1, <3>2, KeptFine
  <2>3. CASE w # "s_body_identity_eof"
    <3>1. w \in BodyLike /\ w \notin ChunkSizes /\ w \notin {"s_chunk_data", "s_chunk_data_almost_done"}
      BY <1>6, <2>3 DEF BodyLike, ChunkSizes
    <3>2. Measured(y)
      BY <1>1, <1>6, <2>1, <2>3, <3>1 DEF Measured
    <3>3. Good(y) /\ Climbs(x, y)
      BY <1>6, <2>1, <2>3, <3>1, <3>2, BodyGood DEF Going, Climbs
    <3>4. QED
      BY <1>4, <2>1, <3>3, KeptFine
  <2>4. QED
    BY <2>2, <2>3
<1>7. QED
  BY <1>3, <1>5, <1>6

\* The size of a chunk: it neither overflows nor is the mark of no length.
LEMMA ChunkSizeTurn ==
  ASSUME NEW x, NEW last, NEW t, Ready(x), Ordered(x, last), Told(x, last), x.state \in ChunkSizes \cup
         {"s_chunk_size_start"}
  PROVE  Fine(x, ChunkSize(x, t), last)
<1> DEFINE y == ChunkSize(x, t)
           Refuses == Refused(y) /\ y.calls = x.calls
           Kept == /\ Going(y) /\ y.state \in ChunkSizes /\ y.marks = {} /\ y.calls = x.calls
                   /\ y.content_length \in 0 .. ULLONG_MAX - 1 /\ "CHUNKED" \in y.flags
           Size == /\ Going(y) /\ y.marks = {} /\ y.calls = Append(x.calls, "chunk_header")
                   /\ y.content_length = x.content_length /\ "CHUNKED" \in y.flags
                   /\ \/ y.state = "s_header_field_start" /\ "TRAILING" \in y.flags
                      \/ y.state = "s_chunk_data" /\ y.content_length # 0
<1>1. /\ Going(x) /\ x.marks = {} /\ x.content_length \in 0 .. ULLONG_MAX /\ "CHUNKED" \in x.flags
      /\ x.state = "s_chunk_size_start" => x.nread = 1
      /\ x.state \in ChunkSizes => x.content_length \in 0 .. ULLONG_MAX - 1
  <2>1. /\ x.state \notin Collecting /\ x.state \notin UrlCollected
        /\ x.state \notin {"s_header_field", "s_header_value", "s_res_status"}
    BY DEF Collecting, UrlCollected, UrlStates, ChunkSizes
  <2>2. /\ "CHUNKED" \in x.flags /\ (x.state = "s_chunk_size_start" => x.nread = 1)
        /\ x.state \in ChunkSizes => x.content_length # ULLONG_MAX
    BY DEF Ready, Sane, Flagged, Measured
  <2>3. x.content_length \in 0 .. ULLONG_MAX /\ x.content_length # ULLONG_MAX =>
        x.content_length \in 0 .. ULLONG_MAX - 1
    BY ParserAssumption
  <2>4. QED
    BY <2>1, <2>2, <2>3, ReadyFacts, MarksTable DEF Going
<1>2. Refuses \/ Kept \/ Size
  <2>1. CASE x.state = "s_chunk_size_start"
    <3>1. DigitOf(t) \in 0 .. ULLONG_MAX - 1
      BY DigitOfRange, ParserAssumption
    <3>2. QED
      BY <1>1, <2>1, <3>1 DEF ChunkSize, Go, Err, Refused, Going, IsParser, FieldNames, ChunkSizes
  <2>2. CASE x.state = "s_chunk_size"
    <3> DEFINE z == [x EXCEPT !.content_length = @ * 16 + DigitOf(t)]
    <3>1. \/ \E e \in {"INVALID_CHUNK_SIZE", "INVALID_CONTENT_LENGTH"} : y = Err(x, e)
          \/ \E w \in {"s_chunk_size_almost_done", "s_chunk_parameters"} : y = Go(x, w)
          \/ y = z /\ ~ ((ULLONG_MAX - 16) \div 16 < x.content_length)
      BY <2>2 DEF ChunkSize
    <3>2. CASE y = z /\ ~ ((ULLONG_MAX - 16) \div 16 < x.content_length)
      <4>1. \A c \in 0 .. ULLONG_MAX, d \in 0 .. 4 :
               ~ ((ULLONG_MAX - 16) \div 16 < c) => c * 16 + d \in 0 .. ULLONG_MAX - 1
        BY ParserAssumption
      <4>2. x.content_length * 16 + DigitOf(t) \in 0 .. ULLONG_MAX - 1
        BY <1>1, <3>2, <4>1, DigitOfRange
      <4>3. Going(y) /\ y.state \in ChunkSizes /\ y.marks = {} /\ y.calls = x.calls
            /\ y.content_length = x.content_length * 16 + DigitOf(t) /\ y.flags = x.flags
        BY <1>1, <2>2, <3>2 DEF Going, IsParser, FieldNames
      <4>4. QED
        BY <1>1, <4>2, <4>3
    <3>3. ASSUME NEW e \in {"INVALID_CHUNK_SIZE", "INVALID_CONTENT_LENGTH"}, y = Err(x, e)
          PROVE  Refuses
      BY <1>1, <3>3 DEF Err, Refused, Going, IsParser, FieldNames
    <3>4. ASSUME NEW w \in {"s_chunk_size_almost_done", "s_chunk_parameters"}, y = Go(x, w)
          PROVE  Kept
      BY <1>1, <2>2, <3>4 DEF Go, Going, IsParser, FieldNames, ChunkSizes
    <3>5. QED
      BY <3>1, <3>2, <3>3, <3>4
  <2>3. CASE x.state = "s_chunk_parameters"
    <3>1. y = Go(x, "s_chunk_size_almost_done") \/ y = x
      BY <2>3 DEF ChunkSize
    <3>2. CASE y = x
      BY <1>1, <2>3, <3>2
    <3>3. CASE y = Go(x, "s_chunk_size_almost_done")
      BY <1>1, <2>3, <3>3 DEF Go, Going, IsParser, FieldNames, ChunkSizes
    <3>4. QED
      BY <3>1, <3>2, <3>3
  <2>4. CASE x.state = "s_chunk_size_almost_done"
    BY <1>1, <2>4 DEF ChunkSize, Call, Go, Err, Refused, Going, IsParser, FieldNames
  <2>5. QED
    BY <2>1, <2>2, <2>3, <2>4 DEF ChunkSizes
<1>3. /\ Leads(x.state, x.flags) = {"headers_complete", "chunk_complete"}
      /\ \A z \in ChunkSizes : Leads(z, y.flags) = {"headers_complete", "chunk_complete"}
      /\ After("chunk_header") = {"headers_complete", "chunk_complete"} /\ "chunk_header" \in Callbacks
  <2>1. \A flags : \A z \in ChunkSizes \cup {"s_chunk_size_start"} : Leads(z, flags) =
        {"headers_complete", "chunk_complete"}
    BY LeadsTable
  <2>2. QED
    BY <2>1, AfterTable
<1>4. CASE Kept
  <2>1. y.state \in BodyLike /\ y.state \notin {"s_chunk_data", "s_chunk_data_almost_done",
                                                "s_chunk_size_start", "s_body_identity"}
    BY <1>4 DEF BodyLike, ChunkSizes
  <2>2. Measured(y)
    BY <1>4, <2>1, ParserAssumption DEF Measured
  <2>3. Good(y) /\ Climbs(x, y)
    BY <1>4, <2>1, <2>2, BodyGood DEF Going, Climbs
  <2>4. QED
    BY <1>3, <1>4, <2>3, KeptFine
<1>5. CASE Size
  <2>1. Climbs(x, y)
    BY <1>5 DEF Climbs, Going
  <2>2. "chunk_header" \in Leads(y.state, y.flags)
    BY <1>5, LeadsTable DEF Heads, ChunkDatas
  <2>3. Good(y)
    <3>1. CASE y.state = "s_header_field_start"
      <4>1. y.state \in Calm /\ y.state \notin FirstLine /\ MarksAtStart(y.state) = {}
        BY <3>1 DEF Calm, MarksAtStart, FirstLine, Beginnings, VersionStates, StatusStates, UrlCollected,
           UrlStates, HttpStates
      <4>2. QED
        BY <1>1, <1>5, <4>1, CalmGood DEF Going
    <3>2. CASE y.state = "s_chunk_data" /\ y.content_length # 0
      <4>1. y.content_length \in 0 .. ULLONG_MAX /\ y.content_length # ULLONG_MAX
        <5>1. x.state = "s_chunk_size_almost_done"
          BY <1>1, <1>5, <3>2 DEF ChunkSize, Call, Go, Err, Going, IsParser, FieldNames, ChunkSizes
        <5>2. QED
          BY <1>1, <1>5, <5>1, ParserAssumption DEF ChunkSizes
      <4>2. y.state \in BodyLike /\ y.state \notin ChunkSizes
        BY <3>2 DEF BodyLike, ChunkDatas, ChunkSizes
      <4>3. Measured(y)
        BY <3>2, <4>1, <4>2 DEF Measured
      <4>4. QED
        BY <1>5, <3>2, <4>2, <4>3, BodyGood DEF Going
    <3>3. QED
      BY <1>5, <3>1, <3>2
  <2>4. QED
    BY <1>3, <1>5, <2>1, <2>2, <2>3, CalledFine
<1>6. QED
  BY <1>2, <1>4, <1>5, RefusedFine

\* A byte of a body or of a chunk, and the last one of it.
LEMMA IdentityTurn ==
  ASSUME NEW x, NEW last, NEW t, Ready(x), Ordered(x, last), Told(x, last),
         x.state \in {"s_body_identity", "s_chunk_data"}
  PROVE  Fine(x, Body(x, t), last)
<1> DEFINE y == Body(x, t)
           z == Counted(x)
<1>1. /\ Going(x) /\ x.marks \subseteq {"body"} /\ x.content_length \in 1 .. ULLONG_MAX - 1
      /\ x.state = "s_chunk_data" => "CHUNKED" \in x.flags
  <2>1. MarksAtStart(x.state) = {}
    BY DEF MarksAtStart, UrlStates
  <2>2. x.content_length \in 0 .. ULLONG_MAX /\ x.content_length \notin {0, ULLONG_MAX}
    BY DEF Ready, Sane, Measured
  <2>3. \A c \in 0 .. ULLONG_MAX : c \notin {0, ULLONG_MAX} => c \in 1 .. ULLONG_MAX - 1
    BY ParserAssumption
  <2>4. QED
    BY <2>1, <2>2, <2>3 DEF Ready, Sane, Marked, Flagged, Going, ChunkDatas
<1>2. /\ Going(z) /\ z.marks = {"body"} /\ z.content_length = x.content_length - 1 /\ z.calls = x.calls
      /\ z.flags = x.flags /\ z.state = x.state
  BY <1>1 DEF Counted, Mark, Going, IsParser, FieldNames
<1>3. x.content_length - 1 \in 0 .. ULLONG_MAX - 2 /\ x.content_length \notin {0, ULLONG_MAX}
      /\ (x.content_length - 1 = 0 <=> x.content_length = 1)
  BY <1>1, ParserAssumption
<1>4. /\ Leads("s_body_identity", x.flags) = {"headers_complete", "body"}
      /\ Leads("s_chunk_data", x.flags) = {"chunk_header", "body"}
      /\ Leads("s_chunk_data_almost_done", x.flags) = {"chunk_header", "body"}
      /\ "body" \in Leads("s_message_done", y.flags) /\ "body" \in Callbacks
      /\ {"headers_complete", "body"} \subseteq After("body")
  BY LeadsTable, AfterTable DEF ChunkDatas
<1>5. CASE x.content_length # 1
  <2>1. y = z
    BY <1>3, <1>5 DEF Body, BodyByte
  <2>2. x.content_length - 1 \notin {0, ULLONG_MAX} /\ x.content_length - 1 \in 0 .. ULLONG_MAX
    BY <1>3, <1>5, ParserAssumption
  <2>3. y.state \in BodyLike /\ y.state \in Collecting /\ y.state \notin ChunkSizes
    BY <1>2, <2>1 DEF BodyLike, ChunkDatas, Collecting, ChunkSizes
  <2>4. Measured(y)
    BY <1>2, <2>1, <2>2, <2>3 DEF Measured
  <2>5. Good(y) /\ Climbs(x, y)
    BY <1>1, <1>2, <2>1, <2>3, <2>4, BodyGood DEF Going, Climbs
  <2>6. QED
    BY <1>2, <2>1, <2>5, KeptFine
<1>6. CASE x.content_length = 1 /\ x.state = "s_chunk_data"
  <2>1. y = Go(z, "s_chunk_data_almost_done")
    BY <1>3, <1>6 DEF Body, BodyByte, ChunkEnds
  <2>2. /\ Going(y) /\ y.marks = {"body"} /\ y.content_length = 0 /\ y.calls = x.calls
        /\ y.flags = x.flags /\ y.state = "s_chunk_data_almost_done"
    BY <1>2, <1>6, <2>1 DEF Go, Going, IsParser, FieldNames
  <2>3. y.state \in BodyLike /\ y.state \in Collecting /\ y.state \notin ChunkSizes
    BY <2>2 DEF BodyLike, ChunkDatas, Collecting, ChunkSizes
  <2>4. Measured(y)
    BY <2>2, <2>3, ParserAssumption DEF Measured
  <2>5. Good(y) /\ Climbs(x, y)
    BY <1>1, <1>6, <2>2, <2>3, <2>4, BodyGood DEF Going, Climbs
  <2>6. QED
    BY <1>4, <1>6, <2>2, <2>5, KeptFine
<1>7. CASE x.content_length = 1 /\ x.state = "s_body_identity"
  <2>1. y = Again(Data(Go(z, "s_message_done"), "body"))
    BY <1>3, <1>7 DEF Body, BodyByte, IdentityEnds
  <2>2. /\ IsParser(y) /\ y.http_errno = "OK" /\ y.again = TRUE /\ y.marks = {} /\ y.content_length = 0
        /\ y.calls = Append(x.calls, "body") /\ y.state = "s_message_done"
    BY <1>2, <1>7, <2>1 DEF Again, Data, Call, Go, Going, IsParser, FieldNames
  <2>3. y.state \in Calm /\ y.state \notin FirstLine /\ MarksAtStart(y.state) = {}
    BY <2>2 DEF Calm, MarksAtStart, FirstLine, Beginnings, VersionStates, StatusStates, UrlCollected,
       UrlStates, HttpStates
  <2>4. Good(y)
    <3>1. y.content_length \in 0 .. ULLONG_MAX
      BY <2>2, ParserAssumption
    <3>2. QED
      BY <2>2, <2>3, <3>1, CalmGood
  <2>5. Climbs(x, y)
    BY <1>7, <2>2 DEF Climbs, First, Second, Third
  <2>6. QED
    BY <1>4, <1>7, <2>2, <2>4, <2>5, CalledFine
<1>8. QED
  BY <1>5, <1>6, <1>7

\* The states of a body.
LEMMA BodyTurn ==
  ASSUME NEW x, NEW last, NEW t, Ready(x), Ordered(x, last), Told(x, last), x.state \in BodyStates
  PROVE  Fine(x, Body(x, t), last)
<1> DEFINE y == Body(x, t)
<1>1. Going(x) /\ x.content_length \in 0 .. ULLONG_MAX /\ x.marks \subseteq {"body"}
  <2>1. MarksAtStart(x.state) = {}
    BY DEF MarksAtStart, UrlStates, BodyStates
  <2>2. QED
    BY <2>1 DEF Ready, Sane, Measured, Marked, Going
<1>2. CASE x.state \in {"s_body_identity", "s_chunk_data"}
  BY <1>2, IdentityTurn
<1>3. CASE x.state = "s_body_identity_eof"
  <2>1. y = Mark(x, "body")
    BY <1>3 DEF Body
  <2>2. /\ Going(y) /\ y.marks = {"body"} /\ y.content_length = x.content_length /\ y.calls = x.calls
        /\ y.flags = x.flags /\ y.state = "s_body_identity_eof"
    BY <1>1, <1>3, <2>1 DEF Mark, Going, IsParser, FieldNames
  <2>3. /\ y.state \in Collecting /\ y.state \in States /\ y.state \notin FirstLine /\
             MarksAtStart(y.state) = {}
        /\ y.state \notin ChunkSizes \cup ChunkDatas \cup
             {"s_chunk_size_start", "s_body_identity", "s_header_value"}
    BY <2>2 DEF Collecting, MarksAtStart, FirstLine, Beginnings, VersionStates, StatusStates, UrlCollected,
       UrlStates, HttpStates, States, BodyStates, ChunkSizes, ChunkDatas
  <2>4. Good(y)
    BY <1>1, <2>2, <2>3 DEF Good, Sane, Marked, Measured, Flagged, Valued, Going, ChunkDatas
  <2>5. Climbs(x, y)
    BY <2>2 DEF Climbs, Going
  <2>6. QED
    BY <1>3, <2>2, <2>4, <2>5, KeptFine
<1>4. CASE x.state = "s_message_done"
  <2>1. y = MessageComplete(x) /\ x.marks = {}
    BY <1>1, <1>4 DEF Body, Ready, Sane, Marked, Collecting
  <2>2. Leads(x.state, x.flags) \subseteq After("message_complete")
    BY <1>4, LeadsTable, AfterTable
  <2>3. QED
    BY <1>1, <2>1, <2>2, MessageCompleteOf, CompletesFine
<1>5. CASE x.state = "s_chunk_data_almost_done"
  <2>1. x.content_length = 0 /\ "CHUNKED" \in x.flags
    BY <1>5 DEF Ready, Sane, Measured, Flagged, ChunkDatas
  <2>2. \/ Refused(y) /\ y.calls = x.calls
        \/ /\ Going(y) /\ y.marks = {} /\ y.content_length = 0 /\ y.flags = x.flags /\
                y.state = "s_chunk_data_done"
           /\ y.calls = x.calls \/ y.calls = Append(x.calls, "body")
    BY <1>1, <1>5, <2>1 DEF Body, Data, Call, Go, Err, Refused, Going, IsParser, FieldNames
  <2>3. CASE Refused(y) /\ y.calls = x.calls
    BY <2>3, RefusedFine
  <2>4. CASE ~ (Refused(y) /\ y.calls = x.calls)
    <3>1. y.state \in BodyLike /\ y.state \notin ChunkSizes
      BY <2>2, <2>4 DEF BodyLike, ChunkDatas, ChunkSizes
    <3>2. Measured(y)
      BY <2>2, <2>4, <3>1, ParserAssumption DEF Measured
    <3>3. Good(y) /\ Climbs(x, y)
      BY <2>1, <2>2, <2>4, <3>1, <3>2, BodyGood DEF Going, Climbs
    <3>4. /\ Leads(x.state, x.flags) = {"chunk_header", "body"} /\ "body" \in Callbacks
          /\ {"chunk_header", "body"} \subseteq After("body")
      BY <1>5, LeadsTable, AfterTable DEF ChunkDatas
    <3>5. Leads(y.state, y.flags) = {"chunk_header", "body"}
      BY <2>2, <2>4, LeadsTable DEF ChunkDatas
    <3>6. QED
      BY <2>2, <2>4, <3>3, <3>4, <3>5, KeptFine, CalledFine
  <2>5. QED
    BY <2>3, <2>4
<1>6. CASE x.state = "s_chunk_data_done"
  <2>1. "CHUNKED" \in x.flags /\ x.marks = {}
    BY <1>1, <1>6 DEF Ready, Sane, Flagged, ChunkDatas, Marked, Collecting
  <2>2. \/ Refused(y) /\ y.calls = x.calls
        \/ /\ Going(y) /\ y.marks = {} /\ y.content_length = x.content_length /\ y.flags = x.flags
           /\ y.state = "s_chunk_size_start" /\ y.nread = 0 /\ y.calls = Append(x.calls, "chunk_complete")
    BY <1>1, <1>6, <2>1 DEF Body, Call, Go, Err, Refused, Going, IsParser, FieldNames
  <2>3. CASE Refused(y) /\ y.calls = x.calls
    BY <2>3, RefusedFine
  <2>4. CASE ~ (Refused(y) /\ y.calls = x.calls)
    <3>1. y.state \in BodyLike /\ y.state \notin ChunkSizes
      BY <2>2, <2>4 DEF BodyLike, ChunkDatas, ChunkSizes
    <3>2. Measured(y)
      BY <1>1, <2>2, <2>4, <3>1, ParserAssumption DEF Measured
    <3>3. Good(y) /\ Climbs(x, y)
      BY <2>1, <2>2, <2>4, <3>1, <3>2, BodyGood DEF Going, Climbs
    <3>4. /\ Leads(x.state, x.flags) \subseteq After("chunk_complete") /\ "chunk_complete" \in Callbacks
      BY <1>6, LeadsTable, AfterTable DEF ChunkDatas
    <3>5. "chunk_complete" \in Leads(y.state, y.flags)
      <4>1. Leads("s_chunk_size_start", y.flags) = {"headers_complete", "chunk_complete"}
        BY LeadsTable
      <4>2. QED
        BY <2>2, <2>4, <4>1
    <3>6. QED
      BY <2>2, <2>4, <3>3, <3>4, <3>5, CalledFine
  <2>5. QED
    BY <2>3, <2>4
<1>7. QED
  BY <1>2, <1>3, <1>4, <1>5, <1>6 DEF BodyStates

\* A byte after the last message of a connection that is to close.
LEMMA DeadTurn ==
  ASSUME NEW x, NEW last, NEW t, Ready(x), Ordered(x, last), Told(x, last), x.state = "s_dead"
  PROVE  Fine(x, x, last) /\ Fine(x, Err(x, "CLOSED_CONNECTION"), last)
<1>1. Going(x) /\ x.marks = {} /\ x.content_length \in 0 .. ULLONG_MAX
  BY ReadyFacts, MarksTable DEF Going, Collecting, UrlCollected, UrlStates
<1>2. x.state \in Calm /\ x.state \notin FirstLine /\ MarksAtStart(x.state) = {}
  BY DEF Calm, MarksAtStart, FirstLine, Beginnings, VersionStates, StatusStates, UrlCollected,
     UrlStates, HttpStates
<1>3. Good(x) /\ Climbs(x, x)
  BY <1>1, <1>2, CalmGood DEF Going, Climbs
<1>4. Refused(Err(x, "CLOSED_CONNECTION")) /\ Err(x, "CLOSED_CONNECTION").calls = x.calls
  BY <1>1 DEF Err, Refused, Going, IsParser, FieldNames
<1>5. QED
  BY <1>3, <1>4, KeptFine, RefusedFine

-----------------------------------------------------------------------------
(* Every turn. *)

\* The code of each state: the cases of the switch of http_parser_execute.
LEMMA TurnOf ==
  ASSUME NEW x, NEW t, NEW ret, x.state \in States
  PROVE  \/ x.state = "s_dead" /\ Turn(x, t, ret) \in {x, Err(x, "CLOSED_CONNECTION")}
         \/ x.state = "s_start_req_or_res" /\ Turn(x, t, ret) = StartReqOrRes(x, t)
         \/ x.state = "s_start_req" /\ Turn(x, t, ret) = StartReq(x, t)
         \/ x.state = "s_start_res" /\ Turn(x, t, ret) = StartRes(x, t)
         \/ x.state \in VersionStates /\ Turn(x, t, ret) = ResVersion(x, t)
         \/ x.state \in StatusStates \cup {"s_res_status"} /\ Turn(x, t, ret) = ResStatus(x, t)
         \/ x.state = "s_req_method" /\ Turn(x, t, ret) = ReqMethod(x, t)
         \/ x.state \in UrlStates /\ Turn(x, t, ret) = ReqUrl(x, t)
         \/ /\ x.state \in {"s_req_http_start", "s_req_http_end", "s_req_line_almost_done",
                            "s_res_line_almost_done"}
            /\ Turn(x, t, ret) = ReqHttp(x, t)
         \/ /\ x.state \in HttpStates \ {"s_req_http_start", "s_req_http_end", "s_req_line_almost_done"}
            /\ Turn(x, t, ret) = ReqVersion(x, t)
         \/ x.state = "s_header_field_start" /\ Turn(x, t, ret) = HeaderFieldStart(x, t)
         \/ x.state = "s_header_field" /\ Turn(x, t, ret) = HeaderField(x, t)
         \/ x.state \in Discarding /\ Turn(x, t, ret) = DiscardBlanks(x, t)
         \/ x.state = "s_header_value_start" /\ Turn(x, t, ret) = HeaderValueStart(x, t)
         \/ x.state = "s_header_value" /\ Turn(x, t, ret) = HeaderValue(x, t)
         \/ x.state \in {"s_header_almost_done", "s_header_value_lws"} /\
              Turn(x, t, ret) = HeaderLineEnd(x, t)
         \/ x.state = "s_headers_almost_done" /\ Turn(x, t, ret) = HeadersAlmostDone(x, t, ret)
         \/ x.state \in ChunkSizes \cup {"s_chunk_size_start"} /\ Turn(x, t, ret) = ChunkSize(x, t)
         \/ x.state = "s_headers_done" /\ Turn(x, t, ret) = HeadersDone(x)
         \/ x.state \in BodyStates /\ Turn(x, t, ret) = Body(x, t)
<1>1. /\ States = HeaderStates \cup BodyStates /\ HeaderStates \cap BodyStates = {}
      /\ BodyStates = {"s_chunk_data", "s_chunk_data_almost_done", "s_chunk_data_done",
                       "s_body_identity", "s_body_identity_eof", "s_message_done"}
      /\ UrlStates \subseteq HeaderStates
  BY DEF States, HeaderStates, BodyStates, UrlStates
<1>2. CASE x.state \in UrlStates
  <2>1. x.state \notin HeaderStates \ UrlStates /\ x.state \notin BodyStates
    BY <1>1, <1>2
  <2>2. QED
    BY <1>2 DEF Turn, UrlStates, BodyStates
<1>3. CASE x.state \in BodyStates
  BY <1>3 DEF Turn, UrlStates, BodyStates
<1>4. CASE x.state \in HeaderStates \ UrlStates
  <2> DEFINE Rest == {"s_header_almost_done", "s_header_value_lws", "s_headers_almost_done", "s_headers_done"}
             Line == {"s_res_status", "s_res_line_almost_done", "s_req_method"}
             Alone == {"s_header_field_start", "s_header_field", "s_header_value_start", "s_header_value"}
  <2>1. HeaderStates \ UrlStates = {"s_dead"} \cup StartStates \cup VersionStates \cup StatusStates \cup Line
          \cup HttpStates \cup Alone \cup Discarding \cup Rest \cup ChunkSizes \cup {"s_chunk_size_start"}
    BY DEF HeaderStates, UrlStates, StartStates, VersionStates, StatusStates, HttpStates, Discarding,
           ChunkSizes
  <2>2. CASE x.state \in {"s_dead"} \cup StartStates
    <3>1. CASE x.state = "s_dead"
      BY <3>1 DEF Turn, UrlStates, BodyStates
    <3>2. CASE x.state \in StartStates
      BY <3>2 DEF Turn, UrlStates, BodyStates, StartStates
    <3>3. QED
      BY <2>2, <3>1, <3>2
  <2>3. CASE x.state \in VersionStates \cup StatusStates
    BY <2>3 DEF Turn, UrlStates, BodyStates, VersionStates, StatusStates
  <2>4. CASE x.state \in Line
    BY <2>4 DEF Turn, UrlStates, BodyStates
  <2>5. CASE x.state \in HttpStates
    BY <2>5 DEF Turn, UrlStates, BodyStates, HttpStates
  <2>6. CASE x.state \in Alone
    BY <2>6 DEF Turn, UrlStates, BodyStates
  <2>7. CASE x.state \in Discarding
    BY <2>7 DEF Turn, UrlStates, BodyStates, Discarding
  <2>8. CASE x.state \in Rest
    BY <2>8 DEF Turn, UrlStates, BodyStates
  <2>9. CASE x.state \in ChunkSizes \cup {"s_chunk_size_start"}
    BY <2>9 DEF Turn, UrlStates, BodyStates, ChunkSizes
  <2>10. QED
    BY <1>4, <2>1, <2>2, <2>3, <2>4, <2>5, <2>6, <2>7, <2>8, <2>9
<1>5. QED
  BY <1>1, <1>2, <1>3, <1>4

\* Every turn leaves the parser as it should be, with its callbacks in order.
LEMMA TurnFine ==
  ASSUME NEW x, NEW last, NEW t, NEW ret, Ready(x), Ordered(x, last), Told(x, last)
  PROVE  Fine(x, Turn(x, t, ret), last)
<1>1. x.state \in States
  BY DEF Ready, Sane
<1>2. QED
  BY <1>1, TurnOf, DeadTurn, StartReqTurn, StartResTurn, ReqMethodTurn, VersionTurn, ResStatusTurn,
     ReqUrlTurn,
     ReqHttpTurn, HeaderFieldStartTurn, HeaderFieldTurn, DiscardBlanksTurn, HeaderValueStartTurn,
     HeaderValueTurn,
     HeaderLineEndTurn, HeadersAlmostDoneTurn, HeadersDoneTurn, ChunkSizeTurn, BodyTurn

\* What a number of turns leads to: a `goto reexecute' only to a state of S.
Lands(x, last, S) ==
  /\ Good(x) /\ Ordered(x, last)
  /\ x.http_errno \in {"OK", "PAUSED"} => Told(x, last)
  /\ x.again # FALSE => x.http_errno = "OK" /\ x.again = TRUE /\ x.state \in S

\* Where a `goto reexecute' leads, the code of the state may begin.
LEMMA AgainReady ==
  ASSUME NEW x, NEW last, Lands(x, last, First), x.again # FALSE
  PROVE  LET z == [x EXCEPT !.again = FALSE]
         IN  /\ x.again = TRUE /\ Ready(z) /\ Ordered(z, last) /\ Told(z, last) /\ z.state = x.state
<1> DEFINE z == [x EXCEPT !.again = FALSE]
<1>1. /\ x.again = TRUE /\ x.http_errno = "OK" /\ x.state \in First /\ Sane(x)
      /\ Ordered(x, last) /\ Told(x, last)
      /\ IsParser(x)
  BY DEF Lands, Good, Refused, Sane
<1>2. /\ IsParser(z) /\ z.again = FALSE /\ z.http_errno = "OK" /\ z.state = x.state /\ z.marks = x.marks
      /\ z.content_length = x.content_length /\ z.flags = x.flags /\ z.header_state = x.header_state
      /\ z.calls = x.calls
  BY <1>1 DEF IsParser, FieldNames
<1>3. x.state # "s_chunk_size_start"
  BY <1>1 DEF First, Second, Third
<1>4. Sane(z)
  BY <1>1, <1>2 DEF Sane, Marked, Measured, Flagged, Valued
<1>5. Ready(z) /\ Ordered(z, last) /\ Told(z, last)
  BY <1>1, <1>2, <1>3, <1>4 DEF Ready, Ordered, Told
<1>6. QED
  BY <1>1, <1>2, <1>5

\* Each `goto reexecute' leads further on, and after the third there is none.
LEMMA ReexecuteLands ==
  ASSUME NEW x, NEW last, NEW t, NEW ret
  PROVE  /\ Lands(x, last, First) => Lands(Reexecute(x, t, ret), last, Second)
         /\ Lands(x, last, Second) => Lands(Reexecute(x, t, ret), last, Third)
         /\ Lands(x, last, Third) => Lands(Reexecute(x, t, ret), last, {})
<1> DEFINE z == [x EXCEPT !.again = FALSE]
           y == Turn(z, t, ret)
<1>1. CASE x.again = FALSE
  <2>1. Reexecute(x, t, ret) = x
    BY <1>1 DEF Reexecute
  <2>2. QED
    BY <1>1, <2>1 DEF Lands
<1>2. CASE x.again # FALSE
  <2>1. SUFFICES ASSUME Lands(x, last, First)
                 PROVE  /\ Lands(Reexecute(x, t, ret), last, Second)
                        /\ x.state \in Second => Lands(Reexecute(x, t, ret), last, Third)
                        /\ x.state \in Third => Lands(Reexecute(x, t, ret), last, {})
    <3>1. Second \subseteq First /\ Third \subseteq First
      BY DEF First, Second
    <3>2. QED
      BY <1>2, <2>1, <3>1 DEF Lands
  <2>2. x.again = TRUE /\ Ready(z) /\ Ordered(z, last) /\ Told(z, last) /\ z.state = x.state
    BY <1>2, <2>1, AgainReady
  <2>3. Reexecute(x, t, ret) = y
    BY <2>2 DEF Reexecute
  <2>4. Fine(z, y, last)
    BY <2>2, TurnFine
  <2>5. x.state \in First
    BY <1>2, <2>1 DEF Lands
  <2>6. /\ Good(y) /\ Ordered(y, last) /\ (y.http_errno \in {"OK", "PAUSED"} => Told(y, last))
        /\ y.again # FALSE =>
             /\ y.http_errno = "OK" /\ y.again = TRUE /\ y.state \in Second /\ x.state \notin Third
             /\ x.state \in Second => y.state \in Third
    BY <2>2, <2>4, <2>5 DEF Fine, Climbs
  <2>7. QED
    BY <2>3, <2>6 DEF Lands
<1>3. QED
  BY <1>1, <1>2

\* A parser between two turns of the loop.
Rests(x, last) ==
  /\ Good(x) /\ x.again = FALSE /\ Ordered(x, last)
  /\ x.http_errno \in {"OK", "PAUSED"} => Told(x, last)

\* The counting of the byte makes a parser ready for its turn.
LEMMA BegunReady ==
  ASSUME NEW x, NEW last, Rests(x, last), x.http_errno = "OK"
  PROVE  /\ Ready(Begun(x)) /\ Ordered(Begun(x), Latest(x.calls, last))
         /\ Told(Begun(x), Latest(x.calls, last))
<1> DEFINE z == Begun(x)
<1>1. Sane(x) /\ x.again = FALSE /\ Told(x, last) /\ IsParser(x) /\
      (x.state = "s_chunk_size_start" => x.nread = 0)
  BY DEF Rests, Good, Refused, Sane
<1>2. /\ IsParser(z) /\ z.again = FALSE /\ z.http_errno = "OK" /\ z.state = x.state /\ z.marks = x.marks
      /\ z.content_length = x.content_length /\ z.flags = x.flags /\ z.header_state = x.header_state
      /\ z.calls = <<>> /\ z.nread = IF x.state \in HeaderStates /\ x.nread < 2 THEN x.nread + 1 ELSE x.nread
  BY <1>1 DEF Begun, IsParser, FieldNames
<1>3. "s_chunk_size_start" \in HeaderStates
  BY DEF HeaderStates
<1>4. x.state = "s_chunk_size_start" => z.nread = 1
  BY <1>1, <1>2, <1>3
<1>5. Sane(z)
  BY <1>1, <1>2 DEF Sane, Marked, Measured, Flagged, Valued
<1>6. Ordered(z, Latest(x.calls, last)) /\ Told(z, Latest(x.calls, last))
  BY <1>1, <1>2 DEF Ordered, InOrder, Told, Latest
<1>7. QED
  BY <1>2, <1>4, <1>5, <1>6 DEF Ready

\* A byte, with every `goto reexecute' it brings, ends between two turns.
LEMMA StepRests ==
  ASSUME NEW x, NEW last, NEW t, NEW ret, Rests(x, last), x.http_errno = "OK"
  PROVE  Rests(Step(x, t, ret), Latest(x.calls, last))
<1> DEFINE l == Latest(x.calls, last)
           r1 == Turn(Begun(x), t, ret)
           r2 == Reexecute(r1, t, ret)
           r3 == Reexecute(r2, t, ret)
           r4 == Reexecute(r3, t, ret)
<1>1. Lands(r1, l, First)
  <2>1. Fine(Begun(x), r1, l)
    BY BegunReady, TurnFine
  <2>2. QED
    BY <2>1 DEF Fine, Climbs, Lands
<1> HIDE DEF r1, l
<1>2. Lands(r2, l, Second)
  BY <1>1, ReexecuteLands
<1> HIDE DEF r2
<1>3. Lands(r3, l, Third)
  BY <1>2, ReexecuteLands
<1> HIDE DEF r3
<1>4. Lands(r4, l, {})
  BY <1>3, ReexecuteLands
<1> HIDE DEF r4
<1>5. r4.again = FALSE /\ Reexecute(r4, t, ret) = r4
  BY <1>4 DEF Lands, Reexecute
<1>6. Step(x, t, ret) = r4
  BY <1>5 DEF Step, r1, r2, r3, r4
<1>7. QED
  BY <1>4, <1>5, <1>6 DEF Lands, Rests, l

-----------------------------------------------------------------------------
(* The steps of a stream. *)

\* What a call of http_parser_execute starts from.
Restarted(x, y, calls) ==
  /\ Sane(y) /\ y.http_errno = x.http_errno /\ y.again = FALSE /\ y.state = x.state
  /\ y.flags = x.flags /\ y.calls = calls /\ y.marks = MarksAtStart(x.state)
  /\ y.state = "s_chunk_size_start" => y.nread = 0

\* A call may go on where the last one stopped.
Open(x) == Good(x) /\ x.again = FALSE /\ x.http_errno \in {"OK", "PAUSED"}

\* A call of http_parser_execute sets the marks that the state asks for.
LEMMA NextPieceOf ==
  ASSUME NEW x, NEW calls, Open(x)
  PROVE  Restarted(x, NextPiece(x, calls), calls)
<1> DEFINE y == NextPiece(x, calls)
<1>1. Sane(x) /\ IsParser(x) /\ (x.state = "s_chunk_size_start" => x.nread = 0)
  BY DEF Open, Good, Refused, Sane
<1>2. /\ IsParser(y) /\ y.again = FALSE /\ y.http_errno = x.http_errno /\ y.state = x.state
      /\ y.marks = MarksAtStart(x.state) /\ y.calls = calls /\ y.nread = x.nread
      /\ y.content_length = x.content_length /\ y.flags = x.flags /\ y.header_state = x.header_state
  BY <1>1 DEF Open, NextPiece, IsParser, FieldNames
<1>3. "body" \notin MarksAtStart(x.state)
  BY DEF MarksAtStart
<1>4. Sane(y)
  BY <1>1, <1>2, <1>3 DEF Sane, Marked, Measured, Flagged, Valued
<1>5. QED
  BY <1>1, <1>2, <1>4 DEF Restarted

\* What is marked may be handed over.
LEMMA MarkCallable ==
  ASSUME NEW x, NEW k, Sane(x), k \in x.marks
  PROVE  Leads(x.state, x.flags) \subseteq After(k) /\ k \in Leads(x.state, x.flags) /\ k \in Callbacks
<1>1. k = "body" \/ k \in MarksAtStart(x.state)
  BY DEF Sane, Marked
<1>2. CASE k = "body"
  <2>1. x.state \in Collecting
    BY <1>2 DEF Sane, Marked
  <2>2. Leads(x.state, x.flags) \in {{"headers_complete", "body"}, {"chunk_header", "body"}}
    BY <2>1, LeadsTable DEF Collecting, ChunkDatas
  <2>3. QED
    BY <1>2, <2>2, AfterTable
<1>3. CASE k \in MarksAtStart(x.state)
  <2>1. \/ x.state = "s_header_field" /\ k = "header_field"
        \/ x.state = "s_header_value" /\ k = "header_value"
        \/ x.state = "s_res_status" /\ k = "status"
        \/ x.state \in UrlCollected /\ k = "url"
    BY <1>3 DEF MarksAtStart, UrlCollected
  <2>2. CASE x.state \in UrlCollected /\ k = "url"
    <3>1. Leads(x.state, x.flags) = {"message_begin", "url"}
      BY <2>2, LeadsTable
    <3>2. QED
      BY <2>2, <3>1, AfterTable
  <2>3. CASE x.state = "s_header_field" /\ k = "header_field"
    <3>1. Leads(x.state, x.flags) = Heads(x.flags) \cup {"header_field"}
      BY <2>3, LeadsTable
    <3>2. QED
      BY <2>3, <3>1, AfterTable DEF Heads
  <2>4. CASE x.state = "s_header_value" /\ k = "header_value"
    BY <2>4, LeadsTable, AfterTable
  <2>5. CASE x.state = "s_res_status" /\ k = "status"
    BY <2>5, LeadsTable, AfterTable
  <2>6. QED
    BY <2>1, <2>2, <2>3, <2>4, <2>5
<1>4. QED
  BY <1>1, <1>2, <1>3

\* The callback at the end of a piece.
LEMMA OneOrdered ==
  ASSUME NEW k \in Callbacks, NEW last, last \in After(k)
  PROVE  <<k>> \in Seq(Callbacks) /\ InOrder(<<k>>, last) /\ Latest(<<k>>, last) = k
BY DEF InOrder, Latest

\* A piece that calls nothing back.
LEMMA NoneOrdered ==
  ASSUME NEW last
  PROVE  <<>> \in Seq(Callbacks) /\ InOrder(<<>>, last) /\ Latest(<<>>, last) = last
BY DEF InOrder, Latest

\* A parser of the stream, between two turns of the loop.
Stays(x, last, o) ==
  /\ Good(x) /\ x.again = FALSE /\ Ordered(x, last)
  /\ o = TRUE /\ x.http_errno \in {"OK", "PAUSED"} => Told(x, last)

\* http_parser_init.
LEMMA ParserStays ==
  ASSUME NEW type \in Types
  PROVE  Stays(Parser(type), "none", TRUE)
<1> DEFINE x == Parser(type)
<1>1. /\ IsParser(x) /\ x.http_errno = "OK" /\ x.again = FALSE /\ x.marks = {} /\ x.content_length = 0
      /\ x.calls = <<>> /\ x.state \in StartStates
  BY DEF Parser, IsParser, FieldNames, StartStates
<1>2. x.state \in Calm /\ x.state \notin FirstLine /\ MarksAtStart(x.state) = {}
  BY <1>1 DEF Calm, StartStates, MarksAtStart, FirstLine, Beginnings, VersionStates, StatusStates,
              UrlCollected,
     UrlStates, HttpStates
<1>3. Good(x)
  <2>1. x.content_length \in 0 .. ULLONG_MAX
    BY <1>1, ParserAssumption
  <2>2. QED
    BY <1>1, <1>2, <2>1, CalmGood
<1>4. "none" \in Leads(x.state, x.flags)
  <2>1. Leads(x.state, x.flags) = {"none", "message_complete", "message_begin"}
    BY <1>1, LeadsTable
  <2>2. QED
    BY <2>1
<1>5. QED
  BY <1>1, <1>3, <1>4, NoneOrdered DEF Stays, Ordered, Told

\* The end of a piece hands over what is marked.
LEMMA EndPieceStays ==
  ASSUME NEW x, NEW last, NEW calls, Stays(x, last, TRUE), x.http_errno \in {"OK", "PAUSED"},
         calls = <<>> \/ \E k \in x.marks : calls = <<k>>
  PROVE  Stays(NextPiece(x, calls), Latest(x.calls, last), TRUE)
<1> DEFINE y == NextPiece(x, calls)
           l == Latest(x.calls, last)
<1>1. Good(x) /\ x.again = FALSE /\ Sane(x) /\ l \in Leads(x.state, x.flags) /\ Open(x)
  BY DEF Stays, Told, Good, Refused, Open
<1>2. /\ Sane(y) /\ y.http_errno = x.http_errno /\ y.again = FALSE /\ y.state = x.state
      /\ y.flags = x.flags /\ y.calls = calls /\ (y.state = "s_chunk_size_start" => y.nread = 0)
  <2>1. Restarted(x, y, calls)
    BY <1>1, NextPieceOf
  <2>2. QED
    BY <2>1 DEF Restarted
<1>3. Good(y)
  BY <1>2 DEF Good
<1>4. CASE calls = <<>>
  BY <1>1, <1>2, <1>3, <1>4, NoneOrdered DEF Stays, Ordered, Told
<1>5. ASSUME NEW k \in x.marks, calls = <<k>>
      PROVE  Stays(y, l, TRUE)
  <2>1. Leads(x.state, x.flags) \subseteq After(k) /\ k \in Leads(x.state, x.flags) /\ k \in Callbacks
    BY <1>1, MarkCallable
  <2>2. <<k>> \in Seq(Callbacks) /\ InOrder(<<k>>, l) /\ Latest(<<k>>, l) = k
    BY <1>1, <2>1, OneOrdered
  <2>3. QED
    BY <1>2, <1>3, <1>5, <2>1, <2>2 DEF Stays, Ordered, Told
<1>6. QED
  BY <1>4, <1>5

\* http_parser_pause, and the call that goes on.
LEMMA ResumeStays ==
  ASSUME NEW x, NEW last, Stays(x, last, TRUE), x.http_errno = "PAUSED"
  PROVE  Stays([NextPiece(x, <<>>) EXCEPT !.http_errno = "OK"], Latest(x.calls, last), TRUE)
<1> DEFINE z == NextPiece(x, <<>>)
           y == [z EXCEPT !.http_errno = "OK"]
<1>1. Stays(z, Latest(x.calls, last), TRUE)
  BY EndPieceStays
<1>2. Good(x) /\ x.again = FALSE /\ Open(x)
  BY DEF Stays, Open
<1>3. Sane(z) /\ z.http_errno = "PAUSED" /\ z.again = FALSE /\ IsParser(z) /\
      (z.state = "s_chunk_size_start" => z.nread = 0)
  <2>1. Restarted(x, z, <<>>)
    BY <1>2, NextPieceOf
  <2>2. QED
    BY <2>1 DEF Restarted, Sane
<1>4. /\ IsParser(y) /\ y.again = FALSE /\ y.http_errno = "OK" /\ y.state = z.state
      /\ y.marks = z.marks /\ y.calls = z.calls /\ y.nread = z.nread
      /\ y.content_length = z.content_length /\ y.flags = z.flags /\ y.header_state = z.header_state
  BY <1>3 DEF IsParser, FieldNames
<1>5. Good(y)
  BY <1>3, <1>4 DEF Good, Sane, Marked, Measured, Flagged, Valued
<1>6. QED
  BY <1>1, <1>3, <1>4, <1>5 DEF Stays, Ordered, Told

\* The end of the connection, for a parser that has called nothing back in its piece.
LEMMA EofStays ==
  ASSUME NEW z, NEW l, Sane(z), z.http_errno = "OK", z.again = FALSE, z.calls = <<>>,
         z.state = "s_chunk_size_start" => z.nread = 0, l \in Leads(z.state, z.flags)
  PROVE  Stays(AtEof(z), l, FALSE)
<1> DEFINE y == AtEof(z)
<1>1. IsParser(z)
  BY DEF Sane
<1>2. CASE z.state = "s_body_identity_eof"
  <2>1. y = [Call(z, "message_complete") EXCEPT !.http_errno = "PAUSED"]
    BY <1>2 DEF AtEof
  <2>2. /\ IsParser(y) /\ y.again = FALSE /\ y.http_errno = "PAUSED" /\ y.state = z.state
        /\ y.marks = z.marks /\ y.calls = Append(<<>>, "message_complete") /\ y.nread = z.nread
        /\ y.content_length = z.content_length /\ y.flags = z.flags /\ y.header_state = z.header_state
    BY <1>1, <2>1 DEF Call, IsParser, FieldNames
  <2>3. Good(y)
    BY <2>2 DEF Good, Sane, Marked, Measured, Flagged, Valued
  <2>4. l \in After("message_complete") /\ "message_complete" \in Callbacks
    BY <1>2, LeadsTable, AfterTable
  <2>5. Append(<<>>, "message_complete") = <<"message_complete">>
    OBVIOUS
  <2>6. Ordered(y, l)
    BY <2>2, <2>4, <2>5, OneOrdered DEF Ordered
  <2>7. QED
    BY <2>2, <2>3, <2>6 DEF Stays
<1>3. CASE z.state # "s_body_identity_eof"
  <2>1. y = z \/ y = Err(z, "INVALID_EOF_STATE")
    BY <1>3 DEF AtEof
  <2>2. Refused(Err(z, "INVALID_EOF_STATE")) /\ Err(z, "INVALID_EOF_STATE").calls = <<>>
    BY <1>1 DEF Err, Refused, IsParser, FieldNames
  <2>3. Good(y) /\ y.again = FALSE /\ y.calls = <<>>
    BY <2>1, <2>2 DEF Good, Refused
  <2>4. QED
    BY <2>3, NoneOrdered DEF Stays, Ordered
<1>4. QED
  BY <1>2, <1>3

\* The stage is the last callback before those of the parser.
LEMMA StagedIs == ASSUME Staged PROVE stage' = Latest(p.calls, stage)
BY DEF Staged, Latest

\* The parser that gets its bytes in pieces.
InPieces == Stays(p, stage, open) /\ open \in BOOLEAN

\* Every step of the stream.
LEMMA InPiecesStep == ASSUME InPieces, StreamNext PROVE InPieces'
<1>1. ASSUME NEW t \in Alphabet, Feed(t) PROVE InPieces'
  <2>1. PICK ret \in Returns(p.state) : p' = Step(p, t, ret)
    BY <1>1 DEF Feed
  <2>2. p.http_errno = "OK" /\ open = TRUE /\ stage' = Latest(p.calls, stage) /\ open' = open
    BY <1>1, StagedIs DEF Feed, InPieces
  <2>3. Rests(p, stage)
    BY <2>2 DEF InPieces, Stays, Rests
  <2>4. Rests(p', stage')
    BY <2>1, <2>2, <2>3, StepRests
  <2>5. QED
    BY <2>2, <2>4 DEF InPieces, Stays, Rests
<1>2. CASE EndPiece
  <2>1. PICK calls \in {<<>>} \cup {<<k>> : k \in p.marks} : p' = NextPiece(p, calls)
    BY <1>2 DEF EndPiece
  <2>2. p.http_errno = "OK" /\ open = TRUE /\ stage' = Latest(p.calls, stage) /\ open' = open
    BY <1>2, StagedIs DEF EndPiece, InPieces
  <2>3. calls = <<>> \/ \E k \in p.marks : calls = <<k>>
    BY <2>1
  <2>4. Stays(p', stage', TRUE)
    BY <2>1, <2>2, <2>3, EndPieceStays DEF InPieces
  <2>5. QED
    BY <2>2, <2>4 DEF InPieces
<1>3. CASE HeaderOverflow
  <2>1. p' = [Err(p, "HEADER_OVERFLOW") EXCEPT !.calls = <<>>] /\ open' = open /\ p.http_errno = "OK"
    BY <1>3 DEF HeaderOverflow
  <2>2. IsParser(p) /\ p.again = FALSE
    BY DEF InPieces, Stays, Good, Refused, Sane
  <2>3. Refused(p') /\ p'.calls = <<>>
    BY <2>1, <2>2 DEF Err, Refused, IsParser, FieldNames
  <2>4. QED
    BY <2>1, <2>3, NoneOrdered DEF InPieces, Stays, Good, Refused, Ordered
<1>4. CASE Eof
  <2> DEFINE z == NextPiece(p, <<>>)
  <2>1. p' = AtEof(z) /\ open' = FALSE /\ p.http_errno = "OK" /\ open = TRUE /\
        stage' = Latest(p.calls, stage)
    BY <1>4, StagedIs DEF Eof, InPieces
  <2>2. Open(p) /\ stage' \in Leads(p.state, p.flags)
    BY <2>1 DEF InPieces, Stays, Told, Open
  <2>3. /\ Sane(z) /\ z.http_errno = "OK" /\ z.again = FALSE /\ z.calls = <<>> /\ z.state = p.state /\
             z.flags = p.flags
        /\ z.state = "s_chunk_size_start" => z.nread = 0
    <3>1. Restarted(p, z, <<>>)
      BY <2>2, NextPieceOf
    <3>2. QED
      BY <2>1, <3>1 DEF Restarted
  <2>4. Stays(p', stage', FALSE)
    BY <2>1, <2>2, <2>3, EofStays
  <2>5. QED
    BY <2>1, <2>4 DEF InPieces
<1>5. CASE Resume
  <2>1. /\ p' = [NextPiece(p, <<>>) EXCEPT !.http_errno = "OK"] /\ p.http_errno = "PAUSED"
        /\ open' = open /\ open = TRUE /\ stage' = Latest(p.calls, stage)
    BY <1>5, StagedIs DEF Resume, InPieces
  <2>2. Stays(p', stage', TRUE)
    BY <2>1, ResumeStays DEF InPieces
  <2>3. QED
    BY <2>1, <2>2 DEF InPieces
<1>6. QED
  BY <1>1, <1>2, <1>3, <1>4, <1>5 DEF StreamNext

\* What holds of the parser in every reachable state, whatever the bytes.
LEMMA InPiecesHolds == StreamSpec => []InPieces
<1>1. StreamInit => InPieces
  <2>1. SUFFICES ASSUME StreamInit PROVE InPieces
    OBVIOUS
  <2>2. PICK type \in Types : p = Parser(type)
    BY <2>1 DEF StreamInit
  <2>3. stage = "none" /\ open = TRUE
    BY <2>1 DEF StreamInit
  <2>4. QED
    BY <2>2, <2>3, ParserStays DEF InPieces
<1>2. InPieces /\ UNCHANGED streamVars => InPieces'
  BY DEF InPieces, streamVars
<1>3. QED
  BY <1>1, <1>2, InPiecesStep, PTL DEF StreamSpec

\* HttpStream: whatever bytes arrive, in whatever pieces, with whatever errors, pauses
\* and end, the callbacks of HttpPacket are called in the order that a message has, and no
\* assert() of http_parser_execute fails.
THEOREM CallbacksAreInOrder == StreamSpec => [](CallbacksInOrder /\ p.http_errno # "ASSERT")
<1>1. InPieces => CallbacksInOrder /\ p.http_errno # "ASSERT"
  BY DEF InPieces, Stays, Ordered, InOrder, CallbacksInOrder, Good, Refused
<1>2. QED
  BY <1>1, InPiecesHolds, PTL

-----------------------------------------------------------------------------
(* Two parsers that differ in what they remember of a piece only. *)

Near(x, y) ==
  /\ x.type = y.type /\ x.state = y.state /\ x.flags = y.flags /\ x.header_state = y.header_state
  /\ x.index = y.index /\ x.nread = y.nread /\ x.content_length = y.content_length
  /\ x.http_major = y.http_major /\ x.http_minor = y.http_minor /\ x.status_code = y.status_code
  /\ x.method = y.method /\ x.upgrade = y.upgrade /\ x.http_errno = y.http_errno /\ x.again = y.again

\* They have handed over and marked the same, too.
Same(x, y) == IsParser(x) /\ IsParser(y) /\ Near(x, y) /\ x.marks = y.marks /\ x.calls = y.calls

\* A turn does the same to parsers that are the same; the code of each state.
LEMMA SameStart ==
  ASSUME NEW x, NEW y, Same(x, y), NEW t
  PROVE  /\ Same(StartReq(x, t), StartReq(y, t)) /\ Same(StartReqOrRes(x, t), StartReqOrRes(y, t))
         /\ Same(StartRes(x, t), StartRes(y, t)) /\ Same(ReqMethod(x, t), ReqMethod(y, t))
<1>1. Same(StartReq(x, t), StartReq(y, t))
  BY DEF Same, Near, IsParser, FieldNames, StartReq, Err, Call, Fresh
<1>2. Same(StartRes(x, t), StartRes(y, t))
  BY DEF Same, Near, IsParser, FieldNames, StartRes, Go, Err, Call, Fresh
<1>3. Same(ReqMethod(x, t), ReqMethod(y, t))
  BY DEF Same, Near, IsParser, FieldNames, ReqMethod, Go, Err
<1>4. Same(StartReqOrRes(x, t), StartReqOrRes(y, t))
  BY DEF Same, Near, IsParser, FieldNames, StartReqOrRes, StartReq, Go, Err, Call, Fresh
<1>5. QED
  BY <1>1, <1>2, <1>3, <1>4

\* The version.
LEMMA SameVersion ==
  ASSUME NEW x, NEW y, Same(x, y), NEW t
  PROVE  /\ x.state \in VersionStates => Same(ResVersion(x, t), ResVersion(y, t))
         /\ x.state \in HttpStates \ {"s_req_http_start", "s_req_http_end", "s_req_line_almost_done"} =>
              Same(ReqVersion(x, t), ReqVersion(y, t))
<1>1. CASE x.state \in VersionStates
  BY <1>1 DEF Same, Near, IsParser, FieldNames, ResVersion, Version, Go, Err, VersionStates, HttpStates
<1>2. CASE x.state \in HttpStates \ {"s_req_http_start", "s_req_http_end", "s_req_line_almost_done"}
  BY <1>2 DEF Same, Near, IsParser, FieldNames, ReqVersion, Version, Go, Err, VersionStates, HttpStates
<1>3. QED
  BY <1>1, <1>2

\* The status line.
LEMMA SameResStatus ==
  ASSUME NEW x, NEW y, Same(x, y), NEW t, x.state \in StatusStates \cup {"s_res_status"}
  PROVE  Same(ResStatus(x, t), ResStatus(y, t))
<1>1. CASE x.state \in {"s_res_http_end", "s_res_first_status_code"}
  BY <1>1 DEF Same, Near, IsParser, FieldNames, ResStatus, Go, Err
<1>2. CASE x.state = "s_res_status_code"
  <2> DEFINE code == x.status_code * 10 + DigitOf(t)
             v == [x EXCEPT !.status_code = code]
             w == [y EXCEPT !.status_code = code]
  <2>1. Same(v, w)
    BY DEF Same, Near, IsParser, FieldNames
  <2>2. y.state = "s_res_status_code" /\ y.status_code * 10 + DigitOf(t) = code
    BY <1>2 DEF Same, Near
  <2>3. Same(Err(v, "INVALID_STATUS"), Err(w, "INVALID_STATUS"))
    BY <2>1 DEF Same, Near, IsParser, FieldNames, Err
  <2>4. /\ Same(Go(x, "s_res_status_start"), Go(y, "s_res_status_start"))
        /\ Same(Err(x, "INVALID_STATUS"), Err(y, "INVALID_STATUS"))
        /\ Same(LineEnd(x, t, "s_res_line_almost_done"), LineEnd(y, t, "s_res_line_almost_done"))
    BY DEF Same, Near, IsParser, FieldNames, Go, Err, LineEnd
  <2>5. QED
    BY <1>2, <2>1, <2>2, <2>3, <2>4 DEF ResStatus
<1>3. CASE x.state \in {"s_res_status_start", "s_res_status"}
  BY <1>3 DEF Same, Near, IsParser, FieldNames, ResStatus, Go, Call, Mark, Data, LineEnd
<1>4. QED
  BY <1>1, <1>2, <1>3 DEF StatusStates

\* The url.
LEMMA SameReqUrl ==
  ASSUME NEW x, NEW y, Same(x, y), NEW t
  PROVE  Same(ReqUrl(x, t), ReqUrl(y, t))
BY DEF Same, Near, IsParser, FieldNames, ReqUrl, UrlByte, Go, Err, Call, Mark, Data, LineEnd

\* The end of the first line.
LEMMA SameReqHttp ==
  ASSUME NEW x, NEW y, Same(x, y), NEW t,
         x.state \in {"s_req_http_start", "s_req_http_end", "s_req_line_almost_done",
                      "s_res_line_almost_done"}
  PROVE  Same(ReqHttp(x, t), ReqHttp(y, t))
BY DEF Same, Near, IsParser, FieldNames, ReqHttp, Go, Err, LineEnd

\* The name of a header.
LEMMA SameHeaderField ==
  ASSUME NEW x, NEW y, Same(x, y), NEW t
  PROVE  /\ Same(HeaderFieldStart(x, t), HeaderFieldStart(y, t)) /\ Same(HeaderField(x, t), HeaderField(y, t))
         /\ Same(HeaderValueStart(x, t), HeaderValueStart(y, t))
<1>1. Same(HeaderFieldStart(x, t), HeaderFieldStart(y, t))
  BY DEF Same, Near, IsParser, FieldNames, HeaderFieldStart, Go, Err, Mark, Again
<1>2. Same(HeaderField(x, t), HeaderField(y, t))
  BY DEF Same, Near, IsParser, FieldNames, HeaderField, Go, Err, Call, Data
<1>3. Same(HeaderValueStart(x, t), HeaderValueStart(y, t))
  BY DEF Same, Near, IsParser, FieldNames, HeaderValueStart, Go, Err, Mark
<1>4. QED
  BY <1>1, <1>2, <1>3

\* The blanks before a value.
LEMMA SameDiscardBlanks ==
  ASSUME NEW x, NEW y, Same(x, y), NEW t, x.state \in Discarding
  PROVE  Same(DiscardBlanks(x, t), DiscardBlanks(y, t))
<1>1. Same(HeaderValueStart(x, t), HeaderValueStart(y, t))
  BY SameHeaderField
<1>2. CASE x.state = "s_header_value_discard_ws"
  <2>1. /\ Same(Go(x, "s_header_value_discard_ws_almost_done"),
                Go(y, "s_header_value_discard_ws_almost_done"))
        /\ Same(Go(x, "s_header_value_discard_lws"), Go(y, "s_header_value_discard_lws"))
    BY DEF Same, Near, IsParser, FieldNames, Go
  <2>2. y.state = "s_header_value_discard_ws"
    BY <1>2 DEF Same, Near
  <2>3. QED
    BY <1>1, <1>2, <2>1, <2>2 DEF DiscardBlanks
<1>3. CASE x.state # "s_header_value_discard_ws"
  BY <1>3 DEF Same, Near, IsParser, FieldNames, DiscardBlanks, Go, Err, Call, Again, Discarding
<1>4. QED
  BY <1>2, <1>3

\* The value of a header; a control character is refused or skimmed over.
LEMMA SameHeaderValue ==
  ASSUME NEW x, NEW y, Same(x, y), NEW t, t # <<"ctl">>
  PROVE  Same(HeaderValue(x, t), HeaderValue(y, t))
<1>1. CASE t \in LineEnds
  BY <1>1 DEF Same, Near, IsParser, FieldNames, HeaderValue, Go, Call, Data, LineEnds
<1>2. CASE t \notin LineEnds
  <2> DEFINE h == x.header_state
             more == x.content_length * 10 + DigitOf(t)
             flags == IF t = <<",">> /\ h # Value("chunked") THEN x.flags \cup FlagOf(h) ELSE x.flags
             Checked(z) == [z EXCEPT !.header_state = ValueState(h, t), !.skim = h = General,
                 !.flags = IF t = <<",">> /\ h # Value("chunked") THEN @ \cup FlagOf(h) ELSE @]
  <2>1. Same([x EXCEPT !.content_length = @ * 10 + DigitOf(t)],
             [y EXCEPT !.content_length = @ * 10 + DigitOf(t)])
    BY DEF Same, Near, IsParser, FieldNames
  <2>2. Same(Checked(x), Checked(y))
    BY DEF Same, Near, IsParser, FieldNames
  <2>3. /\ Same(Err(x, "ASSERT"), Err(y, "ASSERT"))
        /\ Same(Err(x, "INVALID_CONTENT_LENGTH"), Err(y, "INVALID_CONTENT_LENGTH"))
    BY DEF Same, Near, IsParser, FieldNames, Err
  <2>4. x.content_length = y.content_length /\ y.header_state = h
    BY DEF Same, Near
  <2>5. t \notin {CR, LF}
    BY <1>2 DEF LineEnds
  <2>6. CASE h \in {Name("connection"), Name("transfer-encoding")}
    <3>1. h # Name("content-length")
      BY <2>6, NamesDiffer
    <3>2. HeaderValue(x, t) = Err(x, "ASSERT") /\ HeaderValue(y, t) = Err(y, "ASSERT")
      BY <2>4, <2>5, <2>6, <3>1 DEF HeaderValue
    <3>3. QED
      BY <2>3, <3>2
  <2>7. CASE h = Name("content-length")
    <3>1. h \notin {Name("connection"), Name("transfer-encoding")}
      BY <2>7, NamesDiffer
    <3>2. \/ HeaderValue(x, t) = x /\ HeaderValue(y, t) = y
          \/ /\ HeaderValue(x, t) = Err(x, "INVALID_CONTENT_LENGTH")
             /\ HeaderValue(y, t) = Err(y, "INVALID_CONTENT_LENGTH")
          \/ /\ HeaderValue(x, t) = [x EXCEPT !.content_length = @ * 10 + DigitOf(t)]
             /\ HeaderValue(y, t) = [y EXCEPT !.content_length = @ * 10 + DigitOf(t)]
      BY <2>4, <2>5, <2>7, <3>1 DEF HeaderValue
    <3>3. QED
      BY <2>1, <2>3, <3>2
  <2>8. CASE h \notin {Name("connection"), Name("transfer-encoding"), Name("content-length")}
    <3>1. HeaderValue(x, t) = Checked(x) /\ HeaderValue(y, t) = Checked(y)
      BY <2>4, <2>5, <2>8 DEF HeaderValue
    <3>2. QED
      BY <2>2, <3>1
  <2>9. QED
    BY <2>6, <2>7, <2>8
<1>3. QED
  BY <1>1, <1>2

\* The end of a header line.
LEMMA SameHeaderLineEnd ==
  ASSUME NEW x, NEW y, Same(x, y), NEW t, x.state \in {"s_header_almost_done", "s_header_value_lws"}
  PROVE  Same(HeaderLineEnd(x, t), HeaderLineEnd(y, t))
BY DEF Same, Near, IsParser, FieldNames, HeaderLineEnd, Go, Err, Again

\* The end of the headers.
LEMMA SameHeadersAlmostDone ==
  ASSUME NEW x, NEW y, Same(x, y), NEW t, NEW ret
  PROVE  Same(HeadersAlmostDone(x, t, ret), HeadersAlmostDone(y, t, ret))
<1> DEFINE upgrade == {"UPGRADE", "CONNECTION_UPGRADE"} \subseteq x.flags \/ x.method = "CONNECT"
           Done(z) == [Go(z, "s_headers_done") EXCEPT !.upgrade = upgrade \/ ret = 2,
                         !.flags = IF ret = 0 THEN @ ELSE @ \cup {"SKIPBODY"}]
           Ended(z) == Again(Call(Done(z), "headers_complete"))
           Trailed(z) == Again(Call(Go(z, "s_message_done"), "chunk_complete"))
<1>1. Same(Done(x), Done(y))
  BY DEF Same, Near, IsParser, FieldNames, Go
<1>2. \A v, w : Same(v, w) => Same(Again(Call(v, "headers_complete")), Again(Call(w, "headers_complete")))
  BY DEF Same, Near, IsParser, FieldNames, Call, Again
<1>3. Same(Ended(x), Ended(y))
  BY <1>1, <1>2
<1>4. Same(Trailed(x), Trailed(y))
  BY DEF Same, Near, IsParser, FieldNames, Call, Again, Go
<1>5. /\ Same(Err(x, "STRICT"), Err(y, "STRICT"))
      /\ Same(Err(x, "UNEXPECTED_CONTENT_LENGTH"), Err(y, "UNEXPECTED_CONTENT_LENGTH"))
  BY DEF Same, Near, IsParser, FieldNames, Err
<1>6. x.flags = y.flags /\ x.method = y.method
  BY DEF Same, Near
<1>7. \/ HeadersAlmostDone(x, t, ret) = Err(x, "STRICT") /\ HeadersAlmostDone(y, t, ret) = Err(y, "STRICT")
      \/ HeadersAlmostDone(x, t, ret) = Trailed(x) /\ HeadersAlmostDone(y, t, ret) = Trailed(y)
      \/ /\ HeadersAlmostDone(x, t, ret) = Err(x, "UNEXPECTED_CONTENT_LENGTH")
         /\ HeadersAlmostDone(y, t, ret) = Err(y, "UNEXPECTED_CONTENT_LENGTH")
      \/ HeadersAlmostDone(x, t, ret) = Ended(x) /\ HeadersAlmostDone(y, t, ret) = Ended(y)
  BY <1>6 DEF HeadersAlmostDone
<1>8. QED
  BY <1>3, <1>4, <1>5, <1>7

\* The end of a message.
LEMMA SameMessageComplete ==
  ASSUME NEW x, NEW y, Same(x, y)
  PROVE  Same(MessageComplete(x), MessageComplete(y))
<1>1. NewMessage(x) = NewMessage(y)
  BY DEF Same, Near, NewMessage, ShouldKeepAlive, NeedsEof
<1>2. QED
  BY <1>1 DEF Same, Near, IsParser, FieldNames, MessageComplete, Go, Call

\* The choice of the body.
LEMMA SameHeadersDone ==
  ASSUME NEW x, NEW y, Same(x, y)
  PROVE  Same(HeadersDone(x), HeadersDone(y))
<1> DEFINE v == [x EXCEPT !.nread = 0]
           w == [y EXCEPT !.nread = 0]
<1>1. Same(v, w)
  BY DEF Same, Near, IsParser, FieldNames
<1>2. Same(MessageComplete(v), MessageComplete(w))
  BY <1>1, SameMessageComplete
<1>3. \A c : Same(Go(v, c), Go(w, c))
  BY <1>1 DEF Same, Near, IsParser, FieldNames, Go
<1>4. NeedsEof(x) <=> NeedsEof(y)
  BY DEF Same, Near, NeedsEof
<1>5. x.upgrade = y.upgrade /\ x.method = y.method /\ x.flags = y.flags /\ x.content_length = y.content_length
  BY DEF Same, Near
<1>6. \/ HeadersDone(x) = MessageComplete(v) /\ HeadersDone(y) = MessageComplete(w)
      \/ \E c : HeadersDone(x) = Go(v, c) /\ HeadersDone(y) = Go(w, c)
  BY <1>4, <1>5 DEF HeadersDone
<1>7. QED
  BY <1>2, <1>3, <1>6

\* The size of a chunk.
LEMMA SameChunkSize ==
  ASSUME NEW x, NEW y, Same(x, y), NEW t, x.state \in ChunkSizes \cup {"s_chunk_size_start"}
  PROVE  Same(ChunkSize(x, t), ChunkSize(y, t))
<1>1. CASE x.state = "s_chunk_size_start"
  BY <1>1 DEF Same, Near, IsParser, FieldNames, ChunkSize, Go, Err
<1>2. CASE x.state = "s_chunk_size"
  BY <1>2 DEF Same, Near, IsParser, FieldNames, ChunkSize, Go, Err
<1>3. CASE x.state = "s_chunk_parameters"
  BY <1>3 DEF Same, Near, IsParser, FieldNames, ChunkSize, Go
<1>4. CASE x.state = "s_chunk_size_almost_done"
  BY <1>4 DEF Same, Near, IsParser, FieldNames, ChunkSize, Go, Err, Call
<1>5. QED
  BY <1>1, <1>2, <1>3, <1>4 DEF ChunkSizes

\* The end of a chunk or of a message.
LEMMA SameBody ==
  ASSUME NEW x, NEW y, Same(x, y), NEW t, x.state \in {"s_message_done", "s_chunk_data_done"}
  PROVE  Same(Body(x, t), Body(y, t))
<1>1. CASE x.state = "s_message_done"
  <2>1. Body(x, t) = MessageComplete(x) /\ Body(y, t) = MessageComplete(y)
    BY <1>1 DEF Body, Same, Near
  <2>2. QED
    BY <2>1, SameMessageComplete
<1>2. CASE x.state = "s_chunk_data_done"
  BY <1>2 DEF Same, Near, IsParser, FieldNames, Body, Go, Err, Call
<1>3. QED
  BY <1>1, <1>2

\* Two parsers that have been given the same bytes, at the beginning of a turn:
\* of a body, one may have handed over what the other has marked.
Paired(x, y) ==
  /\ IsParser(x) /\ IsParser(y) /\ Near(x, y) /\ x.calls = y.calls
  /\ x.marks \subseteq {"body"} /\ y.marks \subseteq {"body"}

\* Inside a body both mark the byte they are at.
LEMMA PairedIdentity ==
  ASSUME NEW x, NEW y, Paired(x, y), NEW t, x.state \in {"s_body_identity", "s_chunk_data"}
  PROVE  Same(Body(x, t), Body(y, t))
<1>1. Same(Counted(x), Counted(y)) /\ Same(Err(x, "ASSERT"), Err(y, "ASSERT"))
  BY DEF Paired, Same, Near, IsParser, FieldNames, Counted, Mark, Err
<1>2. /\ Same(IdentityEnds(Counted(x)), IdentityEnds(Counted(y)))
      /\ Same(ChunkEnds(Counted(x)), ChunkEnds(Counted(y)))
  <2> HIDE DEF Counted
  <2> DEFINE v == Counted(x)
             w == Counted(y)
  <2>1. Same(v, w)
    BY <1>1
  <2> HIDE DEF v, w
  <2>2. Same(IdentityEnds(v), IdentityEnds(w))
    BY <2>1 DEF Same, Near, IsParser, FieldNames, IdentityEnds, Again, Data, Call, Go
  <2>3. Same(ChunkEnds(v), ChunkEnds(w))
    BY <2>1 DEF Same, Near, IsParser, FieldNames, ChunkEnds, Go
  <2>4. QED
    BY <2>2, <2>3 DEF v, w
<1>3. x.content_length = y.content_length /\ x.state = y.state
  BY DEF Paired, Near
<1>4. QED
  BY <1>1, <1>2, <1>3 DEF Body, BodyByte

\* So they do in a body that ends with the connection.
LEMMA PairedEof ==
  ASSUME NEW x, NEW y, Paired(x, y), NEW t, x.state = "s_body_identity_eof"
  PROVE  Same(Body(x, t), Body(y, t))
<1>1. Body(x, t) = Mark(x, "body") /\ Body(y, t) = Mark(y, "body")
  BY DEF Body, Paired, Near
<1>2. x.marks \cup {"body"} = {"body"} /\ y.marks \cup {"body"} = {"body"}
  BY DEF Paired
<1>3. Mark(x, "body").marks = {"body"} /\ Mark(y, "body").marks = {"body"}
  BY <1>2 DEF Mark, Paired, IsParser, FieldNames
<1>4. /\ IsParser(Mark(x, "body")) /\ IsParser(Mark(y, "body")) /\ Near(Mark(x, "body"), Mark(y, "body"))
      /\ Mark(x, "body").calls = Mark(y, "body").calls
  BY DEF Paired, Near, IsParser, FieldNames, Mark
<1>5. QED
  BY <1>1, <1>3, <1>4 DEF Same

\* What two parsers remember of the message, and what the last byte was part of.
Agree(x, y) ==
  IsParser(x) /\ IsParser(y) /\ Near(x, y) /\ x.marks = y.marks /\
  (x.http_errno = "PAUSED" => x.calls = y.calls)

\* No `goto reexecute' is pending.
Settled(x) == x.again = FALSE

\* At the end of a chunk both hand over what they have marked, be it empty or not.
LEMMA PairedChunkEnd ==
  ASSUME NEW x, NEW y, Paired(x, y), NEW t, x.state = "s_chunk_data_almost_done", Going(x)
  PROVE  Agree(Body(x, t), Body(y, t)) /\ Settled(Body(x, t))
<1>0. x.again = FALSE /\ x.http_errno = "OK"
  BY DEF Going
<1>1. y.state = "s_chunk_data_almost_done" /\ x.content_length = y.content_length
  BY DEF Paired, Near
<1>2. \/ \E e \in {"ASSERT", "STRICT"} : Body(x, t) = Err(x, e) /\ Body(y, t) = Err(y, e)
      \/ Body(x, t) = Data(Go(x, "s_chunk_data_done"), "body") /\
           Body(y, t) = Data(Go(y, "s_chunk_data_done"), "body")
  BY <1>1 DEF Body
<1>3. ASSUME NEW e \in {"ASSERT", "STRICT"}
      PROVE  Agree(Err(x, e), Err(y, e)) /\ Settled(Err(x, e))
  BY <1>0 DEF Paired, Near, IsParser, FieldNames, Err, Agree, Settled
<1>4. Agree(Data(Go(x, "s_chunk_data_done"), "body"), Data(Go(y, "s_chunk_data_done"), "body"))
      /\ Settled(Data(Go(x, "s_chunk_data_done"), "body"))
  <2> DEFINE v == Data(Go(x, "s_chunk_data_done"), "body")
             w == Data(Go(y, "s_chunk_data_done"), "body")
  <2>1. IsParser(v) /\ v.marks = {} /\ v.http_errno = "OK" /\ v.again = FALSE
    BY <1>0 DEF Paired, IsParser, FieldNames, Data, Call, Go
  <2>2. IsParser(w) /\ w.marks = {}
    BY DEF Paired, IsParser, FieldNames, Data, Call, Go
  <2>3. Near(v, w)
    BY DEF Paired, Near, IsParser, FieldNames, Data, Call, Go
  <2>4. QED
    BY <2>1, <2>2, <2>3 DEF Agree, Settled
<1>5. QED
  BY <1>2, <1>3, <1>4

\* The code of every state outside a body.
LEMMA SameTurn ==
  ASSUME NEW x, NEW y, Same(x, y), NEW t, NEW ret, x.state \in States, x.state \notin Collecting,
         t # <<"ctl">>
  PROVE  Same(Turn(x, t, ret), Turn(y, t, ret))
<1> DEFINE v == Turn(x, t, ret)
           w == Turn(y, t, ret)
<1>1. y.state = x.state
  BY DEF Same, Near
<1>2. Same(Err(x, "CLOSED_CONNECTION"), Err(y, "CLOSED_CONNECTION"))
  BY DEF Same, Near, IsParser, FieldNames, Err
<1>3. CASE x.state = "s_dead"
  <2>1. \/ v = x /\ w = y
        \/ v = Err(x, "CLOSED_CONNECTION") /\ w = Err(y, "CLOSED_CONNECTION")
    <3>1. y.state = "s_dead"
      BY <1>1, <1>3
    <3>2. v = IF t \in LineEnds THEN x ELSE Err(x, "CLOSED_CONNECTION")
      BY <1>3 DEF Turn, UrlStates, BodyStates
    <3>3. w = IF t \in LineEnds THEN y ELSE Err(y, "CLOSED_CONNECTION")
      BY <3>1 DEF Turn, UrlStates, BodyStates
    <3>4. QED
      BY <3>2, <3>3
  <2>2. QED
    BY <1>2, <2>1
<1>4. CASE x.state \in BodyStates
  <2>1. x.state \in {"s_message_done", "s_chunk_data_done"}
    BY <1>4 DEF BodyStates, Collecting
  <2>2. v = Body(x, t) /\ w = Body(y, t)
    BY <1>1, <2>1 DEF Turn, UrlStates, BodyStates
  <2>3. QED
    BY <2>1, <2>2, SameBody
<1>5. CASE x.state = "s_start_req_or_res"
  <2>1. v = StartReqOrRes(x, t) /\ w = StartReqOrRes(y, t)
    BY <1>1, <1>5 DEF Turn, UrlStates, BodyStates
  <2>2. QED
    BY <2>1, SameStart
<1>6. CASE x.state = "s_start_req"
  <2>1. v = StartReq(x, t) /\ w = StartReq(y, t)
    BY <1>1, <1>6 DEF Turn, UrlStates, BodyStates
  <2>2. QED
    BY <2>1, SameStart
<1>7. CASE x.state = "s_start_res"
  <2>1. v = StartRes(x, t) /\ w = StartRes(y, t)
    BY <1>1, <1>7 DEF Turn, UrlStates, BodyStates
  <2>2. QED
    BY <2>1, SameStart
<1>8. CASE x.state \in VersionStates
  <2>1. v = ResVersion(x, t) /\ w = ResVersion(y, t)
    BY <1>1, <1>8 DEF Turn, UrlStates, BodyStates, VersionStates
  <2>2. QED
    BY <1>8, <2>1, SameVersion
<1>9. CASE x.state \in StatusStates \cup {"s_res_status"}
  <2>1. v = ResStatus(x, t) /\ w = ResStatus(y, t)
    BY <1>1, <1>9 DEF Turn, UrlStates, BodyStates, StatusStates
  <2>2. QED
    BY <1>9, <2>1, SameResStatus
<1>10. CASE x.state = "s_req_method"
  <2>1. v = ReqMethod(x, t) /\ w = ReqMethod(y, t)
    BY <1>1, <1>10 DEF Turn, UrlStates, BodyStates
  <2>2. QED
    BY <2>1, SameStart
<1>11. CASE x.state \in UrlStates
  <2>1. v = ReqUrl(x, t) /\ w = ReqUrl(y, t)
    BY <1>1, <1>11 DEF Turn, UrlStates, BodyStates
  <2>2. QED
    BY <2>1, SameReqUrl
<1>12. CASE x.state \in {"s_req_http_start", "s_req_http_end", "s_req_line_almost_done",
                         "s_res_line_almost_done"}
  <2>1. v = ReqHttp(x, t) /\ w = ReqHttp(y, t)
    BY <1>1, <1>12 DEF Turn, UrlStates, BodyStates
  <2>2. QED
    BY <1>12, <2>1, SameReqHttp
<1>13. CASE x.state \in HttpStates \ {"s_req_http_start", "s_req_http_end", "s_req_line_almost_done"}
  <2>1. v = ReqVersion(x, t) /\ w = ReqVersion(y, t)
    BY <1>1, <1>13 DEF Turn, UrlStates, BodyStates, HttpStates
  <2>2. QED
    BY <1>13, <2>1, SameVersion
<1>14. CASE x.state \in {"s_header_field_start", "s_header_field", "s_header_value_start"}
  <2>1. \/ v = HeaderFieldStart(x, t) /\ w = HeaderFieldStart(y, t)
        \/ v = HeaderField(x, t) /\ w = HeaderField(y, t)
        \/ v = HeaderValueStart(x, t) /\ w = HeaderValueStart(y, t)
    BY <1>1, <1>14 DEF Turn, UrlStates, BodyStates
  <2>2. QED
    BY <2>1, SameHeaderField
<1>15. CASE x.state \in Discarding
  <2>1. v = DiscardBlanks(x, t) /\ w = DiscardBlanks(y, t)
    BY <1>1, <1>15 DEF Turn, UrlStates, BodyStates, Discarding
  <2>2. QED
    BY <1>15, <2>1, SameDiscardBlanks
<1>16. CASE x.state = "s_header_value"
  <2>1. v = HeaderValue(x, t) /\ w = HeaderValue(y, t)
    BY <1>1, <1>16 DEF Turn, UrlStates, BodyStates
  <2>2. QED
    BY <2>1, SameHeaderValue
<1>17. CASE x.state \in {"s_header_almost_done", "s_header_value_lws"}
  <2>1. v = HeaderLineEnd(x, t) /\ w = HeaderLineEnd(y, t)
    BY <1>1, <1>17 DEF Turn, UrlStates, BodyStates
  <2>2. QED
    BY <1>17, <2>1, SameHeaderLineEnd
<1>18. CASE x.state = "s_headers_almost_done"
  <2>1. v = HeadersAlmostDone(x, t, ret) /\ w = HeadersAlmostDone(y, t, ret)
    BY <1>1, <1>18 DEF Turn, UrlStates, BodyStates
  <2>2. QED
    BY <2>1, SameHeadersAlmostDone
<1>19. CASE x.state \in ChunkSizes \cup {"s_chunk_size_start"}
  <2>1. v = ChunkSize(x, t) /\ w = ChunkSize(y, t)
    BY <1>1, <1>19 DEF Turn, UrlStates, BodyStates, ChunkSizes
  <2>2. QED
    BY <1>19, <2>1, SameChunkSize
<1>20. CASE x.state = "s_headers_done"
  <2>1. v = HeadersDone(x) /\ w = HeadersDone(y)
    BY <1>1, <1>20 DEF Turn, UrlStates, BodyStates
  <2>2. QED
    BY <2>1, SameHeadersDone
<1>21. QED
  BY TurnOf, <1>3, <1>4, <1>5, <1>6, <1>7, <1>8, <1>9, <1>10, <1>11, <1>12, <1>13, <1>14, <1>15, <1>16, <1>17,
     <1>18, <1>19, <1>20

\* A `goto reexecute'.
LEMMA SameReexecute ==
  ASSUME NEW x, NEW y, Same(x, y), NEW last, Lands(x, last, First), NEW t, NEW ret, t # <<"ctl">>
  PROVE  Same(Reexecute(x, t, ret), Reexecute(y, t, ret))
<1> DEFINE v == [x EXCEPT !.again = FALSE]
           w == [y EXCEPT !.again = FALSE]
<1>1. CASE x.again = FALSE
  <2>1. y.again = FALSE
    BY <1>1 DEF Same, Near
  <2>2. Reexecute(x, t, ret) = x /\ Reexecute(y, t, ret) = y
    BY <1>1, <2>1 DEF Reexecute
  <2>3. QED
    BY <2>2
<1>2. CASE x.again # FALSE
  <2>1. x.again = TRUE /\ x.state \in First
    BY <1>2 DEF Lands
  <2>2. y.again = TRUE
    BY <2>1 DEF Same, Near
  <2>3. Reexecute(x, t, ret) = Turn(v, t, ret) /\ Reexecute(y, t, ret) = Turn(w, t, ret)
    BY <2>1, <2>2 DEF Reexecute
  <2>4. Same(v, w) /\ v.state = x.state
    BY DEF Same, Near, IsParser, FieldNames
  <2>5. First \subseteq States /\ First \cap Collecting = {}
    BY DEF First, Second, Third, States, HeaderStates, BodyStates, Collecting
  <2>6. v.state \in States /\ v.state \notin Collecting
    BY <2>1, <2>4, <2>5
  <2> HIDE DEF v, w
  <2>7. Same(Turn(v, t, ret), Turn(w, t, ret))
    BY <2>4, <2>6, SameTurn
  <2>8. QED
    BY <2>3, <2>7
<1>3. QED
  BY <1>1, <1>2

\* The turn that the code of the state has, before any `goto reexecute'.
LEMMA FirstTurnAgrees ==
  ASSUME NEW x, NEW y, Ready(x), Ready(y), Near(x, y), x.calls = y.calls, NEW t, NEW ret, t # <<"ctl">>
  PROVE  \/ Same(Turn(x, t, ret), Turn(y, t, ret))
         \/ /\ Agree(Turn(x, t, ret), Turn(y, t, ret))
            /\ Settled(Turn(x, t, ret))
<1>1. x.state \in States /\ y.state = x.state /\ IsParser(x) /\ IsParser(y)
  BY DEF Ready, Sane, Near
<1>2. CASE x.state \notin Collecting
  <2>1. x.marks = y.marks
    BY <1>1, <1>2, ReadyFacts
  <2>2. Same(x, y)
    BY <1>1, <2>1 DEF Same
  <2>3. QED
    BY <1>1, <1>2, <2>2, SameTurn
<1>3. CASE x.state \in Collecting
  <2>1. Turn(x, t, ret) = Body(x, t) /\ Turn(y, t, ret) = Body(y, t)
    BY <1>1, <1>3 DEF Turn, Collecting, UrlStates, BodyStates
  <2>2. MarksAtStart(x.state) = {}
    BY <1>3 DEF MarksAtStart, Collecting, UrlStates
  <2>3. x.marks \subseteq {"body"} /\ y.marks \subseteq {"body"} /\ x.http_errno = "OK" /\ x.again = FALSE
    BY <1>1, <2>2 DEF Ready, Sane, Marked
  <2>4. Paired(x, y)
    BY <1>1, <2>3 DEF Paired
  <2>5. Going(x)
    BY <1>1, <2>3 DEF Going
  <2>6. CASE x.state \in {"s_body_identity", "s_chunk_data"}
    BY <2>1, <2>4, <2>6, PairedIdentity
  <2>7. CASE x.state = "s_body_identity_eof"
    BY <2>1, <2>4, <2>7, PairedEof
  <2>8. CASE x.state = "s_chunk_data_almost_done"
    BY <2>1, <2>4, <2>5, <2>8, PairedChunkEnd
  <2>9. QED
    BY <1>3, <2>6, <2>7, <2>8 DEF Collecting
<1>4. QED
  BY <1>2, <1>3

\* Where the reads cut the bytes does not change what a turn of the loop does.
LEMMA StepAgrees ==
  ASSUME NEW x, NEW y, NEW s1, NEW s2, Rests(x, s1), Rests(y, s2), x.http_errno = "OK", Near(x, y),
         NEW t, NEW ret, t # <<"ctl">>
  PROVE  Agree(Step(x, t, ret), Step(y, t, ret))
<1> DEFINE l == Latest(x.calls, s1)
           v1 == Turn(Begun(x), t, ret)
           v2 == Reexecute(v1, t, ret)
           v3 == Reexecute(v2, t, ret)
           v4 == Reexecute(v3, t, ret)
           w1 == Turn(Begun(y), t, ret)
           w2 == Reexecute(w1, t, ret)
           w3 == Reexecute(w2, t, ret)
           w4 == Reexecute(w3, t, ret)
<1>1. Lands(v1, l, First)
  <2>1. Fine(Begun(x), v1, l)
    BY BegunReady, TurnFine
  <2>2. QED
    BY <2>1 DEF Fine, Climbs, Lands
<1>2. \/ Same(v1, w1)
      \/ Agree(v1, w1) /\ v1.again = FALSE
  <2>1. y.http_errno = "OK" /\ IsParser(x) /\ IsParser(y)
    BY DEF Near, Rests, Good, Refused, Sane
  <2>2. Ready(Begun(x)) /\ Ready(Begun(y))
    BY <2>1, BegunReady
  <2>3. Near(Begun(x), Begun(y)) /\ Begun(x).calls = Begun(y).calls
    BY <2>1 DEF Near, Begun, IsParser, FieldNames
  <2>4. Same(v1, w1) \/ (Agree(v1, w1) /\ Settled(v1))
    <3> HIDE DEF l
    <3>1. QED
      BY <2>2, <2>3, FirstTurnAgrees
  <2> HIDE DEF v1, w1
  <2>5. QED
    BY <2>4 DEF Settled
<1>3. Step(x, t, ret) = Reexecute(v4, t, ret) /\ Step(y, t, ret) = Reexecute(w4, t, ret)
  BY DEF Step
<1> HIDE DEF v1, w1, l
<1>4. CASE Same(v1, w1)
  <2>1. Lands(v2, l, Second) /\ Same(v2, w2)
    BY <1>1, <1>4, ReexecuteLands, SameReexecute
  <2> HIDE DEF v2, w2
  <2>2. Lands(v2, l, First)
    BY <2>1 DEF Lands, First
  <2>3. Lands(v3, l, Third) /\ Same(v3, w3)
    BY <2>1, <2>2, ReexecuteLands, SameReexecute
  <2> HIDE DEF v3, w3
  <2>4. Lands(v3, l, First)
    BY <2>3 DEF Lands, First, Second
  <2>5. Lands(v4, l, {}) /\ Same(v4, w4)
    BY <2>3, <2>4, ReexecuteLands, SameReexecute
  <2> HIDE DEF v4, w4
  <2>6. Lands(v4, l, First)
    BY <2>5 DEF Lands
  <2>7. Same(Reexecute(v4, t, ret), Reexecute(w4, t, ret))
    BY <2>5, <2>6, SameReexecute
  <2>8. QED
    BY <1>3, <2>7 DEF Same, Agree
<1>5. CASE Agree(v1, w1) /\ v1.again = FALSE
  <2>1. w1.again = FALSE
    BY <1>5 DEF Agree, Near
  <2>2. v2 = v1 /\ v3 = v1 /\ v4 = v1 /\ Reexecute(v4, t, ret) = v1
    BY <1>5 DEF Reexecute
  <2>3. w2 = w1 /\ w3 = w1 /\ w4 = w1 /\ Reexecute(w4, t, ret) = w1
    BY <2>1 DEF Reexecute
  <2>4. QED
    BY <1>3, <1>5, <2>2, <2>3
<1>6. QED
  BY <1>2, <1>4, <1>5

\* They say the same of the byte.
LEMMA AgreePart ==
  ASSUME NEW x, NEW y, Agree(x, y)
  PROVE  PartOf(x) = PartOf(y)
<1>1. x.marks = y.marks /\ x.http_errno = y.http_errno /\ (x.http_errno = "PAUSED" => x.calls = y.calls)
  BY DEF Agree, Near
<1>2. CASE x.http_errno = "PAUSED"
  BY <1>1, <1>2 DEF PartOf
<1>3. CASE x.http_errno # "PAUSED"
  BY <1>1, <1>3 DEF PartOf
<1>4. QED
  BY <1>2, <1>3

\* They remember the same of the message.
LEMMA NearCore ==
  ASSUME NEW x, NEW y, IsParser(x), IsParser(y), Near(x, y)
  PROVE  Core(x) = Core(y)
<1>1. \A f \in FieldNames \ {"marks", "skim", "calls"} : x[f] = y[f]
  BY DEF Near, FieldNames
<1>2. QED
  BY <1>1 DEF Core, IsParser

\* At most one kind of data is marked: one mark of http_parser_execute is set at a time.
LEMMA MarksFew ==
  ASSUME NEW x, Good(x)
  PROVE  Cardinality(x.marks) <= 1
<1>1. x.marks = {} \/ \E k : x.marks = {k}
  <2>1. CASE Refused(x)
    BY <2>1 DEF Refused
  <2>2. CASE Sane(x)
    <3>1. MarksAtStart(x.state) = {} \/ \E k : MarksAtStart(x.state) = {k}
      BY DEF MarksAtStart
    <3>2. x.state \in Collecting => MarksAtStart(x.state) = {}
      BY DEF MarksAtStart, Collecting, UrlStates
    <3>3. CASE "body" \in x.marks
      <4>1. MarksAtStart(x.state) = {}
        BY <2>2, <3>2, <3>3 DEF Sane, Marked
      <4>2. x.marks = {"body"}
        BY <2>2, <3>3, <4>1 DEF Sane, Marked
      <4>3. QED
        BY <4>2
    <3>4. CASE "body" \notin x.marks
      <4>1. x.marks = MarksAtStart(x.state)
        BY <2>2, <3>4 DEF Sane, Marked
      <4>2. QED
        BY <3>1, <4>1
    <3>5. QED
      BY <3>3, <3>4
  <2>3. QED
    BY <2>1, <2>2 DEF Good
<1>2. CASE x.marks = {}
  <2>1. Cardinality(x.marks) = 0
    BY <1>2, FS_EmptySet
  <2>2. QED
    BY <2>1
<1>3. ASSUME NEW k, x.marks = {k}
      PROVE  Cardinality(x.marks) <= 1
  <2>1. Cardinality({k}) = 1
    BY FS_Singleton
  <2>2. Cardinality(x.marks) = 1
    BY <1>3, <2>1
  <2>3. QED
    BY <2>2
<1>4. QED
  BY <1>1, <1>2, <1>3

\* The parser that gets its bytes in pieces and the one that gets them whole.
Together ==
  /\ InPieces /\ (\E last : Stays(q, last, open)) /\ Near(p, q) /\ data.cut = data.whole

\* Every step of the stream keeps the two parsers together.
LEMMA TogetherStep == ASSUME Together, StreamNext, <<"ctl">> \notin Alphabet PROVE Together'
<1>1. InPieces'
  BY InPiecesStep DEF Together
<1>2. PICK last : Stays(q, last, open)
  BY DEF Together
<1>3. /\ IsParser(p) /\ IsParser(q) /\ p.again = FALSE /\ q.again = FALSE /\ q.http_errno = p.http_errno
      /\ open \in BOOLEAN
  BY <1>2 DEF Together, InPieces, Stays, Good, Refused, Sane, Near
<1>4. ASSUME NEW t \in Alphabet, Feed(t) PROVE Together'
  <2>1. PICK ret \in Returns(p.state) : p' = Step(p, t, ret) /\ q' = Step(q, t, ret)
    BY <1>4 DEF Feed
  <2>2. p.http_errno = "OK" /\ open = TRUE /\ open' = open /\
        data' = [cut |-> PartOf(p'), whole |-> PartOf(q')]
    BY <1>3, <1>4 DEF Feed
  <2>3. Rests(p, stage) /\ Rests(q, last)
    BY <1>2, <1>3, <2>2 DEF Together, InPieces, Stays, Rests
  <2>4. Rests(q', Latest(q.calls, last))
    BY <1>3, <2>1, <2>2, <2>3, StepRests
  <2>5. Stays(q', Latest(q.calls, last), open')
    BY <2>4 DEF Rests, Stays
  <2>6. t # <<"ctl">>
    BY <1>4
  <2>7. Agree(p', q')
    BY <2>1, <2>2, <2>3, <2>6, StepAgrees DEF Together
  <2>8. Near(p', q')
    BY <2>7 DEF Agree
  <2>9. PartOf(p') = PartOf(q')
    BY <2>7, AgreePart
  <2>10. data'.cut = data'.whole
    BY <2>2, <2>9
  <2>11. QED
    BY <1>1, <2>5, <2>8, <2>10 DEF Together
<1>5. CASE EndPiece
  <2>1. PICK calls \in {<<>>} \cup {<<k>> : k \in p.marks} : p' = NextPiece(p, calls)
    BY <1>5 DEF EndPiece
  <2>2. q' = q /\ data' = data /\ open' = open
    BY <1>5 DEF EndPiece
  <2>3. Near(p', q)
    BY <1>3, <2>1 DEF Together, NextPiece, Near, IsParser, FieldNames
  <2>4. QED
    BY <1>1, <1>2, <2>2, <2>3 DEF Together
<1>6. CASE HeaderOverflow
  <2>1. /\ p' = [Err(p, "HEADER_OVERFLOW") EXCEPT !.calls = <<>>] /\ q' = Err(q, "HEADER_OVERFLOW")
        /\ data' = data /\ open' = open
    BY <1>6 DEF HeaderOverflow
  <2>2. Near(p', q')
    BY <1>3, <2>1 DEF Together, Err, Near, IsParser, FieldNames
  <2>3. Refused(q') /\ q'.calls = q.calls
    BY <1>3, <2>1 DEF Err, Refused, IsParser, FieldNames
  <2>4. Stays(q', last, open')
    BY <1>2, <2>3 DEF Stays, Good, Refused, Ordered
  <2>5. QED
    BY <1>1, <2>1, <2>2, <2>4 DEF Together
<1>7. CASE Eof
  <2> DEFINE v == NextPiece(p, <<>>)
             w == [q EXCEPT !.calls = <<>>]
             l == Latest(q.calls, last)
  <2>1. /\ p' = AtEof(v) /\ q' = AtEof(w) /\ open' = FALSE /\ data' = data /\ p.http_errno = "OK" /\
             open = TRUE
    BY <1>3, <1>7 DEF Eof
  <2>2. Sane(q) /\ (q.state = "s_chunk_size_start" => q.nread = 0) /\ l \in Leads(q.state, q.flags)
    BY <1>2, <1>3, <2>1 DEF Stays, Good, Refused, Told
  <2>3. /\ IsParser(w) /\ w.again = FALSE /\ w.http_errno = "OK" /\ w.state = q.state /\ w.marks = q.marks
        /\ w.content_length = q.content_length /\ w.flags = q.flags /\ w.header_state = q.header_state
        /\ w.calls = <<>> /\ w.nread = q.nread
    BY <1>3, <2>1 DEF IsParser, FieldNames
  <2>4. Sane(w)
    BY <2>2, <2>3 DEF Sane, Marked, Measured, Flagged, Valued
  <2>5. Stays(q', l, FALSE)
    BY <2>1, <2>2, <2>3, <2>4, EofStays
  <2>6. Near(v, w) /\ IsParser(v)
    BY <1>3 DEF Together, NextPiece, Near, IsParser, FieldNames
  <2>7. Near(AtEof(v), AtEof(w))
    <3> HIDE DEF v, w
    <3>1. v.state = w.state
      BY <2>6 DEF Near
    <3>2. Near(Err(v, "INVALID_EOF_STATE"), Err(w, "INVALID_EOF_STATE"))
      BY <2>3, <2>6 DEF Near, Err, IsParser, FieldNames
    <3>3. Near([Call(v, "message_complete") EXCEPT !.http_errno = "PAUSED"],
               [Call(w, "message_complete") EXCEPT !.http_errno = "PAUSED"])
      BY <2>3, <2>6 DEF Near, Call, IsParser, FieldNames
    <3>4. QED
      BY <2>6, <3>1, <3>2, <3>3 DEF AtEof
  <2>8. QED
    BY <1>1, <2>1, <2>5, <2>7 DEF Together
<1>8. CASE Resume
  <2>1. /\ p' = [NextPiece(p, <<>>) EXCEPT !.http_errno = "OK"]
        /\ q' = [NextPiece(q, <<>>) EXCEPT !.http_errno = "OK"]
        /\ p.http_errno = "PAUSED" /\ open' = open /\ open = TRUE /\ data' = data
    BY <1>3, <1>8 DEF Resume
  <2>2. Stays(q', Latest(q.calls, last), TRUE)
    BY <1>2, <1>3, <2>1, ResumeStays
  <2>3. Near(p', q')
    BY <1>3, <2>1 DEF Together, NextPiece, Near, IsParser, FieldNames
  <2>4. QED
    BY <1>1, <2>1, <2>2, <2>3 DEF Together
<1>9. QED
  BY <1>4, <1>5, <1>6, <1>7, <1>8 DEF StreamNext

\* What the runs check follows from it.
LEMMA TogetherIsRead == ASSUME Together PROVE StreamIsRead
<1>1. PICK last : Stays(q, last, open)
  BY DEF Together
<1>2. /\ Good(p) /\ Good(q) /\ p.again = FALSE /\ IsParser(p) /\ IsParser(q) /\ InOrder(p.calls, stage)
      /\ p.http_errno # "ASSERT" /\ q.http_errno # "ASSERT"
  BY <1>1 DEF Together, InPieces, Stays, Ordered, Good, Refused, Sane
<1>3. Cardinality(p.marks) <= 1 /\ Cardinality(q.marks) <= 1
  BY <1>2, MarksFew
<1>4. ~ p.again
  BY <1>2
<1>5. Core(p) = Core(q) /\ data.cut = data.whole
  BY <1>2, NearCore DEF Together
<1>6. CallbacksInOrder
  BY <1>2 DEF InOrder, CallbacksInOrder
<1>7. QED
  BY <1>2, <1>3, <1>4, <1>5, <1>6 DEF StreamIsRead, NoAssertFails, SplitsDontMatter

\* HttpStream: where the reads of the socket cut the bytes makes no difference to what
\* http_parser_execute remembers of the message, nor to the data each byte is handed over
\* as; at most one mark is set, no `goto reexecute' is left over, no assert() fails and the
\* callbacks of HttpPacket come in order. Control characters are left out: how many of them
\* pass in the value of a general header depends on the reads, because the rest of a line is
\* skimmed with memchr once its first byte has been looked at.
THEOREM TheStreamIsRead ==
  ASSUME <<"ctl">> \notin Alphabet
  PROVE  StreamSpec => []StreamIsRead
<1>1. StreamInit => Together
  <2>1. SUFFICES ASSUME StreamInit PROVE Together
    OBVIOUS
  <2>2. PICK type \in Types : p = Parser(type) /\ q = p
    BY <2>1 DEF StreamInit
  <2>3. stage = "none" /\ open = TRUE /\ data.cut = data.whole
    BY <2>1 DEF StreamInit
  <2>4. Stays(p, "none", TRUE)
    BY <2>2, ParserStays
  <2>5. Near(p, q)
    BY <2>2 DEF Near
  <2>6. QED
    BY <2>2, <2>3, <2>4, <2>5 DEF Together, InPieces
<1>2. Together /\ [StreamNext]_streamVars => Together'
  <2>1. CASE UNCHANGED streamVars
    BY <2>1 DEF Together, InPieces, streamVars
  <2>2. QED
    BY <2>1, TogetherStep
<1>3. QED
  BY <1>1, <1>2, TogetherIsRead, PTL DEF StreamSpec


---------------------------------------------------------------------------
(* URLs. *)

\* Spans of tokens, and the fields of a set that lie one after the other in the
\* tokens of a text behind lo and up to n.
Span(at, f) == at[f].off + 1 .. at[f].off + at[f].len
Tiled(text, set, at, lo, n) ==
  /\ \A f \in set : lo <= at[f].off /\ at[f].off + at[f].len <= n
  /\ \A f, g \in set : Rank[f] < Rank[g] /\ at[g].len # 0 => at[f].off + at[f].len <= at[g].off
  /\ \A i \in lo + 1 .. n : text[i] \in Delimiters \/ \E f \in set : i \in Span(at, f)

Places == [Fields -> [off : Nat, len : Nat]]

\* What http_parser_parse_url returns is well formed.
UrlTypeOK ==
  /\ url \in Seq(UrlTokens) /\ DOMAIN u = {"set", "at", "port"} /\ u.set \subseteq Fields
  /\ u.at \in Places /\ host \in [off : Nat, len : Nat] /\ next \in Nat
  /\ cutting \in {"url", "host", "refused", "accepted"}

\* The last field that a URL may have in a state.
Top(state) ==
  CASE state = "s_req_spaces_before_url" -> 0
    [] state \in {"s_req_schema", "s_req_schema_slash", "s_req_schema_slash_slash", "s_req_server_start"} -> 1
    [] state \in {"s_req_server", "s_req_server_with_at"} -> 3
    [] state \in {"s_req_path", "s_req_query_string_start"} -> 5
    [] state \in {"s_req_query_string", "s_req_fragment_start"} -> 6
    [] OTHER -> 7

\* The URL is being read.
Reading ==
  /\ s \in UrlStates /\ Tiled(url, u.set, u.at, 0, Len(url))
  /\ u.set \cap {"USERINFO", "PORT"} = {}
  /\ \A f \in u.set : Rank[f] <= Top(s) /\ u.at[f].len # 0
  /\ old_uf # "none" => old_uf \in u.set
  /\ FieldOf(s) # "none" => old_uf = FieldOf(s) /\ EndOf(old_uf) = Len(url)

\* The fields of the URL before the host is cut.
Outer == u.set \ {"USERINFO", "PORT"}
Uncut == [u.at EXCEPT !["HOST"] = host]

Inner == u.set \cap {"USERINFO", "HOST", "PORT"}

BeforeName == {"s_http_userinfo_start", "s_http_userinfo", "s_http_host_start", "s_http_host_v6_start"}
V6States == {"s_http_host_v6", "s_http_host_v6_zone_start", "s_http_host_v6_zone"}
InName == V6States \cup {"s_http_host"}
AfterName == {"s_http_host_v6_end", "s_http_host_port_start", "s_http_host_port"}
HostStates == BeforeName \cup InName \cup AfterName

\* The state tells what there is of the host.
Located ==
  /\ s \in BeforeName <=> u.at["HOST"].len = 0
  /\ "PORT" \in u.set <=> s = "s_http_host_port"
  /\ "PORT" \in u.set => u.at["PORT"].len # 0 /\ EndOf("PORT") = next - 1
  /\ s = "s_http_userinfo_start" => "USERINFO" \notin u.set
  /\ s = "s_http_userinfo" => "USERINFO" \in u.set /\ EndOf("USERINFO") = next - 1
  /\ "USERINFO" \in u.set => u.at["USERINFO"].len # 0
  /\ s = "s_http_host_v6_start" => next > 1 /\ url[next - 1] = <<"[">>
  /\ s \in InName => EndOf("HOST") = next - 1
  /\ s \in V6States => url[u.at["HOST"].off] = <<"[">>

\* The name of the host.
Clean ==
  \A i \in Span(u.at, "HOST") :
    /\ url[i] \in HostChars \cup {<<"%">>, <<":">>}
    /\ url[i] = <<":">> => url[u.at["HOST"].off] = <<"[">>

\* The host is being cut.
Cutting ==
  /\ s \in HostStates /\ "HOST" \in u.set
  /\ next \in host.off + 1 .. host.off + host.len + 1
  /\ Tiled(url, Outer, Uncut, 0, Len(url)) /\ \A f \in Outer : Uncut[f].len # 0
  /\ Tiled(url, Inner, u.at, host.off, next - 1) /\ Located /\ Clean

UrlInv ==
  /\ UrlTypeOK
  /\ cutting = "url" => Reading
  /\ cutting = "host" => Cutting
  /\ UrlsAreCut

\* The order as a table.
LEMMA RankTable ==
  /\ Rank["SCHEMA"] = 1 /\ Rank["USERINFO"] = 2 /\ Rank["HOST"] = 3 /\ Rank["PORT"] = 4
  /\ Rank["PATH"] = 5 /\ Rank["QUERY"] = 6 /\ Rank["FRAGMENT"] = 7
  /\ \A f \in Fields : Rank[f] \in 1 .. 7
BY DEF Rank, Fields

\* A delimiter more.
LEMMA TiledSkip ==
  ASSUME NEW text, NEW set \in SUBSET Fields, NEW at \in Places, NEW lo \in Nat, NEW n \in Nat,
         Tiled(text, set, at, lo, n), text[n + 1] \in Delimiters
  PROVE  Tiled(text, set, at, lo, n + 1)
<1>1. \A f \in set : at[f].off \in Nat /\ at[f].len \in Nat
  BY DEF Places
<1>2. \A f \in set : at[f].off + at[f].len <= n + 1
  BY <1>1 DEF Tiled
<1>3. \A i \in lo + 1 .. n + 1 : i \in lo + 1 .. n \/ i = n + 1
  OBVIOUS
<1>4. QED
  BY <1>2, <1>3 DEF Tiled

\* A token that a field begins with.
LEMMA TiledNew ==
  ASSUME NEW text, NEW set \in SUBSET Fields, NEW at \in Places, NEW lo \in Nat, NEW n \in Nat, lo <= n,
         Tiled(text, set, at, lo, n), NEW f \in Fields, f \in set => at[f].len = 0,
         \A g \in set : Rank[f] < Rank[g] => at[g].len = 0
  PROVE  Tiled(text, set \cup {f}, [at EXCEPT ![f] = [off |-> n, len |-> 1]], lo, n + 1)
<1> DEFINE to == [at EXCEPT ![f] = [off |-> n, len |-> 1]]
<1>1. /\ to[f].off = n /\ to[f].len = 1 /\ \A g \in set \ {f} : to[g] = at[g]
      /\ \A g \in set : at[g].off \in Nat /\ at[g].len \in Nat
  BY DEF Places
<1> HIDE DEF to
<1>2. \A g \in set \cup {f} : lo <= to[g].off /\ to[g].off + to[g].len <= n + 1
  BY <1>1 DEF Tiled
<1>3. ASSUME NEW g \in set \cup {f}, NEW h \in set \cup {f}, Rank[g] < Rank[h], to[h].len # 0
      PROVE  to[g].off + to[g].len <= to[h].off
  <2>1. g # h
    BY <1>3, RankTable
  <2>2. CASE h = f
    <3>1. g \in set /\ to[g] = at[g] /\ to[h].off = n
      BY <1>1, <2>1, <2>2
    <3>2. QED
      BY <3>1 DEF Tiled
  <2>3. CASE g = f
    BY <1>1, <1>3, <2>1, <2>3
  <2>4. CASE g # f /\ h # f
    <3>1. g \in set /\ h \in set /\ to[g] = at[g] /\ to[h] = at[h]
      BY <1>1, <2>4
    <3>2. QED
      BY <3>1, <1>3 DEF Tiled
  <2>5. QED
    BY <2>2, <2>3, <2>4
<1>4. ASSUME NEW i \in lo + 1 .. n + 1
      PROVE  text[i] \in Delimiters \/ \E g \in set \cup {f} : i \in Span(to, g)
  <2>1. CASE i = n + 1
    BY <1>1, <2>1 DEF Span
  <2>2. CASE i \in lo + 1 .. n
    <3>1. SUFFICES ASSUME NEW g \in set, i \in Span(at, g)
                   PROVE  \E h \in set \cup {f} : i \in Span(to, h)
      BY <2>2 DEF Tiled
    <3>2. g # f
      BY <1>1, <3>1 DEF Span
    <3>3. i \in Span(to, g)
      BY <1>1, <3>1, <3>2 DEF Span
    <3>4. QED
      BY <3>3
  <2>3. QED
    BY <2>1, <2>2
<1>5. QED
  BY <1>2, <1>3, <1>4 DEF Tiled, to

\* A token more of a field.
LEMMA TiledLonger ==
  ASSUME NEW text, NEW set \in SUBSET Fields, NEW at \in Places, NEW lo \in Nat, NEW n \in Nat, lo <= n,
         Tiled(text, set, at, lo, n), NEW f \in set, at[f].off + at[f].len = n,
         at[f].len # 0, \A g \in set : Rank[f] < Rank[g] => at[g].len = 0
  PROVE  Tiled(text, set, [at EXCEPT ![f].len = @ + 1], lo, n + 1)
<1> DEFINE to == [at EXCEPT ![f].len = @ + 1]
<1>1. /\ to[f].off = at[f].off /\ to[f].len = at[f].len + 1 /\ \A g \in set \ {f} : to[g] = at[g]
      /\ \A g \in set : at[g].off \in Nat /\ at[g].len \in Nat
  BY DEF Places
<1> HIDE DEF to
<1>2. \A g \in set : lo <= to[g].off /\ to[g].off + to[g].len <= n + 1
  BY <1>1 DEF Tiled
<1>3. ASSUME NEW g \in set, NEW h \in set, Rank[g] < Rank[h], to[h].len # 0
      PROVE  to[g].off + to[g].len <= to[h].off
  <2>1. g # h
    BY <1>3, RankTable
  <2>2. CASE g = f
    BY <1>1, <1>3, <2>1, <2>2
  <2>3. CASE g # f
    <3>1. to[g] = at[g] /\ to[h].off = at[h].off /\ at[h].len # 0
      BY <1>1, <1>3, <2>3
    <3>2. QED
      BY <3>1, <1>3 DEF Tiled
  <2>4. QED
    BY <2>2, <2>3
<1>4. ASSUME NEW i \in lo + 1 .. n + 1
      PROVE  text[i] \in Delimiters \/ \E g \in set : i \in Span(to, g)
  <2>1. CASE i = n + 1
    <3>1. i \in Span(to, f)
      BY <1>1, <2>1 DEF Span
    <3>2. QED
      BY <3>1
  <2>2. CASE i \in lo + 1 .. n
    <3>1. SUFFICES ASSUME NEW g \in set, i \in Span(at, g)
                   PROVE  i \in Span(to, g)
      BY <2>2 DEF Tiled
    <3>2. QED
      BY <1>1, <3>1 DEF Span
  <2>3. QED
    BY <2>1, <2>2
<1>5. QED
  BY <1>2, <1>3, <1>4 DEF Tiled, to

\* More tokens behind a text change nothing in it.
LEMMA TiledPrefix ==
  ASSUME NEW text, NEW more, NEW set, NEW at, NEW lo \in Nat, NEW n \in Nat, Tiled(text, set, at, lo, n),
         \A i \in 1 .. n : more[i] = text[i]
  PROVE  Tiled(more, set, at, lo, n)
BY DEF Tiled

\* Where parse_url_char goes, and what the token is part of.
LEMMA UrlCharStep ==
  ASSUME NEW from \in UrlStates, NEW t, ParseUrlChar(from, t) # "s_dead"
  PROVE  LET n == ParseUrlChar(from, t)
             f == FieldOf(n)
         IN  /\ n \in UrlStates
             /\ \/ f = "none" /\ t \in Delimiters /\ Top(from) <= Top(n)
                \/ f # "none" /\ f \in Fields \ {"USERINFO", "PORT"} /\ Rank[f] = Top(n)
                   /\ (FieldOf(from) = f \/ Top(from) < Top(n))
<1> DEFINE n == ParseUrlChar(from, t)
<1>1. CASE from = "s_req_spaces_before_url"
  <2>1. n \in {"s_req_path", "s_req_schema"}
    BY <1>1 DEF ParseUrlChar
  <2>2. QED
    BY <1>1, <2>1, RankTable DEF FieldOf, Top, UrlStates, Fields
<1>2. CASE from = "s_req_schema"
  <2>1. n = "s_req_schema" \/ (n = "s_req_schema_slash" /\ t = <<":">>)
    BY <1>2 DEF ParseUrlChar
  <2>2. QED
    BY <1>2, <2>1, RankTable DEF FieldOf, Top, UrlStates, Fields, Delimiters
<1>3. CASE from \in {"s_req_schema_slash", "s_req_schema_slash_slash"}
  <2>1. n \in {"s_req_schema_slash_slash", "s_req_server_start"} /\ t = <<"/">>
    BY <1>3 DEF ParseUrlChar
  <2>2. QED
    BY <1>3, <2>1, RankTable DEF FieldOf, Top, UrlStates, Fields, Delimiters
<1>4. CASE from \in {"s_req_server_start", "s_req_server", "s_req_server_with_at"}
  <2>1. n \in {"s_req_path", "s_req_server", "s_req_server_with_at"}
        \/ (n = "s_req_query_string_start" /\ t = <<"?">>)
    BY <1>4 DEF ParseUrlChar
  <2>2. QED
    BY <1>4, <2>1, RankTable DEF FieldOf, Top, UrlStates, Fields, Delimiters
<1>5. CASE from = "s_req_path"
  <2>1. \/ n = "s_req_path"
        \/ n = "s_req_query_string_start" /\ t = <<"?">>
        \/ n = "s_req_fragment_start" /\ t = <<"#">>
    BY <1>5 DEF ParseUrlChar
  <2>2. QED
    BY <1>5, <2>1, RankTable DEF FieldOf, Top, UrlStates, Fields, Delimiters
<1>6. CASE from \in {"s_req_query_string_start", "s_req_query_string"}
  <2>1. \/ n = "s_req_query_string"
        \/ n = "s_req_fragment_start" /\ t = <<"#">>
    BY <1>6 DEF ParseUrlChar
  <2>2. QED
    BY <1>6, <2>1, RankTable DEF FieldOf, Top, UrlStates, Fields, Delimiters
<1>7. CASE from = "s_req_fragment_start"
  <2>1. \/ n = "s_req_fragment"
        \/ n = "s_req_fragment_start" /\ t = <<"#">>
    BY <1>7 DEF ParseUrlChar
  <2>2. QED
    BY <1>7, <2>1, RankTable DEF FieldOf, Top, UrlStates, Fields, Delimiters
<1>8. CASE from = "s_req_fragment"
  <2>1. n = "s_req_fragment"
    BY <1>8 DEF ParseUrlChar
  <2>2. QED
    BY <1>8, <2>1, RankTable DEF FieldOf, Top, UrlStates, Fields, Delimiters
<1>9. QED
  BY <1>1, <1>2, <1>3, <1>4, <1>5, <1>6, <1>7, <1>8 DEF UrlStates

\* What a field gains with a token.
LEMMA ExtendNew ==
  ASSUME UrlTypeOK, NEW f \in Fields, NEW i \in Nat
  PROVE  /\ DOMAIN Extend(f, i + 1, TRUE) = {"set", "at", "port"} /\ Extend(f, i + 1, TRUE).at \in Places
         /\ Extend(f, i + 1, TRUE).set = u.set \cup {f}
         /\ Extend(f, i + 1, TRUE).at = [u.at EXCEPT ![f] = [off |-> i, len |-> 1]]
<1>1. [u.at EXCEPT ![f] = [off |-> i, len |-> 1]] \in Places
  BY DEF UrlTypeOK, Places
<1> DEFINE k == i + 1
<1>2. k - 1 = i
  OBVIOUS
<1> HIDE DEF k
<1>3. /\ DOMAIN Extend(f, k, TRUE) = {"set", "at", "port"} /\ Extend(f, k, TRUE).set = u.set \cup {f}
      /\ Extend(f, k, TRUE).at = [u.at EXCEPT ![f] = [off |-> k - 1, len |-> 1]]
  BY DEF Extend, UrlTypeOK
<1>4. QED
  BY <1>1, <1>2, <1>3 DEF k

\* ... and what it gains with one more.
LEMMA ExtendMore ==
  ASSUME UrlTypeOK, NEW f \in Fields, NEW i
  PROVE  /\ DOMAIN Extend(f, i, FALSE) = {"set", "at", "port"} /\ Extend(f, i, FALSE).at \in Places
         /\ Extend(f, i, FALSE).set = u.set
         /\ Extend(f, i, FALSE).at = [u.at EXCEPT ![f].len = @ + 1]
<1>1. [u.at EXCEPT ![f].len = @ + 1] \in Places
  <2>1. [u.at[f] EXCEPT !.len = @ + 1] \in [off : Nat, len : Nat]
    BY DEF UrlTypeOK, Places
  <2>2. QED
    BY <2>1 DEF UrlTypeOK, Places
<1>2. Extend(f, i, FALSE) = [u EXCEPT !.at[f].len = @ + 1]
  BY DEF Extend
<1>3. QED
  BY <1>1, <1>2 DEF UrlTypeOK

\* A field is the last of those that the state allows.
LEMMA FieldTop ==
  ASSUME NEW state \in UrlStates, FieldOf(state) # "none"
  PROVE  Rank[FieldOf(state)] = Top(state)
<1>1. CASE state = "s_req_schema"
  BY <1>1, RankTable DEF FieldOf, Top
<1>2. CASE state \in {"s_req_server", "s_req_server_with_at"}
  BY <1>2, RankTable DEF FieldOf, Top
<1>3. CASE state = "s_req_path"
  BY <1>3, RankTable DEF FieldOf, Top
<1>4. CASE state = "s_req_query_string"
  BY <1>4, RankTable DEF FieldOf, Top
<1>5. CASE state = "s_req_fragment"
  BY <1>5, RankTable DEF FieldOf, Top
<1>6. QED
  BY <1>1, <1>2, <1>3, <1>4, <1>5 DEF FieldOf

\* A token of the URL: it is a delimiter, begins a later field or makes the last one longer.
LEMMA UrlTokenKeeps ==
  ASSUME UrlInv, NEW t \in UrlTokens, UrlToken(t)
  PROVE  UrlInv'
<1> DEFINE n == ParseUrlChar(s, t)
           f == FieldOf(n)
           l == Len(url)
<1>1. /\ cutting = "url" /\ Reading /\ UrlTypeOK /\ url' = Append(url, t) /\ s' = n
      /\ cutting' = IF n = "s_dead" THEN "refused" ELSE cutting
      /\ old_uf' = IF f = "none" THEN old_uf ELSE f
      /\ u' = IF f = "none" THEN u ELSE Extend(f, l + 1, f # old_uf)
      /\ UNCHANGED <<next, host>>
  BY DEF UrlInv, UrlToken
<1>2. l \in Nat /\ url' \in Seq(UrlTokens) /\ Len(url') = l + 1 /\ url'[l + 1] = t
      /\ \A i \in 1 .. l : url'[i] = url[i]
  BY <1>1 DEF UrlTypeOK
<1>3. Tiled(url', u.set, u.at, 0, l)
  BY <1>1, <1>2, TiledPrefix DEF Reading
<1>4. UrlsAreCut'
  BY <1>1 DEF UrlsAreCut, FieldsTile, HostIsClean
<1>5. CASE n = "s_dead"
  <2>1. f = "none"
    BY <1>5 DEF FieldOf
  <2>2. UrlTypeOK'
    BY <1>1, <1>2, <1>5, <2>1 DEF UrlTypeOK
  <2>3. QED
    BY <1>1, <1>4, <1>5, <2>2 DEF UrlInv
<1>6. CASE n # "s_dead" /\ f = "none"
  <2>1. n \in UrlStates /\ t \in Delimiters /\ Top(s) <= Top(n)
    BY <1>1, <1>6, UrlCharStep DEF Reading
  <2>2. u' = u /\ old_uf' = old_uf /\ cutting' = "url"
    BY <1>1, <1>6
  <2>3. UrlTypeOK'
    BY <1>1, <1>2, <2>2 DEF UrlTypeOK
  <2>4. Tiled(url', u.set, u.at, 0, l + 1)
    BY <1>1, <1>2, <1>3, <2>1, TiledSkip DEF UrlTypeOK
  <2>5. \A g \in u.set : Rank[g] <= Top(n)
    <3>1. \A g \in u.set : Rank[g] \in Int /\ Rank[g] <= Top(s)
      BY <1>1, RankTable DEF Reading, UrlTypeOK
    <3>2. Top(s) \in Int /\ Top(n) \in Int
      BY DEF Top
    <3>3. QED
      BY <2>1, <3>1, <3>2
  <2>6. Reading'
    BY <1>1, <1>2, <1>6, <2>1, <2>2, <2>4, <2>5 DEF Reading
  <2>7. QED
    BY <1>4, <2>2, <2>3, <2>6 DEF UrlInv
<1>7. CASE n # "s_dead" /\ f # "none"
  <2>1. /\ n \in UrlStates /\ f \in Fields \ {"USERINFO", "PORT"} /\ Rank[f] = Top(n)
        /\ FieldOf(s) = f \/ Top(s) < Top(n)
    BY <1>1, <1>7, UrlCharStep DEF Reading
  <2>2. old_uf' = f /\ cutting' = "url"
    BY <1>1, <1>7
  <2>3. \A g \in u.set : Rank[g] \in Int /\ Rank[g] <= Top(s) /\ u.at[g].len # 0 /\ g \in Fields
    BY <1>1, RankTable DEF Reading, UrlTypeOK
  <2>4. Top(s) \in Int /\ Top(n) \in Int
    BY DEF Top
  <2> HIDE DEF n, f, l
  <2> DEFINE Grown ==
        /\ DOMAIN u' = {"set", "at", "port"} /\ u'.at \in Places /\ u'.set = u.set \cup {f}
        /\ Tiled(url', u'.set, u'.at, 0, l + 1)
        /\ u'.at[f].off + u'.at[f].len = l + 1 /\ f \in u'.set
        /\ \A g \in u'.set : Rank[g] <= Top(n) /\ u'.at[g].len # 0
  <2>5. ASSUME f = old_uf PROVE Grown
    <3>1. f \in u.set
      BY <1>1, <1>7, <2>5 DEF Reading
    <3>2. FieldOf(s) = f
      BY <2>1, <2>3, <2>4, <3>1
    <3>3. Rank[f] <= Top(s) /\ u.at[f].off + u.at[f].len = l
      BY <1>1, <1>7, <2>3, <2>5, <3>1, <3>2 DEF Reading, EndOf, l
    <3>4. u' = Extend(f, l + 1, FALSE)
      BY <1>1, <1>7, <2>5
    <3>5. /\ DOMAIN u' = {"set", "at", "port"} /\ u'.at \in Places /\ u'.set = u.set
          /\ u'.at = [u.at EXCEPT ![f].len = @ + 1]
      <4>1. UrlTypeOK /\ f \in Fields
        BY <1>1, <2>1
      <4>2. /\ DOMAIN Extend(f, l + 1, FALSE) = {"set", "at", "port"} /\ Extend(f, l + 1, FALSE).at \in Places
            /\ Extend(f, l + 1, FALSE).set = u.set
            /\ Extend(f, l + 1, FALSE).at = [u.at EXCEPT ![f].len = @ + 1]
        BY <4>1, ExtendMore
      <4>3. QED
        BY <3>4, <4>2
    <3>6. Top(n) = Top(s)
      <4>1. s \in UrlStates /\ FieldOf(s) # "none"
        BY <1>1, <1>7, <3>2 DEF Reading
      <4>2. QED
        BY <2>1, <3>2, <4>1, FieldTop
    <3>7. \A g \in u.set : ~ (Rank[f] < Rank[g])
      BY <2>1, <2>3, <2>4, <3>6
    <3>8. Tiled(url', u'.set, u'.at, 0, l + 1)
      <4>1. /\ u.set \in SUBSET Fields /\ u.at \in Places /\ 0 \in Nat /\ l \in Nat /\ 0 <= l
            /\ u.at[f].len # 0
        BY <1>1, <1>2, <2>3, <3>1 DEF UrlTypeOK
      <4>2. Tiled(url', u.set, [u.at EXCEPT ![f].len = @ + 1], 0, l + 1)
        BY <1>3, <3>1, <3>3, <3>7, <4>1, TiledLonger
      <4>3. QED
        BY <3>5, <4>2
    <3>9. /\ u'.at[f].off = u.at[f].off /\ u'.at[f].len = u.at[f].len + 1
          /\ \A g \in u.set \ {f} : u'.at[g] = u.at[g]
          /\ u.at[f].off \in Nat /\ u.at[f].len \in Nat
      BY <1>1, <2>1, <2>3, <3>5 DEF UrlTypeOK, Places
    <3>10. /\ u'.at[f].off + u'.at[f].len = l + 1 /\ f \in u'.set
           /\ \A g \in u'.set : Rank[g] <= Top(n) /\ u'.at[g].len # 0
      BY <1>2, <2>2, <2>3, <3>1, <3>3, <3>5, <3>6, <3>9
    <3>11. QED
      BY <3>1, <3>5, <3>8, <3>10
  <2>6. ASSUME f # old_uf PROVE Grown
    <3>1. FieldOf(s) # f
      BY <1>1, <1>7, <2>6 DEF Reading
    <3>2. f \notin u.set
      BY <2>1, <2>3, <2>4, <3>1
    <3>3. u' = Extend(f, l + 1, TRUE)
      BY <1>1, <1>7, <2>6
    <3>4. /\ DOMAIN u' = {"set", "at", "port"} /\ u'.at \in Places /\ u'.set = u.set \cup {f}
          /\ u'.at = [u.at EXCEPT ![f] = [off |-> l, len |-> 1]]
      <4>1. UrlTypeOK /\ f \in Fields /\ l \in Nat
        BY <1>1, <1>2, <2>1
      <4>2. /\ DOMAIN Extend(f, l + 1, TRUE) = {"set", "at", "port"} /\ Extend(f, l + 1, TRUE).at \in Places
            /\ Extend(f, l + 1, TRUE).set = u.set \cup {f}
            /\ Extend(f, l + 1, TRUE).at = [u.at EXCEPT ![f] = [off |-> l, len |-> 1]]
        BY <4>1, ExtendNew
      <4>3. QED
        BY <3>3, <4>2
    <3>6. \A g \in u.set : ~ (Rank[f] < Rank[g])
      BY <2>1, <2>3, <2>4, <3>1
    <3>7. Tiled(url', u'.set, u'.at, 0, l + 1)
      BY <1>1, <1>2, <1>3, <2>1, <3>2, <3>4, <3>6, TiledNew DEF UrlTypeOK
    <3>8. u'.at[f].off = l /\ u'.at[f].len = 1 /\ \A g \in u.set \ {f} : u'.at[g] = u.at[g]
      BY <1>1, <2>1, <3>4 DEF UrlTypeOK, Places
    <3>9. /\ u'.at[f].off + u'.at[f].len = l + 1 /\ f \in u'.set
          /\ \A g \in u'.set : Rank[g] <= Top(n) /\ u'.at[g].len # 0
      BY <1>2, <2>1, <2>2, <2>3, <2>4, <3>1, <3>4, <3>8
    <3>10. QED
      BY <2>1, <3>4, <3>7, <3>9
  <2>7. Grown
    BY <2>5, <2>6
  <2>8. UrlTypeOK'
    BY <1>1, <1>2, <2>1, <2>2, <2>7 DEF UrlTypeOK
  <2>9. Reading'
    <3>1. f # "none" /\ f = FieldOf(s')
      BY <1>1, <1>7 DEF f
    <3>2. u'.set \cap {"USERINFO", "PORT"} = {}
      BY <1>1, <2>1, <2>7 DEF Reading
    <3>3. QED
      BY <1>1, <1>2, <2>1, <2>2, <2>7, <3>1, <3>2 DEF Reading, EndOf
  <2>10. QED
    BY <1>4, <2>2, <2>8, <2>9 DEF UrlInv
<1>8. QED
  BY <1>5, <1>6, <1>7

\* A URL whose fields lie one after the other.
LEMMA TiledIsTile ==
  ASSUME Tiled(url, u.set, u.at, 0, Len(url)), \A f \in u.set : u.at[f].len # 0, url \in Seq(UrlTokens)
  PROVE  FieldsTile
<1>1. DOMAIN url = 1 .. Len(url)
  OBVIOUS
<1>2. QED
  BY <1>1 DEF Tiled, FieldsTile, EndOf, Span

\* Only the fields of the set count.
LEMMA TiledSame ==
  ASSUME NEW text, NEW set, NEW at, NEW to, NEW lo, NEW n, Tiled(text, set, at, lo, n),
         \A f \in set : to[f] = at[f]
  PROVE  Tiled(text, set, to, lo, n)
BY DEF Tiled, Span

\* The URL has ended: without a host it is cut, with one the host is cut next.
LEMMA UrlEndKeeps ==
  ASSUME UrlInv, UrlEnd
  PROVE  UrlInv'
<1>1. UrlTypeOK /\ Reading /\ cutting = "url" /\ UNCHANGED <<url, connect, found_at, old_uf>>
  BY DEF UrlInv, UrlEnd
<1>2. CASE "HOST" \notin u.set
  <2>1. cutting' \in {"refused", "accepted"} /\ UNCHANGED <<s, host, next, u>>
    BY <1>2 DEF UrlEnd
  <2>2. UrlTypeOK'
    BY <1>1, <2>1 DEF UrlTypeOK
  <2>3. \A f \in u.set : u.at[f].len # 0
    BY <1>1 DEF Reading
  <2>4. FieldsTile'
    <3>1. Tiled(url, u.set, u.at, 0, Len(url))'
          /\ (\A f \in u.set : u.at[f].len # 0)' /\ (url \in Seq(UrlTokens))'
      BY <1>1, <2>1, <2>3 DEF Reading, UrlTypeOK, Tiled, Span
    <3>2. QED
      BY <3>1, TiledIsTile, PTL
  <2>5. HostIsClean'
    BY <1>2, <2>1 DEF HostIsClean
  <2>6. QED
    BY <2>1, <2>2, <2>4, <2>5 DEF UrlInv, UrlsAreCut
<1>3. CASE "HOST" \in u.set
  <2> DEFINE at == [u.at EXCEPT !["HOST"].len = 0]
             h == u.at["HOST"]
  <2>1. /\ cutting' = "host" /\ s' \in {"s_http_userinfo_start", "s_http_host_start"}
        /\ host' = h /\ next' = h.off + 1 /\ u' = [u EXCEPT !.at["HOST"].len = 0]
    BY <1>3 DEF UrlEnd, HostStart
  <2>2. h \in [off : Nat, len : Nat] /\ h.off \in Nat /\ h.len \in Nat /\ "HOST" \in Fields
    BY <1>1 DEF UrlTypeOK, Places, Fields
  <2>3. DOMAIN u' = {"set", "at", "port"} /\ u'.set = u.set /\ u'.at = at
    BY <1>1, <2>1 DEF UrlTypeOK
  <2>4. at \in Places /\ at["HOST"].off = h.off /\ at["HOST"].len = 0
        /\ \A f \in Fields \ {"HOST"} : at[f] = u.at[f]
    <3>1. [h EXCEPT !.len = 0] \in [off : Nat, len : Nat]
      BY <2>2
    <3>2. QED
      BY <1>1, <2>2, <3>1 DEF UrlTypeOK, Places
  <2>5. UrlTypeOK'
    BY <1>1, <2>1, <2>2, <2>3, <2>4 DEF UrlTypeOK
  <2>6. u.set \cap {"USERINFO", "PORT"} = {} /\ h.len # 0 /\ Tiled(url, u.set, u.at, 0, Len(url))
        /\ \A f \in u.set : u.at[f].len # 0
    BY <1>1, <1>3 DEF Reading
  <2>7. Outer' = u.set /\ Inner' = {"HOST"}
    BY <1>3, <2>3, <2>6 DEF Outer, Inner
  <2> HIDE DEF at, h
  <2>8. \A f \in u.set : Uncut'[f] = u.at[f]
    <3>1. Uncut' = [at EXCEPT !["HOST"] = h]
      BY <2>1, <2>3 DEF Uncut
    <3>2. u.set \subseteq Fields /\ DOMAIN at = Fields
      BY <1>1, <2>4 DEF UrlTypeOK, Places
    <3>3. QED
      BY <2>4, <3>1, <3>2 DEF h
  <2>9. Tiled(url, u.set, Uncut', 0, Len(url))
    BY <2>6, <2>8, TiledSame
  <2>10. Tiled(url, {"HOST"}, at, h.off, h.off)
    BY <2>2, <2>4, RankTable DEF Tiled
  <2>11. next' - 1 = h.off /\ next' \in h.off + 1 .. h.off + h.len + 1
    BY <2>1, <2>2
  <2>12. Located'
    BY <1>3, <2>1, <2>3, <2>4, <2>6 DEF Located, BeforeName, InName, V6States
  <2>13. Clean'
    BY <2>2, <2>3, <2>4 DEF Clean, Span
  <2>14. s' \in HostStates
    BY <2>1 DEF HostStates, BeforeName
  <2>15. Cutting'
    BY <1>1, <1>3, <2>1, <2>3, <2>6, <2>7, <2>8, <2>9, <2>10, <2>11, <2>12, <2>13, <2>14 DEF Cutting
  <2>16. UrlsAreCut'
    BY <2>1 DEF UrlsAreCut, FieldsTile, HostIsClean
  <2>17. QED
    BY <2>1, <2>5, <2>15, <2>16 DEF UrlInv
<1>4. QED
  BY <1>2, <1>3

\* Where http_parse_host_char goes.
LEMMA HostCharStep ==
  ASSUME NEW from \in HostStates, NEW t, ParseHostChar(from, t) # "s_http_host_dead"
  PROVE  LET n == ParseHostChar(from, t)
         IN  \/ from \in {"s_http_userinfo_start", "s_http_userinfo"}
                /\ (n = "s_http_userinfo" \/ (n = "s_http_host_start" /\ t = <<"@">>))
             \/ from = "s_http_host_start"
                /\ ((n = "s_http_host" /\ t \in HostChars) \/ (n = "s_http_host_v6_start" /\ t = <<"[">>))
             \/ from = "s_http_host"
                /\ ((n = "s_http_host" /\ t \in HostChars) \/ (n = "s_http_host_port_start" /\ t = <<":">>))
             \/ from = "s_http_host_v6_start" /\ n = "s_http_host_v6"
                /\ t \in HexChars \cup {<<":">>, <<".">>}
             \/ from = "s_http_host_v6"
                /\ \/ n = "s_http_host_v6" /\ t \in HexChars \cup {<<":">>, <<".">>}
                   \/ n = "s_http_host_v6_end" /\ t = <<"]">>
                   \/ n = "s_http_host_v6_zone_start" /\ t = <<"%">>
             \/ from \in {"s_http_host_v6_zone_start", "s_http_host_v6_zone"}
                /\ \/ n = "s_http_host_v6_zone" /\ t \in HostChars \cup {<<"%">>}
                   \/ n = "s_http_host_v6_end" /\ t = <<"]">> /\ from = "s_http_host_v6_zone"
             \/ from = "s_http_host_v6_end" /\ n = "s_http_host_port_start" /\ t = <<":">>
             \/ from \in {"s_http_host_port_start", "s_http_host_port"} /\ n = "s_http_host_port"
<1>1. CASE from \in {"s_http_userinfo_start", "s_http_userinfo"}
  BY <1>1 DEF ParseHostChar
<1>2. CASE from = "s_http_host_start"
  BY <1>2 DEF ParseHostChar
<1>3. CASE from = "s_http_host"
  BY <1>3 DEF ParseHostChar
<1>4. CASE from = "s_http_host_v6_start"
  BY <1>4 DEF ParseHostChar
<1>5. CASE from = "s_http_host_v6"
  BY <1>5 DEF ParseHostChar
<1>6. CASE from \in {"s_http_host_v6_zone_start", "s_http_host_v6_zone"}
  BY <1>6 DEF ParseHostChar
<1>7. CASE from = "s_http_host_v6_end"
  BY <1>7 DEF ParseHostChar
<1>8. CASE from \in {"s_http_host_port_start", "s_http_host_port"}
  BY <1>8 DEF ParseHostChar
<1>9. QED
  BY <1>1, <1>2, <1>3, <1>4, <1>5, <1>6, <1>7, <1>8 DEF HostStates, BeforeName, InName, V6States, AfterName

\* A token of the host in field f, or in none.
Reads(n, f) ==
  \/ /\ f = "none" /\ u' = u /\ url[next] \in Delimiters
  \/ /\ f \in {"USERINFO", "HOST", "PORT"} /\ DOMAIN u' = {"set", "at", "port"}
     /\ \/ /\ u'.set = u.set \cup {f} /\ u'.at = [u.at EXCEPT ![f] = [off |-> next - 1, len |-> 1]]
           /\ f \in u.set => u.at[f].len = 0
        \/ /\ u'.set = u.set /\ u'.at = [u.at EXCEPT ![f].len = @ + 1]
           /\ f \in u.set /\ u.at[f].off + u.at[f].len = next - 1 /\ u.at[f].len # 0
     /\ \A g \in Inner : Rank[f] < Rank[g] => u.at[g].len = 0

\* Whatever the token is part of, what is outside the host stays, and what is inside is cut up to it.
LEMMA ReadsKeeps ==
  ASSUME UrlTypeOK, Cutting, next <= host.off + host.len, next' = next + 1, UNCHANGED <<url, host>>,
         NEW n, NEW f, Reads(n, f)
  PROVE  /\ DOMAIN u' = {"set", "at", "port"} /\ u'.set \subseteq Fields
         /\ u'.at \in Places /\ "HOST" \in u'.set
         /\ Tiled(url', Outer', Uncut', 0, Len(url')) /\ (\A g \in Outer' : Uncut'[g].len # 0)
         /\ Tiled(url', Inner', u'.at, host'.off, next' - 1)
         /\ next' \in host'.off + 1 .. host'.off + host'.len + 1
<1> DEFINE j == next - 1
<1>1. /\ next \in Nat /\ j \in Nat /\ j + 1 = next /\ next' - 1 = j + 1
      /\ host.off \in Nat /\ host.len \in Nat
      /\ host.off <= j
  BY DEF UrlTypeOK, Cutting
<1>2. next' \in host'.off + 1 .. host'.off + host'.len + 1
  BY <1>1
<1>3. /\ Inner \in SUBSET Fields /\ u.at \in Places /\ Tiled(url, Inner, u.at, host.off, j)
      /\ Tiled(url, Outer, Uncut, 0, Len(url)) /\ (\A g \in Outer : Uncut[g].len # 0) /\ "HOST" \in u.set
      /\ u.set \subseteq Fields
  BY DEF UrlTypeOK, Cutting, Inner
<1> HIDE DEF j
<1>4. CASE f = "none"
  <2>1. u' = u /\ url[j + 1] \in Delimiters
    BY <1>1, <1>4 DEF Reads
  <2>2. Tiled(url, Inner, u.at, host.off, j + 1)
    BY <1>1, <1>3, <2>1, TiledSkip
  <2>3. Inner' = Inner /\ Outer' = Outer /\ Uncut' = Uncut
    BY <2>1 DEF Inner, Outer, Uncut
  <2>4. QED
    BY <1>1, <1>2, <1>3, <2>1, <2>2, <2>3 DEF UrlTypeOK
<1>5. CASE f # "none"
  <2>1. f \in {"USERINFO", "HOST", "PORT"} /\ f \in Fields /\ DOMAIN u' = {"set", "at", "port"}
        /\ \A g \in Inner : Rank[f] < Rank[g] => u.at[g].len = 0
    BY <1>5 DEF Reads, Fields
  <2>2. /\ u'.at \in Places /\ u'.set = u.set \cup {f} /\ \A g \in Fields \ {f} : u'.at[g] = u.at[g]
        /\ Tiled(url, Inner \cup {f}, u'.at, host.off, j + 1)
    <3>1. CASE /\ u'.set = u.set \cup {f} /\ u'.at = [u.at EXCEPT ![f] = [off |-> next - 1, len |-> 1]]
               /\ f \in u.set => u.at[f].len = 0
      <4>1. u'.at = [u.at EXCEPT ![f] = [off |-> j, len |-> 1]] /\ (f \in Inner => u.at[f].len = 0)
        BY <3>1 DEF j, Inner
      <4>2. Tiled(url, Inner \cup {f}, [u.at EXCEPT ![f] = [off |-> j, len |-> 1]], host.off, j + 1)
        BY <1>1, <1>3, <2>1, <4>1, TiledNew
      <4>3. u'.at \in Places /\ \A g \in Fields \ {f} : u'.at[g] = u.at[g]
        BY <1>1, <1>3, <2>1, <4>1 DEF Places
      <4>4. QED
        BY <3>1, <4>1, <4>2, <4>3
    <3>2. CASE /\ u'.set = u.set /\ u'.at = [u.at EXCEPT ![f].len = @ + 1]
               /\ f \in u.set /\ u.at[f].off + u.at[f].len = next - 1 /\ u.at[f].len # 0
      <4>1. f \in Inner /\ u.at[f].off + u.at[f].len = j /\ Inner \cup {f} = Inner /\ u.set \cup {f} = u.set
        BY <2>1, <3>2 DEF j, Inner
      <4>2. Tiled(url, Inner, [u.at EXCEPT ![f].len = @ + 1], host.off, j + 1)
        BY <1>1, <1>3, <2>1, <3>2, <4>1, TiledLonger
      <4>3. u'.at \in Places /\ \A g \in Fields \ {f} : u'.at[g] = u.at[g]
        <5>1. u.at[f] \in [off : Nat, len : Nat]
          BY <1>3, <2>1 DEF Places
        <5>2. [u.at[f] EXCEPT !.len = @ + 1] \in [off : Nat, len : Nat]
          BY <5>1
        <5>3. QED
          BY <1>3, <2>1, <3>2, <5>2 DEF Places
      <4>4. QED
        BY <3>2, <4>1, <4>2, <4>3
    <3>3. QED
      BY <1>5, <3>1, <3>2 DEF Reads
  <2>3. Inner' = Inner \cup {f} /\ Outer' = Outer /\ u'.set \subseteq Fields /\ "HOST" \in u'.set
    BY <1>3, <2>1, <2>2 DEF Inner, Outer
  <2>4. \A g \in Outer : Uncut'[g] = Uncut[g]
    <3>1. ASSUME NEW g \in Outer, g # "HOST" PROVE Uncut'[g] = Uncut[g]
      <4>1. g # f /\ g \in Fields
        BY <1>3, <2>1, <3>1 DEF Outer
      <4>2. Uncut'[g] = u'.at[g] /\ Uncut[g] = u.at[g]
        BY <1>3, <2>2, <3>1, <4>1 DEF Uncut, Places
      <4>3. QED
        BY <2>2, <4>1, <4>2
    <3>2. Uncut'["HOST"] = host' /\ Uncut["HOST"] = host
      BY <1>3, <2>2 DEF Uncut, Places, Fields
    <3>3. QED
      BY <3>1, <3>2
  <2>5. Tiled(url, Outer, Uncut', 0, Len(url))
    BY <1>3, <2>4, TiledSame
  <2>6. QED
    BY <1>1, <1>2, <1>3, <2>1, <2>2, <2>3, <2>4, <2>5
<1>6. QED
  BY <1>4, <1>5

\* A field that has begun with the token, and one that has grown by it.
Began(f) ==
  /\ DOMAIN u' = {"set", "at", "port"} /\ u'.set = u.set \cup {f}
  /\ u'.at = [u.at EXCEPT ![f] = [off |-> next - 1, len |-> 1]]
Grew(f) ==
  /\ DOMAIN u' = {"set", "at", "port"} /\ u'.set = u.set
  /\ u'.at = [u.at EXCEPT ![f].len = @ + 1]

\* Extend begins a field ...
LEMMA ExtendBegins ==
  ASSUME UrlTypeOK, NEW f \in Fields, u' = Extend(f, next, TRUE)
  PROVE  Began(f)
BY DEF Began, Extend, UrlTypeOK

\* ... or makes it longer.
LEMMA ExtendGrows ==
  ASSUME UrlTypeOK, NEW f \in Fields, u' = Extend(f, next, FALSE)
  PROVE  Grew(f)
BY DEF Grew, Extend, UrlTypeOK

\* A field begins only when nothing of a later one has been read ...
LEMMA BeganReads ==
  ASSUME UrlTypeOK, NEW n, NEW f \in {"USERINFO", "HOST", "PORT"}, Began(f), next \in Nat \ {0},
         f \in u.set => u.at[f].len = 0, \A g \in Inner : Rank[f] < Rank[g] => u.at[g].len = 0
  PROVE  /\ Reads(n, f) /\ EndOf(f)' = next /\ u'.at[f].len = 1 /\ u'.at[f].off = next - 1
         /\ u'.set = u.set \cup {f} /\ \A g \in Fields \ {f} : u'.at[g] = u.at[g]
<1>1. f \in Fields
  BY DEF Fields
<1>2. Reads(n, f)
  BY <1>1 DEF Reads, Began
<1>3. u'.at[f] = [off |-> next - 1, len |-> 1] /\ \A g \in Fields \ {f} : u'.at[g] = u.at[g]
  BY <1>1 DEF Began, UrlTypeOK, Places
<1>4. QED
  BY <1>2, <1>3 DEF EndOf, Began

\* ... and grows only while it is the last.
LEMMA GrewReads ==
  ASSUME UrlTypeOK, NEW n, NEW f \in {"USERINFO", "HOST", "PORT"}, Grew(f), next \in Nat \ {0},
         f \in u.set, EndOf(f) = next - 1, u.at[f].len # 0,
         \A g \in Inner : Rank[f] < Rank[g] => u.at[g].len = 0
  PROVE  /\ Reads(n, f) /\ EndOf(f)' = next /\ u'.at[f].len # 0 /\ u'.at[f].off = u.at[f].off
         /\ u'.set = u.set /\ \A g \in Fields \ {f} : u'.at[g] = u.at[g]
<1>1. f \in Fields
  BY DEF Fields
<1>2. Reads(n, f)
  BY <1>1 DEF Reads, Grew, EndOf
<1>3. /\ u.at[f].off \in Nat /\ u.at[f].len \in Nat /\ \A g \in Fields \ {f} : u'.at[g] = u.at[g]
      /\ u'.at[f].off = u.at[f].off /\ u'.at[f].len = u.at[f].len + 1
  BY <1>1 DEF Grew, UrlTypeOK, Places
<1>4. QED
  BY <1>2, <1>3 DEF EndOf, Grew

\* What stays of the name when a token is read into another field, or none.
LEMMA NameStays ==
  ASSUME Clean, u'.at["HOST"] = u.at["HOST"], url' = url
  PROVE  Clean'
BY DEF Clean, Span

\* What a name outside brackets is made of.
LEMMA ColonIsNoHostChar ==
  <<":">> \notin HostChars /\ HexChars \subseteq HostChars /\ <<".">> \in HostChars
<1>1. Len(<<":">>) = 1 /\ <<":">>[1] = ":"
  OBVIOUS
<1>2. \A t \in Halves \cup Dashed : Len(t) = 2
  BY DEF Halves, Dashed
<1>3. <<":">> \notin Halves \cup Dashed
  BY <1>1, <1>2
<1>4. <<":">> \notin Digits \cup {<<"a">>, <<"x">>, <<".">>}
  BY DEF Digits
<1>5. QED
  BY <1>3, <1>4 DEF HostChars, HexChars, Letters

\* A token of the host: of the user information, the name or the port, or between them.
LEMMA HostTokenKeeps ==
  ASSUME UrlInv, HostToken
  PROVE  UrlInv'
<1> DEFINE t == url[next]
           n == ParseHostChar(s, t)
           h == u.at["HOST"]
<1>1. /\ UrlTypeOK /\ Cutting /\ cutting = "host" /\ next <= host.off + host.len /\ s' = n /\ next' = next + 1
      /\ cutting' = IF n = "s_http_host_dead" THEN "refused" ELSE cutting
      /\ u' = CASE n \in {"s_http_host", "s_http_host_v6"} -> ExtendHost(next, s # n)
                [] n \in {"s_http_host_v6_zone_start", "s_http_host_v6_zone"} -> ExtendHost(next, FALSE)
                [] n = "s_http_host_port" -> Extend("PORT", next, s # n)
                [] n = "s_http_userinfo"  -> Extend("USERINFO", next, s # n)
                [] OTHER -> u
      /\ UNCHANGED <<url, connect, host, found_at, old_uf>>
  BY DEF UrlInv, HostToken
<1>2. UrlsAreCut'
  BY <1>1 DEF UrlsAreCut, FieldsTile, HostIsClean
<1>3. /\ next \in Nat \ {0} /\ next - 1 \in Nat /\ s \in HostStates /\ Located /\ Clean /\ "HOST" \in u.set
      /\ h.off \in Nat /\ h.len \in Nat /\ "HOST" \in Fields /\ DOMAIN u = {"set", "at", "port"}
      /\ u.at \in Places /\ u.set \subseteq Fields
  <2>1. UrlTypeOK /\ Cutting
    BY <1>1
  <2>2. host.off \in Nat /\ next >= host.off + 1 /\ next \in Nat
    BY <2>1 DEF UrlTypeOK, Cutting
  <2>3. h \in [off : Nat, len : Nat] /\ "HOST" \in Fields
    BY <2>1 DEF UrlTypeOK, Places, Fields
  <2>4. QED
    BY <2>1, <2>2, <2>3 DEF UrlTypeOK, Cutting
<1>4. CASE n = "s_http_host_dead"
  <2>1. u' = u
    BY <1>1, <1>4
  <2>2. UrlTypeOK'
    BY <1>1, <1>3, <1>4, <2>1 DEF UrlTypeOK
  <2>3. QED
    BY <1>1, <1>2, <1>4, <2>2 DEF UrlInv
<1>5. ASSUME NEW f, Reads(n, f), n # "s_http_host_dead", n \in HostStates, Located', Clean'
      PROVE  UrlInv'
  <2>1. /\ DOMAIN u' = {"set", "at", "port"} /\ u'.set \subseteq Fields
         /\ u'.at \in Places /\ "HOST" \in u'.set
        /\ Tiled(url', Outer', Uncut', 0, Len(url')) /\ (\A g \in Outer' : Uncut'[g].len # 0)
        /\ Tiled(url', Inner', u'.at, host'.off, next' - 1)
        /\ next' \in host'.off + 1 .. host'.off + host'.len + 1
    BY <1>1, <1>5, ReadsKeeps
  <2>2. cutting' = "host"
    BY <1>1, <1>5
  <2>3. UrlTypeOK'
    <3>1. next' \in Nat
      BY <1>1, <1>3
    <3>2. QED
      BY <1>1, <2>1, <2>2, <3>1 DEF UrlTypeOK
  <2>4. Cutting'
    BY <1>1, <1>5, <2>1 DEF Cutting
  <2>5. QED
    BY <1>2, <2>2, <2>3, <2>4 DEF UrlInv
<1>6. CASE n \in {"s_http_host_start", "s_http_host_v6_start", "s_http_host_v6_end", "s_http_host_port_start"}
  <2>1. u' = u
    BY <1>1, <1>6
  <2>2. t \in Delimiters /\ n \in HostStates
    BY <1>3, <1>6, HostCharStep DEF Delimiters, HostStates, BeforeName, AfterName
  <2>3. Reads(n, "none")
    BY <2>1, <2>2 DEF Reads
  <2>4. Located'
    <3>1. /\ n \in BeforeName <=> s \in BeforeName
          /\ s # "s_http_host_port" /\ n # "s_http_host_port" /\ n \notin InName
          /\ n \notin {"s_http_userinfo_start", "s_http_userinfo"}
          /\ n = "s_http_host_v6_start" => t = <<"[">>
      BY <1>3, <1>6, HostCharStep DEF BeforeName, InName, V6States
    <3>2. next' - 1 = next /\ (n = "s_http_host_v6_start" => next' > 1)
      BY <1>1, <1>3
    <3>3. QED
      BY <1>1, <1>3, <2>1, <3>1, <3>2 DEF Located, InName
  <2>5. Clean'
    BY <1>1, <1>3, <2>1, NameStays
  <2>6. QED
    BY <1>5, <1>6, <2>2, <2>3, <2>4, <2>5
<1>7. CASE n = "s_http_userinfo"
  <2>1. s \in {"s_http_userinfo_start", "s_http_userinfo"} /\ n \in HostStates
        /\ n \in BeforeName /\ s \in BeforeName
    BY <1>3, <1>7, HostCharStep DEF HostStates, BeforeName
  <2>2. /\ h.len = 0 /\ "PORT" \notin u.set /\ "USERINFO" \in Fields
        /\ \A g \in Inner : Rank["USERINFO"] < Rank[g] => u.at[g].len = 0
    BY <1>3, <2>1, RankTable DEF Located, Inner, Fields
  <2>3. u' = Extend("USERINFO", next, s # n)
    BY <1>1, <1>7
  <2>4. /\ Reads(n, "USERINFO") /\ u'.at["HOST"] = h /\ "USERINFO" \in u'.set /\ "PORT" \notin u'.set
        /\ EndOf("USERINFO")' = next /\ u'.at["USERINFO"].len # 0
    <3>1. CASE s = "s_http_userinfo_start"
      <4>1. u' = Extend("USERINFO", next, TRUE) /\ "USERINFO" \notin u.set
        BY <1>3, <1>7, <2>3, <3>1 DEF Located
      <4>2. Began("USERINFO")
        BY <1>1, <1>3, <2>2, <4>1, ExtendBegins
      <4>3. "USERINFO" \in {"USERINFO", "HOST", "PORT"} /\ ("USERINFO" \in u.set => u.at["USERINFO"].len = 0)
        BY <4>1
      <4>4. /\ Reads(n, "USERINFO") /\ EndOf("USERINFO")' = next /\ u'.at["USERINFO"].len = 1
            /\ u'.set = u.set \cup {"USERINFO"} /\ \A g \in Fields \ {"USERINFO"} : u'.at[g] = u.at[g]
        BY <1>1, <1>3, <2>2, <4>2, <4>3, BeganReads
      <4>5. QED
        BY <1>3, <2>2, <4>4
    <3>2. CASE s = "s_http_userinfo"
      <4>1. /\ u' = Extend("USERINFO", next, FALSE) /\ "USERINFO" \in u.set
            /\ EndOf("USERINFO") = next - 1 /\ u.at["USERINFO"].len # 0
        BY <1>3, <1>7, <2>3, <3>2 DEF Located
      <4>2. Grew("USERINFO")
        BY <1>1, <2>2, <4>1, ExtendGrows
      <4>3. QED
        BY <1>1, <1>3, <2>2, <4>1, <4>2, GrewReads
    <3>3. QED
      BY <2>1, <3>1, <3>2
  <2>5. Located'
    BY <1>1, <1>3, <1>7, <2>1, <2>2, <2>4 DEF Located, InName, V6States
  <2>6. Clean'
    BY <1>1, <1>3, <2>4, NameStays
  <2>7. QED
    BY <1>5, <1>7, <2>1, <2>4, <2>5, <2>6
<1>8. CASE n = "s_http_host_port"
  <2>1. s \in {"s_http_host_port_start", "s_http_host_port"} /\ n \in HostStates /\ n \notin BeforeName
        /\ s \notin BeforeName
    BY <1>3, <1>8, HostCharStep DEF HostStates, BeforeName, AfterName
  <2>2. /\ h.len # 0 /\ "PORT" \in Fields
        /\ \A g \in Inner : ~ (Rank["PORT"] < Rank[g])
    BY <1>3, <2>1, RankTable DEF Located, Inner, Fields
  <2>3. u' = Extend("PORT", next, s # n)
    BY <1>1, <1>8
  <2>4. /\ Reads(n, "PORT") /\ (\A g \in Fields \ {"PORT"} : u'.at[g] = u.at[g])
        /\ u'.set = u.set \cup {"PORT"}
        /\ EndOf("PORT")' = next /\ u'.at["PORT"].len # 0
    <3>1. CASE s = "s_http_host_port_start"
      <4>1. u' = Extend("PORT", next, TRUE) /\ "PORT" \notin u.set
        BY <1>3, <1>8, <2>3, <3>1 DEF Located
      <4>2. Began("PORT")
        BY <1>1, <1>3, <2>2, <4>1, ExtendBegins
      <4>3. "PORT" \in {"USERINFO", "HOST", "PORT"} /\ ("PORT" \in u.set => u.at["PORT"].len = 0)
        BY <4>1
      <4>4. /\ Reads(n, "PORT") /\ EndOf("PORT")' = next /\ u'.at["PORT"].len = 1
            /\ u'.set = u.set \cup {"PORT"} /\ \A g \in Fields \ {"PORT"} : u'.at[g] = u.at[g]
        BY <1>1, <1>3, <2>2, <4>2, <4>3, BeganReads
      <4>5. QED
        BY <4>4
    <3>2. CASE s = "s_http_host_port"
      <4>1. /\ u' = Extend("PORT", next, FALSE) /\ "PORT" \in u.set
            /\ EndOf("PORT") = next - 1 /\ u.at["PORT"].len # 0
        BY <1>3, <1>8, <2>3, <3>2 DEF Located
      <4>2. Grew("PORT")
        BY <1>1, <2>2, <4>1, ExtendGrows
      <4>3. "PORT" \in {"USERINFO", "HOST", "PORT"} /\ next \in Nat \ {0}
        BY <1>3
      <4>4. /\ Reads(n, "PORT") /\ EndOf("PORT")' = next /\ u'.at["PORT"].len # 0
            /\ u'.set = u.set /\ \A g \in Fields \ {"PORT"} : u'.at[g] = u.at[g]
        BY <1>1, <2>2, <4>1, <4>2, <4>3, GrewReads
      <4>5. QED
        BY <4>1, <4>4
    <3>3. QED
      BY <2>1, <3>1, <3>2
  <2>5. u'.at["HOST"] = h /\ u'.at["USERINFO"] = u.at["USERINFO"]
        /\ ("USERINFO" \in u'.set <=> "USERINFO" \in u.set)
        /\ "PORT" \in u'.set
    BY <1>3, <2>4 DEF Fields
  <2>6. Located'
    <3>1. next' - 1 = next /\ n \notin InName /\ n \notin V6States
      BY <1>1, <1>3, <1>8 DEF InName, V6States
    <3>2. "USERINFO" \in u'.set => u'.at["USERINFO"].len # 0
      BY <1>3, <2>5 DEF Located
    <3>3. QED
      BY <1>1, <1>8, <2>1, <2>2, <2>4, <2>5, <3>1, <3>2 DEF Located
  <2>7. Clean'
    BY <1>1, <1>3, <2>5, NameStays
  <2>8. QED
    BY <1>5, <1>8, <2>1, <2>4, <2>6, <2>7
<1>9. CASE n \in InName
  <2>1. /\ n \in HostStates /\ n \notin BeforeName /\ t \in HostChars \cup {<<"%">>, <<":">>}
        /\ n # "s_http_host_dead" /\ n # "s_http_host_port"
        /\ s # "s_http_host_port" /\ s \notin {"s_http_userinfo_start", "s_http_userinfo"}
        /\ n \in V6States => s \in V6States \cup {"s_http_host_v6_start"}
        /\ n = "s_http_host" => s \in {"s_http_host_start", "s_http_host"} /\ t # <<":">>
    <3>1. <<":">> \notin HostChars /\ HexChars \subseteq HostChars /\ <<".">> \in HostChars
      BY ColonIsNoHostChar
    <3>2. QED
      BY <1>3, <1>9, <3>1, HostCharStep DEF HostStates, BeforeName, InName, V6States, AfterName
  <2>2. "PORT" \notin u.set /\ \A g \in Inner : ~ (Rank["HOST"] < Rank[g])
    BY <1>3, <2>1, RankTable DEF Located, Inner
  <2>3. "HOST" \in {"USERINFO", "HOST", "PORT"} /\ next \in Nat \ {0}
    BY <1>3
  <2> DEFINE k == u'.at["HOST"]
  <2>4. /\ Reads(n, "HOST") /\ (\A g \in Fields \ {"HOST"} : u'.at[g] = u.at[g])
        /\ u'.set = u.set /\ EndOf("HOST")' = next /\ k.len # 0
        /\ \/ s \in {"s_http_host_start", "s_http_host_v6_start"} /\ k.off = next - 1 /\ k.len = 1
           \/ s \in InName /\ k.off = h.off /\ k.len = h.len + 1 /\ h.off + h.len = next - 1
    <3>1. CASE s \in {"s_http_host_start", "s_http_host_v6_start"}
      <4>1. h.len = 0 /\ s # n /\ n \in {"s_http_host", "s_http_host_v6"}
        BY <1>3, <1>9, <3>1, HostCharStep DEF Located, BeforeName, InName, V6States
      <4>2. u' = ExtendHost(next, TRUE)
        BY <1>1, <4>1
      <4>3. u' = [u EXCEPT !.at["HOST"] = [off |-> next - 1, len |-> @.len + 1]]
        BY <4>2 DEF ExtendHost
      <4>4. DOMAIN u' = {"set", "at", "port"} /\ u'.set = u.set
            /\ u'.at = [u.at EXCEPT !["HOST"] = [off |-> next - 1, len |-> 0 + 1]]
        BY <1>3, <4>1, <4>3
      <4>5. u.set = u.set \cup {"HOST"} /\ 0 + 1 = 1
        BY <1>3
      <4>6. Began("HOST")
        BY <4>4, <4>5 DEF Began
      <4>7. ("HOST" \in u.set => u.at["HOST"].len = 0)
            /\ \A g \in Inner : Rank["HOST"] < Rank[g] => u.at[g].len = 0
        BY <2>2, <4>1
      <4>8. /\ Reads(n, "HOST") /\ EndOf("HOST")' = next /\ u'.at["HOST"].len = 1
            /\ u'.at["HOST"].off = next - 1
            /\ u'.set = u.set \cup {"HOST"} /\ \A g \in Fields \ {"HOST"} : u'.at[g] = u.at[g]
        BY <1>1, <2>3, <4>6, <4>7, BeganReads
      <4>9. QED
        BY <3>1, <4>4, <4>8
    <3>2. CASE s \in InName
      <4>1. u' = Extend("HOST", next, FALSE)
        BY <1>1, <1>3, <1>9, <3>2, HostCharStep DEF ExtendHost, InName, V6States, Extend
      <4>2. Grew("HOST")
        BY <1>1, <1>3, <4>1, ExtendGrows
      <4>3. "HOST" \in u.set /\ EndOf("HOST") = next - 1 /\ u.at["HOST"].len # 0
            /\ \A g \in Inner : Rank["HOST"] < Rank[g] => u.at[g].len = 0
        BY <1>3, <2>2, <3>2 DEF Located, BeforeName, InName, V6States
      <4>4. /\ Reads(n, "HOST") /\ EndOf("HOST")' = next /\ u'.at["HOST"].len # 0
            /\ u'.at["HOST"].off = u.at["HOST"].off
            /\ u'.set = u.set /\ \A g \in Fields \ {"HOST"} : u'.at[g] = u.at[g]
        BY <1>1, <2>3, <4>2, <4>3, GrewReads
      <4>5. u'.at["HOST"].len = u.at["HOST"].len + 1
        BY <1>3, <4>2 DEF Grew, Places
      <4>6. h.off + h.len = next - 1
        BY <4>3 DEF EndOf
      <4>7. QED
        BY <3>2, <4>4, <4>5, <4>6
    <3>3. QED
      BY <1>9, <2>1, <3>1, <3>2 DEF InName
  <2>5. url' = url /\ s' = n /\ next' - 1 = next
    BY <1>1, <1>3
  <2>6. n \in V6States => url[k.off] = <<"[">>
    <3>1. SUFFICES ASSUME n \in V6States PROVE url[k.off] = <<"[">>
      OBVIOUS
    <3>2. s \in V6States \/ s = "s_http_host_v6_start"
      BY <2>1, <3>1
    <3>3. CASE s \in V6States
      <4>1. k.off = h.off
        BY <2>4, <3>3 DEF V6States
      <4>2. QED
        BY <1>3, <3>3, <4>1 DEF Located
    <3>4. CASE s = "s_http_host_v6_start"
      <4>1. k.off = next - 1
        BY <2>4, <3>4 DEF InName, V6States
      <4>2. QED
        BY <1>3, <3>4, <4>1 DEF Located
    <3>5. QED
      BY <3>2, <3>3, <3>4
  <2>7. Located'
    <3>1. u'.at["USERINFO"] = u.at["USERINFO"] /\ u'.at["PORT"] = u.at["PORT"]
      BY <2>4 DEF Fields
    <3>2. "USERINFO" \in u'.set => u'.at["USERINFO"].len # 0
      BY <1>3, <2>4, <3>1 DEF Located
    <3>3. n \notin {"s_http_userinfo_start", "s_http_userinfo", "s_http_host_v6_start"}
      BY <1>9 DEF InName, V6States
    <3>4. QED
      BY <2>1, <2>2, <2>4, <2>5, <2>6, <3>2, <3>3 DEF Located
  <2>8. Clean'
    <3>1. \A i \in h.off + 1 .. h.off + h.len :
            url[i] \in HostChars \cup {<<"%">>, <<":">>} /\ (url[i] = <<":">> => url[h.off] = <<"[">>)
      BY <1>3 DEF Clean, Span
    <3>2. ASSUME NEW i \in k.off + 1 .. k.off + k.len
          PROVE  url[i] \in HostChars \cup {<<"%">>, <<":">>} /\ (url[i] = <<":">> => url[k.off] = <<"[">>)
      <4>1. CASE i = next
        <5>1. t # <<":">> \/ n \in V6States
          BY <1>9, <2>1 DEF InName
        <5>2. QED
          BY <2>1, <2>6, <4>1, <5>1
      <4>2. CASE i # next
        <5>1. s \in InName /\ k.off = h.off /\ i \in h.off + 1 .. h.off + h.len
          BY <1>3, <2>3, <2>4, <3>2, <4>2
        <5>2. QED
          BY <3>1, <5>1
      <4>3. QED
        BY <4>1, <4>2
    <3>3. QED
      BY <2>5, <3>2 DEF Clean, Span
  <2>9. QED
    BY <1>5, <2>1, <2>4, <2>7, <2>8
<1>10. QED
  BY <1>1, <1>3, <1>4, <1>6, <1>7, <1>8, <1>9, HostCharStep DEF InName, V6States

\* The signs around a name are in none.
LEMMA SignsAreNoHostChars ==
  (HostChars \cup {<<"%">>, <<":">>}) \cap {<<"@">>, <<"[">>, <<"]">>, <<"/">>} = {}
<1> DEFINE Signs == {<<"@">>, <<"[">>, <<"]">>, <<"/">>}
<1>1. \A t \in Signs : Len(t) = 1
  OBVIOUS
<1>2. \A t \in Halves \cup Dashed : Len(t) = 2
  BY DEF Halves, Dashed
<1>3. Signs \cap (Halves \cup Dashed) = {}
  <2> HIDE DEF Signs
  <2> QED  BY <1>1, <1>2
<1>4. Signs \cap (Digits \cup {<<"a">>, <<"x">>, <<".">>, <<"%">>, <<":">>}) = {}
  BY DEF Digits
<1>5. QED
  BY <1>3, <1>4 DEF HostChars, Letters

\* The host has ended: what is inside it and what is outside make one URL.
LEMMA HostEndKeeps ==
  ASSUME UrlInv, HostEnd
  PROVE  UrlInv'
<1>1. /\ UrlTypeOK /\ Cutting /\ cutting = "host" /\ next > host.off + host.len
      /\ UNCHANGED <<url, connect, s, next, host, found_at, old_uf>>
      /\ cutting' \in {"accepted", "refused"} /\ u'.set = u.set /\ u'.at = u.at /\ DOMAIN u' = DOMAIN u
      /\ cutting' = "accepted" => s \in HostEnds
  BY DEF UrlInv, HostEnd, UrlTypeOK
<1>2. UrlTypeOK'
  BY <1>1 DEF UrlTypeOK
<1>3. SUFFICES ASSUME s \in HostEnds PROVE UrlsAreCut'
  <2>1. cutting' # "accepted" => UrlsAreCut'
    BY DEF UrlsAreCut, FieldsTile, HostIsClean
  <2>2. QED
    BY <1>1, <1>2, <1>3, <2>1 DEF UrlInv
<1> DEFINE l == Len(url)
           e == host.off + host.len
<1>4. /\ host.off \in Nat /\ host.len \in Nat /\ e \in Nat /\ host.off <= e /\ next - 1 = e /\ l \in Nat
      /\ url \in Seq(UrlTokens) /\ "HOST" \in u.set /\ u.set \subseteq Fields /\ u.at \in Places
      /\ Tiled(url, Outer, Uncut, 0, l) /\ (\A f \in Outer : Uncut[f].len # 0)
      /\ Tiled(url, Inner, u.at, host.off, e) /\ Located /\ Clean
  BY <1>1 DEF UrlTypeOK, Cutting
<1>5. /\ "HOST" \in Outer /\ "HOST" \in Inner /\ Outer \cap Inner = {"HOST"} /\ u.set = Outer \cup Inner
      /\ Uncut["HOST"] = host /\ (\A f \in Outer \ {"HOST"} : Uncut[f] = u.at[f])
      /\ Inner \subseteq {"USERINFO", "HOST", "PORT"}
      /\ Outer \ {"HOST"} \subseteq {"SCHEMA", "PATH", "QUERY", "FRAGMENT"}
  <2>1. "HOST" \in Fields /\ DOMAIN u.at = Fields
    BY <1>4 DEF Fields, Places
  <2>2. Uncut["HOST"] = host /\ (\A f \in Outer \ {"HOST"} : Uncut[f] = u.at[f])
    BY <1>4, <2>1 DEF Uncut, Outer
  <2>3. QED
    BY <1>4, <2>2 DEF Outer, Inner, Fields
<1>6. \A f \in u.set : u.at[f].len # 0 /\ u.at[f].off \in Nat /\ u.at[f].len \in Nat
  <2>1. "HOST" \in Inner /\ u.at["HOST"].len # 0
    BY <1>3, <1>4, <1>5 DEF Located, HostEnds, BeforeName
  <2>2. \A f \in Inner : u.at[f].len # 0
    BY <1>4, <1>5, <2>1 DEF Located, Inner
  <2>3. \A f \in Outer \ {"HOST"} : u.at[f].len # 0
    BY <1>4, <1>5
  <2>4. QED
    BY <1>4, <1>5, <2>2, <2>3 DEF Places
<1> HIDE DEF l, e
<1>7. e <= l
  BY <1>4, <1>5 DEF Tiled, e
<1>8. \A f \in Inner : host.off <= u.at[f].off /\ u.at[f].off + u.at[f].len <= e
  BY <1>4 DEF Tiled
<1>9. \A f \in Outer \ {"HOST"} : 0 <= u.at[f].off /\ u.at[f].off + u.at[f].len <= l
  <2>1. \A f \in Outer : 0 <= Uncut[f].off /\ Uncut[f].off + Uncut[f].len <= l
    BY <1>4 DEF Tiled
  <2>2. QED
    BY <1>5, <2>1
<1>10. Tiled(url, u.set, u.at, 0, l)
  <2>1. \A f \in u.set : 0 <= u.at[f].off /\ u.at[f].off + u.at[f].len <= l
    <3>1. SUFFICES ASSUME NEW f \in u.set PROVE 0 <= u.at[f].off /\ u.at[f].off + u.at[f].len <= l
      OBVIOUS
    <3>2. u.at[f].off \in Nat /\ u.at[f].len \in Nat
      BY <1>6
    <3>3. CASE f \in Inner
      <4>1. u.at[f].off + u.at[f].len <= e
        BY <1>8, <3>3
      <4>2. QED
        BY <1>4, <1>7, <3>2, <4>1
    <3>4. CASE f \in Outer \ {"HOST"}
      BY <1>9, <3>4
    <3>5. QED
      BY <1>5, <3>3, <3>4
  <2>2. ASSUME NEW f \in u.set, NEW g \in u.set, Rank[f] < Rank[g]
        PROVE  u.at[f].off + u.at[f].len <= u.at[g].off
    <3>1. CASE f \in Inner /\ g \in Inner
      BY <1>4, <1>6, <2>2, <3>1 DEF Tiled
    <3>2. CASE f \in Outer \ {"HOST"} /\ g \in Outer \ {"HOST"}
      BY <1>4, <1>5, <1>6, <2>2, <3>2 DEF Tiled
    <3>3. CASE f \in Inner /\ g \in Outer \ {"HOST"}
      <4>1. Rank["HOST"] < Rank[g]
        BY <1>5, <2>2, <3>3, RankTable
      <4>2. e <= u.at[g].off
        BY <1>4, <1>5, <1>6, <3>3, <4>1 DEF Tiled, e
      <4>3. u.at[f].off + u.at[f].len <= e
        BY <1>8, <3>3
      <4>4. QED
        BY <1>4, <1>6, <4>2, <4>3
    <3>4. CASE f \in Outer \ {"HOST"} /\ g \in Inner
      <4>1. Rank[f] < Rank["HOST"]
        BY <1>5, <2>2, <3>4, RankTable
      <4>2. host.len # 0
        BY <1>4, <1>5
      <4>3. u.at[f].off + u.at[f].len <= host.off
        BY <1>4, <1>5, <3>4, <4>1, <4>2 DEF Tiled
      <4>4. host.off <= u.at[g].off
        BY <1>8, <3>4
      <4>5. QED
        BY <1>4, <1>6, <4>3, <4>4
    <3>5. QED
      BY <1>5, <3>1, <3>2, <3>3, <3>4
  <2>3. ASSUME NEW i \in 0 + 1 .. l
        PROVE  url[i] \in Delimiters \/ \E f \in u.set : i \in Span(u.at, f)
    <3>1. CASE i \in host.off + 1 .. e
      BY <1>4, <1>5, <3>1 DEF Tiled
    <3>2. CASE i \notin host.off + 1 .. e
      <4>1. SUFFICES ASSUME NEW f \in Outer, i \in Span(Uncut, f)
                     PROVE  \E g \in u.set : i \in Span(u.at, g)
        BY <1>4 DEF Tiled
      <4>2. f # "HOST"
        BY <1>5, <3>2, <4>1 DEF Span, e
      <4>3. f \in u.set /\ Uncut[f] = u.at[f]
        BY <1>5, <4>2
      <4>4. i \in Span(u.at, f)
        BY <4>1, <4>3 DEF Span
      <4>5. QED
        BY <4>3, <4>4
    <3>3. QED
      BY <3>1, <3>2
  <2>4. QED
    BY <2>1, <2>2, <2>3 DEF Tiled
<1>11. FieldsTile'
  <2>1. Tiled(url, u.set, u.at, 0, Len(url))'
          /\ (\A f \in u.set : u.at[f].len # 0)' /\ (url \in Seq(UrlTokens))'
    BY <1>1, <1>4, <1>6, <1>10 DEF Tiled, Span, l
  <2>2. QED
    BY <2>1, TiledIsTile, PTL
<1>12. HostIsClean'
  <2> DEFINE o == u.at["HOST"].off
             m == u.at["HOST"].len
             name == {SubSeq(url, o + 1, o + m)[i] : i \in 1 .. m}
  <2>1. o \in Nat /\ m \in Nat /\ m # 0 /\ o + m <= l
    BY <1>4, <1>5, <1>6, <1>7, <1>8
  <2>2. \A i \in 1 .. m : SubSeq(url, o + 1, o + m)[i] = url[o + i] /\ o + i \in o + 1 .. o + m
    <3>1. SUFFICES ASSUME NEW i \in 1 .. m
                   PROVE  SubSeq(url, o + 1, o + m)[i] = url[o + i] /\ o + i \in o + 1 .. o + m
      OBVIOUS
    <3> DEFINE a == o + 1
               b == o + m
    <3>2. a \in 1 .. Len(url) + 1 /\ b \in a - 1 .. Len(url) /\ i \in 1 .. b - a + 1 /\ a + i - 1 = o + i
          /\ o + i \in a .. b
      <4>1. o \in Nat /\ m \in Nat /\ o + m <= Len(url) /\ Len(url) \in Nat /\ i \in 1 .. m
        BY <1>4, <2>1 DEF l
      <4> HIDE DEF o, m
      <4>2. QED
        BY <4>1
    <3>3. url \in Seq(UrlTokens) /\ o \in Nat /\ m \in Nat
      BY <1>4, <2>1
    <3> HIDE DEF a, b, o, m
    <3>4. SubSeq(url, a, b)[i] = url[a + i - 1]
      BY <3>2, <3>3, SubSeqProperties
    <3>5. QED
      BY <3>2, <3>4 DEF a, b
  <2>3. \A i \in o + 1 .. o + m :
          url[i] \in HostChars \cup {<<"%">>, <<":">>} /\ (url[i] = <<":">> => url[o] = <<"[">>)
    BY <1>4 DEF Clean, Span
  <2>4. name # {}
    <3>1. 1 \in 1 .. m
      BY <2>1
    <3>2. SubSeq(url, o + 1, o + m)[1] \in name
      BY <3>1
    <3>3. QED
      BY <3>2
  <2>5. name \subseteq HostChars \cup {<<"%">>, <<":">>} /\ (<<":">> \in name => url[o] = <<"[">>)
    <3>1. ASSUME NEW i \in 1 .. m PROVE
            /\ SubSeq(url, o + 1, o + m)[i] \in HostChars \cup {<<"%">>, <<":">>}
            /\ SubSeq(url, o + 1, o + m)[i] = <<":">> => url[o] = <<"[">>
      BY <2>2, <2>3
    <3>2. QED
      BY <3>1
  <2>6. (HostChars \cup {<<"%">>, <<":">>}) \cap {<<"@">>, <<"[">>, <<"]">>, <<"/">>} = {}
    BY SignsAreNoHostChars
  <2>7. u'.at["HOST"].off = o /\ u'.at["HOST"].len = m /\ url' = url
    BY <1>1
  <2> HIDE DEF o, m
  <2>8. {Field("HOST")[i] : i \in 1 .. u.at["HOST"].len}' = name
    BY <2>7 DEF Field
  <2>9. QED
    BY <2>4, <2>5, <2>6, <2>7, <2>8 DEF HostIsClean
<1>13. QED
  BY <1>11, <1>12 DEF UrlsAreCut

\* What http_parser_parse_url returns is a URL in which the fields of the syntax
\* lie one after the other, and a host that is nothing but a name.
THEOREM UrlsAlwaysCut == UrlSpec => []UrlsAreCut
<1>1. UrlInit => UrlInv
  <2>1. SUFFICES ASSUME UrlInit PROVE UrlInv
    OBVIOUS
  <2>2. UrlTypeOK
    BY <2>1 DEF UrlInit, UrlTypeOK, Places
  <2>3. Reading
    BY <2>1 DEF UrlInit, Reading, Tiled, UrlStates, FieldOf
  <2>4. QED
    BY <2>1, <2>2, <2>3 DEF UrlInit, UrlInv, UrlsAreCut, FieldsTile, HostIsClean
<1>2. UrlInv /\ [UrlNext]_urlVars => UrlInv'
  <2>1. SUFFICES ASSUME UrlInv, [UrlNext]_urlVars PROVE UrlInv'
    OBVIOUS
  <2>2. CASE \E t \in UrlTokens : UrlToken(t)
    BY <2>1, <2>2, UrlTokenKeeps
  <2>3. CASE UrlEnd
    BY <2>1, <2>3, UrlEndKeeps
  <2>4. CASE HostToken
    BY <2>1, <2>4, HostTokenKeeps
  <2>5. CASE HostEnd
    BY <2>1, <2>5, HostEndKeeps
  <2>6. CASE UNCHANGED urlVars
    <3>1. UrlTypeOK' /\ UrlsAreCut'
      BY <2>1, <2>6 DEF UrlInv, urlVars, UrlTypeOK, UrlsAreCut, FieldsTile, HostIsClean, Field, EndOf
    <3>2. (cutting = "url" => Reading)'
      BY <2>1, <2>6 DEF UrlInv, urlVars, Reading, Tiled, Span, EndOf
    <3>3. (cutting = "host" => Cutting)'
      BY <2>1, <2>6 DEF UrlInv, urlVars, Cutting, Tiled, Span, EndOf, Outer, Inner, Uncut, Located, Clean
    <3>4. QED
      BY <3>1, <3>2, <3>3 DEF UrlInv
  <2>7. QED
    BY <2>1, <2>2, <2>3, <2>4, <2>5, <2>6 DEF UrlNext
<1>3. UrlInv => UrlsAreCut
  BY DEF UrlInv
<1>4. QED
  BY <1>1, <1>2, <1>3, PTL DEF UrlSpec
=============================================================================
