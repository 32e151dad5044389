# A verification project for the 13-card game servers

The repository is a small multi-process game server ("casual_game", a Chinese
13-card poker) built on its own networking framework, `water`. This directory
models the parts of it whose correctness is hard to test as TLA+ modules,
checks them with TLC on small instances and proves the main safety properties
of the models with TLAPS for all values of their parameters.

All line numbers are those of the sources at the commit this directory was
written for. `PROJECT.json` maps every definition of a module to the lines it
translates, lists the runs, the hazards of the code and the theorems.

## 1. The system

Four kinds of processes talk over private TCP links; clients connect to the
gateway over public ones.

    client --public TCP--> gateway --private TCP--> router --> lobby
                                                           --> hall (skeleton)

Inside a process every module below runs on a thread of its own, and the
threads meet in a few shared tables:

| thread | code | what it touches |
|---|---|---|
| main timer | `base/process_timer.cpp`, `water/componet/timer.cpp` | message handlers, timers: all game state |
| tcp conns (epoll) | `base/tcp_connection_manager.cpp` | sockets, connection tables, receive queue (producer) |
| connection checker | `base/private_connection_checker.cpp` | handshakes of private links |
| private client / server, public server | `base/tcp_client.cpp`, `base/tcp_server.cpp` | connecting and accepting |
| main | `base/process.cpp` | starts threads, waits for them, resumes the main timer |

### Components

**Lobby rooms** (`processes/lobby/game13.*`, `room.*`). State: the table
`Room::s_rooms`; of each room its status, seats (`PlayerInfo`: cuid, status,
vote), owner, rounds started and settled, the vote's sponsor and a start time;
on each client the room id and the money. Operations: create, join, give up,
vote, ready flag, bring out, simulated chat, and the timer once a second. Hard:
the handlers of four clients and the timer interleave; a room's end must release
exactly its members; timeouts race votes. Correct when clients and seats agree,
votes are decided once and with their own ballots, rounds are started and
settled in turn, and money is taken only from those who have it.

**Lobby clients** (`lobby/client_manager.*`, `client.h`). State: three indexes
(openid, cuid, ccid) over one set of client objects. Operations: `LoginQuest`,
chat. Correct when the indexes agree and a login moves a client to its newest
connection only.

**Gateway clients** (`gateway/client_manager.*`, `gateway.cpp`). State: clients
by connection id with login state and cuid, a list of clients to be dropped.
Operations: connect, disconnect, `C_Login`, `RetLoginQuest`,
`ClientBeReplaced`, relaying. Hard: logins of one account on two connections
cross on the way; a disconnect is not reported to the lobby. Correct when an
account is playing on at most one connection once messages have settled, and
the lobby's connection id is that one.

**Round settlement and deck** (`Game13::calcRound`, `lobby/deck.*`). Pure
computation from four hands to prizes. Correct when the sum of prizes is zero,
the comparison of hands is an order, and the pairwise payment follows the rules.

**TCP connection manager** (`base/tcp_connection_manager.*`,
`water/net/buffered_connection.*`, `packet.*`, `tcp_packet.*`). State: tables of
connections by fd, process id and client id; per connection a send buffer, a
queue of packets that did not fit, a receive buffer and a partly received
packet; the queue of received packets. Operations: add and erase connections,
send, broadcast, the epoll events read, write and error, `getPacket`. Hard:
partial sends, two threads per connection, bounded buffers. Correct when each
stream is the concatenation of the packets sent, in order, each once, nothing
waits without write interest, and received packets reach the handlers in order.

**Lock-free queue** (`lock_free_circular_queue_ss.h`). State: a ring of cells
with a status each, two private indexes. Operations: push by one thread, pop by
one other. Correct when it is a bounded FIFO.

**Private links and start-up** (`private_connection_checker.*`, `tcp_client.*`,
`tcp_server.*`, `process.cpp`, `process_timer.*`). State: handshakes in progress,
endpoints to connect to, the tables of private connections, the suspended flag of
the main timer. Hard: reconnection before the old connection is gone, ends that
notice a broken link at different times, the exact count at which the process
starts to work. Correct when both ends agree on a connection, a peer is connected
again after faults, and the main timer starts.

**Processes and threads** (`process.cpp`, `process_thread.*`). State: the table of
threads by name, a switch and a future per thread. Operations: launch, note, stop,
wait. Correct when a stopped process waits for all of its threads and ends.

**Configuration** (`process_config.*`, `process_id.*`). State: ids, endpoints by
id, the endpoints to connect to. Correct when a process connects to what its
configuration names.

**Timers and events** (`timer.*`, `event.h`). State: handlers by interval with
registration time and counter, ids to unregister. Operations: register,
unregister (later), fire. Correct when a removal removes one handler.

**Table of clients** (`fast_travel_unordered_map.h`). A vector with an index. Correct
when the index agrees and no write inside `erase` rehashes it.

**Coroutines** (`coroutine/coroutine.*`). State: tasks by id, free ids, one shared
stack and copies of it. Correct when everyone finds its own stack and has one turn
in a round.

**http connections** (`base/http_connection_manager.*`, `net/http_packet.*`) and the
**http parser** (`net/http-parser/`). State: two tables of connections, a packet
per connection, the queue of received packets; the parser's state between reads.
Hard: events for connections that are being added or erased; reads that end
anywhere. Correct when the tables agree, and the parser does not depend on reads.

**XML** (`componet/xmlparse/`), through which every configuration is read. State: a
tree of nodes, rings of attributes, the text still to be parsed. Correct when what
is printed reads back, what is cut short is noticed, and the links of the tree
are those of a tree.

**Router** forwards packets by the process id in the envelope and keeps no
state. **Hall**, **redis/database access** are skeletons. The **http process**,
**AnySDK login**, **flash sandbox**, the **robot client** and the vendored
database libraries do not take part in the game; `PROJECT.json` lists all
components with their status.

## 2. Plan

### Modules, in the order in which they are written

| # | module | subject | composes | state |
|---|---|---|---|---|
| 1 | `Game13` | rooms of the lobby and the clients in them | | done |
| 2 | `Session` | login: gateway, lobby and the messages between | both `ClientManager`s and two FIFO links | done |
| 3 | `SpscQueue` | the lock-free receive queue, access by access | implements `Fifo` | done |
| 4 | `SendPath`, `RecvPath`, `TcpLink` | one direction of a TCP connection | `TcpLink` joins sender, socket and receiver | done |
| 5 | `Deck` | ranking and comparison of hands (`deck.cpp`) | | done |
| 6 | `RoundSettle` | who pays whom after a round (`calcRound`) | `Deck` | done |
| 7 | `PrivateLink` | handshake, connection tables, reconnecting client, start of the main timer | a listener and its peers | done |
| 8 | `Process`, `ProcessConfig` | threads of a process and their end; its configuration | | done |
| 9 | `TimerEvents`, `FastTravelMap` | removals that fill the gap with the last entry | both use `SwapErase` | done |
| 10 | `Coroutines` | one stack for all, rounds of turns | | done |
| 11 | `HttpParser`, `HttpStream`, `HttpUrl` | the push parser, fed in pieces; URLs | `HttpStream` joins two parsers | done |
| 12 | `HttpConnections` | the tables of http connections and the threads that use them | | done |
| 13 | `XmlText`, `XmlStream`, `XmlCursor` | parsing and printing, the `>>` operator, places in the text | `XmlStream` feeds `XmlText` | done |
| 14 | `XmlTree`, `XmlAttributes` | the linked tree and its lookups, the attributes | `XmlTree` implements `XmlKids` | done |
| 15 | `Broadcast` | one packet object in the queues of several connections | several `SendPath`s | open |

`MCGame13`, `MCSession`, `MCTcpLink`, `MCProgress`, `MCCards`, `MCProcess`, `MCXml` and
`MCText` instantiate them for TLC. `MCProgress`, `MCCards`, `MCProcess` and `MCText` put several
components into one run: a behavior of such a run is about one of them (`part`), the variables of the
others do not change. What the parts have in common is only that they are checked together.

Rooms and logins come first because they carry what the players would notice:
seats, votes, rounds, money and whose connection is whose. The queue and the
link follow because every message of the first two depends on them.

### Abstract specifications

* `Fifo`, a bounded queue with atomic calls, is what `SpscQueue` implements for
  a ring of any size (checked and proved).
* The FIFO queues of packets in `Session` are what `TcpLink` promises as long as
  no connection is closed and no receive queue overflows (`DeliveredInOrder`,
  `Delivered`); `Lossy` in `Session` is what is left when one of these happens.
* `XmlKids`, trees with sequences of children, is what the linked nodes of
  `XmlTree` implement (checked: the links of thirteen operations).
* `HttpStream` states that a parser fed in pieces is the parser fed with the whole,
  by running both.

### Runs

There are a dozen; components share one where that costs little. Five runs are about a statement
of the repository that the code refutes, and stop at the counterexample. Four more
such statements are properties of their modules that no run checks (section 4).

### Theorems

Proved (section 6): the safety invariants and the action properties of the rooms, of
the logins, of the ring with its refinement to the bounded queue, of both sides of a
link, of the settlement, of the table of clients, the timer and the coroutines, of the
threads of a process, of its configuration, of the handshake of private links, of the
tables of http connections, of the http parser's stream and of the fields of URLs. Open, in this order:
the XML modules with recursive functions in place of RECURSIVE operators; the walk that
counts pairs (`RunsCounted`), which is a recursion over the cards; the comparison of
duns by the rules (`DunsCompareByRule`).

## 3. The modules and the code

### `Game13`: rooms

Handlers of the lobby run on its main timer thread, one after the other and
never beside the timer; each is one action. A room is a record, and member
functions of `Game13` that only touch the room are operators from records to
records (`CheckAllVotes`, `TryStartRound`, `TrySettleGame`, `AbortGame`,
`TimerExec` ...), which an action applies in the order in which the code calls
them. `roomOf` is `Client::m_roomId`; `Expel` is `Client::afterLeaveRoom`;
`money` is changed by `PayForFirstRound` only, the fees `tryStartRound` takes.
`known` and `linked` are what rooms see of the lobby's indexes: the clients
`getByCuid` finds, and those whose messages are recognized by their connection
(`getByCcid`). A handler needs the second, the start of a round the first.

| action | code |
|---|---|
| `Register` | `proto_LoginQuest` of an account without a player (client_manager.cpp:149-180); over a connection that carries a player it fails and takes that player's entry under the connection with it |
| `Relogin` | `proto_LoginQuest` of an account with a player (181-210): the player is erased, moved to the connection and inserted again, which fails when the connection carries another player, whereupon the player is gone; `Room::clientOnline` otherwise |
| `CreateGame`, `JoinGame` | `proto_C_G13_CreateGame`, `proto_C_G13_JionGame`, both through `enterRoom` |
| `GiveUp`, `VoteForAbortGame` | `proto_C_G13_GiveUp`, `proto_C_G13_VoteFoAbortGame` with `checkAllVotes` |
| `ReadyFlag`, `BringOut` | `proto_C_G13_ReadyFlag`, `proto_C_G13_BringOut` with settlement and the next round |
| `Tick` | `Room::timerExecAll`, once a second |

What is abstracted: the cards dealt, the prize of a round and the messages to the clients
(the chat and the queries change nothing). `settled` counts the entries of
`m_settleData`. A room erased from `Room::s_rooms` leaves a slot that a later room
may take; ids are never reused by the code, and because no client refers to an
erased room (`NoDanglingRoom`, proved) a recycled slot cannot be told from a new
id. `std::unordered_map` has no order the code could rely on, so which rooms
come before the first closed one in `timerExecAll` is chosen freely at each tick.
`elapse`, the time since a vote or a settlement, stops counting at the timeout.

A player who is gone keeps its seat, and nobody can take it back: its account gets a new
player with the next login. A table that waits for such a seat may be all ready
and never start; game13.cpp:576 and 889 speak of this state, in which the timer retries
the start in vain. `RoundsInStep` allows it for no other reason. The new player of the
account is another client of the model.

### `Session`: logging in

The gateway's half is `gw`, `gwCuid`, `dying` (`ClientManager::m_clients`,
`Client::cuid`, `m_dyingClients`) and `link`, the public connections of its
connection manager, which come and go on another thread. The lobby's half is
`clients` and `index`, the three indexes of its `ClientManager`; `Inserted` and
`Erased` are its `insert` and `erase`, the first with its roll-back. `toLobby` and
`toGw` are the private links with the router between them: FIFO, because each
direction is one TCP connection per hop and one receive queue, and the router
handles packets in the order in which they arrive. With `Lossy`, any message
may be lost, as it is when a link is down: the code neither stores nor repeats
them.

### `SpscQueue` and `Fifo`: the receive queue

One action for each access to the shared ring: the load of a cell's status, the
plain write or read of its item, the clearing of the item and the store of the
status. `push` gives up after two loads and `pop` after three, as the loops in
the code do. The loads acquire and the stores release, and each cell has one
writer at a time, so an interleaving of accesses is what a thread can observe.
The counters are kept masked, which is what is left of them when they wrap.

### `SendPath`, `RecvPath` and `TcpLink`: one direction of a connection

`SendPath` is `sendPacket` and the write event with the send buffer
(`ConnectionBuffer`), the queue of packets that wait and epoll's interest in
writing. `sendPacket` and the write event exclude each other by `sendLock`; the
loop of the write event is cut into its iterations (`DrainSome`, `DrainAll`,
`Refill`). Bytes carry numbers in place of values, so that a byte lost, repeated
or out of place shows; bytes the buffer holds without having received
them are `Stale`. The socket takes any part of what it is offered, or nothing.
`RecvPath` is the read event, with the receive buffer, `TcpPacket::parse` and the
queue of received packets, and `getPacket`. `TcpLink` joins the two by the bytes
the socket has taken (`wire`) and lets the connection be closed at any moment.
Two departures: an exception on an error of the socket, which erases the
connection, is not an action of its own, `Close` has the same effect; and a stream that
a second commit has spoilt is read up to the first foreign byte only, because a header made of such
bytes may announce anything.

### `Deck` and `RoundSettle`: hands and points

`Deck` has no state. A card is its number; sorting is `SortSeq` with the code's
order. The code tests the brands of a dun, and of thirteen cards, one after
the other and takes the first that fits; since the brands' values fall along
the chain, this is the greatest brand whose test the cards pass (`Passes5`,
`Passes13`). `brand5` repeats the tests of `brandInfo5` and is one operator with
it. Points are numbers to the base 14, as in the code, and fit 32 bits.

`RoundSettle` is the two loops of `calcRound`: `CompareSpecial` and
`CompareNormal` look at the pair of hands `pair` and enter a debt in `losers`;
`PayWinner` pays the entries of one seat. In the program the whole settlement is one
call, the steps are its iterations. Where the code departs from its own
comments, the model follows the code:

* the prize of a special hand is entered under the winner's own seat and cancels
  (game13.cpp:1005, run `settle_special`);
* the second and the third comparison are the same, of the second dun of the first
  hand and the third of the other (1022-1023, run `settle_duns`);
* a draw leaves the inner loop, so the hands behind it are not compared with the
  first (1190, `AllPairsCount` does not hold);
* only the first hand of a pair can sweep (1182, `SweepsAreShots` does not hold), and it is the
  "winner" of every total but 0, because the total is unsigned (1176-1192); the points
  come out right, the number of wins in the final count does not;
* nothing is paid for ordinary hands unless `m_attr.daQiang` is set (1174), and
  `quanLeiDa` is never true (1214-1225);
* in a head, a low pair weighs 14^3 and a high one 14^4 (deck.cpp:218-220,
  `HeadsRankAsPoker` does not hold), and "straight" means three equal ranks (deck.cpp:354).

What a player may rely on is stated without the code's pairing of duns: `NotBeaten(s, t)`
says that no dun of `s` is beaten by any dun of `t` of its size, and `UnbeatenNeverPays` that
whoever is not beaten by anybody does not pay. `LikeDunsDecide`, in which the rule's like
duns are compared, does not hold.

### `PrivateLink`: the connections between processes

A link is one TCP connection of a peer to the listener; `cli` and `srv` say where
its two ends are: in the checker (`sendId`, `recvRet`; `recvId`, `sendRet`), in the
table of the connection manager (`added`), or closed. `Connect` is `TcpClient::exec`,
which connects when its weak pointer has expired, that is, when neither the
checker nor the manager has the last connection. `RecvRet` and `Answer` hand a
connection to `addPrivateConnection`, which refuses a second one of a process; the
refused pointer is dropped, and the other side notices. Each side notices by
itself that a link is broken or closed at the other end (`NoticeAtPeer`,
`NoticeAtServer`). Faults: a process ends and starts again, a link breaks, epoll
refuses a descriptor. `JoinThreads` is the look at the number of private
connections that starts the main timer.

### `Process` and `ProcessConfig`

`lanchThreads` runs and notes the threads in `LaunchOrder`, as far as the configuration
has made them; `noted` is `m_threads`, by name, and `Noted` says whose thread stands
under a name. A thread ends when it finds its switch off, fails, or throws;
`Join` takes the result, `JoinThrows` is the future that throws in the main thread.
The signal handler acts in the main thread only; a signal delivered to another
thread is ignored by the code (process.cpp:228) and is no step of the model.

`ProcessConfig` reads nodes one by one. Numbers have the code's widths, scaled down
(`Byte` and `Word` are the numbers of values), and the `|` of an id is a constant, `BitsOr`, which
the run binds to the bitwise or and of which the proof knows what `OrAssumption` says. A number goes through `int8_t` when an id is made of a name, so
the numbers 128 to 255 come out sign-extended, and a process with such a number cannot
be found by `connectTo` (`LowBitsSuffice`, stated in the module and not true).

### `TimerEvents`, `FastTravelMap`, `SwapErase`

Both `Event` and `FastTravelUnorderedMap` keep a vector and a table of places, and
put the last entry into the place of an erased one (`SwapErase`).

The header of `FastTravelUnorderedMap` (lines 11-12) warns of a crash when the
`unordered_map` inside it rehashes. `erase` is where one could strike: it holds an iterator of the
table across a write `m_map[...]` (133-139), and a write that inserts a key may rehash.
`EraseNeverRehashes` says that this write never inserts, because the key of the last entry is in the table
whenever vector and index agree (proved); so the crash cannot come from `erase` in a
single thread. What else the warning may have had in mind it does not say. Its user in the
gateway's AnySDK login erases by iterators in a loop (anysdk_login_manager.cpp:133-141),
but from `m_tokens`, into which nothing is ever inserted: the loop always finds it empty and is left out.

A tick of the timer
is cut at its locks: `ReadClock`, `TakeLocks`, `Clean` for each queued removal in the
order of the ids, `Cleaned`, `Fire` for each interval; other threads register handlers
and queue removals in between, as far as the two locks let them. Handlers of one interval share the
registration time and the counter, so that a new one starts the interval afresh, and a
timer that is late makes one call per tick until it has caught up. A handler is removed
once: `Event::unreg` of any id, also an unknown one, clears the last remaining handler,
and a handler that registers another would wait for its own lock; the program does
neither.

### `Coroutines`

`stack` is what the shared stack holds, `stored` the copies; the local data of a
coroutine is a count, and `did` the same count kept where no copy can spoil it.
`doSchedule` is cut where control goes to a coroutine and comes back. Its result counts
also the coroutines that ended, though coroutine.h:24 speaks of those that exist; that a
`swapcontext` fails is left out: `runningCoid` would stay set, and nothing
would be scheduled any more.

### `HttpParser`, `HttpStream`, `HttpUrl`, `HttpConnections`

A parser is a record, and `Step` one turn of the loop of `http_parser_execute`: the byte is
counted (`Begun`), the code of the state runs (`Turn`), and runs again for every `goto
reexecute` (`Reexecute`), of which there are three at most. The cases of a CASE exclude each other, as the
order of the code's tests makes them do. Bytes
are tokens: a character that a state tells apart, or half of a word that is matched
letter by letter, so that a read may end inside a word. `HttpStream` feeds one parser as the
reads cut the bytes and another with all of them in one piece. Upgrades,
`on_headers_complete` that returns 1, and a parser for both kinds of messages are features
of the library that this program does not use. `HttpUrl` is `http_parser_parse_url`, a
URL growing token by token and then its host.

`HttpConnections` has the two tables, the epoll thread and the threads that add, erase
and answer connections. `addConnection` is broken in two, because epoll may report a
connection whose packet is not made yet; what saves it is the lock, which `Dispatch` needs. In
the model as in the code a new `HttpPacket` is complete from the start
(`m_completed`), so `parse` takes nothing, and the packet is pushed as it is, again and
again: the http process receives empty packets, and the thread stays in its loop as long
as there is data. `OnlyReceivedPackets` in the module states what one would expect;
it does not hold.

### `XmlText`, `XmlStream`, `XmlCursor`, `XmlTree`, `XmlAttributes`

A text is a sequence of lexical units; `ParseStep` is the recursive descent with an
explicit stack `open` of the nodes whose `Parse` is running. A node is linked even when
its own `Parse` failed, an unterminated declaration or comment at document level and text
after the root are no errors, and `LoadFile`'s result is dropped (xml_parse_doc.cpp:16);
so `TextIsKept` says of a text that was cut only that it is an error, has no root, or
lacks nothing of the root. White space and neighboring texts are normalised by `Canon`; `"<!-->"`
(which `>>` and `Parse` end at different places) and a printed text that holds `&#x` are
kept out of the inputs.

`XmlTree` has the six pointers of a node and the operations that relink them, each with its
early returns; `XmlKids` says what they mean. `XmlAttributes` is the ring with its
sentinel.

`XmlCursor` is `TiXmlParsingData::Stamp`, byte by byte: the row and column of a place
depend on where the last stamp was, which may be inside a line break; a character
is stepped over by what its first byte says, also beyond the end of the text, while bytes that
follow in a place of their own count as characters. At a byte 0xEF with fewer than two
bytes behind it `Stamp` never comes back (tinyxmlparser.cpp:261-277; `hung`). `BadBytesPass` states that it does,
and does not hold; `CursorCountsLines` is about text whose characters are complete.

## 4. What the runs check and show

| run | question | answer |
|---|---|---|
| `game13_rich` | Three clients at two rooms: are votes decided with their own ballots, games aborted by consent only, tables and rounds kept through failed votes? | holds |
| `game13_poor` | Clients who run out of money, all kinds of payor, tables of no, one and two seats, players lost by failing logins: do rounds stay in turn, and what parts a seat from its player's room id? | they do, and only an entry refused for want of money |
| `progress` | Three parts. One login per connection: does an account play on one connection, does the last login win, is every login answered? Packets that fit into the send buffer twice, and ones larger than it: what spoils the stream, do packets arrive in order, and does every packet arrive? Do votes and settled rooms end by their timeouts? | yes; the second copy of a packet that was partly sent, and nothing else; in order, and all of them unless the connection is closed, the receive queue overflows or the stream is spoilt; once closed rooms no longer interrupt the timer's walk |
| `session_shared` | Two accounts on one connection, so that inserts do fail, and lost messages: do the indexes agree, does an account keep its player, does a refused connection ever play? | they agree, except that a player may miss its entry under its connection after a refused login; an account loses its player only by its own login over another player's connection; never |
| `session_relogin` | Two logins of one account on one connection: does the player stay on it? | no, it kicks itself |
| `link_stale` | Smaller packets and a busy socket: is anything sent that is no packet? | yes |
| `cards` | Do duns compare as the rules say, are pairs, triples and quads counted right? Do points only move between players, what is left uncompared, can who is not beaten pay? | holds (of heads, pairs compare by rule but for a low pair against a high one, see below) |
| `settle_special` | Does a special hand win its prize from the others? | no, from itself |
| `settle_duns` | Does a player pay only to one who beats a like dun? | no, the second and the third dun are not compared with like ones |
| `process` | Private links through restarts, breaks and refusals; the end of a process; its configuration; the table of clients, the timer, the coroutines, the receive queue: does each keep its promise? | holds |
| `process_timer` | Does the main timer start when all private connections are there? | not in a listener that a peer joins early |
| `text` | Does the http parser depend on how reads cut the bytes, are URLs cut right, do the http tables agree? Does XML read back, and do tree and attributes answer for what was put in? | holds |

### Findings

The violation runs each refute a statement of the repository:

1. `session_relogin`: `proto_LoginQuest` (lobby client_manager.cpp:189) kicks the
   connection the player is on even if it is the one that logs in again.
2. `link_stale`: when `trySend` sends only a part, `sendPacket`
   (tcp_connection_manager.cpp:437-448) commits the packet to the buffer a second
   time if there is room: as many stale bytes follow the packet on the wire.
3. `settle_special`: `calcRound` (game13.cpp:1005) makes the winner of a special hand
   its own debtor; the comment at line 976 says each of the others pays.
4. `process_timer`: `joinThreads` (process.cpp:104) waits until the number of private
   connections EQUALS the number it connects to, and counts the incoming ones too. The
   router connects to nobody: if a peer has joined before the first look, its main
   timer does not start as long as peers stay connected. The comment at line 103 says
   that it starts when all connections are there.
5. `settle_duns`: `calcRound` (game13.cpp:1022-1023) compares the second dun of the one
   hand with the third of the other, twice; the rule at line 1027 gives a point for winning
   the same dun.

Four more statements do not hold. They are properties of their modules, which anybody may
put as INVARIANT into the configuration of the run named; TLC then finds the counterexample.

* `AllPairsCount` (`cards`): a draw of two ordinary hands ends the inner loop (game13.cpp:1190), so the first
  of them meets no hand behind the second; line 1206 says that all are compared pair by pair.
* `SweepsAreShots` (`cards`): the test for a sweep by the second hand (1182) is the one for the first
  again; lines 1171-1172 promise whoever beats another in all three duns twice the points.
* `HeadsRankAsPoker` (`cards`): a pair below its single card weighs less than any pair above it
  (deck.cpp:218-220), so 3 3 2 beats 4 4 5; deck.h:45 says that the rules are those of Texas hold'em.
* `BadBytesPass` (`text`): `Stamp` does not move at a byte 0xEF with fewer than two bytes behind it
  (tinyxmlparser.cpp:264); line 55 says that such text is passed through as much as possible.

Met while modelling, present in the models, and without a run of their own:
`enterRoom` (game13.cpp:392) seats the client before it checks the money, and a
refused client keeps the seat without a room id, so that `SeatsMatchRooms` fails
where clients run out of money, and a later end of that room takes the client out of the room it
is in by then (`OnlyRefusalsMisplace` says that nothing else does this); a login over a
connection that carries another player takes the player out of the lobby while its seat stays
(client_manager.cpp:192-201), and the room may wait for it for ever; `timerExecAll` (room.cpp:62) stops its walk at the
first closed room, so that a vote lasts for ever if a room is closed before every
tick, which is why `TimeoutsFireWhenQuiet` is conditional; the lists under
`RoundSettle`, `HttpConnections` and `XmlText` in section 3; with an http listener,
the thread of the http connections is noted under the address of the main timer
(process.cpp:59), so that one future is waited for twice and the other thread is left
behind (`NobodyLeftBehind` fails for a configuration with `"http listen"`; it is checked and proved
for configurations without one, which all of the repository are, and no statement of
the code contradicts the failure, so it has no run); bytes that a peer sends right behind its id or answer stay in
the buffer the checker has filled until the next event; the checker has no timeout, so a
silent peer keeps its place; and the epoller stops to watch a descriptor after the
error handler has closed it (epoller.cpp:135-140), when it may be a new connection's; and
a control character in the value of a header that the parser does not know is refused only where the
parser looks at it, at the first byte of the value in each read, because the rest of the line is skimmed with `memchr`
(http_parser.c:1480-1502): what is refused depends on the reads.

### Bounds, and why they are enough

* **Rooms.** Two or three clients and two room slots: a room interferes with
  another one only through a client or the timer's walk, and two rooms with a
  client each, a third client joining either, show both; slots are recycled, so the
  number of rooms ever made is unbounded. Tables of two seats have a sponsor
  and an opponent, and tables of none and one are the boundaries the code does not
  reject. One and two rounds show a first, a last and a following round.
  `InitMoney = 15` stands for the 10000 a player starts with: it is enough for one
  fee of 10 and one entry check, so that clients do run out in `game13_poor`; in
  `game13_rich` the payor is the winner, who is checked at the entry and never
  charged by the code, so nobody runs out. Two connections for two or three clients: a login moves
  a player to its own, a free or somebody's connection. Timeouts of one or two ticks stand for
  the 300 seconds: `elapse` starts again from 0 at a vote and only its comparison
  with the timeout matters. `progress` has two
  clients at tables of two seats.
* **Logins.** Three connections, two of one account: crossing logins need two
  connections, a third with another account would show a mix-up of players.
  `MaxLogins = 1` in `progress`, because a second request on one connection breaks
  `CurrentPlays` (`session_relogin`), so no insert fails there. In `session_shared` two connections with
  two accounts and two requests each make registrations and repeated logins fail.
* **Ring.** Two cells and two items: the ring wraps, fills and empties. The proof
  covers any size.
* **Link.** Three packets of 2 or 5 bytes for a send buffer of 4: half of the buffer, so that the second
  copy of a packet that was partly sent has room or has none, and larger than the buffer. Headers of 2 bytes
  are cut by reads of 1; a receive buffer of 4 is smaller than the larger packet; a receive queue of 2
  overflows with three packets. `QueueMax = 1` makes `sendPacket` refuse.
* **Hands.** Thirteen cards of a deck give every shape of a dun: the three parts in
  `MCCards` hold doubled cards, both odd straights, flushes with pairs, two quads and
  full houses in competition. The counts of groups depend on run lengths only, and all sequences
  of run lengths up to four (`MaxOfRank`) are visited. Both decks of the code hold
  four cards of each rank: the one "with one more suit" overwrites its first
  thirteen cards with spades (game13.cpp:607-608), so five of a kind are not dealt.
* **Settlement.** Seven deals of four hands, taken by two to four players in every order of
  seats, with and without `daQiang`: ordinary hands, the dragon, special hands of
  equal and of different value, draws and sweeps.
* **Places in a text.** Texts of up to four bytes out of those that `Stamp` tells apart; a
  character of three bytes, cut at either place, and a mark of no width fit with a byte before it.

* **Private links.** A peer with a valid id and two links, one of which may still be half
  open at the other end, and a peer with an id that is refused; two faults, so that one
  may hit the recovery from another. Peers do not share state at the listener except for the count.
* **Process.** The configurations of `process.xml` and `process.xml.example` (whose gateway has
  a flash sandbox); one thread of
  each kind that may fail, and a handler of the main timer that throws.
* **Configuration.** Two nodes out of all with two types, two numbers (one of them
  negative as a signed byte of `Byte = 8`), listening or not, with four kinds of lists.
* **Table, timer, coroutines.** Three keys: an erased entry may be the last, the one the last
  takes the place of, or another. Two intervals with two registrations, one handler that removes
  itself. Three coroutines: one may run before, and one behind the one whose id is freed.
* **http.** Every token that a state tells apart, in every order, and every cut: the state
  space is closed, no bound on the length of a stream is needed. Content lengths up to `ULLONG_MAX = 17`
  overflow in two digits. URLs of four tokens after the schema, ports up to 10. Three connections on
  two descriptors: one descriptor is used again while events of its old connection wait.
* **XML.** Trees of a root with two children out of all kinds, with texts of two units out of
  those that are escaped; texts that begin with `<a` and go on with any four units out of eight; every
  place at which a printed text may be cut. Five nodes show a child in the
  middle, at either end, and a grandchild; three attributes show the same in a ring.

### Fairness

* Rooms (`TimerFairness`): the timer handler is called again and again (`WF(Tick)`), as the main
  timer thread does; clients owe nothing.
* Logins (`LoginFairness`): gateway and lobby keep taking messages from their queues and calling
  their timers (`WF` of `GatewayReceive`, `LobbyReceive`, `TimerExec`).
* Link (`SendFairness`, `RecvFairness`): the epoll threads come back to a socket with something to do, because
  epoll is level-triggered (`WF` of the write event, the refill and the receive
  steps); the receiver's main thread takes packets (`WF(GetPacket)`); the socket,
  offered bytes again and again, takes at least one at some time (`SF(Takes)`),
  which is what a peer that keeps reading guarantees.

* Private links: the client, the checkers and the managers of running processes go on, and the
  system reports an end that is broken or closed (`WF` of the steps of each link and process).
  Faults end by their bound; nothing forces them.
* Processes: the main thread goes on, and a thread that is switched off looks at its switch
  (`WF(Main)`, `WF(Ends)`). Every `exec` in the code has such a loop with a wait of bounded length.

Deadlock is checked for the rooms (`game13_rich`, `game13_poor`), which can always go on. The other runs really stop: all
connections closed, all packets sent, all winners paid, a process ended, a document
read. `Deck` has no behaviour of its own; the steps of `MCCards` only pick inputs.

## 5. Hazards

`PROJECT.json` lists the places of the code that are hard to test, with the
properties that would catch them going wrong. Two have no property, the deal of an
event room and `broadcast`; the note says why. Two are covered in part: the http listener's
thread (process.cpp:59), and equal ids of sign-extended numbers, which show as a refused
configuration.

## 6. What is proved

All proofs are checked by TLAPS, for every value of the constants that meets
the assumptions named in the modules: finitely many rooms and client-chosen
attributes of the right type (`GameAssumption`), a number of accounts per
connection (`SessionAssumption`), a ring of at least one cell
(`SpscAssumption`), buffers of at least one byte (`SendAssumption`,
`RecvAssumption`), tables of hands that are sequences of cards (`SettleAssumption`), any
coroutines doing any bounded amount of work (`CorotAssumption`), a listener that is not
one of its peers and any links of these (`PrivateAssumption`), intervals, registrations
and times that are natural numbers (`TimerAssumption`), a word that holds a type and a number
of a byte each and a bitwise or (`ConfigAssumption`, `OrAssumption`), configurations and threads that
exist (`ProcessAssumption`). Where a theorem needs more, its statement says so:

| theorem | holds where |
|---|---|
| `OneConnectionEach` | no message is lost |
| `CurrentConnectionPlays` | no message is lost, one account and one login for each connection |
| `EveryThreadJoined` | no process listens for http (`NoHttp`), as in every shipped configuration |
| `SettleTypeCorrect` | every table has a seat |
| `ListsAreFollowed` | there are fewer than 256 types, and numbers have eight bits (`EightBits`), which is all of them that is used (process_id.h:34, 38) |
| `TheStreamIsRead` | no control characters arrive (section 4 has what they do) |

Section 4 has the behaviour that breaks `CurrentPlays` (two logins) and `NobodyLeftBehind`
where the hypothesis does not hold. The other hypotheses are what the proofs need: `TypeOK` of
`RoundSettle` says that the loop stands at a seat, which an empty table does not have.

**Rooms (`Game13Proofs`).** The inductive invariant `Inv` joins the type invariant,
`NoDanglingRoom`, that seats are taken by players who have been made (in the lobby still or gone) and,
for each room on its own, `RoomOK`: `VoteUndecided`, `NoStaleBallot` and `RoundsInStep`. None is inductive alone. That a
room id leads to a seat (`RoomIdsLeadToSeats`) needs the votes, because a room that
is closed must have expelled its members in the same step; that a vote is
undecided (`OpenVotesUndecided`) needs `NoStaleBallot`, because a vote opens with the ballots the seats
hold; that settlements keep pace with rounds needs the full table of
`RoundsInStep`. The proof has a lemma for each member function on a single room, and
lifts them to the handlers.

The action properties say what a step does to a running game. `RunningStep` lists the
outcomes: the room closes, and its players have agreed or the vote's time is up (`Consented`), or the
table stays and is in play, in a vote or settled, and a vote that ends in play gives back the
round it interrupted; every handler is shown to have one of them, and `AbortsAreAgreed`,
`FailedVotesHarmless` and `TablesStayFixed` read off what they need.

`SeatsMatchRooms` fails where an entry is refused (section 4). `SeatsPartByRefusalOnly` says
that nothing else makes it fail, for any payors and however poor the clients are: an entry that is not refused
names the room in the step that seats the client, a departure gives up both at once, a room's
end and the seats it frees are one step, and a login that fails takes the player from those that the
lobby holds in the step in which it gives up the room id. It is about one step from a state in which
seats and rooms agree; a seat that a refusal has left behind is outside of it.

**Logins (`SessionProofs`).** `RefusedStaysOut` holds for any accounts and with lost
messages: a connection told "failed" has left the gateway's table, and no handler puts
it back. `IndexesAlwaysAgree` and `AccountsKeepPlayers` too hold for any accounts, so for
connections on which clients use several: then the key under which `proto_LoginQuest` enters a client
may be taken, `insert` fails, and the `erase` after it removes the entries that are under the client's keys,
whoever they are of. What is left is said by `IndexesAgree`: the indexes by account and by cuid hold the same
players, a connection's entry leads to a player on it, and a player without such an entry shares its
connection with a client whose insertion failed. `AccountKept` says that the only account
that can lose its player is the one that logs in over a connection that carries another player.

`OneConnectionEach` needs that no message is lost, and nothing about the accounts:
`OneInv` says that a connection that plays, or whom a good answer may still let in, is the one the lobby
has entered for the player, or its notice to leave is under way. That the queues are FIFO is
what the proof turns on: a notice sent after an answer arrives after it. `CurrentConnectionPlays` is the converse, that the connection the lobby
has entered is let in; `CurrentInv` follows a login through its stages (`Waiting`,
`Fresh`, `Left`, `Entry`). It needs one login for each connection: with two the lobby
kicks the connection it has just entered (`session_relogin`).

**Ring (`SpscProofs`).** `RingInv`: the full cells are the interval from the cell to
be popped to the cell to be pushed to. `RingIsFifo` is the refinement to `Fifo`, with
the store of "full" and the store of "empty" as the points at which a push and a pop
take effect, a refused push at its last load, and a ring of any size as the capacity.
`ItemsAreNotShared` excludes the data race.

**Link (`TcpLinkProofs`).** `SendTypeCorrect` shows that the data stays inside the send
buffer, also where `sendPacket` commits a packet twice, and that the queue does not
exceed its limit by more than one. `WaitingIsWatched`: what waits is watched by epoll.
`StreamSpoiltByRecommitOnly` is about packets of all sizes, and says of every step of sender and
socket but one that it keeps an intact stream intact, by lemmas on runs of numbered bytes and chains of packets;
the one is the second commit (`Recommit`), for which the buffer must have room for the packet
twice. `link_stale` shows that this step does spoil the stream.
`PacketsDeliveredInOrder` is the receiver's side, for any buffers, queue and packets:
`RecvInv` says that the packets' ends rise along the stream (`EndsRise`) and that `parsed`
never passes what was accepted, so each packet is cut out once and is then in the queue, taken or lost.

**Settlement (`RoundSettleProofs`).** For tables of any size and any hands:
`PairsPaidOnce`, because entries only lead from an earlier to a later seat
(`EntriesPointForward`), and `AllComparedUntilDraw`, from the loop invariant
`PassedOrDrawn`: every pair the loop has passed is entered, or lies behind a draw of its row. The
ranking of hands is a black box to the proof.

`PointsAreConserved` and `UnbeatenPlayersSafe` are about sums over all seats. The
operator-valued induction theorems of the library cannot be instantiated, but `WFMin` and
`NatLessThanWellFounded` can: a set of naturals that is not empty has a least element
(`LeastNat`), and induction is the absence of a least counterexample (`AllNaturals`, `AllSubsets`). From these
follow that the recursion inside `SumFunctionOnSet` of the community modules has a
solution and only one (`SumsExist`, `SumsUnique`), and the laws of sums: any element may be
taken first, terms that are 0 may be left out, a sum of sums. The invariant `PayInv` says
that an entry under another seat holds the total of its three duns (`EntriesAreWins`). A payment
then adds to the winner what it takes from the others; and whoever is beaten in no dun, whichever
two of a size are compared (`NotBeatenKeepsDuns` leads to the pairs that the code picks), has no
negative total in its own entries and no positive one in those of others, while the
prize of a special hand, entered under its own seat, cancels.

**Table of clients (`BasisProofs`).** `IndexAlwaysAgrees`: vector and index agree
after any calls. `NoRehashInErase` follows: where the index agrees, the key of the last entry is in it, so
the write inside `erase` inserts nothing.

**Timer (`BasisProofs`).** `HandlersAlwaysStay`: whatever is registered and removed by
other threads while the timer thread is at its tick, list and places agree, and what has a
place is wanted or waits for its removal, never both (`Registered`). This makes `Event::unreg`
safe, which clears the last handler whatever the id: a queued id always has a place, so the last handler
is the one that is meant. That the calls do not run ahead of the clock (`CalledInTime`) needs that
the time read before the locks is not later than the clock. The laws of a vector with its table of places
(`AddedAgree`, `ErasedAgree`) are shared with the table of clients.

**Coroutines (`BasisProofs`).** `StackAlwaysOwn` rests on `DataIsKept`: a coroutine's
count is on the stack while it runs, and in its copy while it sleeps. `EveryoneHasATurn` rests
on `TurnsInv`: who was there when the round began has had a turn, or has an id the round
has not come to; this needs that an id is free once and belongs to one coroutine (`IdsAgree`).

**Private links (`ProcessProofs`).** `EndsAlwaysAgree`: whatever breaks, restarts or is
refused, a connection that a peer uses was accepted by the listener. The invariant
says what the wire may hold at each step of the handshake (an answer only after the id
was read, and for a valid peer), that each table has exactly the connections of its
manager, and that a `TcpClient` has one connection at a time.

**Processes (`ProcessProofs`).** `EveryThreadJoined`: start() leaves a thread behind only
if one throws. The invariant says that what runs is noted or is about to be
(`RunsNoted`), and that a future is used up together with the name it was noted under
(`WaitedOnce`). The second needs that a thread is noted under its own name, which the
http thread is not; hence `NoHttp`.

**Configuration (`ProcessProofs`).** `ListsAreFollowed`: an endpoint stands in
`m_processIdPrivateListenEps` under the id of a node that listens at it (`ConfigInv`), and a
listed id that is found there is that of one node only (`ListedIsNamed`). For a number from 128 the id of a node is
sign-extended and lies above every id that a list can name (`NamedValue`), so that the
configuration is refused rather than followed wrongly; below, the two bytes of an id tell type and number
(`OneNotation`), and a type its name (`TypesTellNames`).

**http connections (`HttpProofs`).** `TablesAlwaysAgree`, for any connections,
descriptors and threads. The invariant adds to the tables what the threads between two
critical sections still know of them (`HoldersKnow`): whoever holds a connection holds one
that was accepted and has its descriptor. A connection goes into the table once, into an empty
place, and has its packet when the lock is released (`AddedOnce`), which makes the erasure unique
although two threads may try it.

**http parser (`HttpProofs`).** `CallbacksAreInOrder`: whatever bytes arrive, control
characters too, in whatever pieces and with whatever pauses, errors and end, the callbacks of `HttpPacket` come in the order
that a message has, and no `assert()` of `http_parser_execute` fails. The invariant
`InPieces` says what is marked in a state (`Marked`), what the length of a body may be
(`Measured`: never 0 and never "no length" where a byte of it is counted), which flags and header words
go with a state, and which callbacks may have been the last ones in it (`Leads`). There is a lemma for each
part of the switch (`TurnFine` joins them); `ReexecuteLands` shows that a `goto reexecute`
leads to a smaller set of states each time, so that a byte ends between two turns.

`TheStreamIsRead` adds the second parser, which is given the bytes whole. `Together` says that both are as
`InPieces` has it and differ in nothing but marks and callbacks (`Near`). Outside a body equal parsers
stay equal (`SameTurn`); in a body one may have handed over what the other has marked, and
the end of a chunk or a body makes them agree again (`FirstTurnAgrees`), since a byte is handed over as the same kind of
data by either. The state after a byte does not depend on the length that `memchr` skims, as
long as a control character is not among the bytes that are skimmed.

**URLs (`HttpProofs`).** `UrlsAlwaysCut`, for URLs of any length. While the URL is read, its fields
are `Tiled`: they lie one after the other in the order of the syntax and only delimiters are
between them; the state says which field may be the last (`Top`), which is why a token begins a
later field or makes the last one longer (`UrlCharStep`), and no field comes twice. While the host is
cut, there are two tilings (`Cutting`): of the URL as it was (`Outer`, with the host as one field)
and of the host up to the next token (`Inner`); `Located` says which of its parts have
begun and where they end, and `Clean` what the name is made of. When the host has ended, the two make one
(`HostEndKeeps`). A state in which the name is empty has no way to an accepted URL.

### What stays with TLC

Liveness (`TimeoutsFireWhenQuiet`, `LoginAnswered`, `Delivered`, `LinksReconverge`, `StopEnds`), which
depends on fairness and ENABLED, both out of the prover's reach. The ranking of hands
(`DunsCompareByRule`, `RunsCounted`): arithmetic to the base 14 over sorted hands, which the
runs enumerate instead. XML (`TextIsKept`, `CursorCountsLines`,
`ListsAnswer`, the refinement `KeepsKids`), whose modules are built on RECURSIVE operators, which
a module with theorems may not reach.

## 7. What is not modelled, and why

Every component of the repository is in `PROJECT.json` with its status. Left out:
the deal of the cards; `broadcast`, whose packets are shared by several connections;
errors of sockets other than a closed peer; the public endpoints of a configuration;
the chat, the queries and the formats of messages; the router, which keeps no state; the
conversions of XML attributes to numbers, the visitor and the layout of printed XML; the
tables of names of the http parser and `http_parser_pause` from outside; the check of a login
with the AnySDK server and the http process, which are not wired to the game; the robot
client, a test tool; `LimitedSizeUnorderedMapCache`, `CircularQueue`, `MixedQueue`, the
multi-producer queue and a*, which no process uses; the answers of the flash policy server, one
fixed file (its threads, which `process.xml.example` starts, are in `Process`); database and redis access, stubs so far; logging, dates, strings
and serialisation; vendored database code.

Modules with RECURSIVE operators (`XmlText`, `XmlCursor`, `XmlKids` and what uses them) hold no theorems.
