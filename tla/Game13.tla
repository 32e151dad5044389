------------------------------- MODULE Game13 -------------------------------
(***************************************************************************)
(* The rooms of the 13-card game, as the lobby process runs them.          *)
(*                                                                         *)
(* Every message handler and the one-second timer run on the lobby's main  *)
(* timer thread, so each of them is one atomic action.  A room is a record *)
(* and the member functions of Game13 are operators from room records to   *)
(* room records; an action applies them in the order the handler calls     *)
(* them.                                                                   *)
(*                                                                         *)
(* Room ids are never reused by the program.  A room erased from           *)
(* Room::s_rooms leaves a slot here that the next room may take: nothing   *)
(* refers to an erased room any more (NoDanglingRoom), so a fresh id and a *)
(* recycled slot cannot be told apart, and the number of rooms ever        *)
(* created stays unbounded.                                                *)
(***************************************************************************)
EXTENDS Integers, FiniteSets, Sequences

CONSTANTS
  Clients,      \* players, named by their cuid, which no two players ever share
  NoOne,        \* cuid 0: an empty seat, no sponsor
  Rooms,        \* slots of Room::s_rooms
  NoRoom,       \* room id 0
  Conns,        \* connections of the gateway, named by their ccid
  NoConn,       \* the ccid of a player who has never been
  Sizes,        \* values of player_size
  Limits,       \* values of rounds, the number of rounds to play
  Payors,       \* values of payor
  InitMoney,    \* what a new client owns
  VoteTicks,    \* MAX_VOTE_DURATION, in timer ticks
  SettleTicks   \* how long a settled room is kept, in timer ticks

PAY_BANKER == 10
PAY_SHARE_EQU == 11
PAY_WINNER == 12

ASSUME GameAssumption ==
  /\ NoOne \notin Clients /\ NoRoom \notin Rooms /\ NoConn \notin Conns
  /\ IsFiniteSet(Rooms)
  /\ Sizes \subseteq Nat /\ Limits \subseteq Int /\ Payors \subseteq Nat
  /\ InitMoney \in Nat
  /\ VoteTicks \in Nat \ {0} /\ SettleTicks \in Nat \ {0}

VARIABLES
  room,         \* the rooms, by slot
  roomOf,       \* Client::m_roomId
  money,        \* Client::m_money
  ccid,         \* Client::m_ccid
  known,        \* the clients of m_cuid2Clients, and of m_openid2Clients
  linked        \* the clients of m_ccid2Clients, each under its m_ccid

clientVars == <<ccid, known, linked>>
vars == <<room, roomOf, money, clientVars>>

-----------------------------------------------------------------------------
(* Rooms and seats. *)

GameStatus == {"none", "prepare", "play", "vote", "settle", "settleAll", "closed"}
SeatStatus == {"NONE", "PREP", "READY", "SORT", "COMPARE"}
Vote == {"NONE", "AYE", "NAY"}

PlayerInfo == [cuid : Clients \cup {NoOne}, status : SeatStatus, vote : Vote]

EmptySeat == [cuid |-> NoOne, status |-> "NONE", vote |-> "NONE"]

\* A slot without a room.
NoGame == [status |-> "none", owner |-> NoOne, payor |-> 0, limit |-> 0,
           players |-> <<>>, rounds |-> 0, settled |-> 0,
           sponsor |-> NoOne, elapse |-> 0]

\* What CreateGame builds before the creator enters.
NewGame(c, size, limit, payor) ==
  [status |-> "prepare", owner |-> c, payor |-> payor, limit |-> limit,
   players |-> [s \in 1 .. size |-> EmptySeat], rounds |-> 0, settled |-> 0,
   sponsor |-> NoOne, elapse |-> 0]

\* Room::get finds a room until the timer erases it, closed or not.
Exists(r) == r \in Rooms /\ room[r].status # "none"

Seats(g) == DOMAIN g.players
SeatsOf(g, c) == {s \in Seats(g) : g.players[s].cuid = c}
Vacant(g) == SeatsOf(g, NoOne)
Members(g) == {c \in Clients : SeatsOf(g, c) # {}}

\* The seat loops of the code stop at the first match.
First(s, S) == s \in S /\ \A t \in S : s <= t

-----------------------------------------------------------------------------
(* Game13's member functions. *)

WithSeat(g, s, info) == [g EXCEPT !.players[s] = info]

\* abortGame: the members are kicked (see Expel), the room waits for erasure.
AbortGame(g) == [g EXCEPT !.players = <<>>, !.status = "closed"]

\* PlayerInfo::clear keeps the vote.
ClearSeat(g, s) ==
  WithSeat(g, s, [g.players[s] EXCEPT !.cuid = NoOne, !.status = "NONE"])

\* Fault: the seats are put back to sorting when their votes are cleared.
ClearVotesAndHands(g) ==
  [g EXCEPT !.players =
     [s \in DOMAIN g.players |->
        [g.players[s] EXCEPT !.vote = "NONE", !.status = "SORT"]]]

ClearVotes(g) ==
  [g EXCEPT !.players =
     [s \in DOMAIN g.players |-> [g.players[s] EXCEPT !.vote = "NONE"]]]

Everyone(g, status) ==
  \A s \in Seats(g) : g.players[s].cuid # NoOne /\ g.players[s].status = status

\* The first opposing seat decides, if somebody sits there.
Opposed(g) ==
  \E s \in Seats(g) : /\ First(s, {t \in Seats(g) : g.players[t].vote = "NAY"})
                      /\ g.players[s].cuid # NoOne

\* Fault: one AYE carries the vote.
SomeoneAgrees(g) == \E s \in Seats(g) : g.players[s].vote = "AYE"

Unanimous(g) == \A s \in Seats(g) : g.players[s].vote = "AYE"

\* Fault: a failed vote resumes the round with the ballots still cast.
CheckAllVotesKeepingBallots(g) ==
  IF Opposed(g) THEN [g EXCEPT !.sponsor = NoOne, !.elapse = 0, !.status = "play"]
  ELSE IF Unanimous(g) THEN AbortGame(g)
  ELSE g

CheckAllVotes(g) ==
  IF Opposed(g)
  THEN [ClearVotes(g) EXCEPT !.sponsor = NoOne, !.elapse = 0, !.status = "play"]
  ELSE IF Unanimous(g)
  THEN AbortGame([g EXCEPT !.sponsor = NoOne, !.elapse = 0])
  ELSE g

CanStartRound(g) ==
  CASE g.status = "prepare" ->
         /\ Everyone(g, "READY")
         /\ \A s \in Seats(g) : g.players[s].cuid \in known
    [] g.status = "settle" -> TRUE
    [] OTHER -> Everyone(g, "COMPARE")

\* Fault: the seats keep their status when a round starts.
TryStartRoundAsIs(g) ==
  IF CanStartRound(g) THEN [g EXCEPT !.rounds = @ + 1, !.status = "play"] ELSE g

\* tryStartRound, without the fees of the first round (PayForFirstRound).
TryStartRound(g) ==
  IF CanStartRound(g)
  THEN [g EXCEPT
          !.rounds = @ + 1,
          !.players = [s \in DOMAIN @ |-> [@[s] EXCEPT !.status = "SORT"]],
          !.status = "play"]
  ELSE g

\* trySettleGame; settled counts the entries of m_settleData.
TrySettleGame(g) ==
  IF g.status = "play" /\ Everyone(g, "COMPARE")
  THEN [g EXCEPT !.settled = @ + 1,
                 !.elapse = 0,
                 !.status = IF g.rounds >= g.limit THEN "settleAll" ELSE "settle"]
  ELSE g

Admits(g, c) ==
  CASE g.payor = PAY_BANKER -> g.owner # c \/ money[c] > 10
    [] g.payor = PAY_SHARE_EQU -> money[c] > 5
    [] g.payor = PAY_WINNER -> money[c] > 10
    [] OTHER -> FALSE

\* Fault: a client may enter a second room.
EnterRoomAgain(c, r, g) ==
  /\ UNCHANGED <<money, clientVars>>
  /\ IF g.status # "prepare" \/ Vacant(g) = {}
     THEN room' = [room EXCEPT ![r] = g] /\ UNCHANGED roomOf
     ELSE \E s \in Vacant(g) :
            /\ First(s, Vacant(g))
            /\ room' = [room EXCEPT ![r] =
                 WithSeat(g, s, [g.players[s] EXCEPT !.cuid = c, !.status = "PREP"])]
            /\ roomOf' = [roomOf EXCEPT ![c] = r]

\* enterRoom of client c into room g of slot r.  The seat is taken before the
\* money is checked, and a client that fails the check keeps it.
EnterRoom(c, r, g) ==
  /\ UNCHANGED <<money, clientVars>>
  /\ IF roomOf[c] # NoRoom \/ g.status # "prepare" \/ Vacant(g) = {}
     THEN room' = [room EXCEPT ![r] = g] /\ UNCHANGED roomOf
     ELSE \E s \in Vacant(g) :
            /\ First(s, Vacant(g))
            /\ room' = [room EXCEPT ![r] =
                 WithSeat(g, s, [g.players[s] EXCEPT !.cuid = c, !.status = "PREP"])]
            /\ roomOf' = IF Admits(g, c) THEN [roomOf EXCEPT ![c] = r] ELSE roomOf

\* Client::afterLeaveRoom for every client of C, whatever room it is in.
Expel(C) == roomOf' = [c \in Clients |-> IF c \in C THEN NoRoom ELSE roomOf[c]]

\* The fees tryStartRound takes when a room's first round starts: one charge
\* per seat, 10 from the owner or 5 from everyone.
FirstRounds == {r \in Rooms : room[r].rounds = 0 /\ room'[r].rounds = 1}
ChargedSeats(c, payor) ==
  UNION {{r} \X SeatsOf(room'[r], c) : r \in {q \in FirstRounds :
            room'[q].payor = payor /\ (payor = PAY_BANKER => room'[q].owner = c)}}
PayForFirstRound ==
  money' = [c \in Clients |-> money[c]
              - 10 * Cardinality(ChargedSeats(c, PAY_BANKER))
              - 5 * Cardinality(ChargedSeats(c, PAY_SHARE_EQU))]

-----------------------------------------------------------------------------
(* Message handlers. *)

Init ==
  /\ room = [r \in Rooms |-> NoGame]
  /\ roomOf = [c \in Clients |-> NoRoom]
  /\ money = [c \in Clients |-> InitMoney]
  /\ ccid = [c \in Clients |-> NoConn]
  /\ known = {} /\ linked = {}

\* Who is entered under connection k.
At(k) == {d \in linked : ccid[d] = k}

\* A login of an account without a player makes one, unless the connection
\* carries a player already, who then loses the entry by which its messages are
\* recognized: the client that could not be inserted is erased by its keys.
Register(c, k) ==
  /\ ccid[c] = NoConn
  /\ IF At(k) = {}
     THEN /\ ccid' = [ccid EXCEPT ![c] = k]
          /\ known' = known \cup {c} /\ linked' = linked \cup {c}
     ELSE linked' = linked \ At(k) /\ UNCHANGED <<ccid, known>>
  /\ UNCHANGED <<room, roomOf, money>>

\* The room a player who is back belongs to (Room::clientOnline) may not know
\* it any more.
Unseated(c) ==
  /\ roomOf[c] # NoRoom
  /\ Exists(roomOf[c]) => room[roomOf[c]].status # "closed" /\ SeatsOf(room[roomOf[c]], c) = {}

\* A login of an account that has a player moves it to connection k.  It is
\* erased by its keys, whoever is entered under them, and inserted again; when
\* another player is on the connection this fails, and the player is gone for
\* good, while its seat stays.
Relogin(c, k) ==
  LET others == linked \ ({c} \cup At(ccid[c]))
      free == \A d \in others : ccid[d] # k
  IN /\ c \in known
     /\ ccid' = [ccid EXCEPT ![c] = k]
     /\ IF free THEN linked' = others \cup {c} /\ UNCHANGED known
                ELSE linked' = others /\ known' = known \ {c}
     /\ Expel(IF free /\ ~Unseated(c) THEN {} ELSE {c})
     /\ UNCHANGED <<room, money>>

CreateGame(c, r, size, limit, payor) ==
  /\ c \in linked /\ roomOf[c] = NoRoom
  /\ room[r].status = "none"
  /\ EnterRoom(c, r, NewGame(c, size, limit, payor))

JoinGame(c, r) ==
  /\ c \in linked /\ Exists(r)
  /\ EnterRoom(c, r, room[r])

MyRoom(c) == room[roomOf[c]]
Replace(c, g) == room' = [room EXCEPT ![roomOf[c]] = g]

\* The error branches of the handlers: the room on the client does not exist,
\* or has no seat of the client.
Orphan(c) == ~Exists(roomOf[c]) \/ SeatsOf(MyRoom(c), c) = {}
LostRoom(c) == Expel({c}) /\ UNCHANGED <<room, money, clientVars>>

\* Giving up a running round opens a vote; in a vote it is an AYE.
StartVote(g, c) ==
  IF g.status = "play"
  THEN [g EXCEPT !.status = "vote", !.sponsor = c, !.elapse = 0]
  ELSE g

CastVote(g, s, v) == WithSeat(g, s, [g.players[s] EXCEPT !.vote = v])

\* Fault: a player walks out of a running round without a vote.
WalkOut(g, c, s) ==
  CASE g.status = "prepare" -> IF c = g.owner THEN AbortGame(g) ELSE ClearSeat(g, s)
    [] OTHER -> ClearSeat(g, s)

GiveUpRoom(g, c, s) ==
  CASE g.status = "prepare" -> IF c = g.owner THEN AbortGame(g) ELSE ClearSeat(g, s)
    [] g.status \in {"play", "vote"} -> CheckAllVotes(CastVote(StartVote(g, c), s, "AYE"))
    [] g.status = "settle" -> g
    [] OTHER -> ClearSeat(g, s)

\* Who leaves when room g becomes h by a handler of the client in seat s.
Leavers(g, h, s) ==
  IF h.status = "closed" /\ g.status # "closed" THEN Members(g)
  ELSE IF h.players[s].cuid # g.players[s].cuid THEN {g.players[s].cuid}
  ELSE {}

GiveUp(c) ==
  /\ c \in linked /\ roomOf[c] # NoRoom
  /\ IF ~Exists(roomOf[c]) THEN LostRoom(c)
     ELSE \E s \in Seats(MyRoom(c)) :
            /\ First(s, SeatsOf(MyRoom(c), c))
            /\ LET h == GiveUpRoom(MyRoom(c), c, s) IN
               Replace(c, h) /\ Expel(Leavers(MyRoom(c), h, s))
            /\ UNCHANGED <<money, clientVars>>

VoteForAbortGame(c, v) ==
  /\ c \in linked
  /\ Exists(roomOf[c]) => MyRoom(c).status = "vote"
  /\ IF Orphan(c) THEN LostRoom(c)
     ELSE \E s \in Seats(MyRoom(c)) :
            /\ First(s, SeatsOf(MyRoom(c), c))
            /\ LET voted == CastVote(MyRoom(c), s, v)
                   h == IF v = "NONE" THEN voted ELSE CheckAllVotes(voted)
               IN Replace(c, h) /\ Expel(Leavers(MyRoom(c), h, s))
            /\ UNCHANGED <<money, clientVars>>

ReadyFlag(c, ready) ==
  /\ c \in linked /\ roomOf[c] # NoRoom
  /\ Exists(roomOf[c]) => MyRoom(c).status = "prepare"
  /\ IF Orphan(c) THEN LostRoom(c)
     ELSE \E s \in Seats(MyRoom(c)) :
            /\ First(s, SeatsOf(MyRoom(c), c))
            /\ MyRoom(c).players[s].status # ready
            /\ LET set == WithSeat(MyRoom(c), s,
                            [MyRoom(c).players[s] EXCEPT !.status = ready])
               IN Replace(c, IF ready = "READY" THEN TryStartRound(set) ELSE set)
            /\ PayForFirstRound
            /\ UNCHANGED <<roomOf, clientVars>>

\* The last hand settles the round and, unless it was the last round, starts
\* the next one in the same handler.
BringOut(c) ==
  /\ c \in linked /\ roomOf[c] # NoRoom
  /\ Exists(roomOf[c]) => MyRoom(c).status = "play"
  /\ IF Orphan(c) THEN LostRoom(c)
     ELSE \E s \in Seats(MyRoom(c)) :
            /\ First(s, SeatsOf(MyRoom(c), c))
            /\ MyRoom(c).players[s].status = "SORT"
            /\ LET shown == WithSeat(MyRoom(c), s,
                              [MyRoom(c).players[s] EXCEPT !.status = "COMPARE"])
                   h == TrySettleGame(shown)
               IN Replace(c, IF h.status = "settle" THEN TryStartRound(h) ELSE h)
            /\ PayForFirstRound
            /\ UNCHANGED <<roomOf, clientVars>>

-----------------------------------------------------------------------------
(* Room::timerExecAll, once a second. *)

\* How long a room may stay in its status before the timer aborts it.
Timeout(g) == IF g.status = "vote" THEN VoteTicks ELSE SettleTicks
\* Fault: a settled room is not timed.
TimedVoteOnly(g) == g.status = "vote"
Timed(g) == g.status \in {"vote", "settleAll"}

\* The clock advances for every room, visited or not; elapse saturates at the
\* timeout, beyond which its value makes no difference.
Aged(g) ==
  IF Timed(g) /\ g.elapse < Timeout(g) THEN [g EXCEPT !.elapse = @ + 1] ELSE g

TimerExec(g) ==
  CASE g.status = "prepare" -> TryStartRound(g)
    [] Timed(g) /\ g.elapse >= Timeout(g) -> AbortGame([ClearVotes(g) EXCEPT !.elapse = 0])
    [] OTHER -> g

\* The first closed room met is erased and ends the loop: the rooms behind it
\* in the hash table's order are not visited in this tick.
Closed == {r \in Rooms : room[r].status = "closed"}

TimerExecAll(visited, erased) ==
  room' = [r \in Rooms |-> IF r \in erased THEN NoGame
                           ELSE IF r \in visited THEN TimerExec(Aged(room[r]))
                           ELSE Aged(room[r])]

Tick ==
  /\ \E visited \in SUBSET (Rooms \ Closed), erased \in SUBSET Closed :
       /\ IF Closed = {} THEN visited = Rooms ELSE \E d \in Closed : erased = {d}
       /\ TimerExecAll(visited, erased)
  /\ Expel(UNION {Members(room[r]) : r \in {q \in Rooms \ Closed : room'[q].status = "closed"}})
  /\ PayForFirstRound
  /\ UNCHANGED clientVars

-----------------------------------------------------------------------------

Next ==
  \/ \E c \in Clients :
       \/ \E k \in Conns : Register(c, k) \/ Relogin(c, k)
       \/ \E r \in Rooms, size \in Sizes, limit \in Limits, payor \in Payors :
            CreateGame(c, r, size, limit, payor)
       \/ \E r \in Rooms : JoinGame(c, r)
       \/ GiveUp(c)
       \/ \E v \in Vote : VoteForAbortGame(c, v)
       \/ \E ready \in {"READY", "PREP"} : ReadyFlag(c, ready)
       \/ BringOut(c)
  \/ Tick

Spec == Init /\ [][Next]_vars

\* The main timer thread keeps calling the timer handler; clients owe nothing.
TimerFairness == WF_vars(Tick)

-----------------------------------------------------------------------------
(* Correctness. *)

RoomType ==
  [status : GameStatus, owner : Clients \cup {NoOne}, payor : Nat, limit : Int,
   players : Seq(PlayerInfo), rounds : Nat, settled : Nat,
   sponsor : Clients \cup {NoOne}, elapse : Nat]

\* Types of the lobby's room table and of the client fields it depends on.
TypeOK ==
  /\ room \in [Rooms -> RoomType]
  /\ roomOf \in [Clients -> Rooms \cup {NoRoom}]
  /\ money \in [Clients -> Int]
  /\ ccid \in [Clients -> Conns \cup {NoConn}]
  /\ known \in SUBSET Clients /\ linked \in SUBSET known

\* A client that carries a room id has a seat in that room, and the room is
\* neither closed nor erased: every branch marked ERR_HANDLER in the message
\* handlers is dead code, and an erased id is never looked up again.
NoDanglingRoom ==
  \A c \in Clients : roomOf[c] # NoRoom =>
    /\ Exists(roomOf[c]) /\ MyRoom(c).status # "closed"
    /\ SeatsOf(MyRoom(c), c) # {}

\* A vote at rest is undecided: nobody opposes, somebody has not voted, and its
\* sponsor sits in the room (checkAllVotes ends every decided vote at once).
VoteUndecided(g) ==
  g.status = "vote" =>
    /\ \A s \in Seats(g) : g.players[s].vote # "NAY"
    /\ \E s \in Seats(g) : g.players[s].vote = "NONE"
    /\ SeatsOf(g, g.sponsor) # {} /\ g.sponsor # NoOne

\* No ballot survives its vote: the next vote of the room starts from nothing,
\* though a seat that is vacated and taken again keeps its vote field.
NoStaleBallot(g) ==
  g.status # "vote" => \A s \in Seats(g) : g.players[s].vote = "NONE"

\* A round in progress has a full table with somebody still sorting, and all
\* rounds before it are settled; a settled game has played the agreed number of
\* rounds; a waiting room is free of rounds, and when all of its seats are ready
\* one of them is that of a player who is gone: the retry of the timer
\* (game13.cpp:889) finds no other room to start.
RoundsInStep(g) ==
  /\ g.status \in {"play", "vote"} =>
       /\ Vacant(g) = {}
       /\ \A s \in Seats(g) : g.players[s].status \in {"SORT", "COMPARE"}
       /\ Seats(g) # {} => ~Everyone(g, "COMPARE")
       /\ g.settled = g.rounds - 1
       /\ g.rounds = 1 \/ g.rounds <= g.limit
  /\ g.status = "settleAll" => g.settled = g.rounds /\ g.rounds >= g.limit
  /\ g.status = "prepare" =>
       /\ g.rounds = 0 /\ g.settled = 0
       /\ Seats(g) # {} /\ Everyone(g, "READY") =>
            \E s \in Seats(g) : g.players[s].cuid \notin known
  /\ g.status # "settle"

VotesUndecided == \A r \in Rooms : VoteUndecided(room[r])
NoStaleBallots == \A r \in Rooms : NoStaleBallot(room[r])
VotesSound == VotesUndecided /\ NoStaleBallots
AllRoundsInStep == \A r \in Rooms : RoundsInStep(room[r])

\* Occupied seats and the room ids of the clients the lobby holds agree: a seat
\* belongs to a client that is in the room, and to one such seat only.
SeatsMatchRooms ==
  \A c \in known, r \in Rooms :
    /\ SeatsOf(room[r], c) # {} => roomOf[c] = r
    /\ \A s, t \in SeatsOf(room[r], c) : s = t

\* The client took a seat, but its money did not suffice.
SeatedThoughRefused(c, r) ==
  /\ roomOf[c] = NoRoom /\ roomOf'[c] = NoRoom
  /\ SeatsOf(room[r], c) = {} /\ SeatsOf(room'[r], c) # {}
  /\ ~Admits(room'[r], c)

\* Seats and room ids part by one thing only, an entry that the check of the
\* money refuses after the seat was taken (game13.cpp:392): no departure, end of
\* a room, vote or login, failed ones included, leaves one without the other.
OnlyRefusalsMisplace ==
  [][SeatsMatchRooms =>
       SeatsMatchRooms' \/ \E c \in known, r \in Rooms : SeatedThoughRefused(c, r)]_vars

\* A game whose cards are dealt is aborted only when no seated player withholds
\* an AYE other than the one whose message closes the vote, or by the timeout.
AbortedByConsent ==
  [][\A r \in Rooms :
       /\ room[r].status \in {"play", "vote"}
       /\ room'[r].status = "closed"
       => \/ Timed(room[r]) /\ room[r].elapse >= VoteTicks - 1
          \/ \E c \in Clients : \A s \in Seats(room[r]) :
               room[r].players[s].cuid = c \/ room[r].players[s].vote = "AYE"]_vars

\* A vote that fails gives back the very round it interrupted: same players,
\* same hands shown or still being sorted, same round number.
FailedVoteResumesRound ==
  [][\A r \in Rooms :
       room[r].status = "vote" /\ room'[r].status = "play" =>
         /\ room'[r].rounds = room[r].rounds
         /\ \A s \in Seats(room[r]) :
              /\ room'[r].players[s].cuid = room[r].players[s].cuid
              /\ room'[r].players[s].status = room[r].players[s].status]_vars

\* Nobody joins or leaves the table of a running game: from the first deal to
\* the final settlement the seats belong to the same players.
TableFixedWhilePlaying ==
  [][\A r \in Rooms :
       /\ room[r].status \in {"play", "vote"}
       /\ room'[r].status \in {"play", "vote", "settleAll"}
       => \A s \in Seats(room[r]) :
            room'[r].players[s].cuid = room[r].players[s].cuid]_vars

\* The timeouts of a vote and of a settled room take effect as long as closed
\* rooms do not keep stopping the timer's walk through the rooms.
TimeoutsFireWhenQuiet ==
  <>[](Closed = {}) =>
    \A r \in Rooms :
      /\ room[r].status = "vote" ~> room[r].status # "vote"
      /\ room[r].status = "settleAll" ~> room[r].status # "settleAll"

=============================================================================
