---------------------------- MODULE Game13Proofs ----------------------------
EXTENDS Game13, SequenceTheorems, FiniteSetTheorems, TLAPS

(* Theorems about Game13, for all clients, rooms, room attributes and      *)
(* timeouts.  The inductive invariant joins what is true of each room on   *)
(* its own (RoomOK) to what relates the rooms and the clients.             *)

RoomOK(g) == VoteUndecided(g) /\ NoStaleBallot(g) /\ RoundsInStep(g)

Seated(g, K) == \A s \in Seats(g) : g.players[s].cuid # NoOne => g.players[s].cuid \in K

\* h has the seats of g, each with the same player in it.
SameTable(g, h) ==
  Seats(h) = Seats(g) /\ \A s \in Seats(g) : h.players[s].cuid = g.players[s].cuid

\* h is in the same status and round as g.
SameGame(g, h) ==
  /\ h.status = g.status /\ h.rounds = g.rounds /\ h.settled = g.settled
  /\ h.limit = g.limit /\ h.sponsor = g.sponsor

\* What a handler of the player in seat s may turn room g into.
Outcome(g, h, s) ==
  \/ h.status = "closed" /\ Seats(h) = {}
  \/ /\ h.status \notin {"none", "closed"}
     /\ Seats(h) = Seats(g)
     /\ \A t \in Seats(g) : t # s => h.players[t].cuid = g.players[t].cuid
     /\ h.players[s].cuid \in {g.players[s].cuid, NoOne}

\* A vote before its ballots are counted.
Voting(g) ==
  /\ \A t \in Seats(g) : g.players[t].vote # "NAY"
  /\ SeatsOf(g, g.sponsor) # {} /\ g.sponsor # NoOne
  /\ RoundsInStep(g)

\* The players the lobby has made, those who are gone included.
Made == {c \in Clients : ccid[c] # NoConn}

Inv == /\ TypeOK
       /\ NoDanglingRoom
       /\ known \subseteq Made
       /\ \A r \in Rooms : RoomOK(room[r]) /\ Seated(room[r], Made)

-----------------------------------------------------------------------------
(* What the room operators return. *)

\* The seats of a room are numbered from 1 and hold player records.
LEMMA SeatType ==
  ASSUME NEW g \in RoomType
  PROVE  \A s \in Seats(g) :
           /\ s \in Nat /\ g.players[s] \in PlayerInfo
           /\ g.players[s].cuid \in Clients \cup {NoOne}
           /\ g.players[s].status \in SeatStatus
           /\ g.players[s].vote \in Vote
<1>1. \A s \in Seats(g) : s \in Nat /\ g.players[s] \in PlayerInfo
  BY LenProperties DEF RoomType, Seats
<1>2. QED
  BY <1>1 DEF PlayerInfo

\* Writing one seat leaves the other seats and the game alone.
LEMMA WithSeatFields ==
  ASSUME NEW g \in RoomType, NEW s \in Seats(g), NEW info \in PlayerInfo
  PROVE  LET h == WithSeat(g, s, info) IN
         /\ h \in RoomType
         /\ Seats(h) = Seats(g)
         /\ h.players[s] = info
         /\ \A t \in Seats(g) : t # s => h.players[t] = g.players[t]
         /\ SameGame(g, h)
<1> DEFINE p == [g.players EXCEPT ![s] = info]
<1>1. g.players \in Seq(PlayerInfo) /\ s \in 1 .. Len(g.players)
  BY DEF RoomType, Seats
<1>2. p \in Seq(PlayerInfo) /\ DOMAIN p = DOMAIN g.players
  BY <1>1, ExceptSeq
<1>3. WithSeat(g, s, info) = [g EXCEPT !.players = p]
  BY DEF WithSeat
<1>4. QED
  BY <1>1, <1>2, <1>3 DEF RoomType, Seats, SameGame

\* Rewriting every seat with a player record gives a table of the same size.
LEMMA RewriteSeats ==
  ASSUME NEW g \in RoomType, NEW p,
         p = [s \in DOMAIN g.players |-> p[s]],
         \A s \in DOMAIN g.players : p[s] \in PlayerInfo
  PROVE  p \in Seq(PlayerInfo) /\ DOMAIN p = DOMAIN g.players
<1>1. g.players \in Seq(PlayerInfo) /\ Len(g.players) \in Nat
      /\ DOMAIN g.players = 1 .. Len(g.players)
  BY LenProperties DEF RoomType
<1>2. p \in [1 .. Len(g.players) -> PlayerInfo]
  BY <1>1
<1>3. QED
  BY <1>1, <1>2

\* Clearing the votes clears nothing else.
LEMMA ClearVotesFields ==
  ASSUME NEW g \in RoomType
  PROVE  LET h == ClearVotes(g) IN
         /\ h \in RoomType /\ SameTable(g, h)
         /\ \A s \in Seats(g) : /\ h.players[s].vote = "NONE"
                                /\ h.players[s].status = g.players[s].status
         /\ SameGame(g, h)
<1> DEFINE p == [s \in DOMAIN g.players |-> [g.players[s] EXCEPT !.vote = "NONE"]]
<1>1. \A s \in DOMAIN g.players : g.players[s] \in PlayerInfo
  BY LenProperties DEF RoomType
<1>2. \A s \in DOMAIN g.players : p[s] \in PlayerInfo
  BY <1>1 DEF PlayerInfo, Vote
<1>3. p \in Seq(PlayerInfo) /\ DOMAIN p = DOMAIN g.players
  BY <1>2, RewriteSeats
<1>4. ClearVotes(g) = [g EXCEPT !.players = p]
  BY DEF ClearVotes
<1>5. ClearVotes(g) \in RoomType
  BY <1>3, <1>4 DEF RoomType
<1>6. QED
  BY <1>1, <1>3, <1>4, <1>5 DEF RoomType, Seats, SameTable, SameGame, PlayerInfo

SetRound(g, n, p, st) == [g EXCEPT !.rounds = n, !.players = p, !.status = st]

\* The fields tryStartRound writes, set one after the other.
LEMMA SetFields ==
  ASSUME NEW g \in RoomType, NEW p \in Seq(PlayerInfo), NEW st \in GameStatus,
         NEW n \in Nat
  PROVE  LET h == SetRound(g, n, p, st) IN
         /\ h \in RoomType /\ h.players = p /\ h.status = st /\ h.rounds = n
         /\ h.limit = g.limit /\ h.settled = g.settled
<1> DEFINE h1 == [g EXCEPT !.rounds = n]
           h2 == [h1 EXCEPT !.players = p]
           h3 == [h2 EXCEPT !.status = st]
<1>1. h1 \in RoomType /\ h1.rounds = n /\ h1.limit = g.limit /\ h1.settled = g.settled
  BY DEF RoomType
<1> HIDE DEF h1
<1>2. h2 \in RoomType /\ h2.players = p /\ h2.rounds = n /\ h2.limit = g.limit
      /\ h2.settled = g.settled
  BY <1>1 DEF RoomType
<1> HIDE DEF h2
<1>3. h3 \in RoomType /\ h3.players = p /\ h3.rounds = n /\ h3.limit = g.limit
      /\ h3.settled = g.settled /\ h3.status = st
  BY <1>2 DEF RoomType
<1>4. h3 = SetRound(g, n, p, st)
  BY DEF h2, h1, SetRound
<1>5. QED
  BY <1>3, <1>4

\* A round that starts puts every seat back to sorting and counts up.
LEMMA TryStartRoundFields ==
  ASSUME NEW g \in RoomType, CanStartRound(g)
  PROVE  LET h == TryStartRound(g) IN
         /\ h \in RoomType /\ SameTable(g, h)
         /\ h.status = "play" /\ h.rounds = g.rounds + 1
         /\ \A s \in Seats(g) : /\ h.players[s].status = "SORT"
                                /\ h.players[s].vote = g.players[s].vote
         /\ h.limit = g.limit /\ h.settled = g.settled
<1> DEFINE p == [s \in DOMAIN g.players |-> [g.players[s] EXCEPT !.status = "SORT"]]
<1>1. \A s \in DOMAIN g.players : g.players[s] \in PlayerInfo
  BY LenProperties DEF RoomType
<1>2. \A s \in DOMAIN g.players : p[s] \in PlayerInfo
  BY <1>1 DEF PlayerInfo, SeatStatus
<1>3. p \in Seq(PlayerInfo) /\ DOMAIN p = DOMAIN g.players
  BY <1>2, RewriteSeats
<1>4. TryStartRound(g) = SetRound(g, g.rounds + 1, p, "play")
  BY DEF TryStartRound, SetRound
<1>7. \A s \in DOMAIN g.players : /\ p[s].cuid = g.players[s].cuid
                                  /\ p[s].status = "SORT"
                                  /\ p[s].vote = g.players[s].vote
  BY <1>1 DEF PlayerInfo
<1> DEFINE h == TryStartRound(g)
<1> HIDE DEF p
<1>5. g.rounds \in Nat /\ g.rounds + 1 \in Nat /\ "play" \in GameStatus
  BY DEF RoomType, GameStatus
<1>6. /\ h \in RoomType /\ h.players = p /\ h.status = "play" /\ h.rounds = g.rounds + 1
      /\ h.limit = g.limit /\ h.settled = g.settled
  BY <1>3, <1>4, <1>5, SetFields
<1> HIDE DEF h
<1>8. QED
  BY <1>3, <1>6, <1>7 DEF Seats, SameTable, h

\* An aborted game is a closed room without seats, and in order.
LEMMA AbortGameFields ==
  ASSUME NEW g \in RoomType
  PROVE  LET h == AbortGame(g) IN
         h \in RoomType /\ h.status = "closed" /\ Seats(h) = {} /\ RoomOK(h)
<1>1. <<>> \in Seq(PlayerInfo)
  BY EmptySeq
<1>2. AbortGame(g) \in RoomType
  BY <1>1 DEF RoomType, AbortGame, GameStatus
<1>3. QED
  BY <1>2 DEF RoomType, AbortGame, Seats, RoomOK, VoteUndecided, NoStaleBallot, RoundsInStep

\* Settling counts one settlement and decides whether the game is over.
LEMMA TrySettleGameFields ==
  ASSUME NEW g \in RoomType
  PROVE  LET h == TrySettleGame(g) IN
         /\ h \in RoomType /\ h.players = g.players /\ h.rounds = g.rounds
         /\ h.limit = g.limit
         /\ IF g.status = "play" /\ Everyone(g, "COMPARE")
            THEN /\ h.settled = g.settled + 1
                 /\ h.status = IF g.rounds >= g.limit THEN "settleAll" ELSE "settle"
            ELSE h = g
<1> DEFINE n == g.settled + 1
           st == IF g.rounds >= g.limit THEN "settleAll" ELSE "settle"
<1>1. n \in Nat /\ st \in GameStatus
  BY DEF RoomType, GameStatus
<1>2. TrySettleGame(g) = IF g.status = "play" /\ Everyone(g, "COMPARE")
        THEN [g EXCEPT !.settled = n, !.elapse = 0, !.status = st] ELSE g
  BY DEF TrySettleGame
<1> HIDE DEF n, st
<1>3. LET h == [g EXCEPT !.settled = n, !.elapse = 0, !.status = st] IN
      /\ h \in RoomType /\ h.players = g.players /\ h.rounds = g.rounds
      /\ h.limit = g.limit /\ h.settled = n /\ h.status = st
  BY <1>1 DEF RoomType
<1>4. QED
  BY <1>2, <1>3 DEF n, st

\* The vote operators, on a room in which nobody but the seat voting opposes.
LEMMA CheckAllVotesOK ==
  ASSUME NEW g \in RoomType, NEW s \in Seats(g), g.status = "vote",
         \A t \in Seats(g) : t # s => g.players[t].vote # "NAY",
         SeatsOf(g, g.sponsor) # {}, g.sponsor # NoOne, RoundsInStep(g)
  PROVE  LET h == CheckAllVotes(g) IN
         /\ h \in RoomType /\ RoomOK(h)
         /\ \/ h.status = "closed" /\ Seats(h) = {}
            \/ h.status \in {"play", "vote"} /\ SameTable(g, h)
<1>0. /\ Vacant(g) = {} /\ g.players[s].cuid # NoOne
      /\ \A t \in Seats(g) : g.players[t].status \in {"SORT", "COMPARE"}
  BY DEF RoundsInStep, Vacant, SeatsOf
<1>1. CASE g.players[s].vote = "NAY"
  <2>1. {t \in Seats(g) : g.players[t].vote = "NAY"} = {s}
    BY <1>1
  <2>2. s \in Nat
    BY SeatType
  <2>3. Opposed(g)
    BY <1>0, <2>1, <2>2 DEF Opposed, First
  <2> DEFINE c == ClearVotes(g)
             h == [c EXCEPT !.sponsor = NoOne, !.elapse = 0, !.status = "play"]
  <2>4. c \in RoomType /\ SameTable(g, c) /\ SameGame(g, c)
        /\ \A t \in Seats(g) : c.players[t].vote = "NONE"
                               /\ c.players[t].status = g.players[t].status
    BY ClearVotesFields
  <2> HIDE DEF c
  <2>5. /\ h \in RoomType /\ h.players = c.players /\ h.status = "play"
        /\ h.rounds = c.rounds /\ h.settled = c.settled /\ h.limit = c.limit
    <3>1. c.players \in Seq(PlayerInfo) /\ c.rounds \in Nat
      BY <2>4 DEF RoomType
    <3> DEFINE e == [c EXCEPT !.sponsor = NoOne, !.elapse = 0]
    <3>2. e \in RoomType /\ e.players = c.players /\ e.rounds = c.rounds
          /\ e.settled = c.settled /\ e.limit = c.limit
      BY <2>4 DEF RoomType
    <3>3. h = [e EXCEPT !.status = "play"]
      OBVIOUS
    <3> HIDE DEF e
    <3>4. QED
      BY <3>2, <3>3 DEF RoomType, GameStatus
  <2>6. h = CheckAllVotes(g)
    BY <2>3 DEF CheckAllVotes, c
  <2> HIDE DEF h
  <2>7. SameTable(g, h) /\ Seats(h) = Seats(g)
    BY <2>4, <2>5 DEF SameTable, Seats
  <2>8. RoomOK(h)
    BY <1>0, <2>4, <2>5, <2>7
    DEF RoomOK, VoteUndecided, NoStaleBallot, RoundsInStep, SameTable, SameGame,
        Everyone, Vacant, SeatsOf
  <2>9. QED
    BY <2>5, <2>6, <2>7, <2>8
<1>2. CASE g.players[s].vote # "NAY"
  <2>1. ~Opposed(g)
    BY <1>2 DEF Opposed, First
  <2>2. CASE Unanimous(g)
    <3> DEFINE h == [g EXCEPT !.sponsor = NoOne, !.elapse = 0]
    <3>1. h \in RoomType
      BY DEF RoomType
    <3>2. CheckAllVotes(g) = AbortGame(h)
      BY <2>1, <2>2 DEF CheckAllVotes
    <3> HIDE DEF h
    <3>3. QED
      BY <3>1, <3>2, AbortGameFields
  <2>3. CASE ~Unanimous(g)
    <3>1. CheckAllVotes(g) = g
      BY <2>1, <2>3 DEF CheckAllVotes
    <3>2. \A t \in Seats(g) : g.players[t].vote \in Vote
      BY SeatType
    <3>3. \E t \in Seats(g) : g.players[t].vote = "NONE"
      BY <1>2, <2>3, <3>2 DEF Unanimous, Vote
    <3>4. RoomOK(g)
      BY <1>2, <3>3 DEF RoomOK, VoteUndecided, NoStaleBallot
    <3>5. QED
      BY <3>1, <3>4 DEF SameTable
  <2>4. QED
    BY <2>2, <2>3
<1>3. QED
  BY <1>1, <1>2

\* Casting a vote writes that vote only.
LEMMA CastVoteFields ==
  ASSUME NEW g \in RoomType, NEW s \in Seats(g), NEW v \in Vote
  PROVE  LET h == CastVote(g, s, v) IN
         /\ h \in RoomType /\ SameTable(g, h) /\ SameGame(g, h)
         /\ h.players[s].vote = v
         /\ \A t \in Seats(g) :
              /\ h.players[t].status = g.players[t].status
              /\ t # s => h.players[t].vote = g.players[t].vote
<1> DEFINE info == [g.players[s] EXCEPT !.vote = v]
<1>1. /\ info \in PlayerInfo /\ info.cuid = g.players[s].cuid
      /\ info.status = g.players[s].status /\ info.vote = v
  BY SeatType DEF PlayerInfo
<1>2. CastVote(g, s, v) = WithSeat(g, s, info)
  BY DEF CastVote
<1> HIDE DEF info
<1>3. QED
  BY <1>1, <1>2, WithSeatFields DEF SameTable

\* A vote cast in an open vote leaves the room in order, decided or not.
LEMMA VotedRoomOK ==
  ASSUME NEW g \in RoomType, NEW s \in Seats(g), NEW v \in Vote,
         g.status = "vote", Voting(g)
  PROVE  LET voted == CastVote(g, s, v)
             h == IF v = "NONE" THEN voted ELSE CheckAllVotes(voted)
         IN h \in RoomType /\ RoomOK(h) /\ Outcome(g, h, s)
<1> DEFINE voted == CastVote(g, s, v)
<1>1. /\ voted \in RoomType /\ SameTable(g, voted) /\ SameGame(g, voted)
      /\ voted.players[s].vote = v
      /\ \A t \in Seats(g) :
           /\ voted.players[t].status = g.players[t].status
           /\ t # s => voted.players[t].vote = g.players[t].vote
  BY CastVoteFields
<1> HIDE DEF voted
<1>2. /\ voted.status = "vote" /\ s \in Seats(voted)
      /\ \A t \in Seats(voted) : t # s => voted.players[t].vote # "NAY"
      /\ SeatsOf(voted, voted.sponsor) # {} /\ voted.sponsor # NoOne
      /\ RoundsInStep(voted)
  BY <1>1 DEF SameTable, SameGame, Voting, RoundsInStep, SeatsOf, Vacant, Everyone
<1>3. CASE v = "NONE"
  BY <1>1, <1>2, <1>3
  DEF RoomOK, VoteUndecided, NoStaleBallot, Outcome, SameTable, voted
<1>4. CASE v # "NONE"
  <2>1. LET h == CheckAllVotes(voted) IN
         /\ h \in RoomType /\ RoomOK(h)
         /\ \/ h.status = "closed" /\ Seats(h) = {}
            \/ h.status \in {"play", "vote"} /\ SameTable(voted, h)
    BY <1>1, <1>2, CheckAllVotesOK
  <2>2. QED
    BY <1>1, <1>4, <2>1 DEF SameTable, Outcome, voted
<1>5. QED
  BY <1>3, <1>4

\* Giving up a running round opens a vote in which nobody has voted yet.
LEMMA StartVoteFields ==
  ASSUME NEW g \in RoomType, NEW s \in Seats(g), g.status = "play", RoomOK(g),
         NEW c \in Clients, g.players[s].cuid = c
  PROVE  LET h == StartVote(g, c) IN
         /\ h \in RoomType /\ h.status = "vote" /\ h.players = g.players /\ Voting(h)
<1> DEFINE h == StartVote(g, c)
<1>1. /\ h \in RoomType /\ h.status = "vote" /\ h.players = g.players
      /\ h.sponsor = c /\ h.rounds = g.rounds /\ h.settled = g.settled
      /\ h.limit = g.limit
  BY DEF StartVote, RoomType, GameStatus
<1> HIDE DEF h
<1>2. c # NoOne
  BY GameAssumption
<1>3. Voting(h)
  BY <1>1, <1>2
  DEF Voting, RoomOK, NoStaleBallot, RoundsInStep, Seats, SeatsOf, Vacant, Everyone
<1>4. QED
  BY <1>1, <1>3 DEF h

\* A player may leave a waiting or a settled room.
LEMMA ClearSeatOK ==
  ASSUME NEW g \in RoomType, NEW s \in Seats(g), RoomOK(g),
         g.status \in {"prepare", "settleAll"}
  PROVE  LET h == ClearSeat(g, s) IN
         h \in RoomType /\ RoomOK(h) /\ Outcome(g, h, s)
<1> DEFINE info == [g.players[s] EXCEPT !.cuid = NoOne, !.status = "NONE"]
           h == ClearSeat(g, s)
<1>1. info \in PlayerInfo /\ info.cuid = NoOne /\ info.vote = g.players[s].vote
  BY SeatType DEF PlayerInfo, SeatStatus
<1>2. h = WithSeat(g, s, info)
  BY DEF ClearSeat
<1> HIDE DEF info, h
<1>3. /\ h \in RoomType /\ Seats(h) = Seats(g) /\ h.players[s] = info
      /\ \A t \in Seats(g) : t # s => h.players[t] = g.players[t]
      /\ SameGame(g, h)
  BY <1>1, <1>2, WithSeatFields
<1>4. RoomOK(h)
  BY <1>1, <1>3
  DEF RoomOK, VoteUndecided, NoStaleBallot, RoundsInStep, SameGame, Everyone
<1>5. QED
  BY <1>1, <1>3, <1>4 DEF Outcome, SameGame, h

\* Giving up leaves the room in order, in every status.
LEMMA GiveUpRoomOK ==
  ASSUME NEW g \in RoomType, NEW s \in Seats(g), RoomOK(g),
         g.status \notin {"none", "closed"},
         NEW c \in Clients, g.players[s].cuid = c
  PROVE  LET h == GiveUpRoom(g, c, s) IN
         h \in RoomType /\ RoomOK(h) /\ Outcome(g, h, s)
<1>1. g.status \in {"prepare", "play", "vote", "settleAll"}
  BY DEF RoomType, GameStatus, RoomOK, RoundsInStep
<1>2. CASE g.status = "prepare" /\ c = g.owner
  <2>1. GiveUpRoom(g, c, s) = AbortGame(g)
    BY <1>2 DEF GiveUpRoom
  <2>2. QED
    BY <2>1, AbortGameFields DEF Outcome
<1>3. CASE g.status = "settleAll" \/ (g.status = "prepare" /\ c # g.owner)
  <2>1. GiveUpRoom(g, c, s) = ClearSeat(g, s)
    BY <1>3 DEF GiveUpRoom
  <2>2. QED
    BY <1>3, <2>1, ClearSeatOK
<1>4. CASE g.status = "play"
  <2> DEFINE v == StartVote(g, c)
  <2>1. v \in RoomType /\ v.status = "vote" /\ v.players = g.players /\ Voting(v)
    BY <1>4, StartVoteFields
  <2> HIDE DEF v
  <2>2. s \in Seats(v) /\ "AYE" \in Vote
    BY <2>1 DEF Seats, Vote
  <2> DEFINE h == CheckAllVotes(CastVote(v, s, "AYE"))
  <2>3. h \in RoomType /\ RoomOK(h) /\ Outcome(v, h, s)
    BY <2>1, <2>2, VotedRoomOK
  <2>4. h = GiveUpRoom(g, c, s)
    BY <1>4 DEF GiveUpRoom, v
  <2> HIDE DEF h
  <2>5. Outcome(g, h, s)
    BY <2>1, <2>3 DEF Outcome, Seats
  <2>6. QED
    BY <2>3, <2>4, <2>5
<1>5. CASE g.status = "vote"
  <2>1. StartVote(g, c) = g /\ "AYE" \in Vote
    BY <1>5 DEF StartVote, Vote
  <2>2. Voting(g)
    BY <1>5 DEF Voting, RoomOK, VoteUndecided
  <2> DEFINE h == CheckAllVotes(CastVote(g, s, "AYE"))
  <2>3. h \in RoomType /\ RoomOK(h) /\ Outcome(g, h, s)
    BY <1>5, <2>1, <2>2, VotedRoomOK
  <2>4. h = GiveUpRoom(g, c, s)
    BY <1>5, <2>1 DEF GiveUpRoom
  <2>5. QED
    BY <2>3, <2>4
<1>6. QED
  BY <1>1, <1>2, <1>3, <1>4, <1>5

\* A round that starts leaves the room in order: with a full table whose seats
\* are all waiting, and no round unsettled.
LEMMA StartedRoomOK ==
  ASSUME NEW g \in RoomType, CanStartRound(g), NoStaleBallot(g),
         g.status \in {"prepare", "settle"}, g.settled = g.rounds, Vacant(g) = {},
         g.rounds = 0 \/ g.rounds < g.limit
  PROVE  LET h == TryStartRound(g) IN
         h \in RoomType /\ RoomOK(h) /\ SameTable(g, h) /\ h.status = "play"
<1> DEFINE h == TryStartRound(g)
<1>1. /\ h \in RoomType /\ SameTable(g, h)
      /\ h.status = "play" /\ h.rounds = g.rounds + 1
      /\ \A s \in Seats(g) : /\ h.players[s].status = "SORT"
                             /\ h.players[s].vote = g.players[s].vote
      /\ h.limit = g.limit /\ h.settled = g.settled
  BY TryStartRoundFields
<1> HIDE DEF h
<1>2. g.rounds \in Nat /\ g.limit \in Int
  BY DEF RoomType
<1>3. Seats(h) # {} => ~Everyone(h, "COMPARE")
  BY <1>1 DEF Everyone, SameTable
<1>4. Vacant(h) = {}
  BY <1>1 DEF Vacant, SeatsOf, SameTable
<1>5. RoundsInStep(h)
  BY <1>1, <1>2, <1>3, <1>4 DEF RoundsInStep, SameTable
<1>6. VoteUndecided(h) /\ NoStaleBallot(h)
  BY <1>1 DEF VoteUndecided, NoStaleBallot, SameTable
<1>7. QED
  BY <1>1, <1>5, <1>6 DEF RoomOK, h

\* A ready flag leaves the room waiting or starts its first round.
LEMMA ReadyRoomOK ==
  ASSUME NEW g \in RoomType, NEW s \in Seats(g), RoomOK(g), g.status = "prepare",
         NEW ready \in {"READY", "PREP"}
  PROVE  LET set == WithSeat(g, s, [g.players[s] EXCEPT !.status = ready])
             h == IF ready = "READY" THEN TryStartRound(set) ELSE set
         IN /\ h \in RoomType /\ RoomOK(h) /\ SameTable(g, h)
            /\ h.status \in {"prepare", "play"}
<1> DEFINE info == [g.players[s] EXCEPT !.status = ready]
           set == WithSeat(g, s, info)
<1>1. info \in PlayerInfo /\ info.cuid = g.players[s].cuid
      /\ info.vote = g.players[s].vote /\ info.status = ready
  BY SeatType DEF PlayerInfo, SeatStatus
<1> HIDE DEF info
<1>2. /\ set \in RoomType /\ Seats(set) = Seats(g) /\ set.players[s] = info
      /\ \A t \in Seats(g) : t # s => set.players[t] = g.players[t]
      /\ SameGame(g, set)
  BY <1>1, WithSeatFields
<1> HIDE DEF set
<1>3. SameTable(g, set) /\ NoStaleBallot(set) /\ set.status = "prepare"
      /\ set.rounds = 0 /\ set.settled = 0
  BY <1>1, <1>2 DEF SameTable, SameGame, RoomOK, NoStaleBallot, RoundsInStep
<1>4. CASE ready = "READY" /\ CanStartRound(set)
  <2>1. Vacant(set) = {}
    BY <1>3, <1>4 DEF CanStartRound, Everyone, Vacant, SeatsOf
  <2>2. LET h == TryStartRound(set) IN
        h \in RoomType /\ RoomOK(h) /\ SameTable(set, h) /\ h.status = "play"
    BY <1>2, <1>3, <1>4, <2>1, StartedRoomOK
  <2>3. QED
    BY <1>3, <1>4, <2>2 DEF SameTable, set, info
<1>5. CASE ~(ready = "READY" /\ CanStartRound(set))
  <2>1. Everyone(set, "READY") => \E t \in Seats(set) : set.players[t].cuid \notin known
    <3>1. CASE ready = "PREP"
      BY <1>1, <1>2, <3>1 DEF Everyone
    <3>2. CASE ~CanStartRound(set)
      BY <1>3, <3>2 DEF CanStartRound
    <3>3. QED
      BY <1>5, <3>1, <3>2
  <2>2. RoomOK(set)
    BY <1>3, <2>1 DEF RoomOK, VoteUndecided, RoundsInStep
  <2>3. ready = "READY" => TryStartRound(set) = set
    BY <1>5 DEF TryStartRound
  <2>4. QED
    BY <1>2, <1>3, <2>2, <2>3 DEF set, info
<1>6. QED
  BY <1>4, <1>5

\* A hand shown leaves the round running, starts the next, or ends the game.
LEMMA BroughtOutRoomOK ==
  ASSUME NEW g \in RoomType, NEW s \in Seats(g), RoomOK(g), g.status = "play"
  PROVE  LET shown == WithSeat(g, s, [g.players[s] EXCEPT !.status = "COMPARE"])
             settled == TrySettleGame(shown)
             h == IF settled.status = "settle" THEN TryStartRound(settled) ELSE settled
         IN /\ h \in RoomType /\ RoomOK(h) /\ SameTable(g, h)
            /\ h.status \in {"play", "settleAll"}
<1> DEFINE info == [g.players[s] EXCEPT !.status = "COMPARE"]
           shown == WithSeat(g, s, info)
           settled == TrySettleGame(shown)
<1>1. info \in PlayerInfo /\ info.cuid = g.players[s].cuid
      /\ info.vote = g.players[s].vote /\ info.status = "COMPARE"
  BY SeatType DEF PlayerInfo, SeatStatus
<1> HIDE DEF info
<1>2. /\ shown \in RoomType /\ Seats(shown) = Seats(g) /\ shown.players[s] = info
      /\ \A t \in Seats(g) : t # s => shown.players[t] = g.players[t]
      /\ SameGame(g, shown)
  BY <1>1, WithSeatFields
<1> HIDE DEF shown
<1>3. SameTable(g, shown) /\ NoStaleBallot(shown) /\ shown.status = "play"
      /\ shown.settled = shown.rounds - 1 /\ Vacant(shown) = {}
      /\ (shown.rounds = 1 \/ shown.rounds <= shown.limit)
      /\ \A t \in Seats(shown) : shown.players[t].status \in {"SORT", "COMPARE"}
  BY <1>1, <1>2
  DEF SameTable, SameGame, RoomOK, NoStaleBallot, RoundsInStep, Vacant, SeatsOf
<1>4. shown.rounds \in Nat /\ shown.limit \in Int
  BY <1>2 DEF RoomType
<1>5. CASE ~Everyone(shown, "COMPARE")
  <2>1. settled = shown
    BY <1>5 DEF TrySettleGame
  <2>2. RoomOK(shown)
    BY <1>3, <1>5 DEF RoomOK, VoteUndecided, RoundsInStep
  <2>3. QED
    BY <1>2, <1>3, <2>1, <2>2 DEF shown, info
<1>6. CASE Everyone(shown, "COMPARE")
  <2>1. /\ settled \in RoomType /\ settled.players = shown.players
        /\ settled.rounds = shown.rounds /\ settled.limit = shown.limit
        /\ settled.settled = shown.settled + 1
        /\ settled.status = IF shown.rounds >= shown.limit THEN "settleAll" ELSE "settle"
    BY <1>2, <1>3, <1>6, TrySettleGameFields
  <2> HIDE DEF settled
  <2>2. SameTable(g, settled) /\ NoStaleBallot(settled) /\ Vacant(settled) = {}
        /\ settled.settled = settled.rounds
    BY <1>3, <1>4, <2>1 DEF SameTable, NoStaleBallot, Vacant, SeatsOf, Seats
  <2>3. CASE settled.status = "settle"
    <3>1. CanStartRound(settled) /\ settled.rounds < settled.limit
      BY <1>4, <2>1, <2>3 DEF CanStartRound
    <3>2. LET h == TryStartRound(settled) IN
          h \in RoomType /\ RoomOK(h) /\ SameTable(settled, h) /\ h.status = "play"
      BY <2>1, <2>2, <2>3, <3>1, StartedRoomOK
    <3>3. QED
      BY <2>2, <2>3, <3>2 DEF SameTable, settled, shown, info
  <2>4. CASE settled.status # "settle"
    <3>1. settled.status = "settleAll" /\ settled.rounds >= settled.limit
      BY <2>1, <2>4
    <3>2. RoomOK(settled)
      BY <2>2, <3>1 DEF RoomOK, VoteUndecided, RoundsInStep
    <3>3. QED
      BY <2>1, <2>2, <3>1, <3>2 DEF settled, shown, info
  <2>5. QED
    BY <2>3, <2>4
<1>7. QED
  BY <1>5, <1>6

\* Entering a waiting room takes an empty seat and leaves the rest alone.
LEMMA SeatTakenOK ==
  ASSUME NEW g \in RoomType, NEW s \in Vacant(g), RoomOK(g), g.status = "prepare",
         NEW c \in Clients
  PROVE  LET h == WithSeat(g, s, [g.players[s] EXCEPT !.cuid = c, !.status = "PREP"]) IN
         /\ h \in RoomType /\ RoomOK(h) /\ Seats(h) = Seats(g)
         /\ h.status = "prepare" /\ h.players[s].cuid = c
         /\ \A t \in Seats(g) : t # s => h.players[t].cuid = g.players[t].cuid
<1> DEFINE info == [g.players[s] EXCEPT !.cuid = c, !.status = "PREP"]
           h == WithSeat(g, s, info)
<1>0. s \in Seats(g)
  BY DEF Vacant, SeatsOf
<1>1. info \in PlayerInfo /\ info.cuid = c
      /\ info.vote = g.players[s].vote /\ info.status = "PREP"
  BY <1>0, SeatType DEF PlayerInfo, SeatStatus
<1> HIDE DEF info
<1>2. /\ h \in RoomType /\ Seats(h) = Seats(g) /\ h.players[s] = info
      /\ \A t \in Seats(g) : t # s => h.players[t] = g.players[t]
      /\ SameGame(g, h)
  BY <1>0, <1>1, WithSeatFields
<1> HIDE DEF h
<1>3. RoomOK(h)
  BY <1>0, <1>1, <1>2
  DEF RoomOK, VoteUndecided, NoStaleBallot, RoundsInStep, SameGame, Everyone
<1>4. QED
  BY <1>1, <1>2, <1>3 DEF h, info, SameGame

\* CreateGame builds a room in order, with every seat empty.
LEMMA NewGameOK ==
  ASSUME NEW c \in Clients, NEW size \in Sizes, NEW limit \in Limits, NEW payor \in Payors
  PROVE  LET g == NewGame(c, size, limit, payor) IN
         /\ g \in RoomType /\ RoomOK(g) /\ g.status = "prepare"
         /\ Vacant(g) = Seats(g)
<1> DEFINE p == [s \in 1 .. size |-> EmptySeat]
<1>1. size \in Nat /\ limit \in Int /\ payor \in Nat
  BY GameAssumption
<1>2. EmptySeat \in PlayerInfo
  BY DEF EmptySeat, PlayerInfo, SeatStatus, Vote
<1>3. p \in [1 .. size -> PlayerInfo]
  BY <1>2
<1>4. p \in Seq(PlayerInfo) /\ DOMAIN p = 1 .. size
  BY <1>1, <1>3
<1>5. \A s \in DOMAIN p : p[s] = EmptySeat
  OBVIOUS
<1> HIDE DEF p
<1> DEFINE g == NewGame(c, size, limit, payor)
<1>6. g = [status |-> "prepare", owner |-> c, payor |-> payor, limit |-> limit,
           players |-> p, rounds |-> 0, settled |-> 0,
           sponsor |-> NoOne, elapse |-> 0]
  BY DEF NewGame, p
<1> HIDE DEF g
<1>7. g \in RoomType
  BY <1>1, <1>4, <1>6 DEF RoomType, GameStatus
<1>8. \A s \in Seats(g) : g.players[s] = EmptySeat
  BY <1>5, <1>6 DEF Seats
<1>9. QED
  BY <1>6, <1>7, <1>8
  DEF RoomOK, VoteUndecided, NoStaleBallot, RoundsInStep, Everyone, EmptySeat,
      Vacant, SeatsOf, g

\* A slot without a room is in order.
LEMMA NoGameOK == NoGame \in RoomType /\ RoomOK(NoGame) /\ Seats(NoGame) = {}
<1>1. <<>> \in Seq(PlayerInfo)
  BY EmptySeq
<1>2. NoGame \in RoomType
  BY <1>1 DEF NoGame, RoomType, GameStatus
<1>3. QED
  BY <1>2 DEF NoGame, Seats, RoomOK, VoteUndecided, NoStaleBallot, RoundsInStep

\* The passing of time is seen in a room's clock only.
LEMMA AgedOK ==
  ASSUME NEW g \in RoomType, RoomOK(g)
  PROVE  LET h == Aged(g) IN
         h \in RoomType /\ RoomOK(h) /\ h.players = g.players /\ h.status = g.status
<1> DEFINE h == Aged(g)
<1>1. /\ h \in RoomType /\ h.players = g.players /\ SameGame(g, h)
  BY DEF Aged, RoomType, SameGame
<1> HIDE DEF h
<1>2. RoomOK(h)
  BY <1>1
  DEF RoomOK, VoteUndecided, NoStaleBallot, RoundsInStep, SameGame, Everyone,
      Seats, SeatsOf, Vacant
<1>3. QED
  BY <1>1, <1>2 DEF SameGame, h

\* The timer starts a round, aborts the game, or leaves the room alone.
LEMMA TimerExecOK ==
  ASSUME NEW g \in RoomType, RoomOK(g), g.status # "closed"
  PROVE  LET h == TimerExec(g) IN
         /\ h \in RoomType /\ RoomOK(h)
         /\ \/ h.status = "closed" /\ Seats(h) = {}
            \/ /\ SameTable(g, h) /\ h.status # "closed"
               /\ (h.status = "none" <=> g.status = "none")
<1>1. CASE g.status = "prepare" /\ CanStartRound(g)
  <2>1. /\ NoStaleBallot(g) /\ g.settled = g.rounds /\ Vacant(g) = {} /\ g.rounds = 0
    BY <1>1 DEF RoomOK, RoundsInStep, CanStartRound, Everyone, Vacant, SeatsOf
  <2>2. LET h == TryStartRound(g) IN
        h \in RoomType /\ RoomOK(h) /\ SameTable(g, h) /\ h.status = "play"
    BY <1>1, <2>1, StartedRoomOK
  <2>3. TimerExec(g) = TryStartRound(g)
    BY <1>1 DEF TimerExec, Timed
  <2>4. QED
    BY <1>1, <2>2, <2>3
<1>2. CASE g.status = "prepare" /\ ~CanStartRound(g)
  <2>1. TimerExec(g) = g
    BY <1>2 DEF TimerExec, TryStartRound, Timed
  <2>2. QED
    BY <1>2, <2>1 DEF SameTable
<1>3. CASE Timed(g) /\ g.elapse >= Timeout(g)
  <2> DEFINE c == ClearVotes(g)
             e == [c EXCEPT !.elapse = 0]
  <2>1. c \in RoomType
    BY ClearVotesFields
  <2> HIDE DEF c
  <2>2. e \in RoomType
    BY <2>1 DEF RoomType
  <2>3. TimerExec(g) = AbortGame(e)
    BY <1>3 DEF TimerExec, Timed, c
  <2> HIDE DEF e
  <2>4. QED
    BY <2>2, <2>3, AbortGameFields
<1>4. CASE g.status # "prepare" /\ ~(Timed(g) /\ g.elapse >= Timeout(g))
  <2>1. TimerExec(g) = g
    BY <1>4 DEF TimerExec, Timed
  <2>2. QED
    BY <2>1 DEF SameTable
<1>5. QED
  BY <1>1, <1>2, <1>3, <1>4 DEF Timed

-----------------------------------------------------------------------------
(* The lobby's tables. *)

\* The fees of the first rounds are integers: finitely many seats are charged.
LEMMA PayType ==
  ASSUME money \in [Clients -> Int], room' \in [Rooms -> RoomType], PayForFirstRound
  PROVE  money' \in [Clients -> Int]
<1>1. ASSUME NEW c \in Clients, NEW payor
      PROVE  Cardinality(ChargedSeats(c, payor)) \in Nat
  <2> DEFINE S == {q \in FirstRounds : room'[q].payor = payor
                                       /\ (payor = PAY_BANKER => room'[q].owner = c)}
             f == [q \in S |-> {q} \X SeatsOf(room'[q], c)]
             T == {f[q] : q \in S}
  <2>1. IsFiniteSet(S)
    BY GameAssumption, FS_Subset DEF FirstRounds
  <2>2. f \in Surjection(S, T)
    BY DEF Surjection
  <2>3. IsFiniteSet(T)
    BY <2>1, <2>2, FS_Surjection
  <2>4. ASSUME NEW q \in S
        PROVE  IsFiniteSet({q} \X SeatsOf(room'[q], c))
    <3>1. room'[q] \in RoomType
      BY DEF FirstRounds
    <3>2. Len(room'[q].players) \in Nat
          /\ Seats(room'[q]) = 1 .. Len(room'[q].players)
      BY <3>1, LenProperties DEF RoomType, Seats
    <3>3. IsFiniteSet(Seats(room'[q]))
      BY <3>2, FS_Interval
    <3>4. IsFiniteSet(SeatsOf(room'[q], c))
      BY <3>3, FS_Subset DEF SeatsOf
    <3>5. QED
      BY <3>4, FS_Product, FS_Singleton
  <2>5. \A t \in T : IsFiniteSet(t)
    BY <2>4
  <2>6. IsFiniteSet(UNION T)
    BY <2>3, <2>5, FS_UNION
  <2>7. UNION T = ChargedSeats(c, payor)
    BY DEF ChargedSeats
  <2>8. QED
    BY <2>6, <2>7, FS_CardinalityType
<1>2. QED
  BY <1>1 DEF PayForFirstRound

\* Room q holds, for every client that carries its id, a seat.
Hosts(g, q) == \A d \in Clients : roomOf[d] = q => SeatsOf(g, d) # {}

\* Inv, said of the next state: nobody who has a seat becomes known.
LEMMA InvAfter ==
  ASSUME room' \in [Rooms -> RoomType],
         roomOf' \in [Clients -> Rooms \cup {NoRoom}],
         money' \in [Clients -> Int],
         ccid' \in [Clients -> Conns \cup {NoConn}],
         known' \in SUBSET Clients, linked' \in SUBSET known', known' \subseteq Made',
         \A q \in Rooms :
           /\ RoomOK(room'[q]) /\ Seated(room'[q], Made')
           /\ \A s \in Seats(room'[q]) :
                room'[q].players[s].cuid \in known' => room'[q].players[s].cuid \in known,
         \A d \in Clients : roomOf'[d] # NoRoom =>
           /\ room'[roomOf'[d]].status \notin {"none", "closed"}
           /\ SeatsOf(room'[roomOf'[d]], d) # {}
  PROVE  Inv'
<1>1. TypeOK'
  BY DEF TypeOK
<1>2. NoDanglingRoom'
  BY DEF NoDanglingRoom, Exists, MyRoom
<1>3. (\A q \in Rooms : RoomOK(room[q]))'
  BY DEF RoomOK, RoundsInStep
<1>4. (\A q \in Rooms : Seated(room[q], Made))'
  OBVIOUS
<1>5. QED
  BY <1>1, <1>2, <1>3, <1>4 DEF Inv

\* Inv, said of the next state of a step that changes nothing about the clients.
LEMMA InvAfterHandler ==
  ASSUME Inv, UNCHANGED clientVars,
         room' \in [Rooms -> RoomType],
         roomOf' \in [Clients -> Rooms \cup {NoRoom}],
         money' \in [Clients -> Int],
         \A q \in Rooms : RoomOK(room'[q]) /\ Seated(room'[q], Made),
         \A d \in Clients : roomOf'[d] # NoRoom =>
           /\ room'[roomOf'[d]].status \notin {"none", "closed"}
           /\ SeatsOf(room'[roomOf'[d]], d) # {}
  PROVE  Inv'
<1>1. ccid' = ccid /\ known' = known /\ linked' = linked /\ Made' = Made
  BY DEF clientVars, Made
<1>2. /\ ccid \in [Clients -> Conns \cup {NoConn}]
      /\ known \in SUBSET Clients /\ linked \in SUBSET known /\ known \subseteq Made
  BY DEF Inv, TypeOK
<1>3. QED
  BY <1>1, <1>2, InvAfter

\* Inv, said of this state without MyRoom and Exists.
LEMMA InvNow ==
  ASSUME Inv
  PROVE  /\ room \in [Rooms -> RoomType] /\ roomOf \in [Clients -> Rooms \cup {NoRoom}]
         /\ known \in SUBSET Clients /\ money \in [Clients -> Int]
         /\ linked \in SUBSET known /\ known \subseteq Made
         /\ \A q \in Rooms : /\ RoomOK(room[q])
                             /\ Seated(room[q], Made)
                             /\ Hosts(room[q], q)
         /\ \A d \in Clients : roomOf[d] # NoRoom =>
              /\ roomOf[d] \in Rooms
              /\ room[roomOf[d]].status \notin {"none", "closed"}
              /\ SeatsOf(room[roomOf[d]], d) # {}
<1>1. \A d \in Clients : roomOf[d] # NoRoom =>
              /\ roomOf[d] \in Rooms
              /\ room[roomOf[d]].status \notin {"none", "closed"}
              /\ SeatsOf(room[roomOf[d]], d) # {}
  BY DEF Inv, TypeOK, NoDanglingRoom, Exists, MyRoom
<1>2. QED
  BY <1>1, GameAssumption DEF Inv, TypeOK, Hosts

\* Losing a room id disturbs nothing.
LEMMA ExpelOK ==
  ASSUME Inv, NEW C, Expel(C), UNCHANGED <<room, money, clientVars>>
  PROVE  Inv'
<1>1. roomOf' \in [Clients -> Rooms \cup {NoRoom}]
      /\ \A d \in Clients : roomOf'[d] # NoRoom => roomOf'[d] = roomOf[d]
  BY InvNow DEF Expel
<1>2. QED
  BY <1>1, InvNow, InvAfterHandler

\* A login that makes a player lets the lobby know somebody who has no seat; one
\* that fails takes an entry from others.
LEMMA RegisterOK ==
  ASSUME Inv, NEW c \in Clients, NEW k \in Conns, Register(c, k)
  PROVE  Inv'
<1>1. k # NoConn /\ ccid[c] = NoConn /\ UNCHANGED <<room, roomOf, money>>
  BY GameAssumption DEF Register
<1>2. /\ ccid' \in [Clients -> Conns \cup {NoConn}]
      /\ known' \in SUBSET Clients /\ linked' \in SUBSET known'
      /\ Made \subseteq Made' /\ known' \subseteq Made'
      /\ known' \subseteq known \cup {c}
  BY <1>1 DEF Register, Inv, TypeOK, Made
<1>3. ASSUME NEW q \in Rooms
      PROVE  /\ Seated(room[q], Made')
             /\ \A s \in Seats(room[q]) :
                  room[q].players[s].cuid \in known' => room[q].players[s].cuid \in known
  <2>1. Seated(room[q], Made) /\ c \notin Made /\ c # NoOne
    BY <1>1, InvNow, GameAssumption DEF Made
  <2>2. QED
    BY <1>2, <2>1 DEF Seated
<1>4. QED
  BY <1>1, <1>2, <1>3, InvNow, InvAfter

\* A player who logs in again keeps its room id, unless the player is gone.
LEMMA ReloginOK ==
  ASSUME Inv, NEW c \in Clients, NEW k \in Conns, Relogin(c, k)
  PROVE  Inv'
<1>1. k # NoConn /\ UNCHANGED <<room, money>> /\ \E C : Expel(C)
  BY GameAssumption DEF Relogin
<1>2. /\ ccid' \in [Clients -> Conns \cup {NoConn}]
      /\ known' \in SUBSET Clients /\ linked' \in SUBSET known'
      /\ Made' = Made /\ known' \subseteq known
  BY <1>1 DEF Relogin, Inv, TypeOK, Made
<1>3. roomOf' \in [Clients -> Rooms \cup {NoRoom}]
      /\ \A d \in Clients : roomOf'[d] # NoRoom => roomOf'[d] = roomOf[d]
  BY <1>1, InvNow DEF Expel
<1>4. QED
  BY <1>1, <1>2, <1>3, InvNow, InvAfter

\* A handler of client c, in seat s of its room, replaces the room by h.
LEMMA ReplacedRoomOK ==
  ASSUME Inv, NEW c \in Clients, roomOf[c] # NoRoom,
         NEW s \in Seats(MyRoom(c)), MyRoom(c).players[s].cuid = c,
         NEW h \in RoomType, RoomOK(h), Outcome(MyRoom(c), h, s),
         Replace(c, h), Expel(Leavers(MyRoom(c), h, s)),
         UNCHANGED clientVars, money' \in [Clients -> Int]
  PROVE  Inv'
<1> DEFINE r == roomOf[c]
           g == MyRoom(c)
<1>1. /\ r \in Rooms /\ g = room[r] /\ g \in RoomType /\ g.status \notin {"none", "closed"}
      /\ Seated(g, Made)
  BY InvNow DEF MyRoom
<1>2. /\ room' \in [Rooms -> RoomType] /\ room'[r] = h
      /\ \A q \in Rooms : q # r => room'[q] = room[q]
  BY <1>1, InvNow DEF Replace
<1>3. roomOf' \in [Clients -> Rooms \cup {NoRoom}]
      /\ \A d \in Clients : roomOf'[d] # NoRoom => roomOf'[d] = roomOf[d]
                                                   /\ d \notin Leavers(g, h, s)
  BY InvNow DEF Expel
<1>4. Seated(h, Made)
  BY <1>1 DEF Outcome, Seated
<1>5. \A q \in Rooms : RoomOK(room'[q]) /\ Seated(room'[q], Made)
  BY <1>2, <1>4, InvNow
<1>6. ASSUME NEW d \in Clients, roomOf'[d] # NoRoom
      PROVE  /\ room'[roomOf'[d]].status \notin {"none", "closed"}
             /\ SeatsOf(room'[roomOf'[d]], d) # {}
  <2>1. CASE roomOf[d] # r
    BY <1>2, <1>3, <1>6, <2>1, InvNow
  <2>2. CASE roomOf[d] = r
    <3>1. roomOf'[d] = r /\ SeatsOf(g, d) # {} /\ d \notin Leavers(g, h, s)
      BY <1>1, <1>3, <1>6, <2>2, InvNow
    <3>2. h.status # "closed"
      BY <1>1, <3>1 DEF Leavers, Members
    <3>3. PICK t \in Seats(g) : g.players[t].cuid = d
      BY <3>1 DEF SeatsOf
    <3>4. Seats(h) = Seats(g) /\ h.players[t].cuid = d /\ h.status \notin {"none", "closed"}
      BY <3>1, <3>2, <3>3 DEF Outcome, Leavers
    <3>5. QED
      BY <1>2, <3>1, <3>3, <3>4 DEF SeatsOf
  <2>3. QED
    BY <2>1, <2>2
<1>7. QED
  BY <1>2, <1>3, <1>5, <1>6, InvNow, InvAfterHandler

\* Client c of the lobby enters the room g of slot r, an old room or a new one.
LEMMA EnterRoomOK ==
  ASSUME Inv, NEW c \in Clients, c \in Made, NEW r \in Rooms,
         NEW g \in RoomType, RoomOK(g), Seated(g, Made), Hosts(g, r),
         g.status # "none", g.status = "closed" => g = room[r],
         EnterRoom(c, r, g)
  PROVE  Inv'
<1>0. UNCHANGED <<money, clientVars>>
  BY DEF EnterRoom
<1>1. ASSUME NEW h \in RoomType, RoomOK(h), Seated(h, Made),
             room' = [room EXCEPT ![r] = h],
             roomOf' \in [Clients -> Rooms \cup {NoRoom}],
             \A d \in Clients : roomOf'[d] # roomOf[d] => d = c /\ roomOf'[d] = r,
             \A d \in Clients : roomOf'[d] = r => /\ SeatsOf(h, d) # {}
                                                  /\ h.status \notin {"none", "closed"}
      PROVE  Inv'
  <2>1. /\ room' \in [Rooms -> RoomType] /\ room'[r] = h
        /\ \A q \in Rooms : q # r => room'[q] = room[q]
    BY <1>1, InvNow
  <2>2. \A q \in Rooms : RoomOK(room'[q]) /\ Seated(room'[q], Made)
    BY <1>0, <1>1, <2>1, InvNow
  <2>3. ASSUME NEW d \in Clients, roomOf'[d] # NoRoom
        PROVE  /\ room'[roomOf'[d]].status \notin {"none", "closed"}
               /\ SeatsOf(room'[roomOf'[d]], d) # {}
    <3>1. CASE roomOf'[d] = r
      BY <1>1, <2>1, <3>1
    <3>2. CASE roomOf'[d] # r
      BY <1>1, <2>1, <2>3, <3>2, InvNow
    <3>3. QED
      BY <3>1, <3>2
  <2>4. QED
    BY <1>0, <1>1, <2>1, <2>2, <2>3, InvNow, InvAfterHandler
<1>2. CASE roomOf[c] # NoRoom \/ g.status # "prepare" \/ Vacant(g) = {}
  <2>1. room' = [room EXCEPT ![r] = g] /\ roomOf' = roomOf
    BY <1>2 DEF EnterRoom
  <2>2. \A d \in Clients : roomOf'[d] = r => /\ SeatsOf(g, d) # {}
                                             /\ g.status \notin {"none", "closed"}
    BY <2>1, InvNow, GameAssumption DEF Hosts
  <2>3. QED
    BY <1>1, <2>1, <2>2, InvNow
<1>3. CASE ~(roomOf[c] # NoRoom \/ g.status # "prepare" \/ Vacant(g) = {})
  <2>1. PICK s \in Vacant(g) :
          /\ room' = [room EXCEPT ![r] =
               WithSeat(g, s, [g.players[s] EXCEPT !.cuid = c, !.status = "PREP"])]
          /\ roomOf' = IF Admits(g, c) THEN [roomOf EXCEPT ![c] = r] ELSE roomOf
    BY <1>3 DEF EnterRoom
  <2> DEFINE h == WithSeat(g, s, [g.players[s] EXCEPT !.cuid = c, !.status = "PREP"])
  <2>2. /\ h \in RoomType /\ RoomOK(h) /\ Seats(h) = Seats(g)
        /\ h.status = "prepare" /\ h.players[s].cuid = c
        /\ \A t \in Seats(g) : t # s => h.players[t].cuid = g.players[t].cuid
    BY <1>3, SeatTakenOK
  <2>3. room' = [room EXCEPT ![r] = h]
    BY <2>1
  <2> HIDE DEF h
  <2>4. s \in Seats(g) /\ g.players[s].cuid = NoOne
    BY DEF Vacant, SeatsOf
  <2>5. Seated(h, Made)
    BY <2>2 DEF Seated
  <2>6. roomOf' \in [Clients -> Rooms \cup {NoRoom}]
        /\ \A d \in Clients : roomOf'[d] # roomOf[d] => d = c /\ roomOf'[d] = r
    BY <2>1, InvNow
  <2>7. ASSUME NEW d \in Clients, roomOf'[d] = r
        PROVE  SeatsOf(h, d) # {}
    <3>1. CASE d = c
      BY <2>2, <2>4, <3>1 DEF SeatsOf
    <3>2. CASE d # c
      <4>1. SeatsOf(g, d) # {}
        BY <2>6, <2>7, <3>2 DEF Hosts
      <4>2. d # NoOne
        BY GameAssumption
      <4>3. QED
        BY <2>2, <2>4, <4>1, <4>2 DEF SeatsOf
    <3>3. QED
      BY <3>1, <3>2
  <2>8. QED
    BY <1>1, <2>2, <2>3, <2>5, <2>6, <2>7
<1>4. QED
  BY <1>2, <1>3

\* What the timer leaves of a room.
LEMMA TickedRoom ==
  ASSUME Inv, NEW visited \in SUBSET (Rooms \ Closed), NEW erased \in SUBSET Closed,
         TimerExecAll(visited, erased), NEW q \in Rooms
  PROVE  LET g == room[q]
             h == room'[q]
         IN /\ h \in RoomType /\ RoomOK(h)
            /\ \/ Seats(h) = {} /\ (h.status = "closed" \/ g.status = "closed")
               \/ /\ SameTable(g, h) /\ (h.status = "closed" <=> g.status = "closed")
                  /\ (h.status = "none" <=> g.status = "none")
<1> DEFINE g == room[q]
           a == Aged(g)
<1>1. g \in RoomType /\ RoomOK(g)
  BY InvNow
<1>2. a \in RoomType /\ RoomOK(a) /\ a.players = g.players /\ a.status = g.status
  BY <1>1, AgedOK
<1>3. room'[q] = IF q \in erased THEN NoGame
                 ELSE IF q \in visited THEN TimerExec(a) ELSE a
  BY DEF TimerExecAll
<1>4. (q \in erased => g.status = "closed") /\ (q \in visited => g.status # "closed")
  BY DEF Closed
<1> HIDE DEF a, g
<1>5. CASE q \in erased
  BY <1>3, <1>4, <1>5, NoGameOK DEF g
<1>6. CASE q \notin erased /\ q \in visited
  <2>1. LET h == TimerExec(a) IN
         /\ h \in RoomType /\ RoomOK(h)
         /\ \/ h.status = "closed" /\ Seats(h) = {}
            \/ /\ SameTable(a, h) /\ h.status # "closed"
               /\ (h.status = "none" <=> a.status = "none")
    BY <1>2, <1>4, <1>6, TimerExecOK
  <2>2. QED
    BY <1>2, <1>3, <1>4, <1>6, <2>1 DEF SameTable, Seats, g
<1>7. CASE q \notin erased /\ q \notin visited
  BY <1>2, <1>3, <1>7 DEF SameTable, Seats, g
<1>8. QED
  BY <1>5, <1>6, <1>7

\* A tick of the timer preserves the invariant.
LEMMA TickOK ==
  ASSUME Inv, Tick
  PROVE  Inv'
<1>1. PICK visited \in SUBSET (Rooms \ Closed), erased \in SUBSET Closed :
        TimerExecAll(visited, erased)
  BY DEF Tick
<1>2. \A q \in Rooms :
        /\ room'[q] \in RoomType /\ RoomOK(room'[q])
        /\ \/ /\ Seats(room'[q]) = {}
              /\ room'[q].status = "closed" \/ room[q].status = "closed"
           \/ /\ SameTable(room[q], room'[q])
              /\ room'[q].status = "closed" <=> room[q].status = "closed"
              /\ room'[q].status = "none" <=> room[q].status = "none"
  BY <1>1, TickedRoom
<1> DEFINE over == {q \in Rooms \ Closed : room'[q].status = "closed"}
           C == UNION {Members(room[q]) : q \in over}
<1>3. room' \in [Rooms -> RoomType]
  BY <1>1, <1>2 DEF TimerExecAll
<1>4. UNCHANGED clientVars /\ Expel(C) /\ PayForFirstRound
  BY DEF Tick
<1>5. money' \in [Clients -> Int]
  BY <1>3, <1>4, InvNow, PayType
<1>6. \A q \in Rooms : RoomOK(room'[q]) /\ Seated(room'[q], Made)
  BY <1>2, <1>4, InvNow DEF Seated, SameTable
<1>7. roomOf' \in [Clients -> Rooms \cup {NoRoom}]
      /\ \A d \in Clients : roomOf'[d] # NoRoom => roomOf'[d] = roomOf[d] /\ d \notin C
  BY <1>4, InvNow DEF Expel
<1>8. ASSUME NEW d \in Clients, roomOf'[d] # NoRoom
      PROVE  /\ room'[roomOf'[d]].status \notin {"none", "closed"}
             /\ SeatsOf(room'[roomOf'[d]], d) # {}
  <2> DEFINE q == roomOf[d]
  <2>1. /\ roomOf'[d] = q /\ q \in Rooms /\ d \notin C
        /\ room[q].status \notin {"none", "closed"} /\ SeatsOf(room[q], d) # {}
    BY <1>7, <1>8, InvNow
  <2>2. d \in Members(room[q])
    BY <2>1 DEF Members
  <2>3. room'[q].status # "closed"
    BY <2>1, <2>2 DEF Closed
  <2>4. /\ SameTable(room[q], room'[q]) /\ room'[q].status # "none"
    BY <1>2, <2>1, <2>3
  <2>5. QED
    BY <2>1, <2>3, <2>4 DEF SameTable, SeatsOf
<1>9. QED
  BY <1>3, <1>4, <1>5, <1>6, <1>7, <1>8, InvNow, InvAfterHandler

-----------------------------------------------------------------------------
(* The inductive invariant. *)

\* The invariant holds in the initial state.
LEMMA InitInv == Init => Inv
<1> SUFFICES ASSUME Init PROVE Inv
  OBVIOUS
<1>1. TypeOK
  BY NoGameOK, GameAssumption DEF Init, TypeOK
<1>2. NoDanglingRoom
  BY DEF Init, NoDanglingRoom
<1>3. known \subseteq Made /\ \A r \in Rooms : RoomOK(room[r]) /\ Seated(room[r], Made)
  BY NoGameOK DEF Init, Seated
<1>4. QED
  BY <1>1, <1>2, <1>3 DEF Inv

\* A lobby member in a room is never an orphan there.
LEMMA InItsRoom ==
  ASSUME Inv, NEW c \in Clients, roomOf[c] # NoRoom
  PROVE  /\ Exists(roomOf[c]) /\ ~Orphan(c) /\ MyRoom(c) \in RoomType
         /\ RoomOK(MyRoom(c)) /\ MyRoom(c).status \notin {"none", "closed"}
         /\ Seated(MyRoom(c), Made) /\ roomOf[c] \in Rooms
BY InvNow DEF Exists, Orphan, MyRoom

\* Room id 0 leads nowhere.
LEMMA NoRoomIsOrphan ==
  ASSUME NEW c \in Clients, roomOf[c] = NoRoom
  PROVE  ~Exists(roomOf[c]) /\ Orphan(c)
BY GameAssumption DEF Exists, Orphan

\* A handler of c that keeps the table replaces the room without expelling.
LEMMA KeptTableOK ==
  ASSUME Inv, NEW c \in Clients, roomOf[c] # NoRoom,
         NEW s \in Seats(MyRoom(c)), MyRoom(c).players[s].cuid = c,
         NEW h \in RoomType, RoomOK(h), SameTable(MyRoom(c), h),
         h.status \notin {"none", "closed"},
         Replace(c, h), PayForFirstRound, UNCHANGED <<roomOf, clientVars>>
  PROVE  Inv'
<1>1. Outcome(MyRoom(c), h, s)
  BY DEF Outcome, SameTable
<1>2. room' \in [Rooms -> RoomType]
  BY InvNow DEF Replace
<1>3. money' \in [Clients -> Int]
  BY <1>2, PayType, InvNow
<1>4. Leavers(MyRoom(c), h, s) = {}
  BY DEF Leavers, SameTable
<1>5. Expel({})
  BY InvNow DEF Expel
<1>6. QED
  BY <1>1, <1>3, <1>4, <1>5, ReplacedRoomOK

\* Every handler and every tick preserves the invariant.
LEMMA StepInv == Inv /\ [Next]_vars => Inv'
<1> SUFFICES ASSUME Inv, [Next]_vars PROVE Inv'
  OBVIOUS
<1>1. ASSUME NEW c \in Clients, NEW k \in Conns, Register(c, k) \/ Relogin(c, k)
      PROVE  Inv'
  BY <1>1, RegisterOK, ReloginOK
<1>2. ASSUME NEW c \in Clients, NEW r \in Rooms, NEW size \in Sizes,
             NEW limit \in Limits, NEW payor \in Payors,
             CreateGame(c, r, size, limit, payor)
      PROVE  Inv'
  <2> DEFINE g == NewGame(c, size, limit, payor)
  <2>1. /\ g \in RoomType /\ RoomOK(g) /\ g.status = "prepare" /\ Vacant(g) = Seats(g)
    BY NewGameOK
  <2>2. c \in Made /\ room[r].status = "none" /\ EnterRoom(c, r, g)
    BY <1>2, InvNow DEF CreateGame
  <2> HIDE DEF g
  <2>3. Seated(g, Made)
    BY <2>1 DEF Seated, Vacant, SeatsOf
  <2>4. Hosts(g, r)
    BY <2>2, InvNow, GameAssumption DEF Hosts
  <2>5. QED
    BY <2>1, <2>2, <2>3, <2>4, EnterRoomOK
<1>3. ASSUME NEW c \in Clients, NEW r \in Rooms, JoinGame(c, r) PROVE Inv'
  <2>1. c \in Made /\ room[r].status # "none" /\ EnterRoom(c, r, room[r])
    BY <1>3, InvNow DEF JoinGame, Exists
  <2>2. room[r] \in RoomType /\ RoomOK(room[r]) /\ Seated(room[r], Made) /\ Hosts(room[r], r)
    BY InvNow
  <2>3. QED
    BY <2>1, <2>2, EnterRoomOK
<1>4. ASSUME NEW c \in Clients, LostRoom(c) PROVE Inv'
  BY <1>4, ExpelOK, InvNow DEF LostRoom
<1>5. ASSUME NEW c \in Clients, GiveUp(c) PROVE Inv'
  <2>1. roomOf[c] # NoRoom
    BY <1>5 DEF GiveUp
  <2>2. /\ MyRoom(c) \in RoomType /\ RoomOK(MyRoom(c)) /\ Exists(roomOf[c])
        /\ MyRoom(c).status \notin {"none", "closed"}
    BY <2>1, InItsRoom
  <2>3. PICK s \in Seats(MyRoom(c)) :
          /\ First(s, SeatsOf(MyRoom(c), c))
          /\ LET h == GiveUpRoom(MyRoom(c), c, s) IN
             Replace(c, h) /\ Expel(Leavers(MyRoom(c), h, s))
          /\ UNCHANGED <<money, clientVars>>
    BY <1>5, <2>2 DEF GiveUp
  <2>4. MyRoom(c).players[s].cuid = c
    BY <2>3 DEF First, SeatsOf
  <2> DEFINE h == GiveUpRoom(MyRoom(c), c, s)
  <2>5. h \in RoomType /\ RoomOK(h) /\ Outcome(MyRoom(c), h, s)
    BY <2>2, <2>4, GiveUpRoomOK
  <2>6. Replace(c, h) /\ Expel(Leavers(MyRoom(c), h, s)) /\ UNCHANGED clientVars
        /\ money' \in [Clients -> Int]
    BY <2>3, InvNow
  <2> HIDE DEF h
  <2>7. QED
    BY <2>1, <2>4, <2>5, <2>6, ReplacedRoomOK
<1>6. ASSUME NEW c \in Clients, NEW v \in Vote, VoteForAbortGame(c, v) PROVE Inv'
  <2>1. CASE roomOf[c] = NoRoom
    BY <1>4, <1>6, <2>1, NoRoomIsOrphan DEF VoteForAbortGame
  <2>2. CASE roomOf[c] # NoRoom
    <3> DEFINE g == MyRoom(c)
    <3>1. /\ g \in RoomType /\ RoomOK(g) /\ Exists(roomOf[c]) /\ ~Orphan(c)
      BY <2>2, InItsRoom
    <3>2. g.status = "vote"
      BY <1>6, <3>1 DEF VoteForAbortGame
    <3>3. PICK s \in Seats(g) :
            /\ First(s, SeatsOf(g, c))
            /\ LET voted == CastVote(g, s, v)
                   h == IF v = "NONE" THEN voted ELSE CheckAllVotes(voted)
               IN Replace(c, h) /\ Expel(Leavers(g, h, s))
            /\ UNCHANGED <<money, clientVars>>
      BY <1>6, <3>1 DEF VoteForAbortGame
    <3>4. g.players[s].cuid = c
      BY <3>3 DEF First, SeatsOf
    <3>5. Voting(g)
      BY <3>1, <3>2 DEF Voting, RoomOK, VoteUndecided
    <3> DEFINE voted == CastVote(g, s, v)
               h == IF v = "NONE" THEN voted ELSE CheckAllVotes(voted)
    <3>6. h \in RoomType /\ RoomOK(h) /\ Outcome(g, h, s)
      BY <3>1, <3>2, <3>5, VotedRoomOK
    <3>7. Replace(c, h) /\ Expel(Leavers(g, h, s)) /\ UNCHANGED clientVars
          /\ money' \in [Clients -> Int]
      BY <3>3, InvNow
    <3> HIDE DEF h
    <3>8. QED
      BY <2>2, <3>4, <3>6, <3>7, ReplacedRoomOK
  <2>3. QED
    BY <2>1, <2>2
<1>7. ASSUME NEW c \in Clients, NEW ready \in {"READY", "PREP"}, ReadyFlag(c, ready)
      PROVE  Inv'
  <2> DEFINE g == MyRoom(c)
  <2>1. roomOf[c] # NoRoom /\ c # NoOne
    BY <1>7, GameAssumption DEF ReadyFlag
  <2>2. /\ g \in RoomType /\ RoomOK(g) /\ Exists(roomOf[c]) /\ ~Orphan(c)
    BY <2>1, InItsRoom
  <2>3. g.status = "prepare"
    BY <1>7, <2>2 DEF ReadyFlag
  <2>4. PICK s \in Seats(g) :
          /\ First(s, SeatsOf(g, c))
          /\ LET set == WithSeat(g, s, [g.players[s] EXCEPT !.status = ready])
             IN Replace(c, IF ready = "READY" THEN TryStartRound(set) ELSE set)
          /\ PayForFirstRound
          /\ UNCHANGED <<roomOf, clientVars>>
    BY <1>7, <2>2 DEF ReadyFlag
  <2>5. g.players[s].cuid = c
    BY <2>4 DEF First, SeatsOf
  <2> DEFINE set == WithSeat(g, s, [g.players[s] EXCEPT !.status = ready])
             h == IF ready = "READY" THEN TryStartRound(set) ELSE set
  <2>6. /\ h \in RoomType /\ RoomOK(h) /\ SameTable(g, h)
        /\ h.status \in {"prepare", "play"}
    BY <2>1, <2>2, <2>3, <2>5, ReadyRoomOK
  <2>7. Replace(c, h) /\ PayForFirstRound /\ UNCHANGED <<roomOf, clientVars>>
    BY <2>4
  <2> HIDE DEF h
  <2>8. QED
    BY <2>1, <2>5, <2>6, <2>7, KeptTableOK
<1>8. ASSUME NEW c \in Clients, BringOut(c) PROVE Inv'
  <2> DEFINE g == MyRoom(c)
  <2>1. roomOf[c] # NoRoom
    BY <1>8 DEF BringOut
  <2>2. /\ g \in RoomType /\ RoomOK(g) /\ Exists(roomOf[c]) /\ ~Orphan(c)
    BY <2>1, InItsRoom
  <2>3. g.status = "play"
    BY <1>8, <2>2 DEF BringOut
  <2>4. PICK s \in Seats(g) :
          /\ First(s, SeatsOf(g, c))
          /\ LET shown == WithSeat(g, s, [g.players[s] EXCEPT !.status = "COMPARE"])
                 settled == TrySettleGame(shown)
             IN Replace(c, IF settled.status = "settle" THEN TryStartRound(settled)
                           ELSE settled)
          /\ PayForFirstRound
          /\ UNCHANGED <<roomOf, clientVars>>
    BY <1>8, <2>2 DEF BringOut
  <2>5. g.players[s].cuid = c
    BY <2>4 DEF First, SeatsOf
  <2> DEFINE shown == WithSeat(g, s, [g.players[s] EXCEPT !.status = "COMPARE"])
             settled == TrySettleGame(shown)
             h == IF settled.status = "settle" THEN TryStartRound(settled) ELSE settled
  <2>6. /\ h \in RoomType /\ RoomOK(h) /\ SameTable(g, h)
        /\ h.status \in {"play", "settleAll"}
    BY <2>2, <2>3, BroughtOutRoomOK
  <2>7. Replace(c, h) /\ PayForFirstRound /\ UNCHANGED <<roomOf, clientVars>>
    BY <2>4
  <2> HIDE DEF h
  <2>8. QED
    BY <2>1, <2>5, <2>6, <2>7, KeptTableOK
<1>9. CASE UNCHANGED vars
  BY <1>9, InvNow, InvAfterHandler DEF vars
<1>10. QED
  BY <1>1, <1>2, <1>3, <1>5, <1>6, <1>7, <1>8, <1>9, TickOK DEF Next

-----------------------------------------------------------------------------
(* What follows for every behaviour of the lobby. *)

\* The inductive invariant holds at all times.
THEOREM Invariance == Spec => []Inv
BY InitInv, StepInv, PTL DEF Spec

\* Type correctness of the lobby's tables, whatever messages arrive.
THEOREM TypeCorrect == Spec => []TypeOK
<1>1. Inv => TypeOK
  BY DEF Inv
<1>2. QED
  BY <1>1, Invariance, PTL

\* A client's room id always leads to an open room with a seat of the client:
\* the ERR_HANDLER branches of the handlers are never taken.
THEOREM RoomIdsLeadToSeats == Spec => []NoDanglingRoom
<1>1. Inv => NoDanglingRoom
  BY DEF Inv
<1>2. QED
  BY <1>1, Invariance, PTL

\* checkAllVotes leaves no decided vote open, for any number of players.
THEOREM OpenVotesUndecided == Spec => []VotesUndecided
<1>1. Inv => VotesUndecided
  BY DEF Inv, RoomOK, VotesUndecided
<1>2. QED
  BY <1>1, Invariance, PTL

\* No vote starts with ballots of an earlier one.
THEOREM VotesStartFresh == Spec => []NoStaleBallots
<1>1. Inv => NoStaleBallots
  BY DEF Inv, RoomOK, NoStaleBallots
<1>2. QED
  BY <1>1, Invariance, PTL

\* Both together: an open vote is still open, and a vote that is over has left
\* no ballot to the next one.
THEOREM VotesAreSound == Spec => []VotesSound
  BY OpenVotesUndecided, VotesStartFresh, PTL DEF VotesSound

\* Rounds are dealt to full tables, one at a time, no more than agreed, and each
\* one is settled before the next one starts; a room whose seats are all ready
\* waits only for a player who is gone.
THEOREM RoundsSettledInTurn == Spec => []AllRoundsInStep
<1>1. Inv => AllRoundsInStep
  BY DEF Inv, RoomOK, AllRoundsInStep
<1>2. QED
  BY <1>1, Invariance, PTL

-----------------------------------------------------------------------------
(* Running games. *)

\* The players have agreed to abort, or the timer does it.
Consented(g) ==
  \/ Timed(g) /\ g.elapse >= VoteTicks - 1
  \/ \E c \in Clients : \A s \in Seats(g) :
       g.players[s].cuid = c \/ g.players[s].vote = "AYE"

\* h goes on with the round of g: the same hands are shown or being sorted.
SameRound(g, h) ==
  h.rounds = g.rounds /\ \A s \in Seats(g) : h.players[s].status = g.players[s].status

\* What a step may make of a game whose cards are dealt.
RunningStep(g, h) ==
  g.status \in {"play", "vote"} =>
    \/ h.status = "closed" /\ Consented(g)
    \/ /\ SameTable(g, h) /\ h.status \in {"play", "vote", "settleAll"}
       /\ g.status = "vote" /\ h.status = "play" => SameRound(g, h)

\* Counting the votes aborts the game, gives back the round, or waits.
LEMMA CountedVotes ==
  ASSUME NEW g \in RoomType, g.status = "vote"
  PROVE  LET h == CheckAllVotes(g) IN
         \/ h.status = "closed" /\ Unanimous(g)
         \/ h.status = "play" /\ SameTable(g, h) /\ SameRound(g, h)
         \/ h = g
<1>1. CASE Opposed(g)
  <2> DEFINE c == ClearVotes(g)
             h == [c EXCEPT !.sponsor = NoOne, !.elapse = 0, !.status = "play"]
  <2>1. c \in RoomType /\ SameTable(g, c) /\ SameGame(g, c)
        /\ \A t \in Seats(g) : c.players[t].status = g.players[t].status
    BY ClearVotesFields
  <2>2. CheckAllVotes(g) = h
    BY <1>1 DEF CheckAllVotes
  <2> HIDE DEF c
  <2>3. h.status = "play" /\ h.players = c.players /\ h.rounds = c.rounds
    BY <2>1 DEF RoomType
  <2>4. QED
    BY <2>1, <2>2, <2>3 DEF SameTable, SameGame, SameRound, Seats
<1>2. CASE ~ Opposed(g) /\ Unanimous(g)
  <2> DEFINE e == [g EXCEPT !.sponsor = NoOne, !.elapse = 0]
  <2>1. e \in RoomType
    BY DEF RoomType
  <2>2. CheckAllVotes(g) = AbortGame(e)
    BY <1>2 DEF CheckAllVotes
  <2> HIDE DEF e
  <2>3. QED
    BY <1>2, <2>1, <2>2, AbortGameFields
<1>3. CASE ~ Opposed(g) /\ ~ Unanimous(g)
  BY <1>3 DEF CheckAllVotes
<1>4. QED
  BY <1>1, <1>2, <1>3

\* A ballot of client c in seat s, counted, in a vote that is open or that c opens.
LEMMA BallotRunning ==
  ASSUME NEW g \in RoomType, NEW s \in Seats(g), NEW c \in Clients, g.players[s].cuid = c,
         NEW v \in RoomType, v.status = "vote", v.players = g.players,
         g.status = "vote" => v = g, NEW ballot \in Vote,
         NEW h, h \in {CastVote(v, s, ballot), CheckAllVotes(CastVote(v, s, ballot))}
  PROVE  RunningStep(g, h)
<1> DEFINE voted == CastVote(v, s, ballot)
<1>1. s \in Seats(v)
  BY DEF Seats
<1>2. /\ voted \in RoomType /\ SameTable(v, voted) /\ SameGame(v, voted)
      /\ \A t \in Seats(v) : /\ voted.players[t].status = v.players[t].status
                             /\ t # s => voted.players[t].vote = v.players[t].vote
  BY <1>1, CastVoteFields
<1> HIDE DEF voted
<1>3. voted.status = "vote" /\ SameTable(g, voted)
      /\ \A t \in Seats(g) : voted.players[t].status = g.players[t].status
  BY <1>2 DEF SameGame, SameTable, Seats
<1>4. CASE h = voted
  BY <1>3, <1>4 DEF RunningStep
<1>5. CASE h.status = "closed" /\ Unanimous(voted)
  <2>1. \A t \in Seats(g) : g.players[t].cuid = c \/ g.players[t].vote = "AYE"
    BY <1>2, <1>3, <1>5 DEF Unanimous, SameTable, Seats
  <2>2. QED
    BY <1>5, <2>1 DEF RunningStep, Consented
<1>6. CASE h.status = "play" /\ SameTable(voted, h) /\ SameRound(voted, h)
  <2>1. SameTable(g, h)
    BY <1>3, <1>6 DEF SameTable
  <2>2. g.status = "vote" => SameRound(g, h)
    BY <1>2, <1>3, <1>6 DEF SameRound, SameGame, SameTable
  <2>3. QED
    BY <1>6, <2>1, <2>2 DEF RunningStep
<1>7. h = voted \/ h = CheckAllVotes(voted)
  BY DEF voted
<1>8. QED
  BY <1>2, <1>3, <1>4, <1>5, <1>6, <1>7, CountedVotes

\* Giving up a running game is a ballot.
LEMMA GaveUpRunning ==
  ASSUME NEW g \in RoomType, NEW s \in Seats(g), RoomOK(g),
         NEW c \in Clients, g.players[s].cuid = c
  PROVE  RunningStep(g, GiveUpRoom(g, c, s))
<1> SUFFICES ASSUME g.status \in {"play", "vote"}
             PROVE  RunningStep(g, GiveUpRoom(g, c, s))
  BY DEF RunningStep
<1> DEFINE v == StartVote(g, c)
<1>1. /\ v \in RoomType /\ v.status = "vote" /\ v.players = g.players
      /\ g.status = "vote" => v = g
  <2>1. CASE g.status = "play"
    BY <2>1, StartVoteFields
  <2>2. CASE g.status = "vote"
    BY <2>2 DEF StartVote
  <2>3. QED
    BY <2>1, <2>2
<1>2. GiveUpRoom(g, c, s) = CheckAllVotes(CastVote(v, s, "AYE")) /\ "AYE" \in Vote
  BY DEF GiveUpRoom, Vote
<1> HIDE DEF v
<1>3. QED
  BY <1>1, <1>2, BallotRunning

\* The timer aborts a vote whose time is over and leaves running games alone.
LEMMA TickedRunning ==
  ASSUME Inv, Tick, NEW q \in Rooms
  PROVE  RunningStep(room[q], room'[q])
<1> DEFINE g == room[q]
           a == Aged(g)
<1> SUFFICES ASSUME g.status \in {"play", "vote"}
             PROVE  RunningStep(g, room'[q])
  BY DEF RunningStep
<1>1. PICK visited \in SUBSET (Rooms \ Closed), erased \in SUBSET Closed :
        TimerExecAll(visited, erased)
  BY DEF Tick
<1>2. g \in RoomType /\ RoomOK(g)
  BY InvNow
<1>3. a \in RoomType /\ a.players = g.players /\ a.status = g.status
  BY <1>2, AgedOK
<1>4. a.rounds = g.rounds /\ (Timed(a) /\ a.elapse >= Timeout(a) =>
                                Timed(g) /\ g.elapse >= VoteTicks - 1)
  BY <1>2, GameAssumption DEF Aged, Timed, Timeout, RoomType
<1>5. room'[q] \in {a, TimerExec(a)}
  BY <1>1 DEF TimerExecAll, Closed
<1> HIDE DEF a
<1>6. CASE room'[q] = a
  BY <1>3, <1>4, <1>6 DEF RunningStep, SameTable, SameRound, Seats
<1>7. CASE room'[q] = TimerExec(a) /\ Timed(a) /\ a.elapse >= Timeout(a)
  <2> DEFINE c == ClearVotes(a)
             e == [c EXCEPT !.elapse = 0]
  <2>1. c \in RoomType
    BY <1>3, ClearVotesFields
  <2> HIDE DEF c
  <2>2. e \in RoomType
    BY <2>1 DEF RoomType
  <2>3. TimerExec(a) = AbortGame(e)
    BY <1>3, <1>7 DEF TimerExec, Timed, c
  <2> HIDE DEF e
  <2>4. room'[q].status = "closed"
    BY <1>7, <2>2, <2>3, AbortGameFields
  <2>5. QED
    BY <1>4, <1>7, <2>4 DEF RunningStep, Consented
<1>8. CASE room'[q] = TimerExec(a) /\ ~ (Timed(a) /\ a.elapse >= Timeout(a))
  <2>1. TimerExec(a) = a
    BY <1>3, <1>8 DEF TimerExec, Timed
  <2>2. QED
    BY <1>6, <1>8, <2>1
<1>9. QED
  BY <1>5, <1>6, <1>7, <1>8

\* Entering a room does nothing to a running game.
LEMMA EnteredRunning ==
  ASSUME Inv, NEW c \in Clients, NEW r \in Rooms, NEW g,
         g = room[r] \/ room[r].status = "none",
         EnterRoom(c, r, g), NEW q \in Rooms
  PROVE  RunningStep(room[q], room'[q])
<1> SUFFICES ASSUME room[q].status \in {"play", "vote"}
             PROVE  RunningStep(room[q], room'[q])
  BY DEF RunningStep
<1>1. room \in [Rooms -> RoomType]
  BY InvNow
<1>2. room'[q] = room[q]
  <2>1. CASE q # r
    BY <1>1, <2>1 DEF EnterRoom
  <2>2. CASE q = r
    <3>1. g = room[r] /\ g.status # "prepare"
      BY <2>2
    <3>2. QED
      BY <1>1, <2>2, <3>1 DEF EnterRoom
  <2>3. QED
    BY <2>1, <2>2
<1>3. QED
  BY <1>2 DEF RunningStep, SameTable, SameRound

\* A handler of client c that replaces its room does nothing to the other rooms.
LEMMA ReplacedRunning ==
  ASSUME Inv, NEW c \in Clients, roomOf[c] # NoRoom, NEW h, Replace(c, h),
         RunningStep(MyRoom(c), h), NEW q \in Rooms
  PROVE  RunningStep(room[q], room'[q])
<1>1. roomOf[c] \in Rooms /\ room \in [Rooms -> RoomType]
  BY InvNow
<1>2. CASE q = roomOf[c]
  BY <1>1, <1>2 DEF Replace, MyRoom
<1>3. CASE q # roomOf[c]
  BY <1>1, <1>3 DEF Replace, RunningStep, SameTable, SameRound
<1>4. QED
  BY <1>2, <1>3

\* What every step makes of the running games.
LEMMA RunningGames ==
  ASSUME Inv, [Next]_vars, NEW q \in Rooms
  PROVE  RunningStep(room[q], room'[q])
<1>1. ASSUME UNCHANGED room PROVE RunningStep(room[q], room'[q])
  BY <1>1 DEF RunningStep, SameTable, SameRound
<1>2. ASSUME NEW c \in Clients, NEW r \in Rooms, NEW size \in Sizes,
             NEW limit \in Limits, NEW payor \in Payors,
             CreateGame(c, r, size, limit, payor)
      PROVE  RunningStep(room[q], room'[q])
  BY <1>2, EnteredRunning DEF CreateGame
<1>3. ASSUME NEW c \in Clients, NEW r \in Rooms, JoinGame(c, r)
      PROVE  RunningStep(room[q], room'[q])
  BY <1>3, EnteredRunning DEF JoinGame
<1>4. ASSUME NEW c \in Clients, GiveUp(c) PROVE RunningStep(room[q], room'[q])
  <2>1. roomOf[c] # NoRoom
    BY <1>4 DEF GiveUp
  <2>2. MyRoom(c) \in RoomType /\ RoomOK(MyRoom(c)) /\ Exists(roomOf[c])
    BY <2>1, InItsRoom
  <2>3. PICK s \in Seats(MyRoom(c)) :
          First(s, SeatsOf(MyRoom(c), c)) /\ Replace(c, GiveUpRoom(MyRoom(c), c, s))
    BY <1>4, <2>2 DEF GiveUp
  <2>4. MyRoom(c).players[s].cuid = c
    BY <2>3 DEF First, SeatsOf
  <2>5. RunningStep(MyRoom(c), GiveUpRoom(MyRoom(c), c, s))
    BY <2>2, <2>4, GaveUpRunning
  <2>6. QED
    BY <2>1, <2>3, <2>5, ReplacedRunning
<1>5. ASSUME NEW c \in Clients, NEW v \in Vote, VoteForAbortGame(c, v)
      PROVE  RunningStep(room[q], room'[q])
  <2>1. CASE roomOf[c] = NoRoom
    BY <1>1, <1>5, <2>1, NoRoomIsOrphan DEF VoteForAbortGame, LostRoom
  <2>2. CASE roomOf[c] # NoRoom
    <3> DEFINE g == MyRoom(c)
    <3>1. g \in RoomType /\ Exists(roomOf[c]) /\ ~ Orphan(c)
      BY <2>2, InItsRoom
    <3>2. g.status = "vote"
      BY <1>5, <3>1 DEF VoteForAbortGame
    <3>3. PICK s \in Seats(g) :
            /\ First(s, SeatsOf(g, c))
            /\ LET voted == CastVote(g, s, v)
               IN Replace(c, IF v = "NONE" THEN voted ELSE CheckAllVotes(voted))
      BY <1>5, <3>1 DEF VoteForAbortGame
    <3>4. g.players[s].cuid = c
      BY <3>3 DEF First, SeatsOf
    <3> DEFINE h == IF v = "NONE" THEN CastVote(g, s, v) ELSE CheckAllVotes(CastVote(g, s, v))
    <3>5. Replace(c, h)
      BY <3>3
    <3>6. h \in {CastVote(g, s, v), CheckAllVotes(CastVote(g, s, v))}
      OBVIOUS
    <3> HIDE DEF h, g
    <3>7. RunningStep(g, h)
      BY <3>1, <3>2, <3>4, <3>6, BallotRunning
    <3>8. QED
      BY <2>2, <3>5, <3>7, ReplacedRunning DEF g
  <2>3. QED
    BY <2>1, <2>2
<1>6. ASSUME NEW c \in Clients, NEW ready \in {"READY", "PREP"}, ReadyFlag(c, ready)
      PROVE  RunningStep(room[q], room'[q])
  <2>1. roomOf[c] # NoRoom
    BY <1>6 DEF ReadyFlag
  <2>2. Exists(roomOf[c]) /\ ~ Orphan(c)
    BY <2>1, InItsRoom
  <2>3. MyRoom(c).status = "prepare" /\ \E h : Replace(c, h)
    BY <1>6, <2>2 DEF ReadyFlag
  <2>4. \A h : RunningStep(MyRoom(c), h)
    BY <2>3 DEF RunningStep
  <2>5. QED
    BY <2>1, <2>3, <2>4, ReplacedRunning
<1>7. ASSUME NEW c \in Clients, BringOut(c) PROVE RunningStep(room[q], room'[q])
  <2> DEFINE g == MyRoom(c)
  <2>1. roomOf[c] # NoRoom
    BY <1>7 DEF BringOut
  <2>2. g \in RoomType /\ RoomOK(g) /\ Exists(roomOf[c]) /\ ~ Orphan(c)
    BY <2>1, InItsRoom
  <2>3. g.status = "play"
    BY <1>7, <2>2 DEF BringOut
  <2>4. PICK s \in Seats(g) :
          LET shown == WithSeat(g, s, [g.players[s] EXCEPT !.status = "COMPARE"])
              settled == TrySettleGame(shown)
          IN Replace(c, IF settled.status = "settle" THEN TryStartRound(settled) ELSE settled)
    BY <1>7, <2>2 DEF BringOut
  <2> DEFINE shown == WithSeat(g, s, [g.players[s] EXCEPT !.status = "COMPARE"])
             settled == TrySettleGame(shown)
             h == IF settled.status = "settle" THEN TryStartRound(settled) ELSE settled
  <2>5. SameTable(g, h) /\ h.status \in {"play", "settleAll"}
    BY <2>2, <2>3, BroughtOutRoomOK
  <2>6. Replace(c, h)
    BY <2>4
  <2> HIDE DEF h
  <2>7. RunningStep(g, h)
    BY <2>3, <2>5 DEF RunningStep
  <2>8. QED
    BY <2>1, <2>6, <2>7, ReplacedRunning
<1>8. ASSUME NEW c \in Clients, NEW k \in Conns, Register(c, k) \/ Relogin(c, k)
      PROVE  UNCHANGED room
  BY <1>8 DEF Register, Relogin
<1>9. CASE UNCHANGED vars
  BY <1>1, <1>9 DEF vars
<1>10. QED
  BY <1>1, <1>2, <1>3, <1>4, <1>5, <1>6, <1>7, <1>8, <1>9, TickedRunning DEF Next

\* A running game is aborted by its players or by the timer: nobody who has not
\* agreed, other than the sender of the last ballot, loses the game to the others.
THEOREM AbortsAreAgreed == Spec => AbortedByConsent
<1>1. Inv /\ [Next]_vars =>
        \A r \in Rooms :
          room[r].status \in {"play", "vote"} /\ room'[r].status = "closed" => Consented(room[r])
  BY RunningGames DEF RunningStep
<1>2. Inv /\ [Next]_vars =>
        [\A r \in Rooms :
           /\ room[r].status \in {"play", "vote"}
           /\ room'[r].status = "closed"
           => \/ Timed(room[r]) /\ room[r].elapse >= VoteTicks - 1
              \/ \E c \in Clients : \A s \in Seats(room[r]) :
                   room[r].players[s].cuid = c \/ room[r].players[s].vote = "AYE"]_vars
  BY <1>1 DEF Consented
<1>3. QED
  BY <1>2, Invariance, PTL DEF Spec, AbortedByConsent

\* A vote that fails gives back the round it interrupted.
THEOREM FailedVotesHarmless == Spec => FailedVoteResumesRound
<1>1. Inv /\ [Next]_vars =>
        [\A r \in Rooms :
           room[r].status = "vote" /\ room'[r].status = "play" =>
             /\ room'[r].rounds = room[r].rounds
             /\ \A s \in Seats(room[r]) :
                  /\ room'[r].players[s].cuid = room[r].players[s].cuid
                  /\ room'[r].players[s].status = room[r].players[s].status]_vars
  BY RunningGames DEF RunningStep, SameTable, SameRound
<1>2. QED
  BY <1>1, Invariance, PTL DEF Spec, FailedVoteResumesRound

\* From the first deal to the final settlement the seats keep their players.
THEOREM TablesStayFixed == Spec => TableFixedWhilePlaying
<1>1. Inv /\ [Next]_vars =>
        [\A r \in Rooms :
           /\ room[r].status \in {"play", "vote"}
           /\ room'[r].status \in {"play", "vote", "settleAll"}
           => \A s \in Seats(room[r]) :
                room'[r].players[s].cuid = room[r].players[s].cuid]_vars
  BY RunningGames DEF RunningStep, SameTable
<1>2. QED
  BY <1>1, Invariance, PTL DEF Spec, TableFixedWhilePlaying

-----------------------------------------------------------------------------
(* Seats and room ids. *)

\* A room that loses players, or none, and the clients that lose their room.
LEMMA FewerSeatsMatch ==
  ASSUME SeatsMatchRooms, UNCHANGED known, known \subseteq Clients, NEW r \in Rooms,
         room \in [Rooms -> RoomType],
         roomOf \in [Clients -> Rooms \cup {NoRoom}],
         \A q \in Rooms : q # r => room'[q] = room[q],
         \A d \in known : SeatsOf(room'[r], d) \subseteq SeatsOf(room[r], d),
         NEW C, Expel(C),
         \A d \in known : d \in C => SeatsOf(room[r], d) # {} /\ SeatsOf(room'[r], d) = {}
  PROVE  SeatsMatchRooms'
<1>1. ASSUME NEW d \in known, NEW q \in Rooms, SeatsOf(room'[q], d) # {}
      PROVE  roomOf'[d] = q
  <2>1. SeatsOf(room[q], d) # {}
    BY <1>1
  <2>2. roomOf[d] = q
    BY <2>1 DEF SeatsMatchRooms
  <2>3. d \notin C
    BY <1>1, <2>2 DEF SeatsMatchRooms
  <2>4. QED
    BY <2>2, <2>3 DEF Expel
<1>2. ASSUME NEW d \in known, NEW q \in Rooms
      PROVE  \A s, t \in SeatsOf(room'[q], d) : s = t
  <2>1. SeatsOf(room'[q], d) \subseteq SeatsOf(room[q], d)
    OBVIOUS
  <2>2. QED
    BY <2>1 DEF SeatsMatchRooms
<1>3. QED
  BY <1>1, <1>2 DEF SeatsMatchRooms

\* A handler of client c, in seat s of its room, replaces the room by h.
LEMMA ReplacedSeatsMatch ==
  ASSUME Inv, SeatsMatchRooms, NEW c \in Clients, roomOf[c] # NoRoom,
         NEW s \in Seats(MyRoom(c)), MyRoom(c).players[s].cuid = c,
         NEW h, Outcome(MyRoom(c), h, s),
         Replace(c, h), Expel(Leavers(MyRoom(c), h, s)), UNCHANGED known
  PROVE  SeatsMatchRooms'
<1> DEFINE r == roomOf[c]
           g == MyRoom(c)
           C == Leavers(g, h, s)
<1>1. /\ r \in Rooms /\ g = room[r] /\ room \in [Rooms -> RoomType]
      /\ roomOf \in [Clients -> Rooms \cup {NoRoom}] /\ known \subseteq Clients
  BY InvNow DEF MyRoom
<1>2. room'[r] = h /\ \A q \in Rooms : q # r => room'[q] = room[q]
  BY <1>1 DEF Replace
<1>3. \A d \in known : SeatsOf(h, d) \subseteq SeatsOf(g, d)
  BY <1>1, GameAssumption DEF Outcome, SeatsOf
<1>4. ASSUME NEW d \in known, d \in C
      PROVE  SeatsOf(g, d) # {} /\ SeatsOf(h, d) = {}
  <2>1. CASE h.status = "closed"
    BY <1>1, <1>4, <2>1 DEF Leavers, Outcome, Members, SeatsOf
  <2>2. CASE h.status # "closed"
    <3>1. d = c /\ h.players[s].cuid = NoOne /\ s \in SeatsOf(g, d)
      BY <1>4, <2>2 DEF Leavers, Outcome, SeatsOf
    <3>2. SeatsOf(g, d) = {s}
      BY <1>1, <3>1 DEF SeatsMatchRooms
    <3>3. s \notin SeatsOf(h, d)
      BY <1>1, <3>1, GameAssumption DEF SeatsOf
    <3>4. QED
      BY <1>3, <3>2, <3>3
  <2>3. QED
    BY <2>1, <2>2
<1>5. Expel(C)
  OBVIOUS
<1> HIDE DEF C, g, r
<1>6. QED
  BY <1>1, <1>2, <1>3, <1>4, <1>5, FewerSeatsMatch

\* A handler that changes nobody's seat.
LEMMA KeptSeatsMatch ==
  ASSUME Inv, SeatsMatchRooms, NEW c \in Clients, roomOf[c] # NoRoom,
         NEW h, SameTable(MyRoom(c), h), Replace(c, h), UNCHANGED <<roomOf, known>>
  PROVE  SeatsMatchRooms'
<1>1. /\ roomOf[c] \in Rooms /\ MyRoom(c) = room[roomOf[c]] /\ room \in [Rooms -> RoomType]
  BY InvNow DEF MyRoom
<1>2. \A q \in Rooms, d \in known : SeatsOf(room'[q], d) = SeatsOf(room[q], d)
  BY <1>1 DEF Replace, SameTable, SeatsOf
<1>3. QED
  BY <1>2 DEF SeatsMatchRooms

\* A seat written is a seat of the same room.
LEMMA SeatKeepsTerms ==
  ASSUME NEW g \in RoomType, NEW s, NEW info
  PROVE  /\ WithSeat(g, s, info).payor = g.payor
         /\ WithSeat(g, s, info).owner = g.owner
BY DEF WithSeat, RoomType

\* A client that enters a room was in none, and takes one seat and its room id,
\* unless its money is refused.
LEMMA EnteredSeatsMatch ==
  ASSUME Inv, SeatsMatchRooms, NEW c \in known, NEW r \in Rooms,
         NEW g \in RoomType,
         \A d \in known : SeatsOf(g, d) = SeatsOf(room[r], d),
         EnterRoom(c, r, g)
  PROVE  SeatsMatchRooms' \/ SeatedThoughRefused(c, r)
<1>1. /\ room \in [Rooms -> RoomType] /\ roomOf \in [Clients -> Rooms \cup {NoRoom}]
      /\ known \subseteq Clients /\ known' = known /\ c \in Clients
  BY InvNow DEF EnterRoom, clientVars
<1>2. CASE roomOf[c] # NoRoom \/ g.status # "prepare" \/ Vacant(g) = {}
  <2>1. room' = [room EXCEPT ![r] = g] /\ roomOf' = roomOf
    BY <1>2 DEF EnterRoom
  <2>2. \A q \in Rooms, d \in known : SeatsOf(room'[q], d) = SeatsOf(room[q], d)
    BY <1>1, <2>1
  <2>3. QED
    BY <1>1, <2>1, <2>2 DEF SeatsMatchRooms
<1>3. CASE ~(roomOf[c] # NoRoom \/ g.status # "prepare" \/ Vacant(g) = {})
  <2>1. PICK s \in Vacant(g) :
          /\ room' = [room EXCEPT ![r] =
               WithSeat(g, s, [g.players[s] EXCEPT !.cuid = c, !.status = "PREP"])]
          /\ roomOf' = IF Admits(g, c) THEN [roomOf EXCEPT ![c] = r] ELSE roomOf
    BY <1>3 DEF EnterRoom
  <2> DEFINE info == [g.players[s] EXCEPT !.cuid = c, !.status = "PREP"]
             h == WithSeat(g, s, info)
  <2>2. s \in Seats(g) /\ info \in PlayerInfo /\ info.cuid = c /\ g.players[s].cuid = NoOne
    <3>1. s \in Seats(g) /\ g.players[s].cuid = NoOne /\ c \in Clients
      BY <1>1 DEF Vacant, SeatsOf
    <3>2. g.players[s] \in PlayerInfo
      BY <3>1, SeatType
    <3>3. QED
      BY <3>1, <3>2 DEF PlayerInfo, SeatStatus
  <2>3. room' = [room EXCEPT ![r] = h]
    BY <2>1
  <2> HIDE DEF info
  <2>4. /\ Seats(h) = Seats(g) /\ h.players[s] = info
        /\ h.payor = g.payor /\ h.owner = g.owner
        /\ \A t \in Seats(g) : t # s => h.players[t] = g.players[t]
    BY <2>2, WithSeatFields, SeatKeepsTerms
  <2> HIDE DEF h
  <2>5. \A d \in known : d # c => SeatsOf(h, d) = SeatsOf(g, d)
    BY <1>1, <2>2, <2>4, GameAssumption DEF SeatsOf
  <2>6. \A q \in Rooms : SeatsOf(room[q], c) = {}
    BY <1>3, GameAssumption DEF SeatsMatchRooms
  <2>7. SeatsOf(h, c) = {s}
    BY <2>2, <2>4, <2>6 DEF SeatsOf
  <2>8. CASE Admits(g, c)
    <3>1. roomOf' = [roomOf EXCEPT ![c] = r]
      BY <2>1, <2>8
    <3>2. ASSUME NEW d \in known, NEW q \in Rooms
          PROVE  /\ SeatsOf(room'[q], d) # {} => roomOf'[d] = q
                 /\ \A x, y \in SeatsOf(room'[q], d) : x = y
      <4>1. CASE d = c
        <5>1. roomOf'[c] = r /\ (q = r => SeatsOf(room'[q], c) = {s})
          BY <1>1, <2>3, <2>7, <3>1
        <5>2. q # r => SeatsOf(room'[q], c) = {}
          BY <1>1, <2>3, <2>6
        <5>3. QED
          BY <4>1, <5>1, <5>2
      <4>2. CASE d # c
        <5>1. SeatsOf(room'[q], d) = SeatsOf(room[q], d) /\ roomOf'[d] = roomOf[d]
          BY <1>1, <2>3, <2>5, <3>1, <4>2
        <5>2. QED
          BY <5>1 DEF SeatsMatchRooms
      <4>3. QED
        BY <4>1, <4>2
    <3>3. QED
      BY <1>1, <3>2 DEF SeatsMatchRooms
  <2>9. CASE ~Admits(g, c)
    <3>1. roomOf' = roomOf /\ room'[r] = h
      BY <1>1, <2>1, <2>3, <2>9
    <3>2. ~Admits(h, c)
      BY <2>4, <2>9 DEF Admits
    <3>3. QED
      BY <1>3, <2>6, <2>7, <3>1, <3>2 DEF SeatedThoughRefused
  <2>10. QED
    BY <2>8, <2>9
<1>4. QED
  BY <1>2, <1>3

\* A tick closes rooms with all their seats, and keeps the others as they are.
LEMMA TickedSeatsMatch ==
  ASSUME Inv, SeatsMatchRooms, Tick
  PROVE  SeatsMatchRooms'
<1>1. PICK visited \in SUBSET (Rooms \ Closed), erased \in SUBSET Closed :
        TimerExecAll(visited, erased)
  BY DEF Tick
<1>2. \A q \in Rooms :
        \/ Seats(room'[q]) = {}
        \/ /\ SameTable(room[q], room'[q])
           /\ room'[q].status = "closed" <=> room[q].status = "closed"
  BY <1>1, TickedRoom
<1> DEFINE over == {q \in Rooms \ Closed : room'[q].status = "closed"}
           C == UNION {Members(room[q]) : q \in over}
<1>3. Expel(C) /\ known' = known /\ known \subseteq Clients
  BY InvNow DEF Tick, clientVars
<1>4. \A q \in Rooms, d \in known : SeatsOf(room'[q], d) \subseteq SeatsOf(room[q], d)
  BY <1>2 DEF SeatsOf, SameTable
<1>5. ASSUME NEW d \in known, NEW q \in Rooms, SeatsOf(room'[q], d) # {}
      PROVE  roomOf'[d] = q
  <2>1. SeatsOf(room[q], d) # {} /\ Seats(room'[q]) # {}
    BY <1>4, <1>5 DEF SeatsOf
  <2>2. roomOf[d] = q
    BY <2>1 DEF SeatsMatchRooms
  <2>3. q \notin over
    BY <1>2, <2>1 DEF Closed
  <2>4. d \notin C
    <3>1. \A p \in over : d \in Members(room[p]) => p = q
      BY <2>2 DEF SeatsMatchRooms, Members
    <3>2. QED
      BY <2>3, <3>1
  <2>5. QED
    BY <1>3, <2>2, <2>4 DEF Expel
<1>6. QED
  BY <1>3, <1>4, <1>5 DEF SeatsMatchRooms

\* A login takes nobody's seat and no room id of a player the lobby holds; a
\* player it makes has no seat yet.
LEMMA LoginSeatsMatch ==
  ASSUME Inv, SeatsMatchRooms, NEW c \in Clients, NEW k \in Conns,
         Register(c, k) \/ Relogin(c, k)
  PROVE  SeatsMatchRooms'
<1>1. roomOf \in [Clients -> Rooms \cup {NoRoom}] /\ known \subseteq Clients
      /\ \A q \in Rooms : Seated(room[q], Made)
  BY InvNow
<1>2. CASE Register(c, k)
  <2>1. UNCHANGED <<room, roomOf>> /\ known' \subseteq known \cup {c} /\ c \notin Made
        /\ c # NoOne
    BY <1>2, GameAssumption DEF Register, Made
  <2>2. \A q \in Rooms : SeatsOf(room[q], c) = {}
    BY <1>1, <2>1 DEF Seated, SeatsOf
  <2>3. QED
    BY <2>1, <2>2 DEF SeatsMatchRooms
<1>3. CASE Relogin(c, k)
  <2>1. ~Unseated(c) /\ room' = room /\ known' \subseteq known
    BY <1>3, InvNow DEF Unseated, Exists, Relogin
  <2>2. \A d \in known' : roomOf'[d] = roomOf[d]
    BY <1>1, <1>3, <2>1 DEF Relogin, Expel
  <2>3. QED
    BY <2>1, <2>2 DEF SeatsMatchRooms
<1>4. QED
  BY <1>2, <1>3

\* Every handler and every tick keeps seats and room ids together, but for a
\* refused entry.
LEMMA SeatsPart ==
  ASSUME Inv, SeatsMatchRooms, [Next]_vars
  PROVE  SeatsMatchRooms' \/ \E c \in known, r \in Rooms : SeatedThoughRefused(c, r)
<1>0. /\ room \in [Rooms -> RoomType] /\ roomOf \in [Clients -> Rooms \cup {NoRoom}]
      /\ known \subseteq Clients /\ linked \subseteq known
  BY InvNow
<1>1. ASSUME UNCHANGED <<room, roomOf, known>> PROVE SeatsMatchRooms'
  BY <1>1 DEF SeatsMatchRooms
<1>2. ASSUME NEW c \in Clients, NEW r \in Rooms, NEW size \in Sizes,
             NEW limit \in Limits, NEW payor \in Payors,
             CreateGame(c, r, size, limit, payor)
      PROVE  SeatsMatchRooms' \/ \E d \in known, q \in Rooms : SeatedThoughRefused(d, q)
  <2> DEFINE g == NewGame(c, size, limit, payor)
  <2>1. g \in RoomType /\ Vacant(g) = Seats(g)
    BY NewGameOK
  <2>2. c \in known /\ EnterRoom(c, r, g) /\ room[r].status = "none"
    BY <1>0, <1>2 DEF CreateGame
  <2> HIDE DEF g
  <2>3. \A d \in known : SeatsOf(room[r], d) = {}
    BY <1>0, <2>2, InvNow, GameAssumption DEF SeatsMatchRooms
  <2>4. \A d \in known : SeatsOf(g, d) = {}
    BY <1>0, <2>1, GameAssumption DEF Vacant, SeatsOf
  <2>5. QED
    BY <2>1, <2>2, <2>3, <2>4, EnteredSeatsMatch
<1>3. ASSUME NEW c \in Clients, NEW r \in Rooms, JoinGame(c, r)
      PROVE  SeatsMatchRooms' \/ \E d \in known, q \in Rooms : SeatedThoughRefused(d, q)
  BY <1>0, <1>3, EnteredSeatsMatch DEF JoinGame
<1>4. ASSUME NEW c \in Clients, GiveUp(c) PROVE SeatsMatchRooms'
  <2>1. roomOf[c] # NoRoom
    BY <1>4 DEF GiveUp
  <2>2. /\ MyRoom(c) \in RoomType /\ RoomOK(MyRoom(c)) /\ Exists(roomOf[c])
        /\ MyRoom(c).status \notin {"none", "closed"}
    BY <2>1, InItsRoom
  <2>3. PICK s \in Seats(MyRoom(c)) :
          /\ First(s, SeatsOf(MyRoom(c), c))
          /\ LET h == GiveUpRoom(MyRoom(c), c, s) IN
             Replace(c, h) /\ Expel(Leavers(MyRoom(c), h, s))
          /\ UNCHANGED <<money, clientVars>>
    BY <1>4, <2>2 DEF GiveUp
  <2>4. MyRoom(c).players[s].cuid = c
    BY <2>3 DEF First, SeatsOf
  <2> DEFINE h == GiveUpRoom(MyRoom(c), c, s)
  <2>5. Outcome(MyRoom(c), h, s)
    BY <2>2, <2>4, GiveUpRoomOK
  <2>6. Replace(c, h) /\ Expel(Leavers(MyRoom(c), h, s)) /\ UNCHANGED known
    BY <2>3 DEF clientVars
  <2> HIDE DEF h
  <2>7. QED
    BY <2>1, <2>4, <2>5, <2>6, ReplacedSeatsMatch
<1>5. ASSUME NEW c \in Clients, NEW v \in Vote, VoteForAbortGame(c, v) PROVE SeatsMatchRooms'
  <2>1. CASE roomOf[c] = NoRoom
    <3>1. LostRoom(c)
      BY <1>5, <2>1, NoRoomIsOrphan DEF VoteForAbortGame
    <3>2. roomOf' = roomOf
      BY <1>0, <2>1, <3>1 DEF LostRoom, Expel
    <3>3. QED
      BY <1>1, <3>1, <3>2 DEF LostRoom, clientVars
  <2>2. CASE roomOf[c] # NoRoom
    <3> DEFINE g == MyRoom(c)
    <3>1. /\ g \in RoomType /\ RoomOK(g) /\ Exists(roomOf[c]) /\ ~Orphan(c)
      BY <2>2, InItsRoom
    <3>2. g.status = "vote"
      BY <1>5, <3>1 DEF VoteForAbortGame
    <3>3. PICK s \in Seats(g) :
            /\ First(s, SeatsOf(g, c))
            /\ LET voted == CastVote(g, s, v)
                   h == IF v = "NONE" THEN voted ELSE CheckAllVotes(voted)
               IN Replace(c, h) /\ Expel(Leavers(g, h, s))
            /\ UNCHANGED <<money, clientVars>>
      BY <1>5, <3>1 DEF VoteForAbortGame
    <3>4. g.players[s].cuid = c
      BY <3>3 DEF First, SeatsOf
    <3>5. Voting(g)
      BY <3>1, <3>2 DEF Voting, RoomOK, VoteUndecided
    <3> DEFINE voted == CastVote(g, s, v)
               h == IF v = "NONE" THEN voted ELSE CheckAllVotes(voted)
    <3>6. Outcome(g, h, s)
      BY <3>1, <3>2, <3>5, VotedRoomOK
    <3>7. Replace(c, h) /\ Expel(Leavers(g, h, s)) /\ UNCHANGED known
      BY <3>3 DEF clientVars
    <3> HIDE DEF h
    <3>8. QED
      BY <2>2, <3>4, <3>6, <3>7, ReplacedSeatsMatch
  <2>3. QED
    BY <2>1, <2>2
<1>6. ASSUME NEW c \in Clients, NEW ready \in {"READY", "PREP"}, ReadyFlag(c, ready)
      PROVE  SeatsMatchRooms'
  <2> DEFINE g == MyRoom(c)
  <2>1. roomOf[c] # NoRoom
    BY <1>6 DEF ReadyFlag
  <2>2. g \in RoomType /\ RoomOK(g) /\ Exists(roomOf[c]) /\ ~Orphan(c)
    BY <2>1, InItsRoom
  <2>3. g.status = "prepare"
    BY <1>6, <2>2 DEF ReadyFlag
  <2>4. PICK s \in Seats(g) :
          /\ LET set == WithSeat(g, s, [g.players[s] EXCEPT !.status = ready])
             IN Replace(c, IF ready = "READY" THEN TryStartRound(set) ELSE set)
          /\ UNCHANGED <<roomOf, clientVars>>
    BY <1>6, <2>2 DEF ReadyFlag
  <2> DEFINE set == WithSeat(g, s, [g.players[s] EXCEPT !.status = ready])
             h == IF ready = "READY" THEN TryStartRound(set) ELSE set
  <2>5. SameTable(g, h)
    BY <2>2, <2>3, ReadyRoomOK
  <2>6. Replace(c, h) /\ UNCHANGED <<roomOf, known>>
    BY <2>4 DEF clientVars
  <2> HIDE DEF h
  <2>7. QED
    BY <2>1, <2>5, <2>6, KeptSeatsMatch
<1>7. ASSUME NEW c \in Clients, BringOut(c) PROVE SeatsMatchRooms'
  <2> DEFINE g == MyRoom(c)
  <2>1. roomOf[c] # NoRoom
    BY <1>7 DEF BringOut
  <2>2. g \in RoomType /\ RoomOK(g) /\ Exists(roomOf[c]) /\ ~Orphan(c)
    BY <2>1, InItsRoom
  <2>3. g.status = "play"
    BY <1>7, <2>2 DEF BringOut
  <2>4. PICK s \in Seats(g) :
          /\ LET shown == WithSeat(g, s, [g.players[s] EXCEPT !.status = "COMPARE"])
                 settled == TrySettleGame(shown)
             IN Replace(c, IF settled.status = "settle" THEN TryStartRound(settled)
                           ELSE settled)
          /\ UNCHANGED <<roomOf, clientVars>>
    BY <1>7, <2>2 DEF BringOut
  <2> DEFINE shown == WithSeat(g, s, [g.players[s] EXCEPT !.status = "COMPARE"])
             settled == TrySettleGame(shown)
             h == IF settled.status = "settle" THEN TryStartRound(settled) ELSE settled
  <2>5. SameTable(g, h)
    BY <2>2, <2>3, BroughtOutRoomOK
  <2>6. Replace(c, h) /\ UNCHANGED <<roomOf, known>>
    BY <2>4 DEF clientVars
  <2> HIDE DEF h
  <2>7. QED
    BY <2>1, <2>5, <2>6, KeptSeatsMatch
<1>8. CASE UNCHANGED vars
  BY <1>1, <1>8 DEF vars, clientVars
<1>9. QED
  BY <1>2, <1>3, <1>4, <1>5, <1>6, <1>7, <1>8, LoginSeatsMatch, TickedSeatsMatch DEF Next

\* Whoever pays and however poor: the seats and the room ids of the clients the
\* lobby holds part by an entry whose money is refused, and by nothing else.
THEOREM SeatsPartByRefusalOnly == Spec => OnlyRefusalsMisplace
<1>1. Inv /\ [Next]_vars =>
        [SeatsMatchRooms =>
           SeatsMatchRooms' \/ \E c \in known, r \in Rooms : SeatedThoughRefused(c, r)]_vars
  BY SeatsPart
<1>2. QED
  BY <1>1, Invariance, PTL DEF Spec, OnlyRefusalsMisplace

=============================================================================
