---------------------------- MODULE RoundSettle ----------------------------
(***************************************************************************)
(* The settlement of a round (Game13::calcRound): every hand is compared   *)
(* with every later one, which enters who owes whom, and then every seat's *)
(* entries are paid.  One step per pair of hands and per winner.  Duns     *)
(* count from 1, the code's from 0.                                        *)
(***************************************************************************)
EXTENDS Deck

CONSTANT Tables  \* the hands a round may end with: sequences of arranged hands

ASSUME SettleAssumption == \A t \in Tables : t \in Seq(Seq(1 .. 52))

VARIABLES data,     \* per seat: the brands of the three duns and the special one
          daQiang,  \* m_attr.daQiang is not 0
          pair,     \* the seats to be compared next
          losers,   \* per seat: what other seats owe it
          payer,    \* the winner whose entries are paid next
          prize     \* per seat

vars == <<data, daQiang, pair, losers, payer, prize>>

Seats == DOMAIN data

PlayerData(cards) ==
  LET dun == <<brandInfo(SubSeq(cards, 1, 3)), brandInfo(SubSeq(cards, 4, 8)),
               brandInfo(SubSeq(cards, 9, 13))>>
  IN [dun |-> dun, spec |-> g13SpecialBrand(cards, dun[2].b, dun[3].b)]

Init ==
  /\ \E t \in Tables : data = [k \in DOMAIN t |-> PlayerData(t[k])]
  /\ daQiang \in BOOLEAN
  /\ pair = [i |-> 1, j |-> 2]
  /\ losers = [k \in Seats |-> <<>>]
  /\ payer = 1
  /\ prize = [k \in Seats |-> 0]

-----------------------------------------------------------------------------
(* Comparing. *)

Comparing == pair.i < Len(data)
NextRow == [i |-> pair.i + 1, j |-> pair.i + 2]

\* Mutant: the inner loop stops before the last seat.
NextPairShort == IF pair.j < Len(data) - 1 THEN [pair EXCEPT !.j = @ + 1] ELSE NextRow

NextPair == IF pair.j < Len(data) THEN [pair EXCEPT !.j = @ + 1] ELSE NextRow

I == data[pair.i]
J == data[pair.j]

\* losers[seat] = {points, shot}
Entered(entries, seat, points, shot) ==
  [k \in DOMAIN entries \cup {seat} |->
     IF k = seat THEN [points |-> points, shot |-> shot] ELSE entries[k]]

Owe(winner, loser, points, shot) ==
  losers' = [losers EXCEPT ![winner] = Entered(@, loser, points, shot)]

SpecPrize(spec) ==
  CASE spec = flushStriaght -> 104
    [] spec = fullStraight -> 52
    [] spec \in {royal, tripleStraightFlush, tripleBombs} -> 26
    [] spec = none -> 0
    [] OTHER -> 6

\* Two special brands with the same last digit are a draw.  Otherwise the
\* winner's prize is entered under its own seat.
CompareSpecial ==
  /\ Comparing
  /\ I.spec # J.spec
  /\ LET w == IF I.spec % 10 > J.spec % 10 THEN pair.i ELSE pair.j
     IN IF I.spec % 10 = J.spec % 10 THEN UNCHANGED losers
        ELSE Owe(w, w, SpecPrize(data[w].spec), FALSE)
  /\ pair' = NextPair
  /\ UNCHANGED <<data, daQiang, payer, prize>>

\* 1: the first hand wins a dun, 2: the second.  The second and the third dun
\* are both decided by the second of the one and the third of the other hand.
dunCmps(x, y) ==
  <<cmpBrandInfo(x.dun[1], y.dun[1]), cmpBrandInfo(x.dun[2], y.dun[3]),
    cmpBrandInfo(x.dun[2], y.dun[3])>>

\* What the brand of a won dun adds to its point.
Extra(d, b) ==
  CASE d = 1 /\ b = threeOfKind -> 2
    [] d = 2 /\ b = fullHouse -> 1
    [] d = 2 /\ b = fourOfKind -> 7
    [] d = 2 /\ b = straightFlush -> 9
    [] d = 2 /\ b = fiveOfKind -> 19
    [] d = 3 /\ b = fourOfKind -> 3
    [] d = 3 /\ b = straightFlush -> 4
    [] d = 3 /\ b = fiveOfKind -> 9
    [] OTHER -> 0

\* Mutant: the extra points of the second hand are added, not taken.
dunPrizePlus(x, y) ==
  [d \in 1 .. 3 |->
    CASE dunCmps(x, y)[d] = 1 -> 1 + Extra(d, x.dun[d].b)
      [] dunCmps(x, y)[d] = 2 -> -1 + Extra(d, y.dun[d].b)
      [] OTHER -> 0]

dunPrize(x, y) ==
  [d \in 1 .. 3 |->
    CASE dunCmps(x, y)[d] = 1 -> 1 + Extra(d, x.dun[d].b)
      [] dunCmps(x, y)[d] = 2 -> -1 - Extra(d, y.dun[d].b)
      [] OTHER -> 0]

Total(p) == p[1] + p[2] + p[3]
Sweep(p) == \A d \in 1 .. 3 : p[d] > 0

\* A draw ends the row.  Since the total is unsigned where it is compared with
\* 0, the first hand is the winner of any other total, also of a negative one;
\* and a sweep of the second hand is no case of its own, because the second
\* test of the code is the first one again.
CompareNormal ==
  /\ Comparing
  /\ I.spec = J.spec
  /\ LET p == dunPrize(I, J)
         draw == Total(p) = 0
     IN /\ IF daQiang /\ ~draw THEN Owe(pair.i, pair.j, Total(p), Sweep(p)) ELSE UNCHANGED losers
        /\ pair' = IF daQiang /\ draw THEN NextRow ELSE NextPair
  /\ UNCHANGED <<data, daQiang, payer, prize>>

-----------------------------------------------------------------------------
(* Paying.  quanLeiDa is set to FALSE and never to TRUE: it doubles nothing. *)

Paying == ~Comparing /\ payer <= Len(data)

Due(w, l) == (IF losers[w][l].shot THEN 2 ELSE 1) * losers[w][l].points

Gain(w) == SumFunction([l \in DOMAIN losers[w] |-> Due(w, l)])

\* Mutant: a shot loser pays once what the winner gains twice.
PayWinnerTwice ==
  /\ Paying
  /\ prize' = [k \in Seats |->
       prize[k] + (IF k = payer THEN Gain(payer) ELSE 0)
                - (IF k \in DOMAIN losers[payer] THEN losers[payer][k].points ELSE 0)]
  /\ payer' = payer + 1
  /\ UNCHANGED <<data, daQiang, pair, losers>>

PayWinner ==
  /\ Paying
  /\ prize' = [k \in Seats |->
       prize[k] + (IF k = payer THEN Gain(payer) ELSE 0)
                - (IF k \in DOMAIN losers[payer] THEN Due(payer, k) ELSE 0)]
  /\ payer' = payer + 1
  /\ UNCHANGED <<data, daQiang, pair, losers>>

Next == CompareSpecial \/ CompareNormal \/ PayWinner

Spec == Init /\ [][Next]_vars

-----------------------------------------------------------------------------
(* Correctness. *)

Entry == [points : Int, shot : BOOLEAN]

\* Types of the settlement: the next pair is one of the table, entries belong to
\* seats of the table.
TypeOK ==
  /\ daQiang \in BOOLEAN
  /\ pair.i \in 1 .. Len(data) /\ pair.j \in Nat
  /\ Comparing => pair.j \in pair.i + 1 .. Len(data)
  /\ DOMAIN losers = Seats
  /\ \A w \in Seats : DOMAIN losers[w] \subseteq Seats /\ \A l \in DOMAIN losers[w] : losers[w][l] \in Entry
  /\ payer \in 1 .. Len(data) + 1
  /\ prize \in [Seats -> Int]

\* What the winners gain is what the losers pay, after every winner that is paid.
ZeroSum == SumFunction(prize) = 0

\* No two seats owe each other: a pair of hands is entered once.
OnePayment ==
  \A w, l \in Seats : w # l /\ l \in DOMAIN losers[w] => w \notin DOMAIN losers[l]

Draw(x, y) == x.spec = y.spec /\ Total(dunPrize(x, y)) = 0

\* When the payments begin, every two ordinary hands have been compared, except
\* behind a hand that drew with the first of the two.
ComparedUntilDraw ==
  daQiang /\ ~Comparing =>
    \A i, j \in Seats : i < j /\ data[i].spec = data[j].spec /\ j \notin DOMAIN losers[i] =>
      \E k \in i + 1 .. j : Draw(data[i], data[k])

Settled == payer > Len(data)

\* Dun b does not beat dun a.
Holds(a, b) == cmpBrandInfo(a, b) # 2 /\ cmpBrandInfo(b, a) # 1

\* Seat t's head does not beat seat s's, nor does one of its duns of five beat one
\* of seat s's, whichever two of them are compared.
NotBeaten(s, t) ==
  /\ Holds(data[s].dun[1], data[t].dun[1])
  /\ \A d, e \in {2, 3} : Holds(data[s].dun[d], data[t].dun[e])

\* A player none of whose duns is beaten by any dun of its size does not lose points
\* in the round.
UnbeatenNeverPays ==
  Settled =>
    \A s \in Seats : (\A t \in Seats \ {s} : NotBeaten(s, t)) => prize[s] >= 0

-----------------------------------------------------------------------------
(* What the comments say, and the code does not do. *)

\* A special hand that beats the others wins its prize from each of them
\* (game13.cpp:976: the dragon wins 104 points from every player).
SpecialBrandPays ==
  Settled =>
    \A s \in Seats : (\A t \in Seats \ {s} : data[s].spec % 10 > data[t].spec % 10) =>
      prize[s] = SpecPrize(data[s].spec) * (Len(data) - 1)

\* The same duns are compared, each with the one at its place (game13.cpp:1027-1029:
\* a point is won or lost for the same dun), so a player whose duns hold against
\* those at their places does not lose points in a round of ordinary hands.
LikeDunsDecide ==
  Settled /\ (\A k \in Seats : data[k].spec = none) =>
    \A s \in Seats :
      (\A t \in Seats \ {s}, d \in 1 .. 3 : Holds(data[s].dun[d], data[t].dun[d])) =>
        prize[s] >= 0

\* Every two hands are compared (game13.cpp:1206: they are through pair by pair, and
\* every single comparison counts): two ordinary hands that did not draw owe.
AllPairsCount ==
  daQiang /\ ~Comparing =>
    \A i, j \in Seats :
      i < j /\ data[i].spec = data[j].spec /\ ~ Draw(data[i], data[j]) => j \in DOMAIN losers[i]

\* Seat s beats seat t's head, and with each of its duns of five both of seat t's.
Sweeps(s, t) ==
  /\ cmpBrandInfo(data[s].dun[1], data[t].dun[1]) = 1
  /\ \A d, e \in {2, 3} : cmpBrandInfo(data[s].dun[d], data[t].dun[e]) = 1

\* Whoever beats another player in all three duns takes twice the points from it
\* (game13.cpp:1171-1172), so what is entered between the two is a shot.
SweepsAreShots ==
  \A s, t \in Seats :
    data[s].spec = data[t].spec /\ Sweeps(s, t) =>
      /\ t \in DOMAIN losers[s] => losers[s][t].shot
      /\ s \in DOMAIN losers[t] => losers[t][s].shot

=============================================================================
