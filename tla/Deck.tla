-------------------------------- MODULE Deck --------------------------------
(***************************************************************************)
(* Cards, and the brand (the poker rank) of a dun of three or five cards   *)
(* and of all thirteen cards of a player: processes/lobby/deck.h and       *)
(* deck.cpp.  A chain of checks "strongest brand first" of the code is the *)
(* greatest brand whose test the cards pass, because the brands' values    *)
(* fall along each chain.  Positions count from 1.                         *)
(***************************************************************************)
EXTENDS Integers, Sequences, SequencesExt, FiniteSetsExt

suit(c) == (c - 1) \div 13
rank(c) == (c - 1) % 13

r5 == 3
r8 == 6
rJ == 9
rA == 12

\* Brands.
fiveOfKind == 9
straightFlush == 8
fourOfKind == 7
fullHouse == 6
flush == 5
straight == 4
threeOfKind == 3
twoPairs == 2
onePair == 1
hightCard == 0

lessCard(c, d) ==
  IF rank(c) # rank(d) THEN rank(c) < rank(d) ELSE suit(c) < suit(d)

\* Ranks and suits of the cards as std::sort leaves them.
Ranks(cards) == LET c == SortSeq(cards, lessCard) IN [k \in DOMAIN c |-> rank(c[k])]
Suits(cards) == LET c == SortSeq(cards, lessCard) IN [k \in DOMAIN c |-> suit(c[k])]

\* Positions from a to b hold the same rank.
Same(r, a, b) == r[a] = r[b]

OneSuit(s) == \A k \in DOMAIN s : s[k] = s[1]
InARow(r) == \A k \in 2 .. Len(r) : r[k] = r[k-1] + 1

\* Five ranks in a row, or 2 3 4 5 A.
isStraight(r) == InARow(r) \/ r = <<0, 1, 2, r5, rA>>

\* The ways in which five sorted cards hold two pairs, in the order of the
\* checks: the ends of the higher and of the lower pair, the single card.
TwoPairsAt(r) ==
  SelectSeq(<< <<4, 2, 5>>, <<5, 2, 3>>, <<5, 3, 1>> >>,
            LAMBDA p : Same(r, p[1] - 1, p[1]) /\ Same(r, p[2] - 1, p[2]))

\* The cards that equal the one before them.
PairsAt(r) == {k \in 2 .. Len(r) : Same(r, k - 1, k)}

Passes5(b, r, s) ==
  \/ b = fiveOfKind /\ Same(r, 1, 5)
  \/ b = straightFlush /\ isStraight(r) /\ OneSuit(s)
  \/ b = fourOfKind /\ (Same(r, 1, 4) \/ Same(r, 2, 5))
  \/ b = fullHouse /\ Same(r, 1, 2) /\ Same(r, 4, 5) /\ r[3] \in {r[1], r[5]}
  \/ b = flush /\ OneSuit(s)
  \/ b = straight /\ isStraight(r)
  \/ b = threeOfKind /\ (Same(r, 1, 3) \/ Same(r, 3, 5) \/ Same(r, 2, 4))
  \/ b = twoPairs /\ TwoPairsAt(r) # <<>>
  \/ b = onePair /\ PairsAt(r) # {}
  \/ b = hightCard

brand5(cards) ==
  Max({b \in hightCard .. fiveOfKind : Passes5(b, Ranks(cards), Suits(cards))})

\* Values as the digits of a number to the base 14, the last one first.
Digits(v) == MapThenSumSet(LAMBDA k : v[k] * 14^(k - 1), DOMAIN v)

\* Mutant: the cards count one by one, whether they are paired or not.
PairPointFlat(v) == Digits(v)

\* The points of five cards by their pairs and single cards.
PairPoint(v) ==
  LET two == TwoPairsAt(v)
      p == Min(PairsAt(v))
  IN IF two # <<>>
     THEN v[two[1][1]] * 14^6 + v[two[1][2]] * 14^5 + v[two[1][3]]
     ELSE IF PairsAt(v) # {}
          THEN v[p] * 14^5 + Digits(SubSeq(v, 1, p - 2) \o SubSeq(v, p + 1, Len(v)))
          ELSE Digits(v)

\* The middle card belongs to every group of three and more; a straight counts
\* by its highest card, 2 3 4 5 A as the second best.
Point5(b, r) ==
  LET v == [k \in DOMAIN r |-> r[k] + 1]
  IN CASE b \in {fiveOfKind, fourOfKind, fullHouse, threeOfKind} -> v[3]
       [] b \in {straightFlush, straight} ->
            IF r[5] # rA THEN v[5] ELSE IF r[1] = 0 THEN 14 ELSE 15
       [] OTHER -> PairPoint(v)

brandInfo5(cards) == [b |-> brand5(cards), point |-> Point5(brand5(cards), Ranks(cards))]

\* The code weighs a low pair by 14^3 and a high one by 14^4.
brandInfo3(cards) ==
  LET r == Ranks(cards)
      v == [k \in DOMAIN r |-> r[k] + 2]
  IN IF Same(r, 1, 3) THEN [b |-> threeOfKind, point |-> v[3]]
     ELSE IF Same(r, 1, 2) THEN [b |-> onePair, point |-> v[2] * 14^3 + v[3]]
     ELSE IF Same(r, 2, 3) THEN [b |-> onePair, point |-> v[3] * 14^4 + v[1]]
     ELSE [b |-> hightCard, point |-> Digits(v)]

brandInfo(cards) == IF Len(cards) = 3 THEN brandInfo3(cards) ELSE brandInfo5(cards)

\* 0: equal, 1: the first is greater, 2: the second is greater.
cmpBrandInfo(x, y) ==
  IF x.b # y.b THEN IF x.b > y.b THEN 1 ELSE 2
  ELSE IF x.point # y.point THEN IF x.point > y.point THEN 1 ELSE 2
  ELSE 0

-----------------------------------------------------------------------------
(* Special brands of all thirteen cards; their last digit is what counts. *)

flushStriaght == 135
fullStraight == 124
royal == 113
tripleStraightFlush == 103
tripleBombs == 93
allBig == 82
allLittle == 72
redOrBlack == 62
quradThreeOfKind == 52
pentaPairsAndThreeOfKind == 42
sixPairs == 32
tripleStraight == 22
tripleFlush == 12
none == 0

\* The head as the code sees it: three cards of the same rank are its "straight".
g13SpecialBrandByDun(head, b2, b3) ==
  LET isRow == Same(Ranks(head), 1, 2) /\ Same(Ranks(head), 2, 3)
      isFlush == OneSuit(Suits(head))
  IN Max({none}
         \cup {v \in {tripleStraightFlush} : isRow /\ isFlush /\ b2 = straightFlush /\ b3 = straightFlush}
         \cup {v \in {tripleStraight} : isRow /\ b2 = straight /\ b3 = straight}
         \cup {v \in {tripleFlush} : isFlush /\ b2 = flush /\ b3 = flush})

\* Thirteen sorted cards are one single card and groups of n of a kind.
Groups(r, n) ==
  \E single \in {k \in 1 .. 13 : k % n = 1} :
    LET rest == RemoveAt(r, single)
    IN \A k \in {x \in 1 .. 12 : x % n = 1} : Same(rest, k, k + n - 1)

\* Mutant: the walk goes on two cards behind three of a kind.
PairWalkShort(r) ==
  LET walk[k \in 1 .. 14] ==
        IF k >= 12
        THEN [pairs |-> IF Same(r, 12, 13) /\ ~Same(r, 11, 13) THEN 1 ELSE 0, three |-> FALSE]
        ELSE IF ~Same(r, k, k + 1) THEN walk[k + 1]
        ELSE IF Same(r, k + 1, k + 2) THEN [walk[k + 2] EXCEPT !.three = TRUE]
        ELSE [walk[k + 2] EXCEPT !.pairs = @ + 1]
  IN walk[1]

\* The walk that counts pairs: it passes over three of a kind, and the last
\* two cards are looked at first.
PairWalk(r) ==
  LET walk[k \in 1 .. 14] ==
        IF k >= 12
        THEN [pairs |-> IF Same(r, 12, 13) /\ ~Same(r, 11, 13) THEN 1 ELSE 0, three |-> FALSE]
        ELSE IF ~Same(r, k, k + 1) THEN walk[k + 1]
        ELSE IF Same(r, k + 1, k + 2) THEN [walk[k + 3] EXCEPT !.three = TRUE]
        ELSE [walk[k + 2] EXCEPT !.pairs = @ + 1]
  IN walk[1]

Passes13(v, r, s) ==
  \/ v = flushStriaght /\ InARow(r) /\ OneSuit(s)
  \/ v = fullStraight /\ InARow(r)
  \/ v = royal /\ r[1] >= rJ
  \/ v = tripleBombs /\ Groups(r, 4)
  \/ v = allBig /\ r[1] >= r8
  \/ v = allLittle /\ r[13] <= r8
  \/ v = redOrBlack /\ \A k, l \in DOMAIN s : s[k] % 2 = s[l] % 2
  \/ v = quradThreeOfKind /\ Groups(r, 3)
  \/ v = pentaPairsAndThreeOfKind /\ PairWalk(r) = [pairs |-> 5, three |-> TRUE]
  \/ v = sixPairs /\ PairWalk(r).pairs = 6

SpecialOfAll == {flushStriaght, fullStraight, royal, tripleBombs, allBig, allLittle,
                 redOrBlack, quradThreeOfKind, pentaPairsAndThreeOfKind, sixPairs}

g13SpecialBrandByAll(cards, dun) ==
  LET r == Ranks(cards)
      s == Suits(cards)
  IN Max({dun} \cup {v \in SpecialOfAll : Passes13(v, r, s)})

g13SpecialBrand(cards, b2, b3) ==
  g13SpecialBrandByAll(cards, g13SpecialBrandByDun(SubSeq(cards, 1, 3), b2, b3))

=============================================================================
