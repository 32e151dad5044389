------------------------------- MODULE MCCards -------------------------------
(***************************************************************************)
(* The ranking of Deck against the rules of the game: two duns of the same *)
(* size drawn from one deck, and thirteen cards in which the lengths of    *)
(* the runs of equal ranks take every value a deck allows.  And rounds to  *)
(* settle: hands as they may lie on the table after a deal from one deck,  *)
(* taken by two, three or four players in any order of seats.              *)
(***************************************************************************)
EXTENDS RoundSettle, FiniteSets, TLC

CONSTANTS Decks,     \* sequences of cards, parts of the decks the lobby deals
          MaxOfRank  \* cards of one rank in a deck

\* Low cards, high cards, and both ends of the row of ranks.  The deck "with one
\* more suit" really has spades twice and no diamonds (game13.cpp:608); all three
\* are parts of it, the last two also of the ordinary deck.
Low == <<40, 40, 41, 41, 42, 43, 52, 27, 28, 29, 39, 14, 26>>
High == <<47, 48, 49, 50, 51, 52, 34, 35, 36, 37, 38, 39, 21>>
Ends == <<40, 27, 41, 28, 29, 43, 44, 35, 49, 50, 38, 52, 39>>
PartsOfDecks == {Low, High, Ends}

VARIABLES deck,    \* the deck
          mine,    \* places in the deck of the first dun
          theirs,  \* and of the second
          run      \* thirteen sorted ranks in the making

drawVars == <<deck, mine, theirs, run>>

DrawInit == deck \in Decks /\ mine = {} /\ theirs = {} /\ run = <<0>>

DrawMine ==
  /\ mine = {} /\ Len(run) = 1
  /\ \E n \in {3, 5} : mine' \in kSubset(n, DOMAIN deck)
  /\ UNCHANGED <<deck, theirs, run>>

DrawTheirs ==
  /\ mine # {} /\ theirs = {}
  /\ theirs' \in kSubset(Cardinality(mine), (Min(mine) .. Len(deck)) \ mine)
  /\ UNCHANGED <<deck, mine, run>>

\* The next card has the rank of the last one, or the next rank: only the
\* lengths of the runs matter to the count of pairs, triples and quads.
AddCard ==
  /\ mine = {} /\ Len(run) < 13
  /\ \E v \in {Last(run), Last(run) + 1} :
       /\ Len(SelectSeq(run, LAMBDA x : x = v)) < MaxOfRank
       /\ run' = Append(run, v)
  /\ UNCHANGED <<deck, mine, theirs>>

NoDeck == deck = <<>> /\ mine = {} /\ theirs = {} /\ run = <<0>>
NoRound ==
  /\ data = <<>> /\ daQiang = FALSE /\ pair = [i |-> 1, j |-> 2]
  /\ losers = <<>> /\ payer = 1 /\ prize = <<>>

\* Each behavior draws cards or settles a round.
CardsInit == (DrawInit /\ NoRound) \/ (Init /\ NoDeck)

Drawing == deck # <<>> /\ (DrawMine \/ DrawTheirs \/ AddCard) /\ UNCHANGED vars
Settling == deck = <<>> /\ Next /\ UNCHANGED drawVars

CardsSpec == CardsInit /\ [][Drawing \/ Settling]_<<drawVars, vars>>

-----------------------------------------------------------------------------
(* Rounds. *)

\* Ordinary hands; the dragon; royals and bombs, which draw; six pairs and a red
\* hand, which draw; a round with a draw of ordinary hands; quads and straight
\* flushes; a hand that wins all three duns.  Each hand: three, five and five cards.
Deals == {
  <<<<39, 52, 26, 12, 19, 10, 28, 37, 44, 50, 51, 49, 41>>,
    <<5, 3, 13, 33, 29, 32, 27, 35, 18, 22, 15, 21, 20>>,
    <<14, 1, 7, 9, 38, 36, 25, 24, 6, 46, 43, 31, 8>>,
    <<4, 30, 17, 11, 16, 2, 34, 23, 47, 42, 45, 48, 40>>>>,
  <<<<40, 41, 42, 43, 44, 45, 46, 47, 48, 49, 50, 51, 52>>,
    <<13, 39, 26, 37, 32, 18, 15, 14, 9, 7, 4, 6, 5>>,
    <<8, 12, 1, 36, 29, 31, 30, 28, 21, 23, 16, 22, 19>>,
    <<11, 24, 2, 3, 17, 10, 20, 25, 38, 35, 33, 34, 27>>>>,
  <<<<10, 23, 36, 49, 13, 12, 25, 38, 50, 11, 24, 37, 51>>,
    <<1, 14, 27, 2, 15, 28, 41, 40, 3, 16, 29, 42, 4>>,
    <<46, 7, 33, 21, 47, 44, 34, 31, 52, 22, 35, 48, 9>>,
    <<43, 17, 30, 8, 18, 5, 39, 26, 20, 45, 19, 6, 32>>>>,
  <<<<1, 14, 45, 2, 15, 3, 16, 4, 5, 18, 8, 21, 17>>,
    <<27, 28, 7, 29, 31, 33, 35, 37, 34, 36, 38, 39, 6>>,
    <<19, 32, 30, 12, 20, 9, 22, 10, 51, 50, 49, 40, 41>>,
    <<52, 13, 26, 48, 24, 11, 23, 25, 44, 47, 43, 46, 42>>>>,
  <<<<1, 15, 32, 8, 21, 34, 3, 16, 13, 26, 39, 12, 25>>,
    <<4, 17, 30, 44, 45, 46, 47, 9, 40, 42, 49, 50, 52>>,
    <<41, 2, 14, 37, 38, 29, 6, 11, 33, 35, 22, 20, 7>>,
    <<31, 18, 5, 51, 27, 28, 19, 43, 48, 24, 10, 23, 36>>>>,
  <<<<1, 15, 33, 8, 21, 34, 47, 16, 48, 49, 50, 51, 52>>,
    <<5, 18, 31, 6, 19, 32, 45, 3, 41, 42, 43, 44, 40>>,
    <<9, 35, 22, 46, 14, 39, 23, 36, 2, 4, 7, 12, 13>>,
    <<37, 11, 24, 38, 20, 25, 10, 17, 29, 28, 26, 27, 30>>>>,
  <<<<8, 21, 34, 3, 16, 29, 12, 25, 43, 44, 45, 46, 47>>,
    <<5, 9, 22, 36, 37, 33, 19, 10, 18, 2, 40, 17, 42>>,
    <<7, 20, 28, 26, 24, 38, 39, 11, 27, 35, 48, 1, 14>>,
    <<15, 4, 30, 13, 32, 6, 31, 23, 50, 52, 51, 49, 41>>>>}

MCTables ==
  {[k \in DOMAIN p |-> d[p[k]]] :
     d \in Deals, p \in UNION {{q \in [1 .. n -> 1 .. 4] : IsInjective(q)} : n \in 2 .. 4}}

-----------------------------------------------------------------------------
(* The rules. *)

Cards(places) ==
  LET at == SelectSeq([k \in DOMAIN deck |-> k], LAMBDA k : k \in places)
  IN [k \in DOMAIN at |-> deck[at[k]]]

CountOf(r, v) == Cardinality({k \in DOMAIN r : r[k] = v})

\* The ranks of some cards, those that occur more often first, higher ones
\* before lower ones.
ByGroup(r) ==
  SortSeq(SelectSeq([k \in 1 .. 13 |-> k - 1], LAMBDA v : CountOf(r, v) > 0),
    LAMBDA v, w : CountOf(r, v) * 13 + v > CountOf(r, w) * 13 + w)

Counts(r) == LET g == ByGroup(r) IN [k \in DOMAIN g |-> CountOf(r, g[k])]

Straight5(r) ==
  /\ Len(ByGroup(r)) = 5
  /\ ByGroup(r)[1] - ByGroup(r)[5] = 4 \/ ByGroup(r) = <<12, 3, 2, 1, 0>>

OneSuit5(c) == Len(c) = 5 /\ \A k \in DOMAIN c : suit(c[k]) = suit(c[1])

\* The strength of a dun as a sequence: two duns compare by the first place in
\* which their sequences differ.  10 J Q K A is the best straight and
\* 2 3 4 5 A the second best.
Strength(c) ==
  LET r == [k \in DOMAIN c |-> rank(c[k])]
      n == Counts(r)
      kind == CASE n[1] = 5 -> 9
                [] Straight5(r) /\ OneSuit5(c) -> 8
                [] n[1] = 4 -> 7
                [] n[1] = 3 /\ Len(n) = 2 -> 6
                [] OneSuit5(c) -> 5
                [] Straight5(r) -> 4
                [] n[1] = 3 /\ Len(n) # 2 -> 3
                [] OTHER -> IF n[1] = 1 THEN 0 ELSE IF Len(n) > 1 /\ n[2] = 2 THEN 2 ELSE 1
  IN <<kind>> \o n \o ByGroup(r)

Better(p, q) ==
  \E k \in DOMAIN p \cap DOMAIN q : p[k] > q[k] /\ \A l \in 1 .. k - 1 : p[l] = q[l]

Rule(c, d) ==
  IF Better(Strength(c), Strength(d)) THEN 1 ELSE IF Better(Strength(d), Strength(c)) THEN 2 ELSE 0

Compared(c, d) == cmpBrandInfo(brandInfo(c), brandInfo(d))

-----------------------------------------------------------------------------
(* Correctness. *)

\* Two duns of five cards that can be dealt from one deck compare as the rules
\* say, although the code packs a hand into one number, drops the cards beside a
\* group of three and more, and knows two odd straights.
FivesCompareByRule ==
  theirs # {} /\ Cardinality(mine) = 5 =>
    Compared(Cards(mine), Cards(theirs)) = Rule(Cards(mine), Cards(theirs))

\* The single card of a pair is on the same side of it in both heads.
SameSide(c, d) ==
  brandInfo(c).b = onePair /\ brandInfo(d).b = onePair =>
    PairsAt(Ranks(c)) = PairsAt(Ranks(d))

\* Heads compare as the rules say, pairs as long as their single cards are
\* higher than both pairs or lower than both: a low pair and a high one do not
\* have the same weight in the code.
HeadsCompareByRule ==
  theirs # {} /\ Cardinality(mine) = 3 /\ SameSide(Cards(mine), Cards(theirs)) =>
    Compared(Cards(mine), Cards(theirs)) = Rule(Cards(mine), Cards(theirs))

\* Duns of the same size compare by the rules of the game.
DunsCompareByRule == FivesCompareByRule /\ HeadsCompareByRule

RanksWith(n) == {v \in 0 .. Last(run) : CountOf(run, v) = n}

\* The walk over thirteen cards finds every pair, wherever the triples and quads
\* between them are, and takes no part of these for a pair.
PairsCounted ==
  Len(run) = 13 =>
    PairWalk(run) = [pairs |-> Cardinality(RanksWith(2)),
                     three |-> \E v \in 0 .. Last(run) : CountOf(run, v) >= 3]

\* The position tests for three quads and for four triples find them wherever
\* the single card is, also when it is the fourth of a triple's rank.
GroupsCounted ==
  Len(run) = 13 =>
    \A n \in {3, 4} :
      Groups(run, n) <=> MapThenSumSet(LAMBDA v : CountOf(run, v) \div n, 0 .. Last(run)) * n >= 12

\* Thirteen sorted cards are counted right, wherever their groups are.
RunsCounted == PairsCounted /\ GroupsCounted

-----------------------------------------------------------------------------
(* What a comment says, and the code does not do. *)

\* Heads, too, compare by the rules of poker (deck.h:45: the names of the brands are
\* those of Texas hold'em, and the rules are the same), pairs by their rank first.
HeadsRankAsPoker ==
  theirs # {} /\ Cardinality(mine) = 3 =>
    Compared(Cards(mine), Cards(theirs)) = Rule(Cards(mine), Cards(theirs))

=============================================================================
