------------------------- MODULE RoundSettleProofs -------------------------
EXTENDS RoundSettle, FiniteSetTheorems, SequenceTheorems, WellFoundedInduction, TLAPS

(* Theorems about RoundSettle, for any tables and any hands. *)

\* The pair has been looked at.
Passed(i, j) == i < pair.i \/ (i = pair.i /\ j < pair.j)

\* The loop's variables, and the seats of the tables.
LoopOK ==
  /\ Len(data) \in Nat /\ Seats = 1 .. Len(data)
  /\ pair \in [i : Nat, j : Nat]
  /\ 1 <= pair.i /\ pair.i < pair.j
  /\ Comparing => pair.j <= Len(data)
  /\ DOMAIN losers = Seats

\* Only the first hand of a pair gets an entry against the second; the prize of
\* a special hand is under its own seat.
EntriesPointForward == \A w \in Seats : \A l \in DOMAIN losers[w] : l \in Seats /\ w <= l

\* Every pair that was looked at was entered, or lies behind a draw of its row.
PassedOrDrawn ==
  daQiang =>
    \A i, j \in Seats :
      i < j /\ Passed(i, j) /\ data[i].spec = data[j].spec /\ j \notin DOMAIN losers[i] =>
        \E k \in i + 1 .. j : Draw(data[i], data[k])

Inv == LoopOK /\ EntriesPointForward /\ PassedOrDrawn

-----------------------------------------------------------------------------

\* An entry is added to one seat, and those that were there stay.
LEMMA OweAdds ==
  ASSUME LoopOK, NEW w \in Seats, NEW l, NEW points, NEW shot, Owe(w, l, points, shot)
  PROVE  /\ DOMAIN losers' = Seats
         /\ \A v \in Seats : DOMAIN losers'[v] = DOMAIN losers[v] \cup IF v = w THEN {l} ELSE {}
BY DEF Owe, Entered, LoopOK

\* The next pair is one of the table or ends the comparison, and a pair that is
\* passed by it was passed already, or is the current one.
LEMMA NextPairInLoop ==
  ASSUME LoopOK, Comparing
  PROVE  /\ NextPair \in [i : Nat, j : Nat] /\ NextRow \in [i : Nat, j : Nat]
         /\ 1 <= NextPair.i /\ NextPair.i < NextPair.j
         /\ 1 <= NextRow.i /\ NextRow.i < NextRow.j
         /\ NextPair.i < Len(data) => NextPair.j <= Len(data)
         /\ NextRow.i < Len(data) => NextRow.j <= Len(data)
         /\ \A i, j \in Seats : i < j /\ (i < NextPair.i \/ (i = NextPair.i /\ j < NextPair.j)) =>
              Passed(i, j) \/ (i = pair.i /\ j = pair.j)
         /\ \A i, j \in Seats : i < j /\ (i < NextRow.i \/ (i = NextRow.i /\ j < NextRow.j)) =>
              Passed(i, j) \/ (i = pair.i /\ pair.j <= j)
<1>1. pair.i \in Nat /\ pair.j \in Nat /\ Len(data) \in Nat
  BY DEF LoopOK
<1>2. /\ NextRow.i = pair.i + 1 /\ NextRow.j = pair.i + 2
      /\ NextRow \in [i : Nat, j : Nat]
  BY <1>1 DEF NextRow
<1>3. CASE pair.j < Len(data)
  <2>1. NextPair.i = pair.i /\ NextPair.j = pair.j + 1 /\ NextPair \in [i : Nat, j : Nat]
    BY <1>1, <1>3 DEF NextPair, LoopOK
  <2>2. QED
    BY <1>1, <1>2, <1>3, <2>1 DEF LoopOK, Comparing, Passed
<1>4. CASE ~(pair.j < Len(data))
  <2>1. NextPair = NextRow
    BY <1>4 DEF NextPair
  <2>2. QED
    BY <1>1, <1>2, <1>4, <2>1 DEF LoopOK, Comparing, Passed
<1>5. QED
  BY <1>3, <1>4

LEMMA InvInit == Init => Inv
<1> SUFFICES ASSUME Init PROVE Inv
  OBVIOUS
<1>1. PICK t \in Tables : data = [k \in DOMAIN t |-> PlayerData(t[k])]
  BY DEF Init
<1>2. Len(t) \in Nat /\ DOMAIN t = 1 .. Len(t)
  BY SettleAssumption
<1>3. data \in [1 .. Len(t) -> {PlayerData(t[k]) : k \in DOMAIN t}]
  BY <1>1, <1>2
<1>4. Len(data) \in Nat /\ DOMAIN data = 1 .. Len(data)
  BY <1>2, <1>3
<1>5. LoopOK
  BY <1>4 DEF Init, LoopOK, Seats, Comparing
<1>6. EntriesPointForward
  BY DEF Init, EntriesPointForward
<1>7. PassedOrDrawn
  BY <1>4 DEF Init, PassedOrDrawn, Passed, Seats
<1>8. QED
  BY <1>5, <1>6, <1>7 DEF Inv

\* The comparison of special hands passes one pair, whose brands differ.
LEMMA SpecialStep == Inv /\ CompareSpecial => Inv'
<1> SUFFICES ASSUME Inv, CompareSpecial PROVE Inv'
  OBVIOUS
<1>1. LoopOK /\ Comparing /\ pair' = NextPair /\ data' = data /\ daQiang' = daQiang
  BY DEF Inv, CompareSpecial
<1>2. Seats' = Seats /\ pair.i \in Seats /\ pair.j \in Seats
  BY <1>1 DEF LoopOK, Seats, Comparing
<1>3. /\ DOMAIN losers' = Seats
      /\ \A v \in Seats : \/ DOMAIN losers'[v] = DOMAIN losers[v]
                          \/ DOMAIN losers'[v] = DOMAIN losers[v] \cup {v}
  <2>1. CASE UNCHANGED losers
    BY <2>1, <1>1 DEF LoopOK
  <2>2. CASE \E w \in Seats : Owe(w, w, SpecPrize(data[w].spec), FALSE)
    BY <2>2, <1>1, OweAdds
  <2>3. QED
    BY <2>1, <2>2, <1>2 DEF CompareSpecial
<1>4. LoopOK'
  BY <1>1, <1>2, <1>3, NextPairInLoop DEF LoopOK, Comparing
<1>5. EntriesPointForward'
  <2> SUFFICES ASSUME NEW v \in Seats, NEW l \in DOMAIN losers'[v]
               PROVE  l \in Seats /\ v <= l
    BY <1>2 DEF EntriesPointForward
  <2>1. v \in Nat
    BY <1>1 DEF LoopOK
  <2>2. l \in DOMAIN losers[v] \/ l = v
    BY <1>3
  <2>3. QED
    BY <2>1, <2>2 DEF Inv, EntriesPointForward
<1>6. PassedOrDrawn'
  <2> SUFFICES ASSUME daQiang, NEW i \in Seats, NEW j \in Seats, i < j, Passed(i, j)',
                      data[i].spec = data[j].spec, j \notin DOMAIN losers'[i]
               PROVE  \E k \in i + 1 .. j : Draw(data[i], data[k])
    BY <1>1, <1>2 DEF PassedOrDrawn
  <2>1. Passed(i, j) \/ (i = pair.i /\ j = pair.j)
    BY <1>1, <1>2, NextPairInLoop DEF Passed
  <2>2. Passed(i, j)
    BY <2>1 DEF CompareSpecial, I, J
  <2>3. j \notin DOMAIN losers[i]
    BY <1>3
  <2>4. \E k \in i + 1 .. j : Draw(data[i], data[k])
    BY <2>2, <2>3 DEF Inv, PassedOrDrawn
  <2>5. QED
    BY <2>4
<1>7. QED
  BY <1>4, <1>5, <1>6 DEF Inv

\* The comparison of ordinary hands enters the pair, or passes the rest of the row
\* after a draw.
LEMMA NormalStep == Inv /\ CompareNormal => Inv'
<1> SUFFICES ASSUME Inv, CompareNormal PROVE Inv'
  OBVIOUS
<1> DEFINE draw == Total(dunPrize(I, J)) = 0
<1>1. LoopOK /\ Comparing /\ data' = data /\ daQiang' = daQiang
  BY DEF Inv, CompareNormal
<1>2. Seats' = Seats /\ pair.i \in Seats /\ pair.j \in Seats /\ Seats \subseteq Nat
  BY <1>1 DEF LoopOK, Seats, Comparing
<1>3. /\ DOMAIN losers' = Seats
      /\ \A v \in Seats : DOMAIN losers'[v] =
           DOMAIN losers[v] \cup IF daQiang /\ ~draw /\ v = pair.i THEN {pair.j} ELSE {}
  <2>1. CASE daQiang /\ ~draw
    <3>1. Owe(pair.i, pair.j, Total(dunPrize(I, J)), Sweep(dunPrize(I, J)))
      BY <2>1 DEF CompareNormal
    <3>2. /\ DOMAIN losers' = Seats
          /\ \A v \in Seats : DOMAIN losers'[v] =
               DOMAIN losers[v] \cup IF v = pair.i THEN {pair.j} ELSE {}
      BY <3>1, <1>1, <1>2, OweAdds
    <3> HIDE DEF draw
    <3>3. QED
      BY <2>1, <3>2
  <2>2. CASE ~(daQiang /\ ~draw)
    <3>1. losers' = losers
      BY <2>2 DEF CompareNormal
    <3>2. QED
      BY <2>2, <3>1, <1>1 DEF LoopOK
  <2>3. QED
    BY <2>1, <2>2
<1>4. pair' = IF daQiang /\ draw THEN NextRow ELSE NextPair
  BY DEF CompareNormal
<1>5. LoopOK'
  BY <1>1, <1>2, <1>3, <1>4, NextPairInLoop DEF LoopOK, Comparing
<1>6. EntriesPointForward'
  BY <1>1, <1>2, <1>3 DEF Inv, EntriesPointForward, LoopOK
<1>7. PassedOrDrawn'
  <2> SUFFICES ASSUME daQiang, NEW i \in Seats, NEW j \in Seats, i < j, Passed(i, j)',
                      data[i].spec = data[j].spec, j \notin DOMAIN losers'[i]
               PROVE  \E k \in i + 1 .. j : Draw(data[i], data[k])
    BY <1>1, <1>2 DEF PassedOrDrawn
  <2>1. CASE Passed(i, j)
    <3>1. \E k \in i + 1 .. j : Draw(data[i], data[k])
      BY <2>1, <1>3 DEF Inv, PassedOrDrawn
    <3>2. QED
      BY <3>1
  <2>2. CASE ~Passed(i, j) /\ draw
    <3>1. i = pair.i /\ pair.j <= j
      BY <2>2, <1>1, <1>4, NextPairInLoop DEF Passed
    <3>2. Draw(data[i], data[pair.j])
      BY <2>2, <3>1 DEF Draw, I, J, CompareNormal
    <3>3. pair.j \in i + 1 .. j
      BY <3>1, <1>1, <1>2 DEF LoopOK
    <3>4. QED
      BY <3>2, <3>3
  <2>3. CASE ~Passed(i, j) /\ ~draw
    <3>1. i = pair.i /\ j = pair.j
      BY <2>3, <1>1, <1>4, NextPairInLoop DEF Passed
    <3>2. QED
      BY <3>1, <2>3, <1>3
  <2>4. QED
    BY <2>1, <2>2, <2>3
<1>8. QED
  BY <1>5, <1>6, <1>7 DEF Inv

LEMMA InvStep == Inv /\ [Next]_vars => Inv'
<1> SUFFICES ASSUME Inv, [Next]_vars PROVE Inv'
  OBVIOUS
<1>1. CASE CompareSpecial
  BY <1>1, SpecialStep
<1>2. CASE CompareNormal
  BY <1>2, NormalStep
<1>3. CASE UNCHANGED <<data, daQiang, pair, losers>>
  BY <1>3 DEF Inv, LoopOK, EntriesPointForward, PassedOrDrawn, Passed, Seats, Comparing
<1>4. QED
  BY <1>1, <1>2, <1>3 DEF Next, PayWinner, vars

\* A pair of hands is paid for once, by one of the two, at tables of any size.
THEOREM PairsPaidOnce == Spec => []OnePayment
<1>1. Inv => OnePayment
  BY DEF Inv, LoopOK, EntriesPointForward, OnePayment
<1>2. QED
  BY InvInit, InvStep, <1>1, PTL DEF Spec

\* What calcRound leaves out of the comparison lies behind a draw, for any hands
\* at tables of any size.
THEOREM AllComparedUntilDraw == Spec => []ComparedUntilDraw
<1>1. Inv => ComparedUntilDraw
  <2> SUFFICES ASSUME Inv, daQiang, ~Comparing, NEW i \in Seats, NEW j \in Seats,
                      i < j, data[i].spec = data[j].spec, j \notin DOMAIN losers[i]
               PROVE  \E k \in i + 1 .. j : Draw(data[i], data[k])
    BY DEF ComparedUntilDraw
  <2>1. Passed(i, j)
    BY DEF Inv, LoopOK, Comparing, Passed
  <2>2. QED
    BY <2>1 DEF Inv, PassedOrDrawn
<1>2. QED
  BY InvInit, InvStep, <1>1, PTL DEF Spec

---------------------------------------------------------------------------
(* Induction, by a least counterexample. *)

Less == {p \in Nat \X Nat : p[1] < p[2]}

LEMMA LessWF == IsWellFoundedOn(Less, Nat)
  BY NatLessThanWellFounded DEF OpToRel, Less

LEMMA LeastNat ==
  ASSUME NEW T, T \subseteq Nat, T # {}
  PROVE  \E x \in T : \A y \in T : x <= y
<1>1. \E x \in T : \A y \in T : ~ (<<y, x>> \in Less)
  BY LessWF, WFMin
<1>2. PICK x \in T : \A y \in T : <<y, x>> \notin Less
  BY <1>1
<1>3. ASSUME NEW y \in T PROVE x <= y
  <2>1. x \in Nat /\ y \in Nat /\ <<y, x>> \in Nat \X Nat
    OBVIOUS
  <2>2. <<y, x>> \notin Less
    BY <1>2
  <2>3. ~ (y < x)
    BY <2>1, <2>2 DEF Less
  <2>4. QED
    BY <2>1, <2>3
<1>4. QED
  BY <1>3

LEMMA AllNaturals ==
  ASSUME NEW S, 0 \in S, \A n \in Nat : n \in S => n + 1 \in S
  PROVE  Nat \subseteq S
<1> DEFINE T == {n \in Nat : n \notin S}
<1>1. SUFFICES ASSUME T # {} PROVE FALSE
  OBVIOUS
<1>2. PICK x \in T : \A y \in T : x <= y
  BY <1>1, LeastNat
<1>3. x - 1 \in Nat /\ x - 1 \notin T
  BY <1>2
<1>4. QED
  BY <1>2, <1>3

---------------------------------------------------------------------------
(* Sums over finite sets. *)

Pick(s) == CHOOSE x \in s : TRUE

\* One turn of the recursion of the community module.
Turn(f, g, s) == IF s = {} THEN 0 ELSE f[Pick(s)] + g[s \ {Pick(s)}]

\* g holds the sums of the subsets of S.
Sums(f, g, S) == g = [s \in SUBSET S |-> Turn(f, g, s)]

LEMMA PickIn == ASSUME NEW s, s # {} PROVE Pick(s) \in s
  BY DEF Pick

LEMMA SumIs ==
  ASSUME NEW f, NEW S
  PROVE  SumFunctionOnSet(f, S) = (CHOOSE g : Sums(f, g, S))[S]
  BY DEF SumFunctionOnSet, FoldFunctionOnSet, MapThenFoldSet, Sums, Turn, Pick

---------------------------------------------------------------------------
\* Any two tables of sums agree where they are defined by the same terms.
LEMMA SumsUnique ==
  ASSUME NEW S, IsFiniteSet(S), NEW T \in SUBSET S,
         NEW f, NEW h, \A x \in T : f[x] = h[x],
         NEW g, Sums(f, g, S), NEW k, Sums(h, k, T)
  PROVE  \A s \in SUBSET T : g[s] = k[s]
<1> DEFINE Agreed == {n \in Nat : \A s \in SUBSET T : Cardinality(s) = n => g[s] = k[s]}
<1>1. \A s \in SUBSET T : IsFiniteSet(s) /\ Cardinality(s) \in Nat
  <2> TAKE s \in SUBSET T
  <2>1. s \in SUBSET S
    OBVIOUS
  <2>2. IsFiniteSet(s)
    BY <2>1, FS_Subset
  <2>3. QED
    BY <2>2, FS_CardinalityType
<1>2. /\ \A s \in SUBSET T : g[s] = Turn(f, g, s)
      /\ \A s \in SUBSET T : k[s] = Turn(h, k, s)
  BY DEF Sums
<1>3. 0 \in Agreed
  <2>1. ASSUME NEW s \in SUBSET T, Cardinality(s) = 0 PROVE g[s] = k[s]
    <3>1. s = {}
      BY <1>1, <2>1, FS_EmptySet
    <3>2. QED
      BY <1>2, <3>1 DEF Turn
  <2>2. QED
    BY <2>1
<1>4. ASSUME NEW n \in Nat, n \in Agreed PROVE n + 1 \in Agreed
  <2>1. ASSUME NEW s \in SUBSET T, Cardinality(s) = n + 1 PROVE g[s] = k[s]
    <3>1. s # {}
      BY <2>1, FS_EmptySet
    <3>2. Pick(s) \in s
      BY <3>1, PickIn
    <3>3. Cardinality(s \ {Pick(s)}) = n
      BY <1>1, <2>1, <3>2, FS_RemoveElement
    <3>4. s \ {Pick(s)} \in SUBSET T
      OBVIOUS
    <3>5. g[s \ {Pick(s)}] = k[s \ {Pick(s)}]
      BY <1>4, <3>3, <3>4
    <3>6. f[Pick(s)] = h[Pick(s)]
      BY <3>2
    <3>7. QED
      BY <1>2, <3>1, <3>5, <3>6 DEF Turn
  <2>2. QED
    BY <2>1
<1> HIDE DEF Agreed
<1>5. Nat \subseteq Agreed
  BY <1>3, <1>4, AllNaturals
<1>6. QED
  BY <1>1, <1>5 DEF Agreed

\* There is a table of sums.
LEMMA SumsExist ==
  ASSUME NEW S, IsFiniteSet(S), NEW f
  PROVE  \E g : Sums(f, g, S)
<1> DEFINE To(n) == \E g : /\ g = [s \in SUBSET S |-> g[s]]
                          /\ \A s \in SUBSET S : Cardinality(s) <= n => g[s] = Turn(f, g, s)
<1> DEFINE Up == {n \in Nat : To(n)}
<1>1. \A s \in SUBSET S : IsFiniteSet(s) /\ Cardinality(s) \in Nat /\ Cardinality(s) <= Cardinality(S)
  BY FS_Subset, FS_CardinalityType
<1>2. 0 \in Up
  <2> DEFINE g == [s \in SUBSET S |-> 0]
  <2>1. ASSUME NEW s \in SUBSET S, Cardinality(s) <= 0 PROVE g[s] = Turn(f, g, s)
    <3>1. Cardinality(s) = 0
      BY <1>1, <2>1
    <3>2. s = {}
      BY <1>1, <3>1, FS_EmptySet
    <3>3. QED
      BY <3>2 DEF Turn
  <2>2. g = [s \in SUBSET S |-> g[s]]
    OBVIOUS
  <2> HIDE DEF g
  <2>3. QED
    BY <2>1, <2>2
<1>3. ASSUME NEW n \in Nat, n \in Up PROVE n + 1 \in Up
  <2>1. PICK g : /\ g = [s \in SUBSET S |-> g[s]]
                 /\ \A s \in SUBSET S : Cardinality(s) <= n => g[s] = Turn(f, g, s)
    BY <1>3
  <2> DEFINE h == [s \in SUBSET S |-> IF Cardinality(s) = n + 1 THEN Turn(f, g, s) ELSE g[s]]
  <2>2. \A s \in SUBSET S : h[s] = IF Cardinality(s) = n + 1 THEN Turn(f, g, s) ELSE g[s]
    OBVIOUS
  <2>3. h = [s \in SUBSET S |-> h[s]]
    OBVIOUS
  <2> HIDE DEF h
  <2>4. ASSUME NEW s \in SUBSET S, Cardinality(s) <= n + 1 PROVE h[s] = Turn(f, h, s)
    <3>1. h[s] = Turn(f, g, s)
      <4>1. CASE Cardinality(s) = n + 1
        BY <2>2, <4>1
      <4>2. CASE Cardinality(s) # n + 1
        <5>1. Cardinality(s) <= n
          BY <1>1, <2>4, <4>2
        <5>2. QED
          BY <2>1, <2>2, <4>2, <5>1
      <4>3. QED
        BY <4>1, <4>2
    <3>2. CASE s = {}
      BY <3>1, <3>2 DEF Turn
    <3>3. CASE s # {}
      <4>1. Pick(s) \in s
        BY <3>3, PickIn
      <4>2. Cardinality(s \ {Pick(s)}) = Cardinality(s) - 1
        BY <1>1, <4>1, FS_RemoveElement
      <4>3. s \ {Pick(s)} \in SUBSET S /\ Cardinality(s \ {Pick(s)}) # n + 1
        BY <1>1, <2>4, <4>2
      <4>4. h[s \ {Pick(s)}] = g[s \ {Pick(s)}]
        BY <2>2, <4>3
      <4>5. QED
        BY <3>1, <3>3, <4>4 DEF Turn
    <3>4. QED
      BY <3>2, <3>3
  <2>5. \E k : /\ k = [s \in SUBSET S |-> k[s]]
               /\ \A s \in SUBSET S : Cardinality(s) <= n + 1 => k[s] = Turn(f, k, s)
    <3>1. \A s \in SUBSET S : Cardinality(s) <= n + 1 => h[s] = Turn(f, h, s)
      BY <2>4
    <3>2. QED
      BY <2>3, <3>1
  <2>6. To(n + 1)
    BY <2>5, Zenon
  <2> HIDE DEF To
  <2>7. QED
    BY <2>6
<1> HIDE DEF Up
<1>4. Cardinality(S) \in Up
  BY <1>1, <1>2, <1>3, AllNaturals
<1>5. PICK g : /\ g = [s \in SUBSET S |-> g[s]]
               /\ \A s \in SUBSET S : Cardinality(s) <= Cardinality(S) => g[s] = Turn(f, g, s)
  BY <1>4 DEF Up
<1>6. \A s \in SUBSET S : g[s] = Turn(f, g, s)
  BY <1>1, <1>5
<1>7. [s \in SUBSET S |-> g[s]] = [s \in SUBSET S |-> Turn(f, g, s)]
  BY <1>6
<1>8. Sums(f, g, S)
  BY <1>5, <1>7 DEF Sums
<1>9. QED
  BY <1>8

\* A sum: of nothing; of the element that is taken first and the others; and of
\* the same terms.
LEMMA SumTable ==
  ASSUME NEW S, IsFiniteSet(S), NEW f
  PROVE  \E g : Sums(f, g, S) /\ \A T \in SUBSET S : SumFunctionOnSet(f, T) = g[T]
<1>1. PICK g : Sums(f, g, S)
  BY SumsExist
<1>2. ASSUME NEW T \in SUBSET S PROVE SumFunctionOnSet(f, T) = g[T]
  <2>1. IsFiniteSet(T)
    BY FS_Subset
  <2> DEFINE k == CHOOSE k : Sums(f, k, T)
  <2>2. Sums(f, k, T)
    BY <2>1, SumsExist
  <2>3. SumFunctionOnSet(f, T) = k[T]
    BY SumIs
  <2> HIDE DEF k
  <2>4. k[T] = g[T]
    BY <1>1, <2>2, SumsUnique
  <2>5. QED
    BY <2>3, <2>4
<1>3. QED
  BY <1>1, <1>2

LEMMA SumOfNone == ASSUME NEW f PROVE SumFunctionOnSet(f, {}) = 0
<1>1. PICK g : Sums(f, g, {}) /\ \A T \in SUBSET {} : SumFunctionOnSet(f, T) = g[T]
  BY SumTable, FS_EmptySet
<1>2. QED
  BY <1>1 DEF Sums, Turn

LEMMA SumTurn ==
  ASSUME NEW S, IsFiniteSet(S), S # {}, NEW f
  PROVE  SumFunctionOnSet(f, S) = f[Pick(S)] + SumFunctionOnSet(f, S \ {Pick(S)})
<1>1. PICK g : Sums(f, g, S) /\ \A T \in SUBSET S : SumFunctionOnSet(f, T) = g[T]
  BY SumTable
<1>2. g[S] = Turn(f, g, S)
  BY <1>1 DEF Sums
<1>3. SumFunctionOnSet(f, S) = g[S] /\ SumFunctionOnSet(f, S \ {Pick(S)}) = g[S \ {Pick(S)}]
  BY <1>1
<1>4. QED
  BY <1>2, <1>3 DEF Turn

LEMMA SumOfSame ==
  ASSUME NEW S, IsFiniteSet(S), NEW f, NEW h, \A x \in S : f[x] = h[x]
  PROVE  SumFunctionOnSet(f, S) = SumFunctionOnSet(h, S)
<1>1. PICK g : Sums(f, g, S) /\ \A T \in SUBSET S : SumFunctionOnSet(f, T) = g[T]
  BY SumTable
<1>2. PICK k : Sums(h, k, S) /\ \A T \in SUBSET S : SumFunctionOnSet(h, T) = k[T]
  BY SumTable
<1>3. g[S] = k[S]
  BY <1>1, <1>2, SumsUnique
<1>4. QED
  BY <1>1, <1>2, <1>3

\* What holds of the empty set, and of a set when it holds of the set without any
\* one of its elements, holds of all subsets of a finite set.
LEMMA AllSubsets ==
  ASSUME NEW S, IsFiniteSet(S), NEW Good, {} \in Good,
         \A s \in SUBSET S : (\A x \in s : s \ {x} \in Good) => s \in Good
  PROVE  S \in Good
<1> DEFINE Up == {n \in Nat : \A s \in SUBSET S : Cardinality(s) = n => s \in Good}
<1>1. \A s \in SUBSET S : IsFiniteSet(s) /\ Cardinality(s) \in Nat
  BY FS_Subset, FS_CardinalityType
<1>2. 0 \in Up
  BY <1>1, FS_EmptySet
<1>3. ASSUME NEW n \in Nat, n \in Up PROVE n + 1 \in Up
  <2>1. ASSUME NEW s \in SUBSET S, Cardinality(s) = n + 1 PROVE s \in Good
    <3>1. ASSUME NEW x \in s PROVE s \ {x} \in Good
      <4>1. Cardinality(s \ {x}) = n
        BY <1>1, <2>1, FS_RemoveElement
      <4>2. QED
        BY <1>3, <4>1
    <3>2. QED
      BY <3>1
  <2>2. QED
    BY <2>1
<1> HIDE DEF Up
<1>4. Cardinality(S) \in Up
  BY <1>1, <1>2, <1>3, AllNaturals
<1>5. QED
  BY <1>4 DEF Up

LEMMA SumIsInt ==
  ASSUME NEW S, IsFiniteSet(S), NEW f, \A x \in S : f[x] \in Int
  PROVE  SumFunctionOnSet(f, S) \in Int
<1> DEFINE Good == {s \in SUBSET S : SumFunctionOnSet(f, s) \in Int}
<1>1. {} \in Good
  BY SumOfNone
<1>2. ASSUME NEW s \in SUBSET S, \A x \in s : s \ {x} \in Good PROVE s \in Good
  <2>1. CASE s = {}
    BY <1>1, <2>1
  <2>2. CASE s # {}
    <3>1. Pick(s) \in s /\ IsFiniteSet(s)
      BY <2>2, PickIn, FS_Subset
    <3>2. SumFunctionOnSet(f, s) = f[Pick(s)] + SumFunctionOnSet(f, s \ {Pick(s)})
      BY <2>2, <3>1, SumTurn
    <3>3. SumFunctionOnSet(f, s \ {Pick(s)}) \in Int /\ f[Pick(s)] \in Int
      BY <1>2, <3>1
    <3>4. QED
      BY <3>2, <3>3
  <2>3. QED
    BY <2>1, <2>2
<1> HIDE DEF Good
<1>3. S \in Good
  BY <1>1, <1>2, AllSubsets
<1>4. QED
  BY <1>3 DEF Good

\* Any element may be taken first.
LEMMA SumWithout ==
  ASSUME NEW S, IsFiniteSet(S), NEW f, \A x \in S : f[x] \in Int, NEW y \in S
  PROVE  SumFunctionOnSet(f, S) = f[y] + SumFunctionOnSet(f, S \ {y})
<1> DEFINE Sum(s) == SumFunctionOnSet(f, s)
<1> DEFINE Good == {s \in SUBSET S : \A x \in s : Sum(s) = f[x] + Sum(s \ {x})}
<1>1. {} \in Good
  OBVIOUS
<1>2. ASSUME NEW s \in SUBSET S, \A x \in s : s \ {x} \in Good PROVE s \in Good
  <2> SUFFICES ASSUME NEW x \in s PROVE Sum(s) = f[x] + Sum(s \ {x})
    OBVIOUS
  <2> DEFINE c == Pick(s)
  <2>1. c \in s /\ IsFiniteSet(s)
    BY PickIn, FS_Subset
  <2> HIDE DEF c
  <2>2. Sum(s) = f[c] + Sum(s \ {c})
    BY <2>1, SumTurn DEF c
  <2>3. CASE x = c
    BY <2>2, <2>3
  <2>4. CASE x # c
    <3>1. Sum(s \ {c}) = f[x] + Sum((s \ {c}) \ {x})
      BY <1>2, <2>1, <2>4
    <3>2. Sum(s \ {x}) = f[c] + Sum((s \ {x}) \ {c})
      BY <1>2, <2>1, <2>4
    <3>3. (s \ {c}) \ {x} = (s \ {x}) \ {c}
      OBVIOUS
    <3>4. IsFiniteSet((s \ {c}) \ {x}) /\ \A z \in (s \ {c}) \ {x} : f[z] \in Int
      BY <2>1, FS_RemoveElement
    <3>5. f[x] \in Int /\ f[c] \in Int /\ Sum((s \ {c}) \ {x}) \in Int
      BY <2>1, <3>4, SumIsInt
    <3>6. Sum(s) = f[c] + (f[x] + Sum((s \ {c}) \ {x}))
      BY <2>2, <3>1
    <3>7. f[x] + Sum(s \ {x}) = f[x] + (f[c] + Sum((s \ {c}) \ {x}))
      BY <3>2, <3>3
    <3>8. \A a, b, d \in Int : a + (b + d) = b + (a + d)
      OBVIOUS
    <3> HIDE DEF Sum
    <3>9. QED
      BY <3>5, <3>6, <3>7, <3>8
  <2>5. QED
    BY <2>3, <2>4
<1> HIDE DEF Good
<1>3. S \in Good
  BY <1>1, <1>2, AllSubsets
<1>4. QED
  BY <1>3 DEF Good

---------------------------------------------------------------------------
\* The sum of sums.
LEMMA SumPlus ==
  ASSUME NEW S, IsFiniteSet(S), NEW f, NEW g, NEW h,
         \A x \in S : f[x] \in Int /\ g[x] \in Int /\ h[x] = f[x] + g[x]
  PROVE  SumFunctionOnSet(h, S) = SumFunctionOnSet(f, S) + SumFunctionOnSet(g, S)
<1> DEFINE Good == {s \in SUBSET S :
                      SumFunctionOnSet(h, s) = SumFunctionOnSet(f, s) + SumFunctionOnSet(g, s)}
<1>1. {} \in Good
  BY SumOfNone
<1>2. ASSUME NEW s \in SUBSET S, \A x \in s : s \ {x} \in Good PROVE s \in Good
  <2>1. CASE s = {}
    BY <1>1, <2>1
  <2>2. CASE s # {}
    <3> DEFINE c == Pick(s)
    <3> DEFINE t == s \ {c}
    <3>1. c \in s /\ IsFiniteSet(s) /\ IsFiniteSet(t)
      BY <2>2, PickIn, FS_Subset
    <3>2. /\ SumFunctionOnSet(f, s) = f[c] + SumFunctionOnSet(f, t)
          /\ SumFunctionOnSet(g, s) = g[c] + SumFunctionOnSet(g, t)
          /\ SumFunctionOnSet(h, s) = h[c] + SumFunctionOnSet(h, t)
      BY <2>2, <3>1, SumTurn
    <3>3. SumFunctionOnSet(h, t) = SumFunctionOnSet(f, t) + SumFunctionOnSet(g, t)
      BY <1>2, <3>1
    <3>4. SumFunctionOnSet(f, t) \in Int /\ SumFunctionOnSet(g, t) \in Int
      BY <3>1, SumIsInt
    <3>5. f[c] \in Int /\ g[c] \in Int /\ h[c] = f[c] + g[c]
      BY <3>1
    <3> HIDE DEF c, t
    <3>6. QED
      BY <3>2, <3>3, <3>4, <3>5
  <2>3. QED
    BY <2>1, <2>2
<1> HIDE DEF Good
<1>3. S \in Good
  BY <1>1, <1>2, AllSubsets
<1>4. QED
  BY <1>3 DEF Good

\* Terms that are 0 may be left out.
LEMMA SumOfOthers ==
  ASSUME NEW S, IsFiniteSet(S), NEW f, \A x \in S : f[x] \in Int,
         NEW T \in SUBSET S, \A x \in S \ T : f[x] = 0
  PROVE  SumFunctionOnSet(f, S) = SumFunctionOnSet(f, T)
<1> DEFINE Good == {s \in SUBSET S : SumFunctionOnSet(f, s) = SumFunctionOnSet(f, s \cap T)}
<1>1. {} \in Good
  <2>1. {} \cap T = {}
    OBVIOUS
  <2>2. QED
    BY <2>1
<1>2. ASSUME NEW s \in SUBSET S, \A x \in s : s \ {x} \in Good PROVE s \in Good
  <2>1. CASE s \subseteq T
    <3>1. s \cap T = s
      BY <2>1
    <3>2. QED
      BY <3>1
  <2>2. CASE \E x \in s : x \notin T
    <3>1. PICK x \in s : x \notin T
      BY <2>2
    <3>2. IsFiniteSet(s) /\ IsFiniteSet(s \ {x})
      BY FS_Subset
    <3>3. SumFunctionOnSet(f, s) = f[x] + SumFunctionOnSet(f, s \ {x})
      BY <3>2, SumWithout
    <3>4. SumFunctionOnSet(f, s \ {x}) \in Int /\ f[x] = 0
      BY <3>1, <3>2, SumIsInt
    <3>5. SumFunctionOnSet(f, s \ {x}) = SumFunctionOnSet(f, (s \ {x}) \cap T)
      BY <1>2
    <3>6. (s \ {x}) \cap T = s \cap T
      BY <3>1
    <3>7. SumFunctionOnSet(f, s) = SumFunctionOnSet(f, s \ {x})
      BY <3>3, <3>4
    <3>8. QED
      BY <3>5, <3>6, <3>7
  <2>3. QED
    BY <2>1, <2>2
<1> HIDE DEF Good
<1>3. S \in Good
  BY <1>1, <1>2, AllSubsets
<1>4. S \cap T = T
  OBVIOUS
<1>5. QED
  BY <1>3, <1>4 DEF Good

LEMMA SumOfOne ==
  ASSUME NEW x, NEW f, f[x] \in Int
  PROVE  SumFunctionOnSet(f, {x}) = f[x]
<1>1. IsFiniteSet({x}) /\ {x} \ {x} = {}
  BY FS_Singleton
<1>2. SumFunctionOnSet(f, {x}) = f[x] + SumFunctionOnSet(f, {x} \ {x})
  BY <1>1, SumWithout
<1>3. QED
  BY <1>1, <1>2, SumOfNone

LEMMA SumNotNegative ==
  ASSUME NEW S, IsFiniteSet(S), NEW f, \A x \in S : f[x] \in Int /\ f[x] >= 0
  PROVE  SumFunctionOnSet(f, S) >= 0
<1> DEFINE Good == {s \in SUBSET S : SumFunctionOnSet(f, s) >= 0}
<1>1. {} \in Good
  BY SumOfNone
<1>2. ASSUME NEW s \in SUBSET S, \A x \in s : s \ {x} \in Good PROVE s \in Good
  <2>1. CASE s = {}
    BY <1>1, <2>1
  <2>2. CASE s # {}
    <3>1. Pick(s) \in s /\ IsFiniteSet(s) /\ IsFiniteSet(s \ {Pick(s)})
      BY <2>2, PickIn, FS_Subset
    <3>2. SumFunctionOnSet(f, s) = f[Pick(s)] + SumFunctionOnSet(f, s \ {Pick(s)})
      BY <2>2, <3>1, SumTurn
    <3>3. SumFunctionOnSet(f, s \ {Pick(s)}) \in Int /\ f[Pick(s)] \in Int
      BY <3>1, SumIsInt
    <3>4. SumFunctionOnSet(f, s \ {Pick(s)}) >= 0 /\ f[Pick(s)] >= 0
      BY <1>2, <3>1
    <3>5. \A a, b \in Int : a >= 0 /\ b >= 0 => a + b >= 0
      OBVIOUS
    <3>6. SumFunctionOnSet(f, s) >= 0
      BY <3>2, <3>3, <3>4, <3>5
    <3>7. QED
      BY <3>6
  <2>3. QED
    BY <2>1, <2>2
<1> HIDE DEF Good
<1>3. S \in Good
  BY <1>1, <1>2, AllSubsets
<1>4. QED
  BY <1>3 DEF Good

---------------------------------------------------------------------------
(* Payments. *)

LEMMA EnteredIs ==
  ASSUME NEW entries, NEW seat, NEW points, NEW shot,
         NEW l \in DOMAIN Entered(entries, seat, points, shot)
  PROVE  \/ /\ l \in DOMAIN entries
            /\ Entered(entries, seat, points, shot)[l] = entries[l]
         \/ /\ l = seat
            /\ Entered(entries, seat, points, shot)[l] = [points |-> points, shot |-> shot]
  BY DEF Entered

\* An entry under another seat holds what its owner won from that seat.
EntriesAreWins ==
  \A w \in Seats : \A l \in DOMAIN losers[w] :
    /\ losers[w][l] \in Entry
    /\ l # w => losers[w][l].points = Total(dunPrize(data[w], data[l]))

PrizesOK == prize \in [Seats -> Int] /\ payer \in Nat /\ payer >= 1

\* Seat s wins or draws each comparison the code makes with seat t.
KeepsDuns(s, t) ==
  \A d \in 1 .. 3 :
    IF s < t THEN dunCmps(data[s], data[t])[d] # 2 ELSE dunCmps(data[t], data[s])[d] # 1

Unbeaten(s) == \A t \in Seats \ {s} : KeepsDuns(s, t)
UnbeatenSoFar == \A s \in Seats : Unbeaten(s) => prize[s] >= 0

PayInv == EntriesAreWins /\ PrizesOK /\ ZeroSum /\ UnbeatenSoFar

LEMMA TotalOfDuns ==
  ASSUME NEW x, NEW y
  PROVE  /\ Total(dunPrize(x, y)) \in Int
         /\ (\A d \in 1 .. 3 : dunCmps(x, y)[d] # 2) => Total(dunPrize(x, y)) >= 0
         /\ (\A d \in 1 .. 3 : dunCmps(x, y)[d] # 1) => Total(dunPrize(x, y)) <= 0
<1> DEFINE p == dunPrize(x, y)
<1>1. \A d, b : Extra(d, b) \in Nat
  BY DEF Extra
<1>2. \A d \in 1 .. 3 : /\ p[d] \in Int
                        /\ dunCmps(x, y)[d] # 2 => p[d] >= 0
                        /\ dunCmps(x, y)[d] # 1 => p[d] <= 0
  <2> TAKE d \in 1 .. 3
  <2> DEFINE c == dunCmps(x, y)[d]
  <2>1. p[d] = CASE c = 1 -> 1 + Extra(d, x.dun[d].b)
                 [] c = 2 -> -1 - Extra(d, y.dun[d].b)
                 [] OTHER -> 0
    BY DEF dunPrize
  <2> HIDE DEF c, p
  <2>2. QED
    BY <1>1, <2>1 DEF c
<1> HIDE DEF p
<1>3. p[1] \in Int /\ p[2] \in Int /\ p[3] \in Int
  BY <1>2
<1>4. ASSUME \A d \in 1 .. 3 : dunCmps(x, y)[d] # 2 PROVE p[1] >= 0 /\ p[2] >= 0 /\ p[3] >= 0
  BY <1>2, <1>4
<1>5. ASSUME \A d \in 1 .. 3 : dunCmps(x, y)[d] # 1 PROVE p[1] <= 0 /\ p[2] <= 0 /\ p[3] <= 0
  BY <1>2, <1>5
<1>6. /\ Total(p) \in Int
      /\ (\A d \in 1 .. 3 : dunCmps(x, y)[d] # 2) => Total(p) >= 0
      /\ (\A d \in 1 .. 3 : dunCmps(x, y)[d] # 1) => Total(p) <= 0
  BY <1>3, <1>4, <1>5 DEF Total
<1>7. QED
  BY <1>6 DEF p

\* The points of an entry are doubled after a sweep.
LEMMA DueIs ==
  ASSUME EntriesAreWins, NEW w \in Seats, NEW l \in DOMAIN losers[w]
  PROVE  /\ Due(w, l) \in Int
         /\ losers[w][l].points >= 0 => Due(w, l) >= 0
         /\ losers[w][l].points <= 0 => Due(w, l) <= 0
<1>1. losers[w][l].points \in Int
  BY DEF EntriesAreWins, Entry
<1>2. Due(w, l) = 2 * losers[w][l].points \/ Due(w, l) = losers[w][l].points
  BY <1>1 DEF Due
<1>3. QED
  BY <1>1, <1>2

\* An unbeaten seat is owed by later seats and owes nothing to earlier ones.
LEMMA UnbeatenEntries ==
  ASSUME Inv, EntriesAreWins, NEW s \in Seats, Unbeaten(s)
  PROVE  /\ \A l \in DOMAIN losers[s] \ {s} : Due(s, l) >= 0
         /\ \A w \in Seats \ {s} : s \in DOMAIN losers[w] => Due(w, s) <= 0
<1>1. Seats \subseteq Nat
  BY DEF Inv, LoopOK
<1>2. ASSUME NEW l \in DOMAIN losers[s] \ {s} PROVE Due(s, l) >= 0
  <2>1. l \in Seats /\ s < l
    BY <1>1, <1>2 DEF Inv, EntriesPointForward
  <2>2. \A d \in 1 .. 3 : dunCmps(data[s], data[l])[d] # 2
    BY <1>2, <2>1 DEF Unbeaten, KeepsDuns
  <2>3. losers[s][l].points = Total(dunPrize(data[s], data[l]))
    BY <1>2 DEF EntriesAreWins
  <2>4. losers[s][l].points >= 0
    BY <2>2, <2>3, TotalOfDuns
  <2>5. QED
    BY <1>2, <2>4, DueIs
<1>3. ASSUME NEW w \in Seats \ {s}, s \in DOMAIN losers[w] PROVE Due(w, s) <= 0
  <2>1. w < s
    BY <1>1, <1>3 DEF Inv, EntriesPointForward
  <2>2. \A d \in 1 .. 3 : dunCmps(data[w], data[s])[d] # 1
    <3>1. KeepsDuns(s, w) /\ ~ (s < w)
      BY <1>1, <1>3, <2>1 DEF Unbeaten
    <3>2. QED
      BY <3>1 DEF KeepsDuns
  <2>3. losers[w][s].points = Total(dunPrize(data[w], data[s]))
    BY <1>3 DEF EntriesAreWins
  <2>4. losers[w][s].points <= 0
    BY <2>2, <2>3, TotalOfDuns
  <2>5. QED
    BY <1>3, <2>4, DueIs
<1>4. QED
  BY <1>2, <1>3

LEMMA SeatsFinite == ASSUME LoopOK PROVE IsFiniteSet(Seats)
  BY FS_Interval DEF LoopOK

\* A winner gains the sum of its entries.
LEMMA GainIs ==
  ASSUME Inv, EntriesAreWins, NEW w \in Seats
  PROVE  LET D == DOMAIN losers[w]
             owed == [l \in D |-> Due(w, l)]
         IN /\ D \subseteq Seats /\ IsFiniteSet(D) /\ \A l \in D : owed[l] \in Int
            /\ Gain(w) = SumFunctionOnSet(owed, D) /\ Gain(w) \in Int
<1> DEFINE D == DOMAIN losers[w]
<1> DEFINE owed == [l \in D |-> Due(w, l)]
<1>1. D \subseteq Seats
  BY DEF Inv, EntriesPointForward
<1>2. IsFiniteSet(D)
  BY <1>1, SeatsFinite, FS_Subset DEF Inv
<1>3. \A l \in D : owed[l] \in Int
  BY DueIs
<1>4. Gain(w) = SumFunctionOnSet(owed, D)
  BY DEF Gain, SumFunction
<1> HIDE DEF D, owed
<1>5. Gain(w) \in Int
  BY <1>2, <1>3, <1>4, SumIsInt
<1>6. QED
  BY <1>1, <1>2, <1>3, <1>4, <1>5 DEF D, owed

LEMMA PayInit == Inv /\ Init => PayInv
<1> SUFFICES ASSUME Inv, Init PROVE PayInv
  OBVIOUS
<1>1. EntriesAreWins /\ PrizesOK
  BY DEF Init, EntriesAreWins, PrizesOK
<1>2. ZeroSum
  <2>1. IsFiniteSet(Seats) /\ prize = [k \in Seats |-> 0]
    BY SeatsFinite DEF Inv, Init
  <2>2. SumFunctionOnSet(prize, Seats) = SumFunctionOnSet(prize, {})
    BY <2>1, SumOfOthers
  <2>3. QED
    BY <2>1, <2>2, SumOfNone DEF ZeroSum, SumFunction
<1>3. UnbeatenSoFar
  BY DEF Init, UnbeatenSoFar
<1>4. QED
  BY <1>1, <1>2, <1>3 DEF PayInv

\* Comparing touches no prize.
LEMMA CompareKeepsPrizes ==
  ASSUME Inv, PayInv, UNCHANGED <<data, payer, prize>>, EntriesAreWins'
  PROVE  PayInv'
<1>1. Seats' = Seats /\ ZeroSum'
  BY DEF PayInv, Seats, ZeroSum
<1>2. PrizesOK'
  BY <1>1 DEF PayInv, PrizesOK
<1>3. \A s \in Seats : Unbeaten(s)' <=> Unbeaten(s)
  BY <1>1 DEF Unbeaten, KeepsDuns
<1>4. UnbeatenSoFar'
  BY <1>1, <1>3 DEF PayInv, UnbeatenSoFar
<1>5. QED
  BY <1>1, <1>2, <1>4 DEF PayInv

LEMMA SpecialPays == ASSUME Inv, PayInv, CompareSpecial PROVE PayInv'
<1>1. LoopOK /\ Comparing /\ UNCHANGED <<data, payer, prize>> /\ Seats' = Seats
  BY DEF Inv, CompareSpecial, Seats
<1>2. pair.i \in Seats /\ pair.j \in Seats
  BY <1>1 DEF LoopOK, Comparing
<1>3. EntriesAreWins'
  <2>1. CASE UNCHANGED losers
    BY <1>1, <2>1 DEF PayInv, EntriesAreWins
  <2>2. CASE \E w \in Seats : Owe(w, w, SpecPrize(data[w].spec), FALSE)
    <3>1. PICK w \in Seats : Owe(w, w, SpecPrize(data[w].spec), FALSE)
      BY <2>2
    <3>2. SpecPrize(data[w].spec) \in Int
      BY DEF SpecPrize
    <3>3. \A v \in Seats : losers'[v] = IF v = w THEN Entered(losers[w], w, SpecPrize(data[w].spec), FALSE)
                                                ELSE losers[v]
      BY <1>1, <3>1 DEF Owe, LoopOK
    <3> DEFINE n == SpecPrize(data[w].spec)
    <3> HIDE DEF n
    <3>4. ASSUME NEW v \in Seats, NEW l \in DOMAIN losers'[v]
          PROVE  /\ losers'[v][l] \in Entry
                 /\ l # v => losers'[v][l].points = Total(dunPrize(data[v], data[l]))
      <4>1. CASE l \in DOMAIN losers[v] /\ losers'[v][l] = losers[v][l]
        BY <4>1 DEF PayInv, EntriesAreWins
      <4>2. CASE v = w /\ l = w /\ losers'[v][l] = [points |-> n, shot |-> FALSE]
        BY <3>2, <4>2 DEF n, Entry
      <4>3. losers'[v] = IF v = w THEN Entered(losers[w], w, n, FALSE) ELSE losers[v]
        BY <3>3 DEF n
      <4>4. CASE v = w
        <5>1. losers'[v] = Entered(losers[v], v, n, FALSE)
          BY <4>3, <4>4
        <5>2. l \in DOMAIN Entered(losers[v], v, n, FALSE)
          BY <3>4, <5>1
        <5>3. \/ l \in DOMAIN losers[v] /\ losers'[v][l] = losers[v][l]
              \/ l = v /\ losers'[v][l] = [points |-> n, shot |-> FALSE]
          BY <5>1, <5>2 DEF Entered
        <5>4. QED
          BY <4>1, <4>2, <4>4, <5>3
      <4>5. CASE v # w
        BY <4>1, <4>3, <4>5
      <4>6. QED
        BY <4>4, <4>5
    <3>5. QED
      BY <1>1, <3>4 DEF PayInv, EntriesAreWins
  <2>3. QED
    BY <2>1, <2>2, <1>2 DEF CompareSpecial
<1>4. QED
  BY <1>1, <1>3, CompareKeepsPrizes

LEMMA NormalPays == ASSUME Inv, PayInv, CompareNormal PROVE PayInv'
<1>1. LoopOK /\ Comparing /\ UNCHANGED <<data, payer, prize>> /\ Seats' = Seats
  BY DEF Inv, CompareNormal, Seats
<1>2. pair.i \in Seats /\ pair.j \in Seats /\ pair.i # pair.j
  BY <1>1 DEF LoopOK, Comparing
<1> DEFINE p == dunPrize(data[pair.i], data[pair.j])
<1>3. EntriesAreWins'
  <2>1. CASE UNCHANGED losers
    BY <1>1, <2>1 DEF PayInv, EntriesAreWins
  <2>2. CASE Owe(pair.i, pair.j, Total(p), Sweep(p))
    <3>1. Total(p) \in Int /\ Sweep(p) \in BOOLEAN
      BY TotalOfDuns DEF Sweep
    <3> HIDE DEF p
    <3>2. \A v \in Seats : losers'[v] = IF v = pair.i THEN Entered(losers[pair.i], pair.j, Total(p), Sweep(p))
                                                     ELSE losers[v]
      BY <1>1, <1>2, <2>2 DEF Owe, LoopOK
    <3>3. ASSUME NEW w \in Seats, NEW l \in DOMAIN losers'[w]
          PROVE  \/ l \in DOMAIN losers[w] /\ losers'[w][l] = losers[w][l]
                 \/ w = pair.i /\ l = pair.j /\ losers'[w][l] = [points |-> Total(p), shot |-> Sweep(p)]
      <4>1. CASE w = pair.i
        BY <3>2, <4>1, EnteredIs
      <4>2. CASE w # pair.i
        BY <3>2, <4>2
      <4>3. QED
        BY <4>1, <4>2
    <3>4. ASSUME NEW w \in Seats, NEW l \in DOMAIN losers'[w]
          PROVE  /\ losers'[w][l] \in Entry
                 /\ l # w => losers'[w][l].points = Total(dunPrize(data[w], data[l]))
      <4>1. CASE l \in DOMAIN losers[w] /\ losers'[w][l] = losers[w][l]
        BY <4>1 DEF PayInv, EntriesAreWins
      <4>2. CASE w = pair.i /\ l = pair.j /\ losers'[w][l] = [points |-> Total(p), shot |-> Sweep(p)]
        <5>1. losers'[w][l].points = Total(p) /\ losers'[w][l].shot = Sweep(p)
          BY <4>2
        <5>2. p = dunPrize(data[w], data[l])
          BY <4>2 DEF p
        <5>3. losers'[w][l] \in Entry
          BY <3>1, <4>2 DEF Entry
        <5>4. QED
          BY <5>1, <5>2, <5>3
      <4>3. QED
        BY <3>3, <4>1, <4>2
    <3>5. QED
      BY <1>1, <3>4 DEF EntriesAreWins
  <2>3. QED
    BY <2>1, <2>2 DEF CompareNormal, I, J
<1>4. QED
  BY <1>1, <1>3, CompareKeepsPrizes

\* What the winner gains, the others pay.
LEMMA PaymentIsFair == ASSUME Inv, PayInv, PayWinner PROVE PayInv'
<1> DEFINE D == DOMAIN losers[payer]
           owed == [l \in D |-> Due(payer, l)]
           gained == [k \in Seats |-> IF k = payer THEN Gain(payer) ELSE 0]
           paid == [k \in Seats |-> IF k \in D THEN Due(payer, k) ELSE 0]
           both == [k \in Seats |-> prize[k] + gained[k]]
<1>1. /\ payer \in Seats /\ payer' = payer + 1 /\ payer \in Nat /\ Seats' = Seats
      /\ UNCHANGED <<data, losers>>
  BY DEF Inv, LoopOK, PayInv, PrizesOK, PayWinner, Paying, Seats
<1>2. IsFiniteSet(Seats) /\ prize \in [Seats -> Int]
  BY SeatsFinite DEF Inv, PayInv, PrizesOK
<1>3. D \subseteq Seats /\ (\A l \in D : Due(payer, l) \in Int) /\ Gain(payer) \in Int
  BY <1>1, GainIs, DueIs DEF PayInv
<1>4. Gain(payer) = SumFunctionOnSet(owed, D) /\ IsFiniteSet(D)
  BY <1>1, GainIs DEF PayInv
<1>5. prize' = [k \in Seats |-> prize[k] + gained[k] - paid[k]]
  BY DEF PayWinner
<1>6. \A k \in Seats : gained[k] = (IF k = payer THEN Gain(payer) ELSE 0)
  OBVIOUS
<1>7. \A k \in Seats : paid[k] = (IF k \in D THEN Due(payer, k) ELSE 0)
  OBVIOUS
<1>8. \A k \in Seats : both[k] = prize[k] + gained[k]
  OBVIOUS
<1>9. \A l \in D : owed[l] = Due(payer, l)
  OBVIOUS
<1> HIDE DEF D, owed, gained, paid, both
<1>10. \A k \in Seats : gained[k] \in Int /\ paid[k] \in Int /\ both[k] \in Int /\ prize[k] \in Int
  BY <1>2, <1>3, <1>6, <1>7, <1>8
<1>11. prize' \in [Seats -> Int] /\ \A k \in Seats : prize'[k] = prize[k] + gained[k] - paid[k]
  BY <1>5, <1>10
<1>12. PrizesOK' /\ EntriesAreWins'
  <2>1. PrizesOK'
    BY <1>1, <1>11 DEF PrizesOK
  <2>2. EntriesAreWins'
    BY <1>1 DEF PayInv, EntriesAreWins
  <2>3. QED
    BY <2>1, <2>2
<1>13. ZeroSum'
  <2>1. SumFunctionOnSet(gained, Seats) = Gain(payer)
    <3>1. SumFunctionOnSet(gained, Seats) = SumFunctionOnSet(gained, {payer})
      BY <1>1, <1>2, <1>6, <1>10, SumOfOthers
    <3>2. gained[payer] = Gain(payer) /\ gained[payer] \in Int
      BY <1>1, <1>6, <1>10
    <3>3. QED
      BY <3>1, <3>2, SumOfOne
  <2>2. SumFunctionOnSet(paid, Seats) = Gain(payer)
    <3>1. SumFunctionOnSet(paid, Seats) = SumFunctionOnSet(paid, D)
      BY <1>2, <1>3, <1>7, <1>10, SumOfOthers
    <3>2. \A l \in D : paid[l] = owed[l]
      BY <1>3, <1>7, <1>9
    <3>3. SumFunctionOnSet(paid, D) = SumFunctionOnSet(owed, D)
      BY <1>4, <3>2, SumOfSame
    <3>4. QED
      BY <1>4, <3>1, <3>3
  <2>3. SumFunctionOnSet(both, Seats) = SumFunctionOnSet(prize, Seats) + SumFunctionOnSet(gained, Seats)
    BY <1>2, <1>8, <1>10, SumPlus
  <2>4. \A k \in Seats : prize'[k] \in Int /\ paid[k] \in Int /\ both[k] = prize'[k] + paid[k]
    BY <1>8, <1>10, <1>11
  <2>5. SumFunctionOnSet(both, Seats) = SumFunctionOnSet(prize', Seats) + SumFunctionOnSet(paid, Seats)
    BY <1>2, <2>4, SumPlus
  <2>6. SumFunctionOnSet(prize, Seats) = 0 /\ SumFunctionOnSet(prize', Seats) \in Int
    <3>1. SumFunctionOnSet(prize', Seats) \in Int
      BY <1>2, <2>4, SumIsInt
    <3>2. DOMAIN prize = Seats
      BY <1>2
    <3>3. QED
      BY <3>1, <3>2 DEF PayInv, ZeroSum, SumFunction
  <2>7. SumFunctionOnSet(prize', Seats) = 0
    BY <1>3, <2>1, <2>2, <2>3, <2>5, <2>6
  <2>8. DOMAIN prize' = Seats
    BY <1>11
  <2>9. QED
    BY <2>7, <2>8 DEF ZeroSum, SumFunction
<1>14. UnbeatenSoFar'
  <2>1. SUFFICES ASSUME NEW s \in Seats, Unbeaten(s) PROVE prize'[s] >= 0
    <3>1. \A s \in Seats : Unbeaten(s)' <=> Unbeaten(s)
      BY <1>1 DEF Unbeaten, KeepsDuns
    <3>2. QED
      BY <1>1, <2>1, <3>1 DEF UnbeatenSoFar
  <2>2. prize[s] >= 0
    BY <2>1 DEF PayInv, UnbeatenSoFar
  <2>3. gained[s] - paid[s] >= 0
    <3>1. CASE s # payer
      <4>1. gained[s] = 0
        BY <1>6, <3>1
      <4>2. paid[s] <= 0
        <5>1. s \in D => Due(payer, s) <= 0
          BY <1>1, <2>1, <3>1, UnbeatenEntries DEF PayInv, D
        <5>2. QED
          BY <1>7, <5>1
      <4>3. QED
        BY <1>10, <4>1, <4>2
    <3>2. CASE s = payer
      <4>1. \A l \in D \ {s} : owed[l] \in Int /\ owed[l] >= 0
        <5>1. \A l \in D \ {s} : Due(s, l) >= 0
          BY <2>1, <3>2, UnbeatenEntries DEF PayInv, D
        <5>2. QED
          BY <1>3, <1>9, <3>2, <5>1
      <4>2. IsFiniteSet(D \ {s})
        BY <1>4, FS_RemoveElement
      <4>3. SumFunctionOnSet(owed, D \ {s}) >= 0 /\ SumFunctionOnSet(owed, D \ {s}) \in Int
        BY <4>1, <4>2, SumNotNegative, SumIsInt
      <4>4. CASE s \in D
        <5>1. SumFunctionOnSet(owed, D) = owed[s] + SumFunctionOnSet(owed, D \ {s})
          BY <1>3, <1>4, <1>9, <4>4, SumWithout
        <5>2. owed[s] = paid[s] /\ owed[s] \in Int
          BY <1>3, <1>7, <1>9, <4>4, <3>2
        <5>3. gained[s] = owed[s] + SumFunctionOnSet(owed, D \ {s})
          BY <1>4, <1>6, <3>2, <5>1
        <5>4. QED
          BY <4>3, <5>2, <5>3
      <4>5. CASE s \notin D
        <5>1. D \ {s} = D /\ paid[s] = 0
          BY <1>7, <4>5
        <5>2. gained[s] = SumFunctionOnSet(owed, D \ {s})
          BY <1>4, <1>6, <3>2, <5>1
        <5>3. QED
          BY <4>3, <5>1, <5>2
      <4>6. QED
        BY <4>4, <4>5
    <3>3. QED
      BY <3>1, <3>2
  <2>4. QED
    BY <1>10, <1>11, <2>2, <2>3
<1>15. QED
  BY <1>12, <1>13, <1>14 DEF PayInv

LEMMA PayStep == Inv /\ PayInv /\ [Next]_vars => PayInv'
<1> SUFFICES ASSUME Inv, PayInv, [Next]_vars PROVE PayInv'
  OBVIOUS
<1>1. CASE UNCHANGED vars
  <2>1. UNCHANGED <<data, losers, payer, prize>> /\ Seats' = Seats
    BY <1>1 DEF vars, Seats
  <2>2. EntriesAreWins'
    BY <2>1 DEF PayInv, EntriesAreWins
  <2>3. QED
    BY <2>1, <2>2, CompareKeepsPrizes
<1>2. QED
  BY <1>1, SpecialPays, NormalPays, PaymentIsFair DEF Next

LEMMA PayInvariance == Spec => [](Inv /\ PayInv)
<1>1. Init => Inv /\ PayInv
  BY InvInit, PayInit
<1>2. Inv /\ PayInv /\ [Next]_vars => (Inv /\ PayInv)'
  BY InvStep, PayStep
<1>3. QED
  BY <1>1, <1>2, PTL DEF Spec

\* At tables of any size and with any hands, points only move from one seat to
\* another: after every winner that is paid, the prizes sum up to 0.
THEOREM PointsAreConserved == Spec => []ZeroSum
<1>1. PayInv => ZeroSum
  BY DEF PayInv
<1>2. QED
  BY <1>1, PayInvariance, PTL

\* None of its duns beaten by a dun of the same size, a seat loses no comparison,
\* whichever of the duns of five the code compares.
LEMMA NotBeatenKeepsDuns ==
  ASSUME NEW s, NEW t, NotBeaten(s, t)
  PROVE  KeepsDuns(s, t)
BY DEF NotBeaten, KeepsDuns, Holds, dunCmps

\* A player none of whose duns is beaten by a dun of its size, so none by the rule
\* that compares like duns either, has not lost points when the round is settled, at
\* tables of any size, whatever is drawn, swept or won by a special hand.
THEOREM UnbeatenPlayersSafe == Spec => []UnbeatenNeverPays
<1>1. PayInv => UnbeatenNeverPays
  <2> SUFFICES ASSUME PayInv, Settled, NEW s \in Seats, \A t \in Seats \ {s} : NotBeaten(s, t)
               PROVE  prize[s] >= 0
    BY DEF UnbeatenNeverPays
  <2>1. Unbeaten(s)
    BY NotBeatenKeepsDuns DEF Unbeaten
  <2>2. QED
    BY <2>1 DEF PayInv, UnbeatenSoFar
<1>2. QED
  BY <1>1, PayInvariance, PTL

\* Every table has a seat, so there is a first pair and a first winner.
NobodyMissing == \A t \in Tables : t # <<>>

Bounds == pair.i <= Len(data) /\ payer <= Len(data) + 1 /\ daQiang \in BOOLEAN

LEMMA BoundsStep == Inv /\ PayInv /\ Bounds /\ [Next]_vars => Bounds'
<1> SUFFICES ASSUME Inv, PayInv, Bounds, [Next]_vars PROVE Bounds'
  OBVIOUS
<1>1. Len(data) \in Nat /\ pair.i \in Nat /\ payer \in Nat
  BY DEF Inv, LoopOK, PayInv, PrizesOK
<1>2. ASSUME Comparing PROVE NextPair.i <= Len(data) /\ NextRow.i <= Len(data)
  <2>1. NextRow.i <= Len(data)
    BY <1>1, <1>2 DEF NextRow, Comparing
  <2>2. NextPair.i = pair.i \/ NextPair = NextRow
    BY DEF NextPair, Inv, LoopOK
  <2>3. QED
    BY <2>1, <2>2 DEF Bounds
<1>3. CASE CompareSpecial
  BY <1>2, <1>3 DEF CompareSpecial, Bounds
<1>4. CASE CompareNormal
  <2>1. pair' = NextPair \/ pair' = NextRow
    BY <1>4 DEF CompareNormal
  <2>2. QED
    BY <1>2, <1>4, <2>1 DEF CompareNormal, Bounds
<1>5. CASE PayWinner
  BY <1>1, <1>5 DEF PayWinner, Paying, Bounds
<1>6. CASE UNCHANGED vars
  BY <1>6 DEF vars, Bounds
<1>7. QED
  BY <1>3, <1>4, <1>5, <1>6 DEF Next

\* The loops stay inside the table, and entries belong to its seats.
THEOREM SettleTypeCorrect == NobodyMissing => (Spec => []TypeOK)
<1> SUFFICES ASSUME NobodyMissing PROVE Spec => []TypeOK
  OBVIOUS
<1>1. Init => Bounds
  <2> SUFFICES ASSUME Init PROVE Bounds
    OBVIOUS
  <2>1. PICK t \in Tables : data = [k \in DOMAIN t |-> PlayerData(t[k])]
    BY DEF Init
  <2>2. t \in Seq(Seq(1 .. 52)) /\ t # <<>>
    BY <2>1, SettleAssumption DEF NobodyMissing
  <2>3. Len(t) \in Nat /\ DOMAIN t = 1 .. Len(t) /\ Len(t) # 0
    BY <2>2
  <2>4. data \in [1 .. Len(t) -> {PlayerData(t[k]) : k \in DOMAIN t}]
    BY <2>1, <2>3
  <2>5. Len(data) = Len(t)
    BY <2>3, <2>4
  <2>6. QED
    BY <2>3, <2>5 DEF Init, Bounds
<1>2. Inv /\ PayInv /\ Bounds => TypeOK
  <2> SUFFICES ASSUME Inv, PayInv, Bounds PROVE TypeOK
    OBVIOUS
  <2>1. /\ daQiang \in BOOLEAN /\ pair.i \in 1 .. Len(data) /\ pair.j \in Nat
        /\ Comparing => pair.j \in pair.i + 1 .. Len(data)
        /\ DOMAIN losers = Seats /\ payer \in 1 .. Len(data) + 1 /\ prize \in [Seats -> Int]
    BY DEF Inv, LoopOK, PayInv, PrizesOK, Bounds
  <2>2. ASSUME NEW w \in Seats, NEW l \in DOMAIN losers[w] PROVE losers[w][l] \in Entry
    BY DEF PayInv, EntriesAreWins
  <2>3. QED
    BY <2>1, <2>2 DEF TypeOK, Inv, EntriesPointForward
<1>3. QED
  BY <1>1, <1>2, BoundsStep, PayInvariance, PTL DEF Spec

=============================================================================
