----------------------------- MODULE SpscProofs -----------------------------
EXTENDS SpscQueue, SequenceTheorems, TLAPS

(* Theorems about SpscQueue, for a ring of any size and any items.         *)

-----------------------------------------------------------------------------
(* Positions in the ring. *)

\* One step forward and one step back undo each other.
LEMMA Steps ==
  \A i \in Cells : /\ Next1(i) \in Cells /\ Prev1(i) \in Cells
                   /\ Prev1(Next1(i)) = i /\ Next1(Prev1(i)) = i
BY SpscAssumption DEF Cells, Next1, Prev1

\* Off and At undo each other.
LEMMA Offsets ==
  \A h \in Cells : \A k \in Cells :
    /\ Off(h, k) \in Cells /\ At(h, k) \in Cells
    /\ At(h, Off(h, k)) = k /\ Off(h, At(h, k)) = k
BY SpscAssumption DEF Cells, Off, At

\* What is nearest to a cell: the cell itself, then the one after it.
LEMMA OffsetFacts ==
  \A h \in Cells : \A i \in Cells :
    /\ Off(h, i) = 0 <=> i = h
    /\ Off(Next1(h), i) = IF i = h THEN N - 1 ELSE Off(h, i) - 1
    /\ Off(h, Next1(i)) = IF Next1(i) = h THEN 0 ELSE Off(h, i) + 1
    /\ Next1(i) = h => Off(h, i) = N - 1
BY SpscAssumption DEF Cells, Off, Next1

LEMMA AtFacts ==
  \A h \in Cells :
    /\ At(h, 0) = h
    /\ \A k \in Cells : k + 1 \in Cells => At(Next1(h), k) = At(h, k + 1)
    /\ \A k \in Cells : k # 0 => At(h, k) # h
BY SpscAssumption DEF Cells, At, Next1

\* Both threads work on a cell of the ring, and the number of items fits it.
LEMMA Positions ==
  ASSUME TypeOK
  PROVE  ppos \in Cells /\ cpos \in Cells /\ Length \in 0 .. N /\ N \in Nat \ {0}
<1>1. ppos \in Cells /\ cpos \in Cells
  BY Steps DEF TypeOK, ppos, cpos
<1>2. QED
  BY <1>1, Offsets, SpscAssumption DEF Length, Cells

-----------------------------------------------------------------------------
(* Type correctness. *)

LEMMA TypeStep ==
  ASSUME TypeOK, RingInv, [Next]_vars
  PROVE  TypeOK'
<1>1. ASSUME NEW x \in Items, Push(x) PROVE TypeOK'
  BY <1>1 DEF Push, TypeOK, consumer
<1>2. CASE PushLoad
  <2>1. m_end' \in Cells /\ ptry' \in 0 .. 2 /\ ppc' \in {"idle", "load", "fill"} /\ pushed' \in BOOLEAN
    <3>1. CASE status[m_end] = "empty"
      BY <1>2, <3>1, Steps DEF PushLoad, PushClaim, TypeOK
    <3>2. CASE status[m_end] # "empty" /\ ptry = 2
      BY <1>2, <3>2 DEF PushLoad, PushMiss, TypeOK
    <3>3. CASE status[m_end] # "empty" /\ ptry # 2
      <4>1. ptry' = ptry + 1 /\ UNCHANGED <<ppc, pushed, m_end>>
        BY <1>2, <3>3 DEF PushLoad, PushMiss
      <4>2. QED
        BY <1>2, <3>3, <4>1 DEF PushLoad, TypeOK
    <3>4. QED
      BY <3>1, <3>2, <3>3
  <2>2. QED
    BY <1>2, <2>1 DEF PushLoad, TypeOK, consumer
<1>3. CASE PushFill
  BY <1>3, Positions DEF PushFill, TypeOK, consumer
<1>4. CASE PushPublish
  BY <1>4, Positions DEF PushPublish, TypeOK, consumer
<1>5. CASE Pop
  BY <1>5 DEF Pop, TypeOK, producer
<1>6. CASE PopLoad
  BY <1>6, Steps DEF PopLoad, PopClaim, PopMiss, TypeOK, producer
<1>7. CASE PopTake
  BY <1>7, Positions DEF PopTake, TypeOK, producer
<1>8. CASE PopClear
  BY <1>8, Positions DEF PopClear, TypeOK, producer
<1>9. CASE PopRelease
  BY <1>9, Positions DEF PopRelease, TypeOK, producer
<1>10. CASE UNCHANGED vars
  BY <1>10 DEF vars, producer, consumer, TypeOK
<1>11. QED
  BY <1>1, <1>2, <1>3, <1>4, <1>5, <1>6, <1>7, <1>8, <1>9, <1>10 DEF Next, Producer, Consumer

-----------------------------------------------------------------------------
(* The ring.  A step either moves no end of the queue, or publishes a cell,  *)
(* or releases one.                                                          *)

\* Claiming a cell moves the counter but not the cell the thread works on.
LEMMA ClaimedCell ==
  ASSUME TypeOK
  PROVE  /\ PushLoad => ppos' = ppos /\ cpos' = cpos /\ UNCHANGED <<status, data, item, taken, cpc>>
         /\ PopLoad => ppos' = ppos /\ cpos' = cpos /\ UNCHANGED <<status, data, item, taken, ppc>>
<1>1. ASSUME PushLoad PROVE ppos' = ppos /\ cpos' = cpos /\ UNCHANGED <<status, data, item, taken, cpc>>
  <2>1. UNCHANGED <<status, data, item, taken, cpc>> /\ cpos' = cpos
    BY <1>1 DEF PushLoad, consumer, cpos
  <2>2. ppos = m_end
    BY <1>1 DEF PushLoad, ppos
  <2>3. CASE status[m_end] = "empty"
    BY <1>1, <2>1, <2>2, <2>3, Steps DEF PushLoad, PushClaim, ppos, TypeOK
  <2>4. CASE status[m_end] # "empty"
    BY <1>1, <2>1, <2>2, <2>4 DEF PushLoad, PushMiss, ppos
  <2>5. QED
    BY <2>1, <2>3, <2>4
<1>2. ASSUME PopLoad PROVE ppos' = ppos /\ cpos' = cpos /\ UNCHANGED <<status, data, item, taken, ppc>>
  <2>1. UNCHANGED <<status, data, item, taken, ppc>> /\ ppos' = ppos
    BY <1>2 DEF PopLoad, producer, ppos
  <2>2. cpos = m_begin
    BY <1>2 DEF PopLoad, cpos
  <2>3. CASE status[m_begin] = "full"
    BY <1>2, <2>1, <2>2, <2>3, Steps DEF PopLoad, PopClaim, cpos, TypeOK
  <2>4. CASE status[m_begin] # "full"
    BY <1>2, <2>1, <2>2, <2>4 DEF PopLoad, PopMiss, cpos
  <2>5. QED
    BY <2>1, <2>3, <2>4
<1>3. QED
  BY <1>1, <1>2

\* The step that adds an item.
LEMMA PublishStep ==
  ASSUME TypeOK, RingInv, PushPublish
  PROVE  /\ cpos' = cpos /\ ppos' = Next1(ppos) /\ Length' = Length + 1
         /\ Off(cpos, ppos) = Length
<1>1. ppos \in Cells /\ cpos \in Cells /\ status[ppos] = "empty"
  BY Positions DEF PushPublish, RingInv
<1>2. cpos' = cpos
  BY DEF PushPublish, consumer, cpos
<1>3. ppos' = Next1(ppos)
  BY Steps DEF PushPublish, ppos, TypeOK
<1>4. status' = [status EXCEPT ![ppos] = "full"] /\ status \in [Cells -> {"empty", "full"}]
  BY DEF PushPublish, TypeOK
<1>5. Off(cpos, ppos) = Length
  BY <1>1, OffsetFacts DEF Length
<1> DEFINE p == ppos
           c == cpos
<1>6. Length' = IF c = Next1(p) THEN IF status'[c] = "full" THEN N ELSE 0 ELSE Off(c, Next1(p))
  BY <1>2, <1>3 DEF Length
<1>7. CASE c = Next1(p)
  <2>1. Off(c, p) = N - 1
    BY <1>1, <1>7, OffsetFacts
  <2>2. status'[c] = "full"
    <3>1. CASE c = p
      BY <1>1, <1>4, <3>1
    <3>2. CASE c # p
      <4>1. Off(c, c) < Length
        BY <1>1, <1>5, <3>2, Offsets, OffsetFacts, SpscAssumption DEF Cells
      <4>2. QED
        BY <1>1, <1>4, <3>2, <4>1 DEF RingInv
    <3>3. QED
      BY <3>1, <3>2
  <2>3. QED
    BY <1>2, <1>3, <1>5, <1>6, <1>7, <2>1, <2>2, SpscAssumption
<1>8. CASE c # Next1(p)
  BY <1>1, <1>2, <1>3, <1>5, <1>6, <1>8, OffsetFacts
<1>9. QED
  BY <1>2, <1>3, <1>5, <1>7, <1>8

\* The step that takes an item out.
LEMMA ReleaseStep ==
  ASSUME TypeOK, RingInv, PopRelease
  PROVE  /\ ppos' = ppos /\ cpos' = Next1(cpos) /\ Length' = Length - 1
         /\ Length > 0
<1>1. ppos \in Cells /\ cpos \in Cells /\ status[cpos] = "full" /\ Length \in 0 .. N
  BY Positions DEF PopRelease, RingInv
<1>2. ppos' = ppos
  BY DEF PopRelease, producer, ppos
<1>3. cpos' = Next1(cpos)
  BY Steps DEF PopRelease, cpos, TypeOK
<1>4. status' = [status EXCEPT ![cpos] = "empty"] /\ status \in [Cells -> {"empty", "full"}]
  BY DEF PopRelease, TypeOK
<1>5. Length > 0
  BY <1>1, OffsetFacts DEF RingInv
<1> DEFINE p == ppos
           c == cpos
<1>6. Length' = IF Next1(c) = p THEN IF status'[p] = "full" THEN N ELSE 0 ELSE Off(Next1(c), p)
  BY <1>2, <1>3 DEF Length
<1>7. CASE Next1(c) = p
  <2>1. CASE c = p
    BY <1>1, <1>2, <1>3, <1>4, <1>5, <1>6, <1>7, <2>1, SpscAssumption DEF Length, Cells, Next1
  <2>2. CASE c # p
    <3>1. Off(c, p) = 1 /\ Length = 1
      BY <1>1, <1>7, <2>2, OffsetFacts DEF Length
    <3>2. status[p] = "empty"
      BY <1>1, <3>1 DEF RingInv, TypeOK
    <3>3. QED
      BY <1>1, <1>2, <1>3, <1>4, <1>5, <1>6, <1>7, <2>2, <3>1, <3>2
  <2>3. QED
    BY <2>1, <2>2
<1>8. CASE Next1(c) # p
  <2>1. CASE c = p
    BY <1>1, <1>2, <1>3, <1>5, <1>6, <1>8, <2>1, OffsetFacts DEF Length
  <2>2. CASE c # p
    BY <1>1, <1>2, <1>3, <1>5, <1>6, <1>8, <2>2, OffsetFacts DEF Length
  <2>3. QED
    BY <2>1, <2>2
<1>9. QED
  BY <1>2, <1>3, <1>5, <1>7, <1>8

LEMMA RingStep ==
  ASSUME TypeOK, RingInv, [Next]_vars
  PROVE  RingInv'
<1>0. ppos \in Cells /\ cpos \in Cells /\ Length \in 0 .. N /\ N \in Nat \ {0}
  BY Positions
<1>1. ASSUME NEW x \in Items, Push(x) PROVE RingInv'
  <2>1. ppos' = ppos /\ cpos' = cpos /\ UNCHANGED <<status, data, cpc, taken>>
    BY <1>1 DEF Push, consumer, ppos, cpos
  <2>2. QED
    BY <1>1, <2>1 DEF Push, RingInv, Length
<1>2. CASE PushLoad
  <2>1. ppos' = ppos /\ cpos' = cpos /\ UNCHANGED <<status, data, item, taken, cpc>>
    BY <1>2, ClaimedCell
  <2>2. Length' = Length
    BY <2>1 DEF Length
  <2>3. ppc' # "publish" /\ (ppc' = "fill" => status[ppos] = "empty")
    BY <1>2 DEF PushLoad, PushClaim, PushMiss, ppos
  <2>4. QED
    BY <2>1, <2>2, <2>3 DEF RingInv
<1>3. CASE PushFill
  <2>1. ppos' = ppos /\ cpos' = cpos /\ UNCHANGED <<status, item, cpc, taken>>
    BY <1>3 DEF PushFill, consumer, ppos, cpos
  <2>2. Length' = Length
    BY <2>1 DEF Length
  <2>3. data' = [data EXCEPT ![ppos] = item] /\ item \in Items /\ data \in [Cells -> Items \cup {Nothing}]
    BY <1>3 DEF PushFill, TypeOK
  <2>4. ppc = "fill"
    BY <1>3 DEF PushFill
  <2>5. QED
    BY <1>0, <2>1, <2>2, <2>3, <2>4, SpscAssumption DEF RingInv
<1>4. CASE PushPublish
  <2>1. cpos' = cpos /\ Length' = Length + 1 /\ Off(cpos, ppos) = Length
    BY <1>4, PublishStep
  <2>2. /\ status' = [status EXCEPT ![ppos] = "full"] /\ UNCHANGED <<data, cpc, taken>>
        /\ ppc' = "idle" /\ status \in [Cells -> {"empty", "full"}]
        /\ data[ppos] = item /\ item \in Items
    BY <1>4 DEF PushPublish, consumer, RingInv, TypeOK
  <2>3. ASSUME NEW i \in Cells PROVE status'[i] = "full" <=> Off(cpos, i) < Length + 1
    <3>1. CASE i = ppos
      BY <1>0, <2>1, <2>2, <3>1
    <3>2. CASE i # ppos
      <4>1. Off(cpos, i) # Length
        BY <1>0, <2>1, <3>2, Offsets
      <4>2. status'[i] = "full" <=> Off(cpos, i) < Length
        BY <1>0, <2>2, <3>2 DEF RingInv
      <4>3. Off(cpos, i) \in Int
        BY <1>0, Offsets DEF Cells
      <4>4. QED
        BY <1>0, <4>1, <4>2, <4>3
    <3>3. QED
      BY <3>1, <3>2
  <2>4. QED
    BY <1>0, <2>1, <2>2, <2>3, SpscAssumption DEF RingInv
<1>5. CASE Pop
  <2>1. ppos' = ppos /\ cpos' = cpos /\ UNCHANGED <<status, data, ppc, item>> /\ cpc' = "load" /\ cpc = "idle"
    BY <1>5 DEF Pop, producer, ppos, cpos
  <2>2. QED
    BY <2>1 DEF RingInv, Length
<1>6. CASE PopLoad
  <2>1. ppos' = ppos /\ cpos' = cpos /\ UNCHANGED <<status, data, item, taken, ppc>>
    BY <1>6, ClaimedCell
  <2>2. Length' = Length
    BY <2>1 DEF Length
  <2>3. cpc' \in {"idle", "load", "take"} /\ (cpc' = "take" => status[cpos] = "full") /\ cpc = "load"
    BY <1>6 DEF PopLoad, PopClaim, PopMiss, cpos
  <2>4. QED
    BY <2>1, <2>2, <2>3 DEF RingInv
<1>7. CASE PopTake
  <2>1. /\ ppos' = ppos /\ cpos' = cpos /\ UNCHANGED <<status, data, ppc, item>>
        /\ cpc' = "clear" /\ cpc = "take" /\ taken' = data[cpos]
    BY <1>7 DEF PopTake, producer, ppos, cpos
  <2>2. taken' \in Items
    BY <1>0, <2>1 DEF RingInv, TypeOK
  <2>3. QED
    BY <2>1, <2>2 DEF RingInv, Length
<1>8. CASE PopClear
  <2>1. /\ ppos' = ppos /\ cpos' = cpos /\ UNCHANGED <<status, ppc, item, taken>>
        /\ cpc' = "release" /\ cpc = "clear" /\ data' = [data EXCEPT ![cpos] = Nothing]
    BY <1>8 DEF PopClear, producer, ppos, cpos
  <2>2. Length' = Length
    BY <2>1 DEF Length
  <2>3. ppc = "publish" => ppos # cpos
    BY <2>1 DEF RingInv
  <2>4. QED
    BY <1>0, <2>1, <2>2, <2>3 DEF RingInv, TypeOK
<1>9. CASE PopRelease
  <2>1. ppos' = ppos /\ cpos' = Next1(cpos) /\ Length' = Length - 1 /\ Length > 0
    BY <1>9, ReleaseStep
  <2>2. /\ status' = [status EXCEPT ![cpos] = "empty"] /\ UNCHANGED <<data, ppc, item>>
        /\ cpc' = "idle" /\ cpc = "release" /\ status \in [Cells -> {"empty", "full"}]
    BY <1>9 DEF PopRelease, producer, TypeOK
  <2>3. ASSUME NEW i \in Cells PROVE status'[i] = "full" <=> Off(Next1(cpos), i) < Length - 1
    <3>1. CASE i = cpos
      BY <1>0, <2>2, <3>1, OffsetFacts
    <3>2. CASE i # cpos
      <4>1. Off(Next1(cpos), i) = Off(cpos, i) - 1
        BY <1>0, <3>2, OffsetFacts
      <4>2. status'[i] = "full" <=> Off(cpos, i) < Length
        BY <1>0, <2>2, <3>2 DEF RingInv
      <4>3. Off(cpos, i) \in Int
        BY <1>0, Offsets DEF Cells
      <4>4. QED
        BY <1>0, <4>1, <4>2, <4>3
    <3>3. QED
      BY <3>1, <3>2
  <2>4. \A i \in Cells : data'[i] = Nothing => status'[i] = "empty"
    BY <1>0, <2>2 DEF RingInv
  <2>5. ppc \in {"fill", "publish"} => status'[ppos] = "empty"
    BY <1>0, <2>2 DEF RingInv
  <2>6. QED
    BY <2>1, <2>2, <2>3, <2>4, <2>5 DEF RingInv
<1>10. CASE UNCHANGED vars
  BY <1>10 DEF vars, producer, consumer, RingInv, Length, ppos, cpos
<1>11. QED
  BY <1>1, <1>2, <1>3, <1>4, <1>5, <1>6, <1>7, <1>8, <1>9, <1>10 DEF Next, Producer, Consumer

\* Init has an empty ring.
LEMMA RingInit == Init => TypeOK /\ RingInv
<1> SUFFICES ASSUME Init PROVE TypeOK /\ RingInv
  OBVIOUS
<1>1. TypeOK
  BY SpscAssumption DEF Init, TypeOK, Cells
<1>2. ppos = 0 /\ cpos = 0 /\ Length = 0 /\ 0 \in Cells
  BY SpscAssumption DEF Init, ppos, cpos, Length, Cells
<1>3. \A i \in Cells : status[i] = "empty" /\ ~ (Off(cpos, i) < Length)
  BY <1>2, SpscAssumption DEF Init, Off, Cells
<1>4. QED
  BY <1>1, <1>3 DEF Init, RingInv

\* The threads' local state and the cells stay well typed in a ring of any size.
THEOREM SpscTypeCorrect == Spec => []TypeOK
<1>1. TypeOK /\ RingInv /\ [Next]_vars => TypeOK' /\ RingInv'
  BY TypeStep, RingStep
<1>2. QED
  BY RingInit, <1>1, PTL DEF Spec

\* The full cells are the ones from the consumer's to the producer's.
THEOREM RingCorrect == Spec => []RingInv
<1>1. TypeOK /\ RingInv /\ [Next]_vars => TypeOK' /\ RingInv'
  BY TypeStep, RingStep
<1>2. QED
  BY RingInit, <1>1, PTL DEF Spec

\* No item is read or cleared by one thread while the other writes it.
THEOREM ItemsAreNotShared == Spec => []NoDataRace
<1>1. RingInv => NoDataRace
  BY DEF RingInv, NoDataRace
<1>2. QED
  BY <1>1, RingCorrect, PTL

-----------------------------------------------------------------------------
(* The ring implements the queue. *)

\* The items of the queue are items, as many as Length says.
LEMMA ContentsType ==
  ASSUME TypeOK, RingInv
  PROVE  /\ Contents \in Seq(Items) /\ Len(Contents) = Length
         /\ \A j \in 1 .. Length :
              Contents[j] = IF j = 1 /\ cpc \in {"clear", "release"} THEN taken
                            ELSE data[At(cpos, j - 1)]
<1>0. ppos \in Cells /\ cpos \in Cells /\ Length \in 0 .. N /\ N \in Nat \ {0}
  BY Positions
<1>1. ASSUME NEW j \in 1 .. Length
      PROVE  (IF j = 1 /\ cpc \in {"clear", "release"} THEN taken ELSE data[At(cpos, j - 1)]) \in Items
  <2>1. CASE j = 1 /\ cpc \in {"clear", "release"}
    BY <2>1 DEF RingInv
  <2>2. CASE ~ (j = 1 /\ cpc \in {"clear", "release"})
    <3>1. j - 1 \in Cells /\ j - 1 < Length
      BY <1>0 DEF Cells
    <3> DEFINE i == At(cpos, j - 1)
    <3>2. i \in Cells /\ Off(cpos, i) = j - 1
      BY <1>0, <3>1, Offsets
    <3>3. i = cpos => j = 1
      BY <1>0, <3>1, <3>2, OffsetFacts
    <3> HIDE DEF i
    <3>4. status[i] = "full"
      BY <3>1, <3>2 DEF RingInv
    <3>5. data[i] # Nothing
      BY <2>2, <3>2, <3>3, <3>4 DEF RingInv
    <3>6. QED
      BY <2>2, <3>2, <3>5 DEF TypeOK, i
  <2>3. QED
    BY <2>1, <2>2
<1> DEFINE e(j) == IF j = 1 /\ cpc \in {"clear", "release"} THEN taken ELSE data[At(cpos, j - 1)]
<1>2. Contents = [j \in 1 .. Length |-> e(j)]
  BY DEF Contents
<1>3. \A j \in 1 .. Length : e(j) \in Items
  BY <1>1
<1> HIDE DEF e
<1>4. Contents \in [1 .. Length -> Items]
  BY <1>2, <1>3
<1>5. Contents \in Seq(Items)
  BY <1>0, <1>4, SeqDef
<1>6. Len(Contents) = Length
  BY <1>0, <1>4, <1>5, LenProperties
<1>7. QED
  BY <1>2, <1>5, <1>6 DEF e

ContentsFact ==
  /\ Contents \in Seq(Items) /\ Len(Contents) = Length
  /\ \A j \in 1 .. Length :
       Contents[j] = IF j = 1 /\ cpc \in {"clear", "release"} THEN taken
                     ELSE data[At(cpos, j - 1)]

\* The same, before and after a step.
LEMMA ContentsTypes ==
  /\ TypeOK /\ RingInv => ContentsFact
  /\ TypeOK' /\ RingInv' => ContentsFact'
<1>1. TypeOK /\ RingInv => ContentsFact
  BY ContentsType DEF ContentsFact
<1>2. QED
  BY <1>1, PTL

\* A step that leaves the ends of the queue and what it shows of the cells.
LEMMA SameContents ==
  ASSUME ContentsFact, ContentsFact', Length' = Length,
         \A j \in 1 .. Length : Contents'[j] = Contents[j]
  PROVE  Contents' = Contents
BY SeqEqual DEF ContentsFact

\* A step that leaves everything the contents are made of.
LEMMA UntouchedContents ==
  ASSUME ppos' = ppos, cpos' = cpos, UNCHANGED <<status, data, taken>>,
         (cpc' \in {"clear", "release"}) <=> (cpc \in {"clear", "release"})
  PROVE  Contents' = Contents /\ Length' = Length
<1>1. Length' = Length
  BY DEF Length
<1>2. QED
  BY <1>1 DEF Contents

LEMMA PushPublishes ==
  ASSUME TypeOK, RingInv, ContentsFact, ContentsFact', PushPublish
  PROVE  Queue!Push(item) /\ item \in Items
<1>1. cpos' = cpos /\ Length' = Length + 1 /\ Off(cpos, ppos) = Length
  BY PublishStep
<1>2. ppos \in Cells /\ cpos \in Cells /\ Length \in 0 .. N /\ N \in Nat \ {0}
  BY Positions
<1>3. Length < N
  BY <1>1, <1>2, Offsets DEF Cells
<1>4. data[ppos] = item /\ item \in Items /\ UNCHANGED <<data, cpc, taken>> /\ pushed' = TRUE /\ UNCHANGED popped
  BY DEF PushPublish, RingInv, TypeOK, consumer
<1>5. At(cpos, Length) = ppos
  BY <1>1, <1>2, Offsets
<1> DEFINE A == Append(Contents, item)
<1>6. /\ A \in Seq(Items) /\ Len(A) = Length + 1 /\ A[Length + 1] = item
      /\ \A j \in 1 .. Length : A[j] = Contents[j]
  BY <1>4, AppendProperties DEF ContentsFact
<1> HIDE DEF A
<1>7. ASSUME NEW j \in 1 .. Length + 1 PROVE Contents'[j] = A[j]
  <2>1. Contents'[j] = IF j = 1 /\ cpc \in {"clear", "release"} THEN taken ELSE data[At(cpos, j - 1)]
    BY <1>1, <1>4 DEF ContentsFact
  <2>2. CASE j = Length + 1
    <3>1. ~ (j = 1 /\ cpc \in {"clear", "release"})
      BY <1>2, <2>2, OffsetFacts DEF RingInv
    <3>2. j - 1 = Length
      BY <1>2, <2>2
    <3>3. QED
      BY <1>4, <1>5, <1>6, <2>1, <2>2, <3>1, <3>2
  <2>3. CASE j # Length + 1
    <3>1. j \in 1 .. Length
      BY <1>2, <2>3
    <3>2. Contents[j] = IF j = 1 /\ cpc \in {"clear", "release"} THEN taken ELSE data[At(cpos, j - 1)]
      BY <3>1 DEF ContentsFact
    <3>3. QED
      BY <1>6, <2>1, <3>1, <3>2
  <2>4. QED
    BY <2>2, <2>3
<1>8. Contents' = A
  BY <1>1, <1>2, <1>6, <1>7, SeqEqual DEF ContentsFact
<1>9. QED
  BY <1>3, <1>4, <1>8 DEF Queue!Push, ContentsFact, A

LEMMA PopReleases ==
  ASSUME TypeOK, RingInv, ContentsFact, ContentsFact', PopRelease
  PROVE  Queue!Pop
<1>1. cpos' = Next1(cpos) /\ Length' = Length - 1 /\ Length > 0
  BY ReleaseStep
<1>2. ppos \in Cells /\ cpos \in Cells /\ Length \in 0 .. N /\ N \in Nat \ {0}
  BY Positions
<1>3. /\ UNCHANGED <<data, taken, pushed>> /\ popped' = taken
      /\ cpc = "release" /\ cpc' = "idle"
  BY DEF PopRelease, producer
<1>4. Contents \in Seq(Items) /\ Len(Contents) = Length /\ Contents # <<>>
  BY <1>1, EmptySeq DEF ContentsFact
<1>5. Head(Contents) = taken
  <2>1. Head(Contents) = Contents[1]
    BY <1>4
  <2>2. QED
    BY <1>1, <1>2, <1>3, <2>1 DEF ContentsFact
<1>6. /\ Tail(Contents) \in Seq(Items) /\ Len(Tail(Contents)) = Length - 1
      /\ \A j \in 1 .. Length - 1 : Tail(Contents)[j] = Contents[j + 1]
  BY <1>4, HeadTailProperties
<1>7. ASSUME NEW j \in 1 .. Length - 1 PROVE Contents'[j] = Tail(Contents)[j]
  <2>1. j - 1 \in Cells /\ (j - 1) + 1 \in Cells /\ j + 1 \in 1 .. Length /\ (j - 1) + 1 = (j + 1) - 1
    BY <1>2 DEF Cells
  <2>2. Contents'[j] = data[At(Next1(cpos), j - 1)]
    BY <1>1, <1>3 DEF ContentsFact
  <2>3. At(Next1(cpos), j - 1) = At(cpos, (j + 1) - 1)
    BY <1>2, <2>1, AtFacts
  <2>4. Contents[j + 1] = data[At(cpos, (j + 1) - 1)]
    BY <2>1 DEF ContentsFact
  <2>5. QED
    BY <1>6, <2>2, <2>3, <2>4
<1>8. Contents' = Tail(Contents)
  BY <1>1, <1>6, <1>7, SeqEqual DEF ContentsFact
<1>9. QED
  BY <1>3, <1>4, <1>5, <1>8 DEF Queue!Pop

\* Every step of a thread is a step of the queue or none at all.
LEMMA QueueStep ==
  ASSUME TypeOK, RingInv, ContentsFact, ContentsFact', [Next]_vars
  PROVE  [Queue!Next]_<<Contents, pushed, popped>>
<1>0. ppos \in Cells /\ cpos \in Cells /\ Length \in 0 .. N /\ N \in Nat \ {0}
  BY Positions
<1> DEFINE Stays == Contents' = Contents /\ UNCHANGED <<pushed, popped>>
<1>1. ASSUME NEW x \in Items, Push(x) PROVE Stays
  <2>1. UNCHANGED <<status, data, taken, cpc, pushed, popped>> /\ ppos' = ppos /\ cpos' = cpos
    BY <1>1 DEF Push, consumer, ppos, cpos
  <2>2. QED
    BY <2>1, UntouchedContents
<1>2. CASE PushLoad
  <2>1. Contents' = Contents /\ UNCHANGED popped
    BY <1>2, ClaimedCell, UntouchedContents DEF PushLoad, consumer
  <2>2. CASE pushed' = pushed
    BY <2>1, <2>2
  <2>3. CASE pushed' # pushed
    <3>1. pushed' = FALSE /\ status[ppos] = "full"
      BY <1>2, <2>3 DEF PushLoad, PushClaim, PushMiss, TypeOK, ppos
    <3>2. Off(cpos, ppos) < Length
      BY <1>0, <3>1 DEF RingInv
    <3>3. Length = N
      BY <1>0, <3>2, Offsets DEF Length, Cells
    <3>4. QED
      BY <2>1, <3>1, <3>3 DEF Queue!Next, Queue!PushRefused, ContentsFact
  <2>4. QED
    BY <2>2, <2>3
<1>3. CASE PushFill
  <2>1. ppos' = ppos /\ cpos' = cpos /\ UNCHANGED <<status, cpc, taken, pushed, popped>>
    BY <1>3 DEF PushFill, consumer, ppos, cpos
  <2>2. Length' = Length
    BY <2>1 DEF Length
  <2>3. data' = [data EXCEPT ![ppos] = item] /\ data \in [Cells -> Items \cup {Nothing}]
    BY <1>3 DEF PushFill, TypeOK
  <2>4. ~ (Off(cpos, ppos) < Length)
    BY <1>0, <1>3 DEF PushFill, RingInv
  <2>5. ASSUME NEW j \in 1 .. Length PROVE Contents'[j] = Contents[j]
    <3>1. j - 1 \in Cells /\ j - 1 < Length
      BY <1>0 DEF Cells
    <3>2. At(cpos, j - 1) \in Cells /\ Off(cpos, At(cpos, j - 1)) = j - 1
      BY <1>0, <3>1, Offsets
    <3>3. At(cpos, j - 1) # ppos
      BY <2>4, <3>1, <3>2
    <3>4. QED
      BY <2>1, <2>2, <2>3, <3>2, <3>3 DEF ContentsFact
  <2>6. Contents' = Contents
    BY <2>2, <2>5, SameContents
  <2>7. QED
    BY <2>1, <2>6
<1>4. CASE PushPublish
  BY <1>4, PushPublishes DEF Queue!Next
<1>5. CASE Pop
  <2>1. UNCHANGED <<status, data, taken, pushed, popped>> /\ ppos' = ppos /\ cpos' = cpos /\ cpc = "idle" /\ cpc' = "load"
    BY <1>5 DEF Pop, producer, ppos, cpos
  <2>2. QED
    BY <2>1, UntouchedContents
<1>6. CASE PopLoad
  <2>1. cpc = "load" /\ cpc' \in {"idle", "load", "take"}
    BY <1>6 DEF PopLoad, PopClaim, PopMiss
  <2>2. Contents' = Contents /\ UNCHANGED pushed
    BY <1>6, <2>1, ClaimedCell, UntouchedContents DEF PopLoad, producer
  <2>3. CASE popped' = popped
    BY <2>2, <2>3
  <2>4. CASE popped' # popped
    <3>1. popped' = Nothing /\ status[cpos] # "full"
      BY <1>6, <2>4 DEF PopLoad, PopClaim, PopMiss, cpos
    <3>2. Length = 0
      BY <1>0, <3>1, OffsetFacts DEF RingInv
    <3>3. Contents = <<>>
      BY <3>2, EmptySeq DEF ContentsFact
    <3>4. QED
      BY <2>2, <3>1, <3>3 DEF Queue!Next, Queue!PopFailed
  <2>5. QED
    BY <2>3, <2>4
<1>7. CASE PopTake
  <2>1. /\ ppos' = ppos /\ cpos' = cpos /\ UNCHANGED <<status, data, pushed, popped>>
        /\ cpc' = "clear" /\ cpc = "take" /\ taken' = data[cpos]
    BY <1>7 DEF PopTake, producer, ppos, cpos
  <2>2. Length' = Length
    BY <2>1 DEF Length
  <2>3. At(cpos, 0) = cpos
    BY <1>0, AtFacts
  <2>4. \A j \in 1 .. Length : Contents'[j] = Contents[j]
    BY <1>0, <2>1, <2>2, <2>3 DEF ContentsFact
  <2>5. QED
    BY <2>1, <2>2, <2>4, SameContents
<1>8. CASE PopClear
  <2>1. /\ ppos' = ppos /\ cpos' = cpos /\ UNCHANGED <<status, taken, pushed, popped>>
        /\ cpc' = "release" /\ cpc = "clear" /\ data' = [data EXCEPT ![cpos] = Nothing]
    BY <1>8 DEF PopClear, producer, ppos, cpos
  <2>2. Length' = Length
    BY <2>1 DEF Length
  <2>3. data \in [Cells -> Items \cup {Nothing}]
    BY DEF TypeOK
  <2>4. ASSUME NEW j \in 1 .. Length PROVE Contents'[j] = Contents[j]
    <3>1. CASE j = 1
      BY <2>1, <2>2, <3>1 DEF ContentsFact
    <3>2. CASE j # 1
      <4>1. j - 1 \in Cells /\ j - 1 # 0
        BY <1>0, <3>2 DEF Cells
      <4>2. At(cpos, j - 1) # cpos /\ At(cpos, j - 1) \in Cells
        BY <1>0, <4>1, AtFacts, Offsets
      <4>3. QED
        BY <2>1, <2>2, <2>3, <3>2, <4>2 DEF ContentsFact
    <3>3. QED
      BY <3>1, <3>2
  <2>5. QED
    BY <2>1, <2>2, <2>4, SameContents
<1>9. CASE PopRelease
  BY <1>9, PopReleases DEF Queue!Next
<1>10. CASE UNCHANGED vars
  BY <1>10 DEF vars, producer, consumer, Contents, Length, ppos, cpos
<1>11. QED
  BY <1>1, <1>2, <1>3, <1>4, <1>5, <1>6, <1>7, <1>8, <1>9, <1>10 DEF Next, Producer, Consumer

\* The ring behaves like a bounded queue with atomic calls, whatever its size:
\* nothing is lost, doubled or reordered between the two threads, a push is
\* refused only when the queue is full and a pop only when it is empty.
THEOREM RingIsFifo == Spec => IsFifo
<1>1. Init => Queue!Init
  <2> SUFFICES ASSUME Init PROVE Queue!Init
    OBVIOUS
  <2>1. Length = 0 /\ ContentsFact
    BY RingInit, ContentsTypes, SpscAssumption DEF Init, Length, ppos, cpos, Cells
  <2>2. Contents = <<>>
    BY <2>1, EmptySeq DEF ContentsFact
  <2>3. QED
    BY <2>2 DEF Init, Queue!Init
<1>2. TypeOK /\ RingInv /\ [Next]_vars => TypeOK' /\ RingInv'
  BY TypeStep, RingStep
<1>3. TypeOK /\ RingInv /\ [Next]_vars => [Queue!Next]_<<Contents, pushed, popped>>
  BY <1>2, ContentsTypes, QueueStep
<1>4. QED
  BY RingInit, <1>1, <1>2, <1>3, PTL DEF Spec, IsFifo, Queue!Spec

=============================================================================
