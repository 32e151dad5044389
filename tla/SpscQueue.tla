------------------------------ MODULE SpscQueue ------------------------------
(***************************************************************************)
(* LockFreeCircularQueueSPSC: the receive queue between the epoll thread,  *)
(* which pushes, and the main timer thread, which pops.  Neither takes a   *)
(* lock: the status of a cell is the only hand-over between the threads.   *)
(*                                                                         *)
(* One action is one access to the shared ring.  The status is loaded with *)
(* acquire and stored with release order, so the steps of a thread on a    *)
(* cell are seen by the other in their order.  m_begin and m_end are used  *)
(* through realPos only; the model keeps the masked value, which is what   *)
(* is left of the counter also when the counter itself wraps.              *)
(***************************************************************************)
EXTENDS Integers, Sequences

CONSTANTS
  N,           \* m_maxSize
  Items,
  Nothing      \* T()

ASSUME SpscAssumption == N \in Nat \ {0} /\ Nothing \notin Items

VARIABLES
  m_begin, m_end,
  status, data,            \* the cells
  ppc, ptry, item,         \* push: where it is, its loads so far, its item
  cpc, ctry, taken,        \* pop: where it is, its loads so far, *t
  pushed, popped           \* what the last calls returned

producer == <<m_end, ppc, ptry, item, pushed>>
consumer == <<m_begin, cpc, ctry, taken, popped>>
vars == <<producer, consumer, status, data>>

Cells == 0 .. N - 1

\* The masked value of a counter after an increment.
Next1(i) == IF i = N - 1 THEN 0 ELSE i + 1

\* The cell a thread works on once it has moved its end of the queue.
Prev1(i) == IF i = 0 THEN N - 1 ELSE i - 1
ppos == IF ppc \in {"fill", "publish"} THEN Prev1(m_end) ELSE m_end
cpos == IF cpc \in {"take", "clear", "release"} THEN Prev1(m_begin) ELSE m_begin

Init ==
  /\ m_begin = 0 /\ m_end = 0
  /\ status = [i \in Cells |-> "empty"] /\ data = [i \in Cells |-> Nothing]
  /\ ppc = "idle" /\ ptry = 0 /\ item = Nothing /\ pushed = TRUE
  /\ cpc = "idle" /\ ctry = 0 /\ taken = Nothing /\ popped = Nothing

-----------------------------------------------------------------------------
(* push, two loads at most. *)

Push(x) ==
  /\ ppc = "idle"
  /\ ppc' = "load" /\ ptry' = 1 /\ item' = x
  /\ UNCHANGED <<m_end, pushed, consumer, status, data>>

PushClaim ==
  /\ ppc' = "fill" /\ m_end' = Next1(m_end)
  /\ UNCHANGED <<ptry, pushed>>

PushMiss ==
  /\ IF ptry = 2
     THEN ppc' = "idle" /\ pushed' = FALSE /\ UNCHANGED ptry
     ELSE ptry' = ptry + 1 /\ UNCHANGED <<ppc, pushed>>
  /\ UNCHANGED m_end

\* Fault: the last load is not looked at.
PushLoadUnchecked ==
  /\ ppc = "load"
  /\ IF status[m_end] = "empty" \/ ptry = 2 THEN PushClaim ELSE PushMiss
  /\ UNCHANGED <<item, consumer, status, data>>

PushLoad ==
  /\ ppc = "load"
  /\ IF status[m_end] = "empty" THEN PushClaim ELSE PushMiss
  /\ UNCHANGED <<item, consumer, status, data>>

PushFill ==
  /\ ppc = "fill"
  /\ data' = [data EXCEPT ![ppos] = item]
  /\ ppc' = "publish"
  /\ UNCHANGED <<m_end, ptry, item, pushed, consumer, status>>

PushPublish ==
  /\ ppc = "publish"
  /\ status' = [status EXCEPT ![ppos] = "full"]
  /\ ppc' = "idle" /\ pushed' = TRUE
  /\ UNCHANGED <<m_end, ptry, item, consumer, data>>

-----------------------------------------------------------------------------
(* pop, three loads at most. *)

Pop ==
  /\ cpc = "idle"
  /\ cpc' = "load" /\ ctry' = 1
  /\ UNCHANGED <<m_begin, taken, popped, producer, status, data>>

PopClaim ==
  /\ cpc' = "take" /\ m_begin' = Next1(m_begin)
  /\ UNCHANGED <<ctry, popped>>

PopMiss ==
  /\ IF ctry = 3
     THEN cpc' = "idle" /\ popped' = Nothing /\ UNCHANGED ctry
     ELSE ctry' = ctry + 1 /\ UNCHANGED <<cpc, popped>>
  /\ UNCHANGED m_begin

PopLoad ==
  /\ cpc = "load"
  /\ IF status[m_begin] = "full" THEN PopClaim ELSE PopMiss
  /\ UNCHANGED <<taken, producer, status, data>>

PopTake ==
  /\ cpc = "take"
  /\ taken' = data[cpos]
  /\ cpc' = "clear"
  /\ UNCHANGED <<m_begin, ctry, popped, producer, status, data>>

PopClear ==
  /\ cpc = "clear"
  /\ data' = [data EXCEPT ![cpos] = Nothing]
  /\ cpc' = "release"
  /\ UNCHANGED <<m_begin, ctry, taken, popped, producer, status>>

PopRelease ==
  /\ cpc = "release"
  /\ status' = [status EXCEPT ![cpos] = "empty"]
  /\ cpc' = "idle" /\ popped' = taken
  /\ UNCHANGED <<m_begin, ctry, taken, producer, data>>

-----------------------------------------------------------------------------

Producer == (\E x \in Items : Push(x)) \/ PushLoad \/ PushFill \/ PushPublish
Consumer == Pop \/ PopLoad \/ PopTake \/ PopClear \/ PopRelease

Next == Producer \/ Consumer

Spec == Init /\ [][Next]_vars

-----------------------------------------------------------------------------
(* Correctness. *)

\* Types of the counters, of the cells and of the two threads' local state.
TypeOK ==
  /\ m_begin \in Cells /\ m_end \in Cells
  /\ status \in [Cells -> {"empty", "full"}]
  /\ data \in [Cells -> Items \cup {Nothing}]
  /\ ppc \in {"idle", "load", "fill", "publish"} /\ ptry \in 0 .. 2
  /\ item \in Items \cup {Nothing} /\ (ppc # "idle" => item \in Items)
  /\ cpc \in {"idle", "load", "take", "clear", "release"} /\ ctry \in 0 .. 3
  /\ taken \in Items \cup {Nothing}
  /\ pushed \in BOOLEAN /\ popped \in Items \cup {Nothing}

\* The two threads never touch the item of one cell at the same time: the plain
\* reads and writes of m_data[pos].t are not a data race.
NoDataRace ==
  ~ (ppc = "fill" /\ cpc \in {"take", "clear"} /\ ppos = cpos)

\* How many cells past cell h cell i is, and the cell k past h.
Off(h, i) == IF i >= h THEN i - h ELSE i - h + N
At(h, k) == IF h + k < N THEN h + k ELSE h + k - N

\* An item is in the queue from the store of "full" to the store of "empty".
Length ==
  IF cpos = ppos THEN IF status[cpos] = "full" THEN N ELSE 0 ELSE Off(cpos, ppos)

Contents ==
  [j \in 1 .. Length |->
     IF j = 1 /\ cpc \in {"clear", "release"} THEN taken ELSE data[At(cpos, j - 1)]]

\* The full cells are those from the one to be popped up to the one to be
\* pushed to.
RingInv ==
  /\ \A i \in Cells : status[i] = "full" <=> Off(cpos, i) < Length
  /\ \A i \in Cells : data[i] = Nothing =>
       status[i] = "empty" \/ (i = cpos /\ cpc = "release")
  /\ ppc \in {"fill", "publish"} => status[ppos] = "empty"
  /\ ppc = "publish" => data[ppos] = item
  /\ cpc \in {"take", "clear", "release"} => status[cpos] = "full"
  /\ cpc \in {"clear", "release"} => taken \in Items

\* The calls behave like those of a bounded queue whose calls are atomic: items
\* come out once, in order, none is lost, a push is refused only by a full
\* queue and a pop fails only on an empty one.
Queue == INSTANCE Fifo WITH q <- Contents, Cap <- N
IsFifo == Queue!Spec

=============================================================================
