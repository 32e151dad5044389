----------------------------- MODULE BasisProofs -----------------------------
(***************************************************************************)
(* Proofs about what every process is built on, each for any keys,         *)
(* intervals and coroutines: the vector with a table of places             *)
(* (SwapErase), the table of clients (FastTravelMap), the timer            *)
(* (TimerEvents) and the coroutines that share a stack (Coroutines).       *)
(***************************************************************************)
EXTENDS FastTravelMap, TimerEvents, Coroutines, TLAPS

---------------------------------------------------------------------------
\* Adding to and erasing from a vector and a table that agree.

LEMMA AddedAgree ==
  ASSUME NEW K, NEW v \in Seq(K), NEW p, NEW k \in K, Agrees(v, p), k \notin DOMAIN p,
         DOMAIN p \subseteq K, p \in [DOMAIN p -> Nat]
  PROVE  /\ Added(v, k) \in Seq(K)
         /\ DOMAIN PlacesAdded(v, p, k) \subseteq K
         /\ PlacesAdded(v, p, k) \in [DOMAIN PlacesAdded(v, p, k) -> Nat]
         /\ Agrees(Added(v, k), PlacesAdded(v, p, k))
<1> DEFINE w == Added(v, k)  r == PlacesAdded(v, p, k)
<1>1. w \in Seq(K) /\ Len(w) = Len(v) + 1 /\ Len(v) \in Nat
  BY DEF Added
<1>2. \A i \in 1 .. Len(v) + 1 : w[i] = IF i = Len(v) + 1 THEN k ELSE v[i]
  BY DEF Added
<1>3. DOMAIN r = DOMAIN p \cup {k} /\ \A j \in DOMAIN p \cup {k} : r[j] = IF j = k THEN Len(v) + 1 ELSE p[j]
  BY DEF PlacesAdded
<1>4. r \in [DOMAIN r -> Nat]
  BY <1>1, <1>3 DEF PlacesAdded
<1>5. Agrees(w, r)
  <2>1. ASSUME NEW i \in 1 .. Len(w) PROVE w[i] \in DOMAIN r /\ r[w[i]] = i
    <3>1. CASE i = Len(v) + 1
      BY <3>1, <1>1, <1>2, <1>3
    <3>2. CASE i # Len(v) + 1
      <4>1. i \in 1 .. Len(v) /\ w[i] = v[i]
        BY <3>2, <1>1, <1>2, <2>1
      <4>2. QED
        BY <4>1, <1>3 DEF Agrees
    <3>3. QED
      BY <3>1, <3>2
  <2>2. ASSUME NEW j \in DOMAIN r PROVE r[j] \in 1 .. Len(w) /\ w[r[j]] = j
    <3>1. CASE j = k
      BY <3>1, <1>1, <1>2, <1>3
    <3>2. CASE j # k
      <4>1. j \in DOMAIN p /\ r[j] = p[j]
        BY <3>2, <1>3, <2>2
      <4>2. p[j] \in 1 .. Len(v) /\ v[p[j]] = j
        BY <4>1 DEF Agrees
      <4>3. QED
        BY <4>1, <4>2, <1>1, <1>2
    <3>3. QED
      BY <3>1, <3>2
  <2>3. QED
    BY <2>1, <2>2 DEF Agrees
<1>6. QED
  BY <1>1, <1>3, <1>4, <1>5

LEMMA ErasedAgree ==
  ASSUME NEW K, NEW v \in Seq(K), NEW p, NEW k \in DOMAIN p, Agrees(v, p),
         DOMAIN p \subseteq K, p \in [DOMAIN p -> Nat]
  PROVE  /\ Erased(v, p, k) \in Seq(K)
         /\ Len(Erased(v, p, k)) = Len(v) - 1
         /\ \A i \in 1 .. Len(v) - 1 : Erased(v, p, k)[i] = IF i = p[k] THEN v[Len(v)] ELSE v[i]
         /\ DOMAIN PlacesErased(v, p, k) \subseteq K
         /\ PlacesErased(v, p, k) \in [DOMAIN PlacesErased(v, p, k) -> Nat]
         /\ Agrees(Erased(v, p, k), PlacesErased(v, p, k))
<1> DEFINE w == Erased(v, p, k)  r == PlacesErased(v, p, k)  n == Len(v)
<1>1. n \in Nat \ {0} /\ p[k] \in 1 .. n /\ v[p[k]] = k /\ k \in K
  BY DEF Agrees
<1>2. \A i \in 1 .. n : v[i] \in K /\ v[i] \in DOMAIN p /\ p[v[i]] = i
  BY DEF Agrees
<1> HIDE DEF n
<1>3. w \in Seq(K) /\ Len(w) = n - 1
  <2>1. w = [i \in 1 .. n - 1 |-> IF i = p[k] THEN v[n] ELSE v[i]]
    BY DEF Erased, n
  <2>2. \A i \in 1 .. n - 1 : (IF i = p[k] THEN v[n] ELSE v[i]) \in K
    BY <1>1, <1>2
  <2>3. n - 1 \in Nat
    BY <1>1
  <2>4. w \in [1 .. n - 1 -> K]
    BY <2>1, <2>2
  <2>5. QED
    BY <2>3, <2>4
<1>4. \A i \in 1 .. n - 1 : w[i] = IF i = p[k] THEN v[n] ELSE v[i]
  BY DEF Erased, n
<1>5. DOMAIN r = DOMAIN p \ {k} /\ \A j \in DOMAIN p \ {k} : r[j] = IF j = v[n] THEN p[k] ELSE p[j]
  BY DEF PlacesErased, n
<1>6. r \in [DOMAIN r -> Nat]
  BY <1>1, <1>5 DEF PlacesErased
<1>7. \A j \in DOMAIN p : p[j] \in 1 .. n /\ v[p[j]] = j
  BY DEF Agrees, n
<1>8. ASSUME NEW i \in 1 .. n - 1 PROVE w[i] \in DOMAIN r /\ r[w[i]] = i
  <2>1. CASE i = p[k]
    <3>1. w[i] = v[n] /\ v[n] # k /\ v[n] \in DOMAIN p
      BY <2>1, <1>1, <1>2, <1>4, <1>8
    <3>2. QED
      BY <3>1, <2>1, <1>5
  <2>2. CASE i # p[k]
    <3>1. w[i] = v[i] /\ v[i] # k /\ v[i] # v[n] /\ v[i] \in DOMAIN p /\ p[v[i]] = i
      BY <2>2, <1>1, <1>2, <1>4, <1>8
    <3>2. QED
      BY <3>1, <1>5
  <2>3. QED
    BY <2>1, <2>2
<1>9. ASSUME NEW j \in DOMAIN r PROVE r[j] \in 1 .. n - 1 /\ w[r[j]] = j
  <2>1. j \in DOMAIN p /\ j # k /\ p[j] # p[k]
    BY <1>5, <1>7, <1>9
  <2>2. CASE j = v[n]
    <3>1. r[j] = p[k] /\ p[j] = n
      BY <2>1, <2>2, <1>1, <1>2, <1>5
    <3>2. p[k] \in 1 .. n - 1
      BY <3>1, <2>1, <1>1
    <3>3. QED
      BY <3>1, <3>2, <2>2, <1>4
  <2>3. CASE j # v[n]
    <3>1. r[j] = p[j] /\ p[j] # n /\ p[j] \in 1 .. n - 1
      BY <2>1, <2>3, <1>1, <1>5, <1>7
    <3>2. QED
      BY <3>1, <2>1, <1>4, <1>7
  <2>4. QED
    BY <2>2, <2>3
<1>10. Agrees(w, r)
  BY <1>3, <1>8, <1>9 DEF Agrees
<1>11. QED
  BY <1>3, <1>4, <1>5, <1>6, <1>10 DEF n

---------------------------------------------------------------------------
(* FastTravelMap: the table of places is right whatever was erased.          *)

MapTypeOK ==
  /\ vec \in Seq(Keys)
  /\ DOMAIN index \subseteq Keys /\ index \in [DOMAIN index -> Nat]

MapInv == MapTypeOK /\ IndexAgrees

LEMMA MapInitInv == MapInit => MapInv
<1> SUFFICES ASSUME MapInit PROVE MapInv
  OBVIOUS
<1> USE DEF MapInit
<1>1. MapTypeOK
  BY DEF MapTypeOK
<1>2. IndexAgrees
  BY DEF IndexAgrees, Agrees
<1>3. QED
  BY <1>1, <1>2 DEF MapInv

LEMMA MapStepInv == MapInv /\ [MapStep]_mapVars => MapInv'
<1> SUFFICES ASSUME MapInv, [MapStep]_mapVars PROVE MapInv'
  OBVIOUS
<1>1. ASSUME NEW k \in Keys, MapInsert(k) PROVE MapInv'
  BY <1>1, AddedAgree DEF MapInv, MapTypeOK, IndexAgrees, MapInsert
<1>2. ASSUME NEW k \in Keys, EraseKey(k) PROVE MapInv'
  BY <1>2, ErasedAgree DEF MapInv, MapTypeOK, IndexAgrees, EraseKey
<1>3. CASE UNCHANGED mapVars
  BY <1>3 DEF mapVars, MapInv, MapTypeOK, IndexAgrees
<1>4. QED
  BY <1>1, <1>2, <1>3 DEF MapStep

\* The invariant of the table holds in every state.
THEOREM MapInvariance == MapSpec => []MapInv
  BY MapInitInv, MapStepInv, PTL DEF MapSpec

\* However keys are inserted and erased, a key is found at the place the table
\* names: find, insert and erase of FastTravelUnorderedMap answer for what is
\* stored.
THEOREM IndexAlwaysAgrees == MapSpec => []IndexAgrees
<1>1. MapInv => IndexAgrees
  BY DEF MapInv
<1>2. QED
  BY <1>1, MapInvariance, PTL

\* For any keys, an erase of FastTravelUnorderedMap never inserts a key, so its
\* iterator outlives the write to the table between its two uses: the crash the
\* header warns of cannot come from a rehash inside erase.
THEOREM NoRehashInErase == MapSpec => []EraseNeverRehashes
<1>1. MapInv => EraseNeverRehashes
  <2> SUFFICES ASSUME MapInv, NEW k \in DOMAIN index
               PROVE  vec # <<>> /\ ~ Inserts(k)
    BY DEF EraseNeverRehashes
  <2>1. index[k] \in 1 .. Len(vec) /\ Len(vec) \in Nat
    BY DEF MapInv, MapTypeOK, IndexAgrees, Agrees
  <2>2. Len(vec) \in 1 .. Len(vec)
    BY <2>1
  <2>3. vec[Len(vec)] \in DOMAIN index
    BY <2>2 DEF MapInv, IndexAgrees, Agrees
  <2>4. vec # <<>>
    BY <2>1
  <2>5. QED
    BY <2>3, <2>4 DEF Inserts
<1>2. QED
  BY <1>1, MapInvariance, PTL

---------------------------------------------------------------------------
(* Coroutines: the shared stack always holds what belongs to the one that    *)
(* runs, and doSchedule gives each one that was there exactly one turn,      *)
(* though ids are freed and given anew while it goes over them.              *)

Frames == [of : Corots \cup {NoCorot}, n : Nat]
Lives == {"ready", "running", "sleeping"}

CorotTypeOK ==
  /\ tasks \in Seq(Corots \cup {NoCorot}) /\ free \in Seq(Nat)
  /\ current \in Nat /\ round \in Nat
  /\ state \in [Corots -> {"null", "ended"} \cup Lives]
  /\ did \in [Corots -> Nat] /\ turns \in [Corots -> Nat] /\ present \subseteq Corots
  /\ stack \in Frames /\ stored \in [Corots -> Frames]

\* The one that runs has the id doSchedule is at.
RunsInTurn ==
  /\ current # 0 => /\ current = round /\ current \in DOMAIN tasks
                    /\ tasks[current] # NoCorot /\ state[tasks[current]] = "running"
  /\ \A c \in Corots : state[c] = "running" => current # 0 /\ tasks[current] = c

\* What each one has to find when it runs.
DataIsKept ==
  /\ StackIsOwn
  /\ \A c \in Corots : state[c] \in {"null", "ready"} => did[c] = 0
  /\ \A c \in Corots : state[c] = "sleeping" => stored[c] = Frame(c, did[c])

\* The ids of a round whose coroutine has had no turn yet.
Waiting(i) == i > round \/ (i = round /\ current = 0)

TurnsInv ==
  /\ \A c \in Corots : turns[c] <= 1 /\ (state[c] = "null" => turns[c] = 0)
  /\ round # 0 =>
       /\ \A i \in DOMAIN tasks : Waiting(i) /\ tasks[i] # NoCorot => turns[tasks[i]] = 0
       /\ \A c \in present : turns[c] = 1 \/ \E i \in DOMAIN tasks : Waiting(i) /\ tasks[i] = c

CorotInv == CorotTypeOK /\ IdsAgree /\ RunsInTurn /\ DataIsKept /\ TurnsInv

LEMMA CorotInitInv == CorotInit => CorotInv
<1> SUFFICES ASSUME CorotInit PROVE CorotInv
  OBVIOUS
<1> USE DEF CorotInit
<1>1. CorotTypeOK
  BY DEF CorotTypeOK, Empty, Frame, Frames, Lives
<1>2. IdsAgree
  BY DEF IdsAgree
<1>3. RunsInTurn /\ DataIsKept /\ TurnsInv
  BY DEF RunsInTurn, DataIsKept, StackIsOwn, TurnsInv
<1>4. QED
  BY <1>1, <1>2, <1>3 DEF CorotInv

---------------------------------------------------------------------------
\* The list of tasks and the free ids, when one is given and when one is freed.

LEMMA CreateIds ==
  ASSUME CorotInv, NEW c \in Corots, Create(c)
  PROVE  \E id \in Nat :
           /\ DOMAIN tasks' = DOMAIN tasks \cup {id} /\ id # 0 /\ tasks'[id] = c
           /\ id \in DOMAIN tasks => tasks[id] = NoCorot
           /\ \A i \in DOMAIN tasks : i # id => tasks'[i] = tasks[i]
           /\ tasks' \in Seq(Corots \cup {NoCorot}) /\ free' \in Seq(Nat)
           /\ \A i \in DOMAIN free' : free'[i] \in DOMAIN tasks /\ free'[i] # id /\ tasks[free'[i]] = NoCorot
           /\ \A i, j \in DOMAIN free' : free'[i] = free'[j] => i = j
<1>1. tasks \in Seq(Corots \cup {NoCorot}) /\ free \in Seq(Nat) /\ IdsAgree
  BY DEF CorotInv, CorotTypeOK
<1>2. CASE free = <<>>
  <2>1. tasks' = Append(tasks, c) /\ free' = free
    BY <1>2 DEF Create
  <2>2. WITNESS Len(tasks) + 1 \in Nat
  <2>3. QED
    BY <1>1, <1>2, <2>1
<1>3. CASE free # <<>>
  <2> DEFINE id == Head(free)
  <2>1. tasks' = [tasks EXCEPT ![id] = c] /\ free' = Tail(free)
    BY <1>3 DEF Create
  <2>2. id = free[1] /\ id \in DOMAIN tasks /\ tasks[id] = NoCorot /\ id \in Nat \ {0}
    BY <1>1, <1>3 DEF IdsAgree
  <2>3. \A i \in DOMAIN free' : i + 1 \in DOMAIN free /\ free'[i] = free[i + 1] /\ i + 1 # 1 /\ i \in Nat
    BY <1>1, <1>3, <2>1
  <2>4. \A i \in DOMAIN free' : free'[i] # id
    BY <1>1, <1>3, <2>2, <2>3 DEF IdsAgree
  <2>5. \A i, j \in DOMAIN free' : free'[i] = free'[j] => i = j
    BY <1>1, <2>3 DEF IdsAgree
  <2>6. tasks' \in Seq(Corots \cup {NoCorot}) /\ free' \in Seq(Nat) /\ DOMAIN tasks' = DOMAIN tasks
    BY <1>1, <1>3, <2>1, <2>2
  <2>7. \A i \in DOMAIN free' : free'[i] \in DOMAIN tasks /\ tasks[free'[i]] = NoCorot
    BY <1>1, <2>3 DEF IdsAgree
  <2>8. tasks'[id] = c /\ \A i \in DOMAIN tasks : i # id => tasks'[i] = tasks[i]
    BY <1>1, <2>1, <2>2
  <2> HIDE DEF id
  <2>9. DOMAIN tasks' = DOMAIN tasks \cup {id}
    BY <2>2, <2>6
  <2>10. id \in Nat
    BY <2>2
  <2>11. WITNESS id \in Nat
  <2>12. QED
    BY <2>2, <2>4, <2>5, <2>6, <2>7, <2>8, <2>9
<1>4. QED
  BY <1>2, <1>3

LEMMA DestroyIds ==
  ASSUME CorotInv, NEW id \in DOMAIN tasks, tasks[id] # NoCorot, Destroy(id)
  PROVE  /\ tasks' \in Seq(Corots \cup {NoCorot}) /\ free' \in Seq(Nat)
         /\ DOMAIN tasks' = DOMAIN tasks
         /\ tasks'[id] = NoCorot /\ \A i \in DOMAIN tasks : i # id => tasks'[i] = tasks[i]
         /\ \A i \in DOMAIN free' : free'[i] \in DOMAIN tasks' /\ tasks'[free'[i]] = NoCorot
         /\ \A i, j \in DOMAIN free' : free'[i] = free'[j] => i = j
<1>1. tasks \in Seq(Corots \cup {NoCorot}) /\ free \in Seq(Nat) /\ IdsAgree
  BY DEF CorotInv, CorotTypeOK
<1>2. tasks' = [tasks EXCEPT ![id] = NoCorot] /\ free' = Append(free, id) /\ id \in Nat
  BY <1>1 DEF Destroy
<1>3. tasks' \in Seq(Corots \cup {NoCorot}) /\ free' \in Seq(Nat) /\ DOMAIN tasks' = DOMAIN tasks
  BY <1>1, <1>2
<1>4. tasks'[id] = NoCorot /\ \A i \in DOMAIN tasks : i # id => tasks'[i] = tasks[i]
  BY <1>1, <1>2
<1>5. \A i \in DOMAIN free' :
        (i \in DOMAIN free /\ free'[i] = free[i]) \/ (i = Len(free) + 1 /\ free'[i] = id)
  BY <1>1, <1>2
<1>6. \A i \in DOMAIN free : free[i] # id
  BY <1>1 DEF IdsAgree
<1>7. ASSUME NEW i \in DOMAIN free', NEW j \in DOMAIN free', free'[i] = free'[j] PROVE i = j
  <2>1. CASE i \in DOMAIN free /\ free'[i] = free[i] /\ j \in DOMAIN free /\ free'[j] = free[j]
    BY <2>1, <1>1, <1>7 DEF IdsAgree
  <2>2. CASE i = Len(free) + 1 /\ j = Len(free) + 1
    BY <2>2
  <2>3. QED
    BY <2>1, <2>2, <1>5, <1>6, <1>7
<1>8. \A i \in DOMAIN free' : free'[i] \in DOMAIN tasks' /\ tasks'[free'[i]] = NoCorot
  BY <1>1, <1>3, <1>4, <1>5, <1>6 DEF IdsAgree
<1>9. QED
  BY <1>3, <1>4, <1>7, <1>8

---------------------------------------------------------------------------
\* The steps.

LEMMA CreateInv == ASSUME CorotInv, NEW c \in Corots, Create(c) PROVE CorotInv'
<1>1. CorotTypeOK /\ IdsAgree /\ RunsInTurn /\ DataIsKept /\ TurnsInv
  BY DEF CorotInv
<1>2. /\ state[c] = "null" /\ state' = [state EXCEPT ![c] = "ready"]
      /\ UNCHANGED <<current, stack, stored, round, did, present, turns>>
  BY DEF Create
<1>3. PICK id \in Nat :
        /\ DOMAIN tasks' = DOMAIN tasks \cup {id} /\ id # 0 /\ tasks'[id] = c
        /\ id \in DOMAIN tasks => tasks[id] = NoCorot
        /\ \A i \in DOMAIN tasks : i # id => tasks'[i] = tasks[i]
        /\ tasks' \in Seq(Corots \cup {NoCorot}) /\ free' \in Seq(Nat)
        /\ \A i \in DOMAIN free' : free'[i] \in DOMAIN tasks /\ free'[i] # id /\ tasks[free'[i]] = NoCorot
        /\ \A i, j \in DOMAIN free' : free'[i] = free'[j] => i = j
  BY CreateIds
<1>4. c # NoCorot /\ \A d \in Corots : d # NoCorot
  BY CorotAssumption
<1>5. \A d \in Corots : state'[d] = IF d = c THEN "ready" ELSE state[d]
  BY <1>1, <1>2 DEF CorotTypeOK
<1>6. \A i \in DOMAIN tasks : tasks[i] # NoCorot => tasks[i] \in Corots /\ tasks[i] # c
  <2>1. \A i \in DOMAIN tasks : tasks[i] \in Corots \cup {NoCorot}
    BY <1>1 DEF CorotTypeOK
  <2>2. \A i \in DOMAIN tasks : tasks[i] # NoCorot => tasks[i] # c
    BY <1>1, <1>2 DEF IdsAgree
  <2>3. QED
    BY <2>1, <2>2
<1>7. CorotTypeOK'
  BY <1>1, <1>2, <1>3 DEF CorotTypeOK, Lives
<1>8. IdsAgree'
  <2>1. \A i \in DOMAIN free' : free'[i] \in DOMAIN tasks' /\ tasks'[free'[i]] = NoCorot
    BY <1>3
  <2>2. ASSUME NEW i \in DOMAIN tasks', NEW j \in DOMAIN tasks', tasks'[i] = tasks'[j], tasks'[i] # NoCorot
        PROVE  i = j
    BY <2>2, <1>1, <1>3, <1>6 DEF IdsAgree
  <2>3. ASSUME NEW i \in DOMAIN tasks', tasks'[i] # NoCorot PROVE state'[tasks'[i]] \in Lives
    <3>1. CASE i = id
      BY <3>1, <1>3, <1>5 DEF Lives
    <3>2. CASE i # id
      <4>1. i \in DOMAIN tasks /\ tasks'[i] = tasks[i]
        BY <3>2, <2>3, <1>3
      <4>2. QED
        BY <4>1, <2>3, <1>1, <1>5, <1>6 DEF IdsAgree, Lives
    <3>3. QED
      BY <3>1, <3>2
  <2>4. QED
    BY <2>1, <2>2, <2>3, <1>3 DEF IdsAgree, Lives
<1>9. RunsInTurn'
  <2>1. current # 0 => current \in DOMAIN tasks /\ current # id /\ tasks'[current] = tasks[current]
    BY <1>1, <1>3 DEF RunsInTurn
  <2>2. QED
    BY <2>1, <1>1, <1>2, <1>3, <1>5, <1>6 DEF RunsInTurn
<1>10. DataIsKept'
  <2>1. current # 0 => tasks'[current] = tasks[current]
    BY <1>1, <1>3 DEF RunsInTurn
  <2>2. QED
    BY <2>1, <1>1, <1>2, <1>5 DEF DataIsKept, StackIsOwn, Frame
<1>11. TurnsInv'
  <2>1. \A d \in Corots : turns'[d] <= 1 /\ (state'[d] = "null" => turns'[d] = 0)
    BY <1>1, <1>2, <1>5 DEF TurnsInv
  <2>2. ASSUME round' # 0, NEW i \in DOMAIN tasks', Waiting(i)', tasks'[i] # NoCorot
        PROVE  turns'[tasks'[i]] = 0
    BY <2>2, <1>1, <1>2, <1>3 DEF TurnsInv, Waiting
  <2>3. ASSUME round' # 0, NEW d \in present', turns'[d] # 1
        PROVE  \E i \in DOMAIN tasks' : Waiting(i)' /\ tasks'[i] = d
    <3>1. d \in Corots /\ d # NoCorot
      BY <2>3, <1>1, <1>2, <1>4 DEF CorotTypeOK
    <3>2. PICK i \in DOMAIN tasks : Waiting(i) /\ tasks[i] = d
      BY <2>3, <1>1, <1>2 DEF TurnsInv
    <3>3. i \in DOMAIN tasks' /\ tasks'[i] = d /\ Waiting(i)'
      BY <3>1, <3>2, <1>2, <1>3 DEF Waiting
    <3>4. QED
      BY <3>3
  <2>4. QED
    BY <2>1, <2>2, <2>3 DEF TurnsInv
<1>12. QED
  BY <1>7, <1>8, <1>9, <1>10, <1>11 DEF CorotInv

LEMMA BeginRoundInv == ASSUME CorotInv, BeginRound PROVE CorotInv'
<1>1. CorotTypeOK /\ IdsAgree /\ RunsInTurn /\ DataIsKept /\ TurnsInv
  BY DEF CorotInv
<1>2. /\ current = 0 /\ round' = 1 /\ present' = Present /\ turns' = [c \in Corots |-> 0]
      /\ UNCHANGED <<tasks, free, current, state, stack, stored, did>>
  BY DEF BeginRound
<1>3. Present \subseteq Corots
  BY <1>1 DEF Present, CorotTypeOK
<1>4. CorotTypeOK'
  BY <1>1, <1>2, <1>3 DEF CorotTypeOK
<1>5. IdsAgree' /\ RunsInTurn' /\ DataIsKept'
  BY <1>1, <1>2 DEF IdsAgree, RunsInTurn, DataIsKept, StackIsOwn, Frame
<1>6. TurnsInv'
  <2>1. \A i \in DOMAIN tasks' : tasks'[i] # NoCorot => turns'[tasks'[i]] = 0
    BY <1>1, <1>2 DEF CorotTypeOK
  <2>2. ASSUME NEW c \in present' PROVE \E i \in DOMAIN tasks' : Waiting(i)' /\ tasks'[i] = c
    <3>1. PICK i \in DOMAIN tasks : tasks[i] = c
      BY <1>2 DEF Present
    <3>2. i \in Nat /\ i >= 1
      BY <1>1 DEF CorotTypeOK
    <3>3. QED
      BY <3>1, <3>2, <1>2 DEF Waiting
  <2>3. QED
    BY <2>1, <2>2, <1>2 DEF TurnsInv
<1>7. QED
  BY <1>4, <1>5, <1>6 DEF CorotInv

\* The id doSchedule is at has no coroutine.
LEMMA SkipInv == ASSUME CorotInv, Skip PROVE CorotInv'
<1>1. CorotTypeOK /\ IdsAgree /\ RunsInTurn /\ DataIsKept /\ TurnsInv
  BY DEF CorotInv
<1>2. /\ round \in DOMAIN tasks /\ current = 0 /\ tasks[round] = NoCorot /\ round' = round + 1
      /\ UNCHANGED <<tasks, free, current, state, stack, stored, did, present, turns>>
  BY DEF Skip
<1>3. CorotTypeOK' /\ IdsAgree' /\ RunsInTurn' /\ DataIsKept'
  BY <1>1, <1>2 DEF CorotTypeOK, IdsAgree, RunsInTurn, DataIsKept, StackIsOwn, Frame
<1>4. round # 0 /\ round \in Nat /\ \A i \in DOMAIN tasks : i \in Nat
  BY <1>1, <1>2 DEF CorotTypeOK
<1>5. \A i \in DOMAIN tasks : Waiting(i)' <=> Waiting(i) /\ i # round
  BY <1>2, <1>4 DEF Waiting
<1>6. \A c \in present : c # NoCorot
  BY <1>1, CorotAssumption DEF CorotTypeOK
<1>7. TurnsInv'
  BY <1>1, <1>2, <1>4, <1>5, <1>6 DEF TurnsInv
<1>8. QED
  BY <1>3, <1>7 DEF CorotInv

LEMMA ResumeCorotInv == ASSUME CorotInv, ResumeCorot PROVE CorotInv'
<1> DEFINE c == tasks[round]
<1>1. CorotTypeOK /\ IdsAgree /\ RunsInTurn /\ DataIsKept /\ TurnsInv
  BY DEF CorotInv
<1>2. /\ round \in DOMAIN tasks /\ current = 0 /\ c # NoCorot
      /\ stack' = StackFor(c)
      /\ current' = round /\ state' = [state EXCEPT ![c] = "running"]
      /\ turns' = [turns EXCEPT ![c] = @ + 1]
      /\ UNCHANGED <<tasks, free, stored, round, did, present>>
  BY DEF ResumeCorot
<1>3. \A i \in DOMAIN tasks : tasks[i] \in Corots \cup {NoCorot} /\ i \in Nat \ {0}
  BY <1>1 DEF CorotTypeOK
<1>4. c \in Corots /\ round \in Nat \ {0} /\ turns[c] = 0 /\ state[c] \in {"ready", "sleeping"}
  <2>1. c \in Corots /\ round \in Nat \ {0}
    BY <1>2, <1>3
  <2>2. turns[c] = 0
    BY <2>1, <1>1, <1>2 DEF TurnsInv, Waiting
  <2>3. state[c] \in Lives /\ state[c] # "running"
    BY <2>1, <1>1, <1>2 DEF IdsAgree, RunsInTurn, Lives
  <2>4. QED
    BY <2>1, <2>2, <2>3 DEF Lives
<1> HIDE DEF c
<1>5. \A d \in Corots :
        (state'[d] = IF d = c THEN "running" ELSE state[d]) /\ (turns'[d] = IF d = c THEN 1 ELSE turns[d])
  BY <1>1, <1>2, <1>4 DEF CorotTypeOK
<1>6. StackFor(c) = Frame(c, did[c])
  BY <1>1, <1>4 DEF StackFor, DataIsKept
<1>7. CorotTypeOK'
  <2>1. stack' \in Frames
    BY <1>1, <1>2, <1>4, <1>6 DEF CorotTypeOK, Frame, Frames
  <2>2. turns' \in [Corots -> Nat] /\ state' \in [Corots -> {"null", "ended"} \cup Lives]
    BY <1>1, <1>2, <1>4 DEF CorotTypeOK, Lives
  <2>3. QED
    BY <2>1, <2>2, <1>1, <1>2, <1>4 DEF CorotTypeOK
<1>8. IdsAgree'
  BY <1>1, <1>2, <1>3, <1>5 DEF IdsAgree
<1>9. RunsInTurn'
  <2>1. tasks'[current'] = c /\ current' \in DOMAIN tasks' /\ current' = round' /\ current' # 0
    BY <1>2, <1>4 DEF c
  <2>2. \A d \in Corots : state[d] # "running"
    BY <1>1, <1>2 DEF RunsInTurn
  <2>3. QED
    BY <2>1, <2>2, <1>2, <1>4, <1>5 DEF RunsInTurn
<1>10. DataIsKept'
  <2>1. tasks'[current'] = c
    BY <1>2 DEF c
  <2>2. StackIsOwn'
    BY <2>1, <1>2, <1>6 DEF StackIsOwn, Frame
  <2>3. QED
    BY <2>2, <1>1, <1>2, <1>5 DEF DataIsKept, Frame
<1>11. TurnsInv'
  <2>1. \A d \in Corots : turns'[d] <= 1 /\ (state'[d] = "null" => turns'[d] = 0)
    BY <1>1, <1>5 DEF TurnsInv
  <2>2. ASSUME NEW i \in DOMAIN tasks', Waiting(i)', tasks'[i] # NoCorot PROVE turns'[tasks'[i]] = 0
    <3>1. i # round /\ Waiting(i) /\ tasks'[i] = tasks[i] /\ i \in DOMAIN tasks
      BY <2>2, <1>2, <1>3, <1>4 DEF Waiting
    <3>2. tasks[i] # c /\ tasks[i] \in Corots
      BY <3>1, <2>2, <1>1, <1>2, <1>3 DEF IdsAgree, c
    <3>3. QED
      BY <3>1, <3>2, <2>2, <1>1, <1>4, <1>5 DEF TurnsInv
  <2>3. ASSUME NEW d \in present', turns'[d] # 1
        PROVE  \E i \in DOMAIN tasks' : Waiting(i)' /\ tasks'[i] = d
    <3>1. d \in present /\ d \in Corots /\ d # c /\ turns[d] # 1
      BY <2>3, <1>1, <1>2, <1>5 DEF CorotTypeOK
    <3>2. PICK i \in DOMAIN tasks : Waiting(i) /\ tasks[i] = d
      BY <3>1, <1>1, <1>4 DEF TurnsInv
    <3>3. i # round
      BY <3>1, <3>2 DEF c
    <3>4. QED
      BY <3>2, <3>3, <1>2, <1>3, <1>4 DEF Waiting
  <2>4. QED
    BY <2>1, <2>2, <2>3 DEF TurnsInv
<1>12. QED
  BY <1>7, <1>8, <1>9, <1>10, <1>11 DEF CorotInv

LEMMA WorkInv == ASSUME CorotInv, Work PROVE CorotInv'
<1> DEFINE c == tasks[current]
<1>1. CorotTypeOK /\ IdsAgree /\ RunsInTurn /\ DataIsKept /\ TurnsInv
  BY DEF CorotInv
<1>2. /\ current # 0
      /\ stack' = [stack EXCEPT !.n = @ + 1] /\ did' = [did EXCEPT ![c] = @ + 1]
      /\ UNCHANGED <<tasks, free, current, state, stored, round, present, turns>>
  BY DEF Work
<1>3. c \in Corots /\ state[c] = "running" /\ stack = Frame(c, did[c]) /\ did[c] \in Nat
  <2>1. current \in DOMAIN tasks /\ c # NoCorot /\ state[c] = "running"
    BY <1>1, <1>2 DEF RunsInTurn
  <2>2. c \in Corots
    BY <2>1, <1>1 DEF CorotTypeOK
  <2>3. QED
    BY <2>1, <2>2, <1>1, <1>2 DEF DataIsKept, StackIsOwn, CorotTypeOK
<1> HIDE DEF c
<1>4. stack' = Frame(c, did'[c]) /\ \A d \in Corots : d # c => did'[d] = did[d]
  BY <1>1, <1>2, <1>3 DEF Frame, CorotTypeOK
<1>5. CorotTypeOK'
  <2>1. did' \in [Corots -> Nat]
    BY <1>1, <1>2, <1>3 DEF CorotTypeOK
  <2>2. stack' \in Frames
    BY <2>1, <1>3, <1>4 DEF Frame, Frames
  <2>3. QED
    BY <2>1, <2>2, <1>1, <1>2 DEF CorotTypeOK
<1>6. IdsAgree' /\ RunsInTurn' /\ TurnsInv'
  BY <1>1, <1>2 DEF IdsAgree, RunsInTurn, TurnsInv, Waiting
<1>7. DataIsKept'
  <2>1. StackIsOwn'
    BY <1>2, <1>4 DEF StackIsOwn, Frame, c
  <2>2. QED
    BY <2>1, <1>1, <1>2, <1>3, <1>4 DEF DataIsKept, Frame
<1>8. QED
  BY <1>5, <1>6, <1>7 DEF CorotInv

LEMMA YieldInv == ASSUME CorotInv, Yield PROVE CorotInv'
<1> DEFINE c == tasks[current]
<1>1. CorotTypeOK /\ IdsAgree /\ RunsInTurn /\ DataIsKept /\ TurnsInv
  BY DEF CorotInv
<1>2. /\ current # 0 /\ current' = 0 /\ round' = round + 1
      /\ stored' = [stored EXCEPT ![c] = stack] /\ state' = [state EXCEPT ![c] = "sleeping"]
      /\ UNCHANGED <<tasks, free, stack, did, present, turns>>
  BY DEF Yield
<1>3. current = round /\ current \in DOMAIN tasks /\ c # NoCorot /\ state[c] = "running"
  BY <1>1, <1>2 DEF RunsInTurn
<1>4. \A i \in DOMAIN tasks : tasks[i] \in Corots \cup {NoCorot} /\ i \in Nat \ {0}
  BY <1>1 DEF CorotTypeOK
<1>5. c \in Corots /\ stack = Frame(c, did[c])
  BY <1>1, <1>2, <1>3, <1>4 DEF DataIsKept, StackIsOwn
<1>6. \A d \in Corots : state[d] = "running" => d = c
  BY <1>1 DEF RunsInTurn
<1> HIDE DEF c
<1>7. \A d \in Corots : (state'[d] = IF d = c THEN "sleeping" ELSE state[d])
                          /\ (stored'[d] = IF d = c THEN stack ELSE stored[d])
  BY <1>1, <1>2, <1>5 DEF CorotTypeOK
<1>8. CorotTypeOK'
  <2>1. stored' \in [Corots -> Frames] /\ state' \in [Corots -> {"null", "ended"} \cup Lives]
    BY <1>1, <1>2 DEF CorotTypeOK, Lives
  <2>2. QED
    BY <2>1, <1>1, <1>2 DEF CorotTypeOK
<1>9. IdsAgree'
  BY <1>1, <1>2, <1>4, <1>7 DEF IdsAgree
<1>10. RunsInTurn'
  BY <1>2, <1>6, <1>7 DEF RunsInTurn
<1>11. DataIsKept'
  BY <1>1, <1>2, <1>5, <1>7 DEF DataIsKept, StackIsOwn, Frame
<1>12. TurnsInv'
  <2>1. \A i \in DOMAIN tasks : Waiting(i)' <=> Waiting(i)
    BY <1>1, <1>2, <1>4 DEF Waiting, CorotTypeOK
  <2>2. round # 0
    BY <1>2, <1>3
  <2>3. \A d \in Corots : state'[d] = "null" => state[d] = "null"
    BY <1>7
  <2>4. QED
    BY <2>1, <2>2, <2>3, <1>1, <1>2 DEF TurnsInv
<1>13. QED
  BY <1>8, <1>9, <1>10, <1>11, <1>12 DEF CorotInv

\* A coroutine ends and its id is freed.
LEMMA EndedIds ==
  ASSUME CorotInv, NEW id \in DOMAIN tasks, tasks[id] # NoCorot, Destroy(id),
         state' = [state EXCEPT ![tasks[id]] = "ended"]
  PROVE  /\ IdsAgree' /\ tasks' \in Seq(Corots \cup {NoCorot}) /\ free' \in Seq(Nat)
         /\ state' \in [Corots -> {"null", "ended"} \cup Lives]
         /\ \A d \in Corots : state'[d] = IF d = tasks[id] THEN "ended" ELSE state[d]
         /\ DOMAIN tasks' = DOMAIN tasks
         /\ tasks'[id] = NoCorot /\ \A i \in DOMAIN tasks : i # id => tasks'[i] = tasks[i]
<1>1. CorotTypeOK /\ IdsAgree
  BY DEF CorotInv
<1>2. \A i \in DOMAIN tasks : tasks[i] \in Corots \cup {NoCorot}
  BY <1>1 DEF CorotTypeOK
<1>3. /\ tasks' \in Seq(Corots \cup {NoCorot}) /\ free' \in Seq(Nat) /\ DOMAIN tasks' = DOMAIN tasks
      /\ tasks'[id] = NoCorot /\ \A i \in DOMAIN tasks : i # id => tasks'[i] = tasks[i]
      /\ \A i \in DOMAIN free' : free'[i] \in DOMAIN tasks' /\ tasks'[free'[i]] = NoCorot
      /\ \A i, j \in DOMAIN free' : free'[i] = free'[j] => i = j
  BY DestroyIds
<1>4. /\ state' \in [Corots -> {"null", "ended"} \cup Lives]
      /\ \A d \in Corots : state'[d] = IF d = tasks[id] THEN "ended" ELSE state[d]
  BY <1>1, <1>2 DEF CorotTypeOK
<1>5. ASSUME NEW i \in DOMAIN tasks', NEW j \in DOMAIN tasks', tasks'[i] = tasks'[j], tasks'[i] # NoCorot
      PROVE  i = j
  BY <1>5, <1>1, <1>3 DEF IdsAgree
<1>6. ASSUME NEW i \in DOMAIN tasks', tasks'[i] # NoCorot PROVE state'[tasks'[i]] \in Lives
  <2>1. i \in DOMAIN tasks /\ i # id /\ tasks'[i] = tasks[i]
    BY <1>3, <1>6
  <2>2. tasks[i] # tasks[id] /\ tasks[i] \in Corots
    BY <2>1, <1>1, <1>2, <1>6 DEF IdsAgree
  <2>3. QED
    BY <2>1, <2>2, <1>1, <1>4, <1>6 DEF IdsAgree, Lives
<1>7. QED
  BY <1>3, <1>4, <1>5, <1>6 DEF IdsAgree, Lives

LEMMA ExitInv == ASSUME CorotInv, Exit PROVE CorotInv'
<1> DEFINE c == tasks[current]
<1>1. CorotTypeOK /\ RunsInTurn /\ DataIsKept /\ TurnsInv
  BY DEF CorotInv
<1>2. /\ current # 0 /\ current' = 0 /\ round' = round + 1
      /\ Destroy(current) /\ state' = [state EXCEPT ![c] = "ended"]
      /\ UNCHANGED <<stack, stored, did, present, turns>>
  BY DEF Exit
<1>3. current = round /\ current \in DOMAIN tasks /\ c # NoCorot
  BY <1>1, <1>2 DEF RunsInTurn
<1>4. \A i \in DOMAIN tasks : i \in Nat \ {0}
  BY <1>1 DEF CorotTypeOK
<1>5. /\ IdsAgree' /\ tasks' \in Seq(Corots \cup {NoCorot}) /\ free' \in Seq(Nat)
      /\ state' \in [Corots -> {"null", "ended"} \cup Lives]
      /\ \A d \in Corots : state'[d] = IF d = c THEN "ended" ELSE state[d]
      /\ DOMAIN tasks' = DOMAIN tasks
      /\ tasks'[current] = NoCorot /\ \A i \in DOMAIN tasks : i # current => tasks'[i] = tasks[i]
  BY <1>2, <1>3, EndedIds
<1>6. \A d \in Corots : state[d] = "running" => d = c
  BY <1>1 DEF RunsInTurn
<1> HIDE DEF c
<1>7. CorotTypeOK'
  BY <1>1, <1>2, <1>5 DEF CorotTypeOK
<1>8. RunsInTurn'
  BY <1>2, <1>5, <1>6 DEF RunsInTurn
<1>9. DataIsKept'
  BY <1>1, <1>2, <1>5 DEF DataIsKept, StackIsOwn, Frame
<1>10. TurnsInv'
  <2>1. \A i \in DOMAIN tasks : (Waiting(i)' <=> Waiting(i)) /\ (Waiting(i) => i # current)
    BY <1>1, <1>2, <1>3, <1>4 DEF Waiting, CorotTypeOK
  <2>2. round # 0
    BY <1>2, <1>3
  <2>3. \A d \in Corots : state'[d] = "null" => state[d] = "null"
    BY <1>5
  <2>4. \A i \in DOMAIN tasks' : Waiting(i)' => Waiting(i) /\ tasks'[i] = tasks[i]
    BY <2>1, <1>5
  <2>5. \A d \in present' : turns'[d] = 1 \/ \E i \in DOMAIN tasks' : Waiting(i)' /\ tasks'[i] = d
    BY <2>1, <2>2, <1>1, <1>2, <1>5 DEF TurnsInv
  <2>6. QED
    BY <2>2, <2>3, <2>4, <2>5, <1>1, <1>2, <1>5 DEF TurnsInv
<1>11. QED
  BY <1>5, <1>7, <1>8, <1>9, <1>10 DEF CorotInv

LEMMA ResumeFailsInv == ASSUME CorotInv, ResumeFails PROVE CorotInv'
<1> DEFINE c == tasks[round]
<1>1. CorotTypeOK /\ IdsAgree /\ RunsInTurn /\ DataIsKept /\ TurnsInv
  BY DEF CorotInv
<1>2. /\ round \in DOMAIN tasks /\ current = 0 /\ c # NoCorot /\ state[c] = "ready"
      /\ Destroy(round) /\ state' = [state EXCEPT ![c] = "ended"]
      /\ round' = round + 1 /\ turns' = [turns EXCEPT ![c] = @ + 1]
      /\ UNCHANGED <<current, stack, stored, did, present>>
  BY DEF ResumeFails
<1>3. \A i \in DOMAIN tasks : tasks[i] \in Corots \cup {NoCorot} /\ i \in Nat \ {0}
  BY <1>1 DEF CorotTypeOK
<1>4. c \in Corots /\ round \in Nat \ {0} /\ turns[c] = 0
  <2>1. c \in Corots /\ round \in Nat \ {0}
    BY <1>2, <1>3
  <2>2. QED
    BY <2>1, <1>1, <1>2 DEF TurnsInv, Waiting
<1>5. /\ IdsAgree' /\ tasks' \in Seq(Corots \cup {NoCorot}) /\ free' \in Seq(Nat)
      /\ state' \in [Corots -> {"null", "ended"} \cup Lives]
      /\ \A d \in Corots : state'[d] = IF d = c THEN "ended" ELSE state[d]
      /\ DOMAIN tasks' = DOMAIN tasks
      /\ tasks'[round] = NoCorot /\ \A i \in DOMAIN tasks : i # round => tasks'[i] = tasks[i]
  BY <1>2, EndedIds
<1>6. \A i \in DOMAIN tasks : tasks[i] = c => i = round
  BY <1>1, <1>2 DEF IdsAgree
<1> HIDE DEF c
<1>7. \A d \in Corots : turns'[d] = IF d = c THEN 1 ELSE turns[d]
  BY <1>1, <1>2, <1>4 DEF CorotTypeOK
<1>8. CorotTypeOK'
  <2>1. turns' \in [Corots -> Nat]
    BY <1>1, <1>2, <1>4 DEF CorotTypeOK
  <2>2. QED
    BY <2>1, <1>1, <1>2, <1>4, <1>5 DEF CorotTypeOK
<1>9. RunsInTurn' /\ DataIsKept'
  BY <1>1, <1>2, <1>5 DEF RunsInTurn, DataIsKept, StackIsOwn, Frame
<1>10. TurnsInv'
  <2>1. \A i \in DOMAIN tasks : Waiting(i)' <=> Waiting(i) /\ i # round
    BY <1>2, <1>3, <1>4 DEF Waiting
  <2>2. \A d \in Corots : turns'[d] <= 1 /\ (state'[d] = "null" => turns'[d] = 0)
    BY <1>1, <1>2, <1>5, <1>7 DEF TurnsInv
  <2>3. ASSUME NEW i \in DOMAIN tasks', Waiting(i)', tasks'[i] # NoCorot PROVE turns'[tasks'[i]] = 0
    <3>1. i \in DOMAIN tasks /\ i # round /\ Waiting(i) /\ tasks'[i] = tasks[i]
      BY <2>1, <2>3, <1>5
    <3>2. tasks[i] # c /\ tasks[i] \in Corots
      BY <3>1, <2>3, <1>3, <1>6
    <3>3. QED
      BY <3>1, <3>2, <2>3, <1>1, <1>4, <1>7 DEF TurnsInv
  <2>4. ASSUME NEW d \in present', turns'[d] # 1
        PROVE  \E i \in DOMAIN tasks' : Waiting(i)' /\ tasks'[i] = d
    <3>1. d \in present /\ d \in Corots /\ d # c /\ turns[d] # 1
      BY <2>4, <1>1, <1>2, <1>7 DEF CorotTypeOK
    <3>2. PICK i \in DOMAIN tasks : Waiting(i) /\ tasks[i] = d
      BY <3>1, <1>1, <1>4 DEF TurnsInv
    <3>3. i # round
      BY <3>1, <3>2 DEF c
    <3>4. QED
      BY <3>2, <3>3, <2>1, <1>5
  <2>5. QED
    BY <2>2, <2>3, <2>4 DEF TurnsInv
<1>11. QED
  BY <1>5, <1>8, <1>9, <1>10 DEF CorotInv

LEMMA CorotStepInv == CorotInv /\ [CorotStep]_corotVars => CorotInv'
<1> SUFFICES ASSUME CorotInv, [CorotStep]_corotVars PROVE CorotInv'
  OBVIOUS
<1>1. CASE Schedule
  <2>1. CASE EndRound
    BY <2>1 DEF EndRound, CorotInv, CorotTypeOK, IdsAgree, RunsInTurn, DataIsKept, StackIsOwn, Frame, TurnsInv
  <2>2. QED
    BY <2>1, <1>1, BeginRoundInv, SkipInv, ResumeCorotInv DEF Schedule
<1>2. CASE ResumeFails \/ Work \/ Yield \/ Exit
  BY <1>2, ResumeFailsInv, WorkInv, YieldInv, ExitInv
<1>3. ASSUME NEW c \in Corots, Create(c) PROVE CorotInv'
  BY <1>3, CreateInv
<1>4. CASE UNCHANGED corotVars
  BY <1>4 DEF corotVars, CorotInv, CorotTypeOK, IdsAgree, RunsInTurn, DataIsKept, StackIsOwn, Frame, TurnsInv, Waiting
<1>5. QED
  BY <1>1, <1>2, <1>3, <1>4 DEF CorotStep

---------------------------------------------------------------------------
\* The invariant of the scheduler holds in every state: the frame on the stack
\* and the copies agree, and a round has passed exactly the ids before it.
THEOREM CorotInvariance == CorotSpec => []CorotInv
  BY CorotInitInv, CorotStepInv, PTL DEF CorotSpec

\* A coroutine that is resumed finds its own local data as it left them,
\* although all of them run on one stack that is copied to and fro.
THEOREM StackAlwaysOwn == CorotSpec => []StackIsOwn
<1>1. CorotInv => StackIsOwn
  BY DEF CorotInv, DataIsKept
<1>2. QED
  BY <1>1, CorotInvariance, PTL

\* doSchedule gives every coroutine that was there one turn and nobody two,
\* although the list grows and ids are freed and given anew in the round.
THEOREM EveryoneHasATurn == CorotSpec => []OneTurnEach
<1>1. CorotInv => OneTurnEach
  <2> SUFFICES ASSUME CorotInv PROVE OneTurnEach
    OBVIOUS
  <2>1. CorotTypeOK /\ TurnsInv
    BY DEF CorotInv
  <2>2. \A c \in Corots : turns[c] <= 1
    BY <2>1 DEF TurnsInv
  <2>3. ASSUME round > Len(tasks), NEW c \in present PROVE turns[c] = 1
    <3>1. round # 0 /\ \A i \in DOMAIN tasks : ~ Waiting(i)
      BY <2>1, <2>3 DEF Waiting, CorotTypeOK
    <3>2. QED
      BY <3>1, <2>1, <2>3 DEF TurnsInv
  <2>4. QED
    BY <2>2, <2>3 DEF OneTurnEach
<1>2. QED
  BY <1>1, CorotInvariance, PTL

---------------------------------------------------------------------------
(* TimerEvents: a handler stays registered until its own removal is carried  *)
(* out, and the calls never run ahead of the clock.                          *)

Fields(h) ==
  h = [list |-> h.list, places |-> h.places, last |-> h.last, reg |-> h.reg, counter |-> h.counter]

\* The handlers of one interval.
HandlersOK(h) ==
  /\ Fields(h)
  /\ h.list \in Seq(Nat) /\ h.places \in [DOMAIN h.places -> Nat] /\ Agrees(h.list, h.places)
  /\ h.last \in Nat /\ h.reg \in Nat /\ h.counter \in Nat
  /\ \A id \in DOMAIN h.places : id \in Nat /\ id <= h.last

Regs == [i \in Intervals |-> DOMAIN handlers[i].places]

TimerTypeOK ==
  /\ clock \in Nat /\ tick.now \in Nat /\ tick.now <= clock
  /\ tick = [pc |-> tick.pc, now |-> tick.now, left |-> tick.left]
  /\ wanted \subseteq Intervals \X Nat /\ unreged \subseteq Intervals \X Nat
  /\ handlers = [i \in Intervals |-> handlers[i]]
  /\ \A i \in Intervals : HandlersOK(handlers[i])

\* What has a place is wanted or waits for its removal, not both.
Registered ==
  /\ wanted \cap unreged = {}
  /\ \A i \in Intervals : \A id :
       id \in DOMAIN handlers[i].places <=> <<i, id>> \in wanted \cup unreged

\* The last call was not before its time.
CalledInTime ==
  \A i \in Intervals : handlers[i].counter > 0 =>
    handlers[i].reg + i * (handlers[i].counter - 1) <= clock

TimerInv == TimerTypeOK /\ Registered /\ CalledInTime

LEMMA TimerInitInv == TimerInit => TimerInv
<1> SUFFICES ASSUME TimerInit PROVE TimerInv
  OBVIOUS
<1>1. /\ clock = 0 /\ unreged = {} /\ wanted = {}
      /\ tick = [pc |-> "idle", now |-> 0, left |-> {}]
      /\ handlers = [i \in Intervals |-> NoHandlers]
  BY DEF TimerInit
<1>2. /\ NoHandlers.list = <<>> /\ NoHandlers.places = [i \in {} |-> 0]
      /\ NoHandlers.last = 0 /\ NoHandlers.reg = 0 /\ NoHandlers.counter = 0
      /\ Fields(NoHandlers)
  BY DEF NoHandlers, Fields
<1>3. DOMAIN NoHandlers.places = {} /\ Agrees(NoHandlers.list, NoHandlers.places)
  BY <1>2 DEF Agrees
<1>4. HandlersOK(NoHandlers)
  BY <1>2, <1>3 DEF HandlersOK
<1>5. \A i \in Intervals : handlers[i] = NoHandlers
  BY <1>1
<1>6. TimerTypeOK
  BY <1>1, <1>4, <1>5 DEF TimerTypeOK
<1>7. Registered /\ CalledInTime
  BY <1>1, <1>2, <1>3, <1>5 DEF Registered, CalledInTime
<1>8. QED
  BY <1>6, <1>7 DEF TimerInv

\* A step that leaves the handlers alone and lets time pass.
LEMMA TimerQuiet ==
  ASSUME TimerInv, handlers' = handlers, clock' \in Nat, clock <= clock',
         tick' = [pc |-> tick'.pc, now |-> tick'.now, left |-> tick'.left],
         tick'.now \in Nat, tick'.now <= clock',
         wanted' \cup unreged' = wanted \cup unreged, wanted' \cap unreged' = {}
  PROVE  TimerInv'
<1>1. TimerTypeOK'
  BY DEF TimerInv, TimerTypeOK, HandlersOK, Fields
<1>2. Registered'
  BY DEF TimerInv, Registered
<1>3. CalledInTime'
  <2>1. ASSUME NEW i \in Intervals, handlers[i].counter > 0
        PROVE  handlers[i].reg + i * (handlers[i].counter - 1) <= clock'
    <3>1. handlers[i].reg \in Nat /\ handlers[i].counter \in Nat /\ i \in Nat /\ clock \in Nat
      BY TimerAssumption DEF TimerInv, TimerTypeOK, HandlersOK
    <3>2. handlers[i].reg + i * (handlers[i].counter - 1) <= clock
      BY <2>1 DEF TimerInv, CalledInTime
    <3>3. i * (handlers[i].counter - 1) \in Nat
      <4>1. \A a, b \in Nat : a * b \in Nat
        OBVIOUS
      <4>2. i \in Nat /\ handlers[i].counter - 1 \in Nat
        BY <2>1, <3>1
      <4>3. QED
        BY <4>1, <4>2
    <3>4. QED
      BY <3>1, <3>2, <3>3
  <2>2. QED
    BY <2>1 DEF CalledInTime
<1>4. QED
  BY <1>1, <1>2, <1>3 DEF TimerInv

\* A step that changes the handlers of one interval.
LEMMA TimerChange ==
  ASSUME TimerInv, NEW i \in Intervals, NEW h, handlers' = [handlers EXCEPT ![i] = h],
         HandlersOK(h), UNCHANGED clock,
         tick' = [pc |-> tick'.pc, now |-> tick'.now, left |-> tick'.left], tick'.now = tick.now,
         h.counter > 0 => h.reg + i * (h.counter - 1) <= clock,
         wanted' \subseteq Intervals \X Nat, unreged' \subseteq Intervals \X Nat,
         wanted' \cap unreged' = {},
         \A id : id \in DOMAIN h.places <=> <<i, id>> \in wanted' \cup unreged',
         \A j \in Intervals : j # i =>
           \A id : <<j, id>> \in wanted \cup unreged <=> <<j, id>> \in wanted' \cup unreged'
  PROVE  TimerInv'
<1>1. /\ handlers' = [j \in Intervals |-> handlers'[j]]
      /\ \A j \in Intervals : handlers'[j] = IF j = i THEN h ELSE handlers[j]
  <2>1. handlers = [j \in Intervals |-> handlers[j]]
    BY DEF TimerInv, TimerTypeOK
  <2>2. handlers' = [j \in Intervals |-> IF j = i THEN h ELSE handlers[j]]
    BY <2>1
  <2>3. QED
    BY <2>2
<1>2. TimerTypeOK'
  <2>1. \A j \in Intervals : HandlersOK(handlers'[j])
    BY <1>1 DEF TimerInv, TimerTypeOK
  <2>2. clock' \in Nat /\ tick'.now \in Nat /\ tick'.now <= clock'
    BY DEF TimerInv, TimerTypeOK
  <2>3. (\A j \in Intervals : HandlersOK(handlers[j]))'
    BY <2>1 DEF HandlersOK, Fields
  <2>4. QED
    BY <1>1, <2>2, <2>3 DEF TimerTypeOK
<1>3. Registered'
  BY <1>1 DEF TimerInv, Registered
<1>4. CalledInTime'
  BY <1>1 DEF TimerInv, CalledInTime
<1>5. QED
  BY <1>2, <1>3, <1>4 DEF TimerInv

LEMMA RegInv ==
  ASSUME TimerInv, NEW i \in Intervals, Reg(i)
  PROVE  TimerInv'
<1> DEFINE g == handlers[i]
           id == g.last + 1
           h == [list |-> Added(g.list, id), places |-> PlacesAdded(g.list, g.places, id),
                 last |-> id, reg |-> clock, counter |-> 0]
<1>1. HandlersOK(g) /\ clock \in Nat
  BY DEF TimerInv, TimerTypeOK
<1>2. id \in Nat /\ id \notin DOMAIN g.places /\ DOMAIN g.places \subseteq Nat
  BY <1>1 DEF HandlersOK
<1>3. /\ h.list \in Seq(Nat) /\ h.places \in [DOMAIN h.places -> Nat]
      /\ DOMAIN h.places \subseteq Nat /\ Agrees(h.list, h.places)
  BY <1>1, <1>2, AddedAgree DEF HandlersOK
<1>4. DOMAIN h.places = DOMAIN g.places \cup {id}
  BY DEF PlacesAdded
<1>5. h.last = id /\ h.reg = clock /\ h.counter = 0 /\ Fields(h)
  BY DEF Fields
<1>6. HandlersOK(h)
  <2>1. \A n \in DOMAIN h.places : n \in Nat /\ n <= h.last
    BY <1>1, <1>2, <1>4, <1>5 DEF HandlersOK
  <2> HIDE DEF h
  <2>2. QED
    BY <1>1, <1>2, <1>3, <1>5, <2>1 DEF HandlersOK
<1>7. /\ handlers' = [handlers EXCEPT ![i] = h]
      /\ wanted' = wanted \cup {<<i, id>>} /\ UNCHANGED <<clock, unreged, tick>>
  BY DEF Reg
<1> HIDE DEF h
<1>8. <<i, id>> \notin wanted \cup unreged
  BY <1>2 DEF TimerInv, Registered
<1>9. \A n : n \in DOMAIN h.places <=> <<i, n>> \in wanted' \cup unreged'
  BY <1>4, <1>7 DEF TimerInv, Registered
<1>10. \A j \in Intervals : j # i =>
         \A n : <<j, n>> \in wanted \cup unreged <=> <<j, n>> \in wanted' \cup unreged'
  BY <1>7
<1>11. wanted' \subseteq Intervals \X Nat /\ unreged' \subseteq Intervals \X Nat
       /\ wanted' \cap unreged' = {}
  BY <1>2, <1>7, <1>8 DEF TimerInv, TimerTypeOK, Registered
<1>12. tick' = [pc |-> tick'.pc, now |-> tick'.now, left |-> tick'.left] /\ tick'.now = tick.now
  BY <1>7 DEF TimerInv, TimerTypeOK
<1>13. h.counter > 0 => h.reg + i * (h.counter - 1) <= clock
  BY <1>5
<1>14. QED
  BY <1>6, <1>7, <1>9, <1>10, <1>11, <1>12, <1>13, TimerChange

\* Event::unreg takes out the handler it is given and no other: it is there.
LEMMA CleanInv ==
  ASSUME TimerInv, NEW r \in unreged, Clean(r)
  PROVE  TimerInv'
<1> DEFINE i == r[1]
           id == r[2]
           g == handlers[i]
           h == Unregistered(g, id)
<1>1. i \in Intervals /\ id \in Nat /\ r = <<i, id>> /\ r \notin wanted
  BY DEF TimerInv, TimerTypeOK, Registered
<1>2. HandlersOK(g) /\ id \in DOMAIN g.places
  BY <1>1 DEF TimerInv, TimerTypeOK, Registered
<1>3. /\ handlers' = [handlers EXCEPT ![i] = h]
      /\ unreged' = unreged \ {r} /\ UNCHANGED <<clock, tick, wanted>>
  BY DEF Clean
<1> HIDE DEF i, id, g
<1>4. /\ HandlersOK(h) /\ DOMAIN h.places = DOMAIN g.places \ {id}
      /\ h.reg = g.reg /\ h.counter = g.counter
  <2>1. CASE Len(g.list) = 1
    <3>1. h = [list |-> <<>>, places |-> [k \in {} |-> 0], last |-> g.last, reg |-> g.reg,
               counter |-> g.counter]
      BY <1>2, <2>1 DEF Unregistered, HandlersOK, Fields
    <3>2. /\ h.list = <<>> /\ h.places = [k \in {} |-> 0] /\ h.last = g.last /\ h.reg = g.reg
          /\ h.counter = g.counter /\ Fields(h)
      BY <3>1 DEF Fields
    <3> HIDE DEF h
    <3>3. DOMAIN h.places = {} /\ Agrees(h.list, h.places)
      BY <3>2 DEF Agrees
    <3>4. DOMAIN g.places = {id}
      <4>1. \A k \in DOMAIN g.places : g.places[k] = 1 /\ g.list[1] = k
        BY <1>2, <2>1 DEF HandlersOK, Agrees
      <4>2. QED
        BY <1>2, <4>1
    <3>5. QED
      BY <1>2, <3>2, <3>3, <3>4 DEF HandlersOK
  <2>2. CASE Len(g.list) # 1
    <3> DEFINE w == Erased(g.list, g.places, id)
               p == PlacesErased(g.list, g.places, id)
    <3>1. h = [list |-> w, places |-> p, last |-> g.last, reg |-> g.reg, counter |-> g.counter]
      BY <1>2, <2>2 DEF Unregistered, HandlersOK, Fields
    <3>2. DOMAIN g.places \subseteq Nat
      BY <1>2 DEF HandlersOK
    <3>3. w \in Seq(Nat) /\ p \in [DOMAIN p -> Nat] /\ Agrees(w, p)
      BY <1>2, <3>2, ErasedAgree DEF HandlersOK
    <3>4. DOMAIN p = DOMAIN g.places \ {id}
      BY DEF PlacesErased
    <3> HIDE DEF w, p
    <3>5. /\ h.list = w /\ h.places = p /\ h.last = g.last /\ h.reg = g.reg
          /\ h.counter = g.counter /\ Fields(h)
      BY <3>1 DEF Fields
    <3> HIDE DEF h
    <3>6. QED
      BY <1>2, <3>3, <3>4, <3>5 DEF HandlersOK
  <2>3. QED
    BY <2>1, <2>2
<1> HIDE DEF h
<1>5. \A n : n \in DOMAIN h.places <=> <<i, n>> \in wanted' \cup unreged'
  <2>1. \A n : n \in DOMAIN g.places <=> <<i, n>> \in wanted \cup unreged
    BY <1>1 DEF TimerInv, Registered, g
  <2>2. QED
    BY <1>1, <1>3, <1>4, <2>1
<1>6. \A j \in Intervals : j # i =>
        \A n : <<j, n>> \in wanted \cup unreged <=> <<j, n>> \in wanted' \cup unreged'
  BY <1>1, <1>3
<1>7. h.counter > 0 => h.reg + i * (h.counter - 1) <= clock
  BY <1>1, <1>4 DEF TimerInv, CalledInTime, g
<1>8. /\ wanted' \subseteq Intervals \X Nat /\ unreged' \subseteq Intervals \X Nat
      /\ wanted' \cap unreged' = {}
      /\ tick' = [pc |-> tick'.pc, now |-> tick'.now, left |-> tick'.left] /\ tick'.now = tick.now
  BY <1>3 DEF TimerInv, TimerTypeOK, Registered
<1>9. QED
  BY <1>1, <1>3, <1>4, <1>5, <1>6, <1>7, <1>8, TimerChange

LEMMA FireInv ==
  ASSUME TimerInv, NEW i \in Intervals, Fire(i)
  PROVE  TimerInv'
<1> DEFINE ends == {r \in wanted : r[1] = i /\ r[2] \in OneShot /\ r[2] \in DOMAIN handlers[i].places}
           g == handlers[i]
           h == [g EXCEPT !.counter = @ + 1]
<1>1. tick' = [tick EXCEPT !.left = @ \ {i}] /\ UNCHANGED clock
  BY DEF Fire
<1>2. tick' = [pc |-> tick'.pc, now |-> tick'.now, left |-> tick'.left] /\ tick'.now = tick.now
  <2>1. tick = [pc |-> tick.pc, now |-> tick.now, left |-> tick.left]
    BY DEF TimerInv, TimerTypeOK
  <2>2. tick' = [pc |-> tick.pc, now |-> tick.now, left |-> tick.left \ {i}]
    BY <1>1, <2>1
  <2>3. QED
    BY <2>2
<1>3. /\ clock \in Nat /\ tick.now \in Nat /\ tick.now <= clock /\ i \in Nat
      /\ g.reg \in Nat /\ g.counter \in Nat /\ HandlersOK(g)
  BY TimerAssumption DEF TimerInv, TimerTypeOK, HandlersOK
<1>4. CASE ~ Due(i, tick.now)
  <2>1. UNCHANGED <<handlers, unreged, wanted>>
    BY <1>4 DEF Fire
  <2>2. wanted \cap unreged = {}
    BY DEF TimerInv, Registered
  <2>3. QED
    BY <1>1, <1>2, <1>3, <2>1, <2>2, TimerQuiet
<1>5. CASE Due(i, tick.now)
  <2>1. /\ handlers' = [handlers EXCEPT ![i].counter = @ + 1]
        /\ unreged' = unreged \cup ends /\ wanted' = wanted \ ends
    BY <1>5 DEF Fire
  <2>2. handlers' = [handlers EXCEPT ![i] = h]
    BY <2>1
  <2>3. h = [list |-> g.list, places |-> g.places, last |-> g.last, reg |-> g.reg,
             counter |-> g.counter + 1]
    BY <1>3 DEF HandlersOK, Fields
  <2>4. /\ h.list = g.list /\ h.places = g.places /\ h.last = g.last /\ h.reg = g.reg
        /\ h.counter = g.counter + 1 /\ Fields(h)
    BY <2>3 DEF Fields
  <2>5. g.reg + i * g.counter <= clock
    <3>1. tick.now >= g.reg + i * g.counter
      BY <1>5 DEF Due
    <3>2. i * g.counter \in Nat
      BY <1>3
    <3>3. QED
      BY <1>3, <3>1, <3>2
  <2> HIDE DEF h
  <2>6. HandlersOK(h)
    BY <1>3, <2>4 DEF HandlersOK
  <2>7. h.counter - 1 = g.counter
    BY <1>3, <2>4
  <2>8. h.reg + i * (h.counter - 1) <= clock
    BY <2>4, <2>5, <2>7
  <2>9. wanted' \cup unreged' = wanted \cup unreged /\ wanted' \cap unreged' = {}
    BY <2>1 DEF TimerInv, Registered
  <2>10. /\ \A n : n \in DOMAIN h.places <=> <<i, n>> \in wanted' \cup unreged'
         /\ \A j \in Intervals : j # i =>
              \A n : <<j, n>> \in wanted \cup unreged <=> <<j, n>> \in wanted' \cup unreged'
    BY <2>4, <2>9 DEF TimerInv, Registered
  <2>11. wanted' \subseteq Intervals \X Nat /\ unreged' \subseteq Intervals \X Nat
    BY <2>1 DEF TimerInv, TimerTypeOK
  <2>12. QED
    BY <1>1, <1>2, <2>2, <2>6, <2>8, <2>9, <2>10, <2>11, TimerChange
<1>6. QED
  BY <1>4, <1>5

LEMMA TimerStepInv ==
  ASSUME TimerInv, [TimerStep]_timerVars
  PROVE  TimerInv'
<1>1. /\ wanted \cap unreged = {} /\ clock \in Nat /\ tick.now \in Nat /\ tick.now <= clock
      /\ tick = [pc |-> tick.pc, now |-> tick.now, left |-> tick.left]
  BY DEF TimerInv, TimerTypeOK, Registered
<1>2. CASE Clock
  BY <1>1, <1>2, TimerQuiet DEF Clock
<1>3. ASSUME NEW r \in wanted, Unreg(r) PROVE TimerInv'
  BY <1>1, <1>3, TimerQuiet DEF Unreg
<1>4. CASE ReadClock
  BY <1>1, <1>4, TimerQuiet DEF ReadClock
<1>5. CASE TakeLocks
  <2>1. tick' = [pc |-> "clean", now |-> tick.now, left |-> tick.left]
    BY <1>1, <1>5 DEF TakeLocks
  <2>2. QED
    BY <1>1, <1>5, <2>1, TimerQuiet DEF TakeLocks
<1>6. CASE Cleaned
  <2>1. tick' = [pc |-> "fire", now |-> tick.now, left |-> {i \in Intervals : handlers[i].last > 0}]
    BY <1>1, <1>6 DEF Cleaned
  <2>2. tick' = [pc |-> tick'.pc, now |-> tick'.now, left |-> tick'.left] /\ tick'.now = tick.now
    BY <2>1, Zenon
  <2>3. UNCHANGED <<clock, handlers, unreged, wanted>>
    BY <1>6 DEF Cleaned
  <2>4. QED
    BY <1>1, <2>2, <2>3, TimerQuiet
<1>7. CASE EndTick
  BY <1>1, <1>7, TimerQuiet DEF EndTick
<1>8. CASE UNCHANGED timerVars
  BY <1>1, <1>8, TimerQuiet DEF timerVars
<1>9. QED
  BY <1>2, <1>3, <1>4, <1>5, <1>6, <1>7, <1>8, RegInv, CleanInv, FireInv DEF TimerStep, TimerThread

\* Removing one handler never removes another, whoever registers and removes while
\* the timer thread is at its tick, and late calls never run ahead of the clock.
THEOREM HandlersAlwaysStay == TimerSpec => []HandlersStay
<1>1. TimerInit => TimerInv
  BY TimerInitInv
<1>2. TimerInv /\ [TimerStep]_timerVars => TimerInv'
  BY TimerStepInv
<1>3. TimerInv => HandlersStay
  <2> SUFFICES ASSUME TimerInv, NEW i \in Intervals
               PROVE  /\ handlers[i].counter > 0 =>
                           handlers[i].reg + i * (handlers[i].counter - 1) <= clock
                      /\ Agrees(handlers[i].list, handlers[i].places)
                      /\ {<<i, handlers[i].list[n]>> : n \in 1 .. Len(handlers[i].list)}
                           = {r \in wanted \cup unreged : r[1] = i}
    BY DEF HandlersStay
  <2> DEFINE g == handlers[i]
  <2>1. HandlersOK(g)
    BY DEF TimerInv, TimerTypeOK
  <2>2. ASSUME NEW n \in 1 .. Len(g.list)
        PROVE  <<i, g.list[n]>> \in wanted \cup unreged
    BY <2>1 DEF HandlersOK, Agrees, TimerInv, Registered
  <2>3. ASSUME NEW r \in wanted \cup unreged, r[1] = i
        PROVE  \E n \in 1 .. Len(g.list) : r = <<i, g.list[n]>>
    <3>1. r = <<i, r[2]>>
      BY <2>3 DEF TimerInv, TimerTypeOK
    <3>2. r[2] \in DOMAIN g.places
      BY <2>3, <3>1 DEF TimerInv, Registered
    <3>3. g.places[r[2]] \in 1 .. Len(g.list) /\ g.list[g.places[r[2]]] = r[2]
      BY <2>1, <3>2 DEF HandlersOK, Agrees
    <3>4. QED
      BY <3>1, <3>3
  <2>4. QED
    BY <2>1, <2>2, <2>3 DEF HandlersOK, TimerInv, CalledInTime
<1>4. QED
  BY <1>1, <1>2, <1>3, PTL DEF TimerSpec

=============================================================================
