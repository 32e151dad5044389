----------------------------- MODULE Coroutines -----------------------------
(***************************************************************************)
(* The scheduler of the coroutines: they run on one stack, which is copied *)
(* away when one of them yields and copied back when it is resumed.        *)
(* doSchedule gives every coroutine a turn.  The local data of a coroutine *)
(* is a count on the stack, the copy of which that nobody can spoil is in  *)
(* `did'.  Ids count from 1; the id of the scheduler is 0.                 *)
(***************************************************************************)
EXTENDS Naturals, Sequences

CONSTANTS
  Corots,      \* the functions handed to create
  NoCorot,     \* nullptr
  MaxWork      \* how much a coroutine does before it returns

ASSUME CorotAssumption == NoCorot \notin Corots /\ MaxWork \in Nat

VARIABLES
  tasks,       \* id -> coroutine, or NoCorot
  free,        \* avaliableIds
  current,     \* runningCoid
  state,
  stack,       \* what is on the shared stack
  stored,      \* stackData of each
  round,       \* the id doSchedule is at, 0 when it is not running
  did,         \* what each has done
  present,     \* those that were there when the round began
  turns        \* their turns in this round

corotVars == <<tasks, free, current, state, stack, stored, round, did, present, turns>>

Frame(c, n) == [of |-> c, n |-> n]
Empty == Frame(NoCorot, 0)
Present == {tasks[i] : i \in DOMAIN tasks} \ {NoCorot}

CorotInit ==
  /\ tasks = <<>> /\ free = <<>> /\ current = 0 /\ round = 0
  /\ state = [c \in Corots |-> "null"] /\ did = [c \in Corots |-> 0]
  /\ stack = Empty /\ stored = [c \in Corots |-> Empty]
  /\ present = {} /\ turns = [c \in Corots |-> 0]

\* create, from main or from a coroutine.
Create(c) ==
  /\ state[c] = "null" /\ (current # 0 \/ round = 0)
  /\ state' = [state EXCEPT ![c] = "ready"]
  /\ IF free = <<>> THEN tasks' = Append(tasks, c) /\ UNCHANGED free
     ELSE tasks' = [tasks EXCEPT ![Head(free)] = c] /\ free' = Tail(free)
  /\ UNCHANGED <<current, stack, stored, round, did, present, turns>>

\* Variant: the list of tasks closes up.
DestroyShifts(id) ==
  /\ tasks' = SubSeq(tasks, 1, id - 1) \o SubSeq(tasks, id + 1, Len(tasks)) /\ UNCHANGED free

Destroy(id) ==
  /\ tasks' = [tasks EXCEPT ![id] = NoCorot] /\ free' = Append(free, id)

BeginRound ==
  /\ round = 0 /\ current = 0
  /\ round' = 1 /\ present' = Present /\ turns' = [c \in Corots |-> 0]
  /\ UNCHANGED <<tasks, free, current, state, stack, stored, did>>

\* An id without a coroutine is passed over.
Skip ==
  /\ round \in DOMAIN tasks /\ current = 0 /\ tasks[round] = NoCorot
  /\ round' = round + 1
  /\ UNCHANGED <<tasks, free, current, state, stack, stored, did, present, turns>>

\* Variant: the stack is taken as it is.
StackAsIs(c) == IF state[c] = "ready" THEN Frame(c, 0) ELSE stack

\* makecontext begins on the empty stack; a sleeping one finds what it left.
StackFor(c) == IF state[c] = "ready" THEN Frame(c, 0) ELSE stored[c]

ResumeCorot ==
  LET c == tasks[round] IN
  /\ round \in DOMAIN tasks /\ current = 0 /\ c # NoCorot
  /\ stack' = StackFor(c)
  /\ current' = round /\ state' = [state EXCEPT ![c] = "running"]
  /\ turns' = [turns EXCEPT ![c] = @ + 1]
  /\ UNCHANGED <<tasks, free, stored, round, did, present>>

\* getcontext fails: the coroutine is destroyed and never runs.
ResumeFails ==
  LET c == tasks[round] IN
  /\ round \in DOMAIN tasks /\ current = 0 /\ c # NoCorot /\ state[c] = "ready"
  /\ Destroy(round) /\ state' = [state EXCEPT ![c] = "ended"]
  /\ round' = round + 1 /\ turns' = [turns EXCEPT ![c] = @ + 1]
  /\ UNCHANGED <<current, stack, stored, did, present>>

\* The coroutine changes its local data.
Work ==
  /\ current # 0 /\ stack.n < MaxWork
  /\ stack' = [stack EXCEPT !.n = @ + 1] /\ did' = [did EXCEPT ![tasks[current]] = @ + 1]
  /\ UNCHANGED <<tasks, free, current, state, stored, round, present, turns>>

\* yieldRunningCorot, and back to doSchedule.
Yield ==
  LET c == tasks[current] IN
  /\ current # 0
  /\ stored' = [stored EXCEPT ![c] = stack] /\ state' = [state EXCEPT ![c] = "sleeping"]
  /\ current' = 0 /\ round' = round + 1
  /\ UNCHANGED <<tasks, free, stack, did, present, turns>>

\* The function returns: the end of invoke.
Exit ==
  /\ current # 0 /\ stack.n = MaxWork
  /\ Destroy(current) /\ state' = [state EXCEPT ![tasks[current]] = "ended"]
  /\ current' = 0 /\ round' = round + 1
  /\ UNCHANGED <<stack, stored, did, present, turns>>

\* Coroutines created in the round may have made the list longer.
EndRound ==
  /\ round > Len(tasks) /\ current = 0
  /\ round' = 0
  /\ UNCHANGED <<tasks, free, current, state, stack, stored, did, present, turns>>

Schedule == BeginRound \/ Skip \/ ResumeCorot \/ EndRound
CorotStep ==
  \/ Schedule \/ ResumeFails \/ Work \/ Yield \/ Exit
  \/ \E c \in Corots : Create(c)

CorotSpec == CorotInit /\ [][CorotStep]_corotVars

\* A coroutine that runs finds its own data, as it left it.
StackIsOwn == current # 0 => stack = Frame(tasks[current], did[tasks[current]])

\* A free id has no coroutine and is free once; a coroutine that has an id has
\* no other, and has not ended.
IdsAgree ==
  /\ \A i \in DOMAIN free : free[i] \in DOMAIN tasks /\ tasks[free[i]] = NoCorot
  /\ \A i, j \in DOMAIN free : free[i] = free[j] => i = j
  /\ \A i, j \in DOMAIN tasks : tasks[i] = tasks[j] /\ tasks[i] # NoCorot => i = j
  /\ \A i \in DOMAIN tasks : tasks[i] # NoCorot =>
       state[tasks[i]] \in {"ready", "running", "sleeping"}

\* A round gives each coroutine that was there its turn, and nobody two.
OneTurnEach ==
  /\ \A c \in Corots : turns[c] <= 1
  /\ round > Len(tasks) => \A c \in present : turns[c] = 1
=============================================================================
