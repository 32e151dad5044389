------------------------------- MODULE Process -------------------------------
(***************************************************************************)
(* The life of a process: init makes the components its configuration      *)
(* names, lanchThreads runs a thread for each and notes it under a name,   *)
(* joinThreads waits for all of them.  A signal stops the threads that are *)
(* noted; a thread that fails stops the others.                            *)
(***************************************************************************)
EXTENDS Naturals, Sequences, FiniteSets

CONSTANTS
  Configs,     \* what a configuration may name: subsets of Parts
  MayFail,     \* threads whose exec may return false
  MayThrow     \* threads whose exec may end with an exception

Parts == {"private listen", "private connect", "public listen", "http listen", "flash sandbox"}

LaunchOrder ==
  <<"private server", "private client", "public server", "http server", "http conns",
    "connection checker", "flash sandbox server", "flash sandbox handler", "tcp conns",
    "main timer">>

Threads == {LaunchOrder[i] : i \in DOMAIN LaunchOrder}

ASSUME ProcessAssumption ==
  /\ Configs \subseteq SUBSET Parts /\ MayFail \subseteq Threads /\ MayThrow \subseteq Threads

VARIABLES
  config,      \* what the configuration names
  pc,          \* "run", "note", "join", "exited"
  next,        \* the thread to be run, an index of LaunchOrder
  noted,       \* names in m_threads
  switch,      \* threads that are switched on
  thread,      \* "none", "running", or how the thread has ended
  waited,      \* threads whose future has been used up
  waiting,   \* the main timer waits
  signalled    \* a signal has come while all threads were noted

procVars == <<config, pc, next, noted, switch, thread, waited, waiting, signalled>>

\* init: the component a thread belongs to.
Made(t) ==
  CASE t = "private server" -> "private listen" \in config
    [] t = "private client" -> "private connect" \in config
    [] t = "public server"  -> "public listen" \in config
    [] t \in {"http server", "http conns"} -> "http listen" \in config
    [] t \in {"flash sandbox server", "flash sandbox handler"} -> "flash sandbox" \in config
    [] OTHER -> TRUE

\* Variant: one more thread is noted as the main timer.
NotedTwice(name) == IF name \in {"http conns", "tcp conns"} THEN "main timer" ELSE name

\* The thread that is noted under a name.
Noted(name) == IF name = "http conns" THEN "main timer" ELSE name

\* The next thread to be run after the i-th.
After(i) ==
  LET later == {j \in i + 1 .. Len(LaunchOrder) : Made(LaunchOrder[j])}
  IN CHOOSE j \in later : \A k \in later : j <= k

ProcInit ==
  /\ config \in Configs
  /\ pc = "run" /\ next = After(0) /\ noted = {} /\ switch = {}
  /\ thread = [t \in Threads |-> "none"] /\ waited = {} /\ waiting = FALSE
  /\ signalled = FALSE

---------------------------------------------------------------------------
\* lanchThreads

Run ==
  LET t == LaunchOrder[next]
  IN /\ pc = "run" /\ pc' = "note"
     /\ switch' = switch \cup {t} /\ thread' = [thread EXCEPT ![t] = "running"]
     /\ waiting' = (waiting \/ t = "main timer")
     /\ UNCHANGED <<config, next, noted, waited, signalled>>

Note ==
  /\ pc = "note" /\ noted' = noted \cup {LaunchOrder[next]}
  /\ IF next = Len(LaunchOrder) THEN pc' = "join" /\ UNCHANGED next
                                ELSE pc' = "run" /\ next' = After(next)
  /\ UNCHANGED <<config, switch, thread, waited, waiting, signalled>>

---------------------------------------------------------------------------
\* The threads.

\* exec leaves its loop, which it looks at the switch in.
Ends(t) ==
  /\ thread[t] = "running" /\ t \notin switch
  /\ thread' = [thread EXCEPT ![t] = "true"]
  /\ UNCHANGED <<config, pc, next, noted, switch, waited, waiting, signalled>>

Fails(t) ==
  /\ thread[t] = "running"
  /\ \/ t \in MayFail /\ thread' = [thread EXCEPT ![t] = "false"]
     \/ t \in MayThrow /\ (t = "main timer" => ~ waiting)
        /\ thread' = [thread EXCEPT ![t] = "throws"]
  /\ UNCHANGED <<config, pc, next, noted, switch, waited, waiting, signalled>>

---------------------------------------------------------------------------
\* stop(), by the main thread's signal handler or because of a thread.

\* Variant: the main timer goes on.
StoppedButTimer == switch \ {t \in noted : t # "main timer"}

Stopped == switch \ {Noted(name) : name \in noted}

Signal ==
  /\ pc # "exited"
  /\ switch' = Stopped /\ signalled' = (signalled \/ pc = "join")
  /\ UNCHANGED <<config, pc, next, noted, thread, waited, waiting>>

---------------------------------------------------------------------------
\* joinThreads

\* All private connections are there.
Resume ==
  /\ pc = "join" /\ noted # {} /\ waiting /\ waiting' = FALSE
  /\ UNCHANGED <<config, pc, next, noted, switch, thread, waited, signalled>>

HasEnded(t) == thread[t] \notin {"none", "running"}

\* A thread that has ended is taken out; if it failed, the others are stopped.
Join(name) ==
  LET t == Noted(name)
  IN /\ pc = "join" /\ name \in noted /\ HasEnded(t) /\ thread[t] # "throws" /\ t \notin waited
     /\ switch' = IF thread[t] = "false" THEN Stopped ELSE switch
     /\ noted' = noted \ {name} /\ waited' = waited \cup {t}
     /\ UNCHANGED <<config, pc, next, thread, waiting, signalled>>

\* The future throws what the thread has thrown, or throws because it was used
\* before: start() catches it, stops the threads and does not wait for them.
JoinThrows(name) ==
  LET t == Noted(name)
  IN /\ pc = "join" /\ name \in noted
     /\ t \in waited \/ thread[t] = "throws"
     /\ pc' = "exited" /\ switch' = Stopped
     /\ UNCHANGED <<config, next, noted, thread, waited, waiting, signalled>>

AllJoined ==
  /\ pc = "join" /\ noted = {} /\ pc' = "exited"
  /\ UNCHANGED <<config, next, noted, switch, thread, waited, waiting, signalled>>

---------------------------------------------------------------------------
Main == Run \/ Note \/ AllJoined \/ \E name \in noted : Join(name) \/ JoinThrows(name)

ProcNext ==
  \/ Main \/ Signal \/ Resume
  \/ \E t \in Threads : Ends(t) \/ Fails(t)

\* The main thread goes on, and a thread looks at its switch.
ProcFairness == WF_procVars(Main) /\ \A t \in Threads : WF_procVars(Ends(t))

ProcSpec == ProcInit /\ [][ProcNext]_procVars /\ ProcFairness

---------------------------------------------------------------------------
(* Correctness. *)

\* start() returns when every thread that was run has ended: only a thread that
\* ends with an exception makes it leave the others behind.
NobodyLeftBehind ==
  pc = "exited" /\ (\A t \in Threads : thread[t] # "throws") =>
    \A t \in Threads : thread[t] # "running"

\* A signal that comes while joinThreads waits, and a thread that fails, end
\* the process.
StopEnds ==
  /\ signalled ~> pc = "exited"
  /\ (pc = "join" /\ \E t \in waited : thread[t] = "false") ~> pc = "exited"
=============================================================================
