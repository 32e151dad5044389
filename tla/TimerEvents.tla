----------------------------- MODULE TimerEvents -----------------------------
(***************************************************************************)
(* Timer and the Events in it: handlers registered for an interval and     *)
(* called by the timer thread, which holds the lock of the handlers for    *)
(* the whole tick.  Handlers of one interval share the time of the last    *)
(* registration and the counter of calls.  A removal is queued and done at *)
(* the start of the next tick; whoever registered a handler removes it     *)
(* once.                                                                   *)
(***************************************************************************)
EXTENDS SwapErase, FiniteSets

CONSTANTS
  Intervals,   \* the intervals, in ticks of the clock
  MaxRegs,     \* registrations for one interval
  OneShot,     \* ids of handlers that remove themselves when called
  MaxTime      \* the clock's bound

ASSUME TimerAssumption == Intervals \subseteq Nat /\ MaxRegs \in Nat /\ MaxTime \in Nat

VARIABLES
  clock,
  handlers,    \* interval -> [list, places, last, reg, counter], m_eventHandlers
  unreged,     \* m_unregedIds
  tick,        \* [pc, now, left]: the timer thread's call of operator()
  wanted       \* handlers registered and not removed

timerVars == <<clock, handlers, unreged, tick, wanted>>

NoHandlers == [list |-> <<>>, places |-> [i \in {} |-> 0], last |-> 0, reg |-> 0, counter |-> 0]

TimerInit ==
  /\ clock = 0 /\ handlers = [i \in Intervals |-> NoHandlers]
  /\ unreged = {} /\ wanted = {}
  /\ tick = [pc |-> "idle", now |-> 0, left |-> {}]

Clock == clock < MaxTime /\ clock' = clock + 1 /\ UNCHANGED <<handlers, unreged, tick, wanted>>

\* regEventHandler waits for the timer thread to give back the lock.
Reg(i) ==
  LET h == handlers[i]
      id == h.last + 1
  IN /\ tick.pc \notin {"clean", "fire"} /\ h.last < MaxRegs
     /\ handlers' = [handlers EXCEPT ![i] =
          [list |-> Added(h.list, id), places |-> PlacesAdded(h.list, h.places, id),
           last |-> id, reg |-> clock, counter |-> 0]]
     /\ wanted' = wanted \cup {<<i, id>>}
     /\ UNCHANGED <<clock, unreged, tick>>

\* unregEventHandler, unless the timer thread goes over the ids.
Unreg(r) ==
  /\ tick.pc # "clean" /\ r \in wanted
  /\ unreged' = unreged \cup {r} /\ wanted' = wanted \ {r}
  /\ UNCHANGED <<clock, handlers, tick>>

\* operator() reads the clock before it takes the lock.
ReadClock ==
  /\ tick.pc = "idle"
  /\ tick' = [pc |-> "lock", now |-> clock, left |-> {}]
  /\ UNCHANGED <<clock, handlers, unreged, wanted>>

\* Event::unreg: the only handler that is left goes, whatever the id.
Unregistered(h, id) ==
  IF Len(h.list) = 1 THEN [h EXCEPT !.list = <<>>, !.places = [i \in {} |-> 0]]
  ELSE IF id \in DOMAIN h.places
  THEN [h EXCEPT !.list = Erased(h.list, h.places, id), !.places = PlacesErased(h.list, h.places, id)]
  ELSE h

\* The locks of the handlers, for the whole tick, and of the queued removals.
TakeLocks ==
  /\ tick.pc = "lock" /\ tick' = [tick EXCEPT !.pc = "clean"]
  /\ UNCHANGED <<clock, handlers, unreged, wanted>>

\* Ids are queued by interval, and by number within an interval.
First(r) == \A q \in unreged : r[1] < q[1] \/ (r[1] = q[1] /\ r[2] <= q[2])

\* Variant: the id stays queued.
CleanKeepsIds(r) ==
  /\ tick.pc = "clean" /\ r \in unreged /\ First(r)
  /\ handlers' = [handlers EXCEPT ![r[1]] = Unregistered(@, r[2])]
  /\ UNCHANGED <<clock, unreged, tick, wanted>>

\* cleanEventHandler, the next id.
Clean(r) ==
  /\ tick.pc = "clean" /\ r \in unreged /\ First(r)
  /\ handlers' = [handlers EXCEPT ![r[1]] = Unregistered(@, r[2])]
  /\ unreged' = unreged \ {r}
  /\ UNCHANGED <<clock, tick, wanted>>

\* The lock of the removals is given back; the intervals are gone over.
Cleaned ==
  /\ tick.pc = "clean" /\ unreged = {}
  /\ tick' = [tick EXCEPT !.pc = "fire", !.left = {i \in Intervals : handlers[i].last > 0}]
  /\ UNCHANGED <<clock, handlers, unreged, wanted>>

Due(i, now) == now >= handlers[i].reg + i * handlers[i].counter

\* The next interval, the shortest first; its handlers are called in turn.
Fire(i) ==
  LET ends == {r \in wanted : r[1] = i /\ r[2] \in OneShot /\ r[2] \in DOMAIN handlers[i].places} IN
  /\ tick.pc = "fire" /\ i \in tick.left /\ \A j \in tick.left : i <= j
  /\ tick' = [tick EXCEPT !.left = @ \ {i}]
  /\ IF Due(i, tick.now)
     THEN /\ handlers' = [handlers EXCEPT ![i].counter = @ + 1]
          /\ unreged' = unreged \cup ends /\ wanted' = wanted \ ends
     ELSE UNCHANGED <<handlers, unreged, wanted>>
  /\ UNCHANGED clock

EndTick ==
  /\ tick.pc = "fire" /\ tick.left = {}
  /\ tick' = [pc |-> "idle", now |-> 0, left |-> {}]
  /\ UNCHANGED <<clock, handlers, unreged, wanted>>

TimerThread ==
  \/ ReadClock \/ TakeLocks \/ \E r \in unreged : Clean(r)
  \/ Cleaned \/ EndTick \/ \E i \in Intervals : Fire(i)

TimerStep ==
  \/ Clock \/ TimerThread
  \/ \E i \in Intervals : Reg(i)
  \/ \E r \in wanted : Unreg(r)

TimerSpec == TimerInit /\ [][TimerStep]_timerVars

\* The lists hold the handlers that are wanted and those whose removal waits,
\* each once: removing one handler never removes another.  Late calls are caught
\* up with, but the calls never run ahead of the clock.
HandlersStay ==
  \A i \in Intervals :
    /\ handlers[i].counter > 0 => handlers[i].reg + i * (handlers[i].counter - 1) <= clock
    /\ Agrees(handlers[i].list, handlers[i].places)
    /\ {<<i, handlers[i].list[n]>> : n \in 1 .. Len(handlers[i].list)}
         = {r \in wanted \cup unreged : r[1] = i}

=============================================================================
