------------------------------ MODULE MCProcess ------------------------------
(***************************************************************************)
(* What every process is made of: its private connections, its threads and *)
(* their end, its configuration, and what these run on - the tables, the   *)
(* timer, the coroutines and the receive queue.  One of them per behavior. *)
(***************************************************************************)
EXTENDS PrivateLink, Process, ProcessConfig, FastTravelMap, TimerEvents, Coroutines, SpscQueue,
        Bitwise

CONSTANTS p1, p2, Chosen
VARIABLE part

\* Two links for the peer that is accepted, one for the peer that is not.
PeerLinks == {<<p1, 1>>, <<p1, 2>>, <<p2, 1>>}

\* process.xml of the repository: the router, the lobby or the hall, and the
\* gateway; process.xml.example: a router with a superior, and the gateway.
Shipped == {{"private listen"}, {"private connect"}, {"private connect", "public listen"},
            {"private listen", "private connect"},
            {"private connect", "public listen", "flash sandbox"}}

Types == <<"router", "hall">>
BitOr(a, b) == a | b
Item(parts, name, nums) == [parts |-> parts, name |-> name, nums |-> nums]
SmallNodes ==
  [name : {"router", "hall", "none"}, num : {1, 5}, private : {TRUE}, listen : {"none", "e1", "e2"},
   connectTo : {<<>>, <<Item(2, "router", {1})>>, <<Item(3, "router", {5})>>,
                <<Item(2, "hall", {1, 5}), Item(3, "none", {1})>>}]

WholeInit ==
  /\ part \in Chosen
  /\ LinkInit /\ MapInit /\ TimerInit /\ CorotInit /\ Init
  /\ IF part = "process" THEN ProcInit
     ELSE ProcInit /\ config = {"private listen"}
  /\ IF part = "config" THEN ConfigInit
     ELSE ConfigInit /\ nodes = <<CHOOSE n \in Nodes : TRUE>>

basis == <<mapVars, timerVars, corotVars, vars>>
whole == <<part, linkVars, procVars, configVars, basis>>

Linking ==
  part = "links" /\ LinkNext /\ UNCHANGED <<part, procVars, configVars, basis>>
Living ==
  part = "process" /\ ProcNext /\ UNCHANGED <<part, linkVars, configVars, basis>>
Loading ==
  part = "config" /\ ConfigNext /\ UNCHANGED <<part, linkVars, procVars, basis>>
Tables ==
  /\ part = "table" /\ MapStep
  /\ UNCHANGED <<part, linkVars, procVars, configVars, timerVars, corotVars, vars>>
Timing ==
  /\ part = "timer" /\ TimerStep
  /\ UNCHANGED <<part, linkVars, procVars, configVars, mapVars, corotVars, vars>>
Switching ==
  /\ part = "coroutines" /\ CorotStep
  /\ UNCHANGED <<part, linkVars, procVars, configVars, mapVars, timerVars, vars>>
Queueing ==
  /\ part = "queue" /\ Next
  /\ UNCHANGED <<part, linkVars, procVars, configVars, mapVars, timerVars, corotVars>>

WholeNext == Linking \/ Living \/ Loading \/ Tables \/ Timing \/ Switching \/ Queueing

\* The fairness of links and of processes, each in the behaviors of its part.
OfLinks(A) == part = "links" /\ A /\ UNCHANGED <<part, procVars, configVars, basis>>
OfProcess(A) == part = "process" /\ A /\ UNCHANGED <<part, linkVars, configVars, basis>>

Fairness ==
  /\ \A l \in Links : WF_whole(OfLinks(LinkStep(l)))
  /\ \A q \in Procs : WF_whole(OfLinks(ProcessStep(q)))
  /\ WF_whole(OfProcess(Main))
  /\ \A t \in Threads : WF_whole(OfProcess(Ends(t)))

WholeSpec == WholeInit /\ [][WholeNext]_whole /\ Fairness

\* Reconverges and TimerStarts, of the behaviors that are about links.
LinksReconverge  == part = "links" => Reconverges
LinksStartTimers == part = "links" => TimerStarts
=============================================================================
