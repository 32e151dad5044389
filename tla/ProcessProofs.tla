---------------------------- MODULE ProcessProofs ----------------------------
(***************************************************************************)
(* Both ends of a private link agree, for any peers and links and any      *)
(* number of faults; start() waits for every thread it has run; and a      *)
(* process connects to the processes its configuration names.              *)
(***************************************************************************)
EXTENDS PrivateLink, Process, ProcessConfig, WellFoundedInduction, TLAPS

\* Until the listener has answered, the wire holds what the peer sent or
\* nothing; an answer stays there as long as the peer uses the connection.
WireOK ==
  \A l \in Links :
    /\ cli[l] = "sendId" => wire[l] = "none"
    /\ cli[l] = "added" => wire[l] = "accepted"
    /\ srv[l] \in {"backlog", "recvId"} => wire[l] \in {"none", "id"}
    /\ srv[l] = "sendRet" => wire[l] = "id"
    /\ wire[l] = "accepted" => l[1] \in Valid /\ srv[l] \in {"added", "none"}

\* What the tables hold is what the managers hold.
SrvTableOK == \A l \in Links : srv[l] = "added" <=> srvTable[l[1]] = l
PeerTableOK == \A l \in Links : cli[l] = "added" <=> peerTable[l[1]] = l

\* Only valid peers are added.
ValidOK == \A l \in Links : srv[l] = "added" => l[1] \in Valid

\* The weak pointer of a TcpClient: one connection at a time.
OneEach == \A k, l \in Links : k[1] = l[1] /\ cli[k] # "none" /\ cli[l] # "none" => k = l

LinkInv == LinkTypeOK /\ WireOK /\ SrvTableOK /\ PeerTableOK /\ ValidOK /\ OneEach

LEMMA PeerOfLink == \A l \in Links : l[1] \in Peers /\ l # None
  BY PrivateAssumption

LEMMA InvImpliesAgrees == LinkInv => HandshakeAgrees
  BY DEF LinkInv, HandshakeAgrees, WireOK, SrvTableOK, PeerTableOK, ValidOK, OneEach

LEMMA LinkInitInv == LinkInit => LinkInv
  BY PeerOfLink DEF LinkInit, LinkInv, LinkTypeOK, WireOK, SrvTableOK, PeerTableOK, ValidOK, OneEach, Procs

---------------------------------------------------------------------------
\* The steps of the peer's end.

LEMMA ConnectInv == ASSUME LinkInv, NEW l \in Links, Connect(l[1], l) PROVE LinkInv'
<1> USE PeerOfLink DEF LinkInv
<1>1. LinkTypeOK'
  BY DEF Connect, LinkTypeOK
<1>2. WireOK' /\ SrvTableOK' /\ PeerTableOK' /\ ValidOK'
  BY DEF Connect, LinkTypeOK, WireOK, SrvTableOK, PeerTableOK, ValidOK, Of
<1>3. OneEach'
  BY DEF Connect, LinkTypeOK, OneEach, Of
<1>4. QED
  BY <1>1, <1>2, <1>3

LEMMA SendIdInv == ASSUME LinkInv, NEW l \in Links, SendId(l) PROVE LinkInv'
<1> USE PeerOfLink DEF LinkInv, SendId
<1>1. LinkTypeOK'
  BY DEF LinkTypeOK
<1>2. WireOK'
  BY DEF LinkTypeOK, WireOK
<1>3. SrvTableOK' /\ PeerTableOK' /\ ValidOK' /\ OneEach'
  BY DEF LinkTypeOK, SrvTableOK, PeerTableOK, ValidOK, OneEach
<1>4. QED
  BY <1>1, <1>2, <1>3

LEMMA RecvRetInv == ASSUME LinkInv, NEW l \in Links, RecvRet(l) PROVE LinkInv'
<1> USE PeerOfLink DEF LinkInv, RecvRet
<1>1. LinkTypeOK'
  BY DEF LinkTypeOK
<1>2. WireOK'
  BY DEF LinkTypeOK, WireOK
<1>3. PeerTableOK' /\ OneEach'
  BY DEF LinkTypeOK, PeerTableOK, OneEach
<1>4. SrvTableOK' /\ ValidOK'
  BY DEF SrvTableOK, ValidOK
<1>5. QED
  BY <1>1, <1>2, <1>3, <1>4

LEMMA NoticeAtPeerInv == ASSUME LinkInv, NEW l \in Links, NoticeAtPeer(l) PROVE LinkInv'
<1> USE PeerOfLink DEF LinkInv, NoticeAtPeer, Forget
<1>1. LinkTypeOK'
  BY DEF LinkTypeOK
<1>2. WireOK' /\ SrvTableOK' /\ ValidOK'
  BY DEF LinkTypeOK, WireOK, SrvTableOK, ValidOK
<1>3. PeerTableOK' /\ OneEach'
  BY DEF LinkTypeOK, PeerTableOK, OneEach
<1>4. QED
  BY <1>1, <1>2, <1>3

---------------------------------------------------------------------------
\* The steps of the listener's end.

LEMMA AcceptInv == ASSUME LinkInv, NEW l \in Links, Accept(l) PROVE LinkInv'
  BY PeerOfLink DEF LinkInv, Accept, LinkTypeOK, WireOK, SrvTableOK, PeerTableOK, ValidOK, OneEach

\* An answer is given while the wire still holds the id.
LEMMA AnswerInv ==
  ASSUME LinkInv, NEW l \in Links, Answer(l), wire[l] = "id",
         srv[l] \in {"recvId", "sendRet"},
         UNCHANGED <<cli, broken, peerTable, running, suspended, faults>>
  PROVE  LinkInv'
<1> USE PeerOfLink DEF LinkInv, Answer
<1>1. LinkTypeOK'
  BY DEF LinkTypeOK
<1>2. WireOK'
  BY DEF LinkTypeOK, WireOK
<1>3. SrvTableOK' /\ ValidOK'
  BY DEF LinkTypeOK, SrvTableOK, ValidOK
<1>4. PeerTableOK' /\ OneEach'
  BY DEF PeerTableOK, OneEach
<1>5. QED
  BY <1>1, <1>2, <1>3, <1>4

LEMMA RecvIdInv == ASSUME LinkInv, NEW l \in Links, RecvId(l) PROVE LinkInv'
<1>1. CASE Answer(l)
  BY <1>1, AnswerInv DEF RecvId
<1>2. CASE srv' = [srv EXCEPT ![l] = "sendRet"] /\ UNCHANGED <<wire, srvTable>>
  BY <1>2, PeerOfLink DEF RecvId, LinkInv, LinkTypeOK, WireOK, SrvTableOK, PeerTableOK, ValidOK, OneEach
<1>3. QED
  BY <1>1, <1>2 DEF RecvId

LEMMA SendRetInv == ASSUME LinkInv, NEW l \in Links, SendRet(l) PROVE LinkInv'
  BY AnswerInv DEF SendRet, LinkInv, WireOK

LEMMA NoticeAtServerInv == ASSUME LinkInv, NEW l \in Links, NoticeAtServer(l) PROVE LinkInv'
<1> USE PeerOfLink DEF LinkInv, NoticeAtServer, Forget
<1>1. LinkTypeOK'
  BY DEF LinkTypeOK
<1>2. WireOK' /\ PeerTableOK' /\ OneEach'
  BY DEF LinkTypeOK, WireOK, PeerTableOK, OneEach
<1>3. SrvTableOK' /\ ValidOK'
  BY DEF LinkTypeOK, SrvTableOK, ValidOK
<1>4. QED
  BY <1>1, <1>2, <1>3

---------------------------------------------------------------------------
\* Processes and faults.

LEMMA ProcessInv == ASSUME LinkInv, NEW q \in Procs, ProcessStep(q) PROVE LinkInv'
  BY DEF ProcessStep, StartProcess, JoinThreads, LinkInv, LinkTypeOK, WireOK, SrvTableOK,
         PeerTableOK, ValidOK, OneEach

LEMMA StopInv == ASSUME LinkInv, NEW q \in Procs, StopProcess(q) PROVE LinkInv'
<1> USE PeerOfLink DEF LinkInv, StopProcess, Fault
<1>1. LinkTypeOK'
  BY PrivateAssumption DEF LinkTypeOK, Procs
<1>2. CASE q = Server
  <2>1. /\ srv' = [l \in Links |-> "none"] /\ srvTable' = [p \in Peers |-> None]
        /\ UNCHANGED <<cli, peerTable, wire, broken>>
    BY <1>2
  <2>2. QED
    BY <2>1, <1>1 DEF WireOK, SrvTableOK, PeerTableOK, ValidOK, OneEach
<1>3. CASE q # Server
  <2>1. /\ cli' = [l \in Links |-> IF l \in Of(q) THEN "none" ELSE cli[l]]
        /\ peerTable' = [peerTable EXCEPT ![q] = None]
        /\ UNCHANGED <<srv, srvTable, wire, broken>>
    BY <1>3
  <2>2. \A l \in Links : l \in Of(q) <=> l[1] = q
    BY DEF Of
  <2>3. q \in Peers
    BY <1>3 DEF Procs
  <2>4. WireOK' /\ SrvTableOK' /\ ValidOK' /\ OneEach'
    BY <2>1 DEF WireOK, SrvTableOK, ValidOK, OneEach
  <2>5. PeerTableOK'
    BY <2>1, <2>2, <2>3 DEF PeerTableOK, LinkTypeOK
  <2>6. QED
    BY <2>4, <2>5, <1>1
<1>4. QED
  BY <1>2, <1>3

LEMMA BreakInv == ASSUME LinkInv, NEW l \in Links, Break(l) PROVE LinkInv'
  BY PrivateAssumption DEF Break, Fault, LinkInv, LinkTypeOK, WireOK, SrvTableOK, PeerTableOK, ValidOK, OneEach

LEMMA EpollRefusesInv == ASSUME LinkInv, NEW l \in Links, EpollRefuses(l) PROVE LinkInv'
<1> USE PeerOfLink DEF LinkInv, EpollRefuses, Fault
<1>1. LinkTypeOK'
  BY PrivateAssumption DEF LinkTypeOK
<1>2. WireOK'
  BY DEF LinkTypeOK, WireOK
<1>3. SrvTableOK' /\ PeerTableOK' /\ ValidOK' /\ OneEach'
  BY DEF LinkTypeOK, SrvTableOK, PeerTableOK, ValidOK, OneEach
<1>4. QED
  BY <1>1, <1>2, <1>3

LEMMA LinkNextInv == ASSUME LinkInv, [LinkNext]_linkVars PROVE LinkInv'
<1>1. ASSUME NEW l \in Links, LinkStep(l) PROVE LinkInv'
  BY <1>1, ConnectInv, SendIdInv, RecvRetInv, AcceptInv, RecvIdInv, SendRetInv,
     NoticeAtPeerInv, NoticeAtServerInv DEF LinkStep
<1>2. ASSUME LinkFault PROVE LinkInv'
  BY <1>2, StopInv, BreakInv, EpollRefusesInv DEF LinkFault
<1>3. CASE UNCHANGED linkVars
  BY <1>3 DEF linkVars, LinkInv, LinkTypeOK, WireOK, SrvTableOK, PeerTableOK, ValidOK, OneEach
<1>4. QED
  BY <1>1, <1>2, <1>3, ProcessInv DEF LinkNext

---------------------------------------------------------------------------
\* The invariant of the ends, the tables and the wire holds in every state.
THEOREM LinkInvariance == LinkSpec => []LinkInv
  BY LinkInitInv, LinkNextInv, PTL DEF LinkSpec

\* Whatever breaks, restarts or is refused, a connection that a peer's manager
\* keeps was accepted by the listener's checker and is kept or dropped by its
\* manager, and the tables of both have exactly the connections they use.
THEOREM EndsAlwaysAgree == LinkSpec => []HandshakeAgrees
  BY LinkInvariance, InvImpliesAgrees, PTL

---------------------------------------------------------------------------
(* Process: start() waits for every thread it has run.                     *)

\* No process listens for http.
NoHttp == \A c \in Configs : "http listen" \notin c

States == {"none", "running", "true", "false", "throws"}

ProcTypeOK ==
  /\ config \in Configs /\ pc \in {"run", "note", "join", "exited"} /\ next \in 1 .. 10
  /\ noted \subseteq Threads /\ waited \subseteq Threads /\ thread \in [Threads -> States]

\* A thread is run under its own name.
OwnName == Made(LaunchOrder[next]) /\ "http conns" \notin noted

\* What runs is noted, or is about to be.
RunsNoted ==
  pc # "exited" => \A t \in Threads :
    thread[t] = "running" => t \in noted \/ (pc = "note" /\ t = LaunchOrder[next])

\* A future is used up with the name it was noted under, and not before the
\* last thread is noted.
WaitedOnce == waited \cap noted = {} /\ (pc \in {"run", "note"} => waited = {})

ProcInv == ProcTypeOK /\ OwnName /\ RunsNoted /\ WaitedOnce /\ NobodyLeftBehind

LEMMA OrderIs ==
  /\ Len(LaunchOrder) = 10 /\ LaunchOrder[10] = "main timer"
  /\ \A i \in 1 .. 10 : LaunchOrder[i] \in Threads
<1>1. Len(LaunchOrder) = 10 /\ LaunchOrder[10] = "main timer"
  BY DEF LaunchOrder
<1>2. DOMAIN LaunchOrder = 1 .. 10
  BY DEF LaunchOrder
<1>3. QED
  BY <1>1, <1>2 DEF Threads

\* A nonempty set of threads' indices has a least one.
LEMMA LeastIndex ==
  ASSUME NEW S, S \subseteq 1 .. 10, 10 \in S
  PROVE  \E j \in S : \A k \in S : j <= k
<1>1. CASE \E j \in 1 .. 5 : j \in S
  OBVIOUS
<1>2. CASE \A j \in 1 .. 5 : j \notin S
  OBVIOUS
<1>3. QED
  BY <1>1, <1>2

LEMMA AfterMade ==
  ASSUME NEW i \in 0 .. 9
  PROVE  After(i) \in 1 .. 10 /\ Made(LaunchOrder[After(i)])
<1> DEFINE later == {j \in i + 1 .. Len(LaunchOrder) : Made(LaunchOrder[j])}
<1>1. Made("main timer")
  BY DEF Made
<1>2. later \subseteq 1 .. 10 /\ 10 \in later
  <2>1. later = {j \in i + 1 .. 10 : Made(LaunchOrder[j])}
    BY OrderIs
  <2>2. 10 \in i + 1 .. 10 /\ i + 1 .. 10 \subseteq 1 .. 10
    OBVIOUS
  <2>3. Made(LaunchOrder[10])
    BY <1>1, OrderIs
  <2>4. QED
    BY <2>1, <2>2, <2>3
<1>3. \E j \in later : \A k \in later : j <= k
  BY <1>2, LeastIndex
<1>4. After(i) \in later
  BY <1>3 DEF After
<1>5. QED
  BY <1>2, <1>4

LEMMA NoConns == ASSUME NoHttp, config \in Configs PROVE ~ Made("http conns")
  BY DEF NoHttp, Made

LEMMA OwnThread == ASSUME OwnName, NEW name \in noted PROVE Noted(name) = name
  BY DEF OwnName, Noted

LEMMA ProcInitInv == ProcInit => ProcInv
<1> SUFFICES ASSUME ProcInit PROVE ProcInv
  OBVIOUS
<1>1. ProcTypeOK
  BY AfterMade, 0 \in 0 .. 9 DEF ProcInit, ProcTypeOK, States
<1>2. OwnName
  BY AfterMade, 0 \in 0 .. 9 DEF ProcInit, OwnName
<1>3. RunsNoted /\ WaitedOnce /\ NobodyLeftBehind
  BY DEF ProcInit, RunsNoted, WaitedOnce, NobodyLeftBehind
<1>4. QED
  BY <1>1, <1>2, <1>3 DEF ProcInv

LEMMA RunInv == ASSUME ProcInv, Run PROVE ProcInv'
<1>1. ProcTypeOK'
  BY OrderIs DEF Run, ProcInv, ProcTypeOK, States
<1>2. OwnName'
  BY DEF Run, ProcInv, OwnName, Made
<1>3. RunsNoted'
  BY OrderIs DEF Run, ProcInv, ProcTypeOK, RunsNoted
<1>4. WaitedOnce' /\ NobodyLeftBehind'
  BY DEF Run, ProcInv, WaitedOnce, NobodyLeftBehind
<1>5. QED
  BY <1>1, <1>2, <1>3, <1>4 DEF ProcInv

LEMMA NoteInv == ASSUME NoHttp, ProcInv, Note PROVE ProcInv'
<1>1. LaunchOrder[next] \in Threads /\ LaunchOrder[next] # "http conns"
  BY OrderIs, NoConns DEF ProcInv, ProcTypeOK, OwnName
<1>2. next' \in 1 .. 10 /\ Made(LaunchOrder[next'])
  <2>1. CASE next = 10
    BY <2>1, OrderIs DEF Note, ProcInv, ProcTypeOK, OwnName
  <2>2. CASE next # 10
    <3>1. next \in 0 .. 9
      BY <2>2 DEF ProcInv, ProcTypeOK
    <3>2. next' = After(next)
      BY <2>2, OrderIs DEF Note
    <3>3. QED
      BY <3>1, <3>2, AfterMade
  <2>3. QED
    BY <2>1, <2>2
<1>3. ProcTypeOK'
  BY <1>1, <1>2 DEF Note, ProcInv, ProcTypeOK
<1>4. OwnName'
  <2>1. Made(LaunchOrder[next])' 
    BY <1>2 DEF Note, Made, LaunchOrder
  <2>2. QED
    BY <1>1, <2>1 DEF Note, ProcInv, OwnName
<1>5. RunsNoted' /\ WaitedOnce' /\ NobodyLeftBehind'
  BY DEF Note, ProcInv, RunsNoted, WaitedOnce, NobodyLeftBehind
<1>6. QED
  BY <1>3, <1>4, <1>5 DEF ProcInv

LEMMA ThreadInv == ASSUME ProcInv, NEW t \in Threads, Ends(t) \/ Fails(t) PROVE ProcInv'
<1>1. /\ thread[t] = "running"
      /\ thread' = [thread EXCEPT ![t] = "true"] \/ thread' = [thread EXCEPT ![t] = "false"]
           \/ thread' = [thread EXCEPT ![t] = "throws"]
      /\ UNCHANGED <<config, pc, next, noted, waited>>
  BY DEF Ends, Fails
<1>2. ProcTypeOK'
  BY <1>1 DEF ProcInv, ProcTypeOK, States
<1>3. OwnName' /\ WaitedOnce'
  BY <1>1 DEF ProcInv, OwnName, WaitedOnce, Made
<1>4. \A s \in Threads : /\ thread'[s] = "running" => thread[s] = "running"
                         /\ thread[s] = "throws" => thread'[s] = "throws"
  BY <1>1 DEF ProcInv, ProcTypeOK
<1>5. RunsNoted' /\ NobodyLeftBehind'
  BY <1>1, <1>4 DEF ProcInv, RunsNoted, NobodyLeftBehind
<1>6. QED
  BY <1>2, <1>3, <1>5 DEF ProcInv

LEMMA JoinInv == ASSUME ProcInv, NEW name \in noted, Join(name) PROVE ProcInv'
<1>1. Noted(name) = name /\ name \in Threads
  BY OwnThread DEF ProcInv, ProcTypeOK
<1>2. /\ pc = "join" /\ thread[name] # "running" /\ noted' = noted \ {name}
      /\ waited' = waited \cup {name} /\ UNCHANGED <<config, pc, next, thread>>
  BY <1>1 DEF Join, HasEnded
<1>3. ProcTypeOK'
  BY <1>1, <1>2 DEF ProcInv, ProcTypeOK
<1>4. OwnName'
  BY <1>2 DEF ProcInv, OwnName, Made
<1>5. RunsNoted' /\ WaitedOnce' /\ NobodyLeftBehind'
  BY <1>2 DEF ProcInv, RunsNoted, WaitedOnce, NobodyLeftBehind
<1>6. QED
  BY <1>3, <1>4, <1>5 DEF ProcInv

LEMMA JoinThrowsInv == ASSUME ProcInv, NEW name \in noted, JoinThrows(name) PROVE ProcInv'
<1>1. Noted(name) = name /\ name \in Threads /\ name \notin waited
  BY OwnThread DEF ProcInv, ProcTypeOK, WaitedOnce
<1>2. /\ thread[name] = "throws" /\ pc' = "exited"
      /\ UNCHANGED <<config, next, noted, thread, waited>>
  BY <1>1 DEF JoinThrows
<1>3. ProcTypeOK'
  BY <1>2 DEF ProcInv, ProcTypeOK
<1>4. OwnName' /\ RunsNoted' /\ WaitedOnce'
  BY <1>2 DEF ProcInv, OwnName, RunsNoted, WaitedOnce, Made
<1>5. NobodyLeftBehind'
  BY <1>1, <1>2 DEF NobodyLeftBehind
<1>6. QED
  BY <1>3, <1>4, <1>5 DEF ProcInv

LEMMA AllJoinedInv == ASSUME ProcInv, AllJoined PROVE ProcInv'
<1>1. ProcTypeOK'
  BY DEF AllJoined, ProcInv, ProcTypeOK
<1>2. OwnName' /\ RunsNoted' /\ WaitedOnce'
  BY DEF AllJoined, ProcInv, OwnName, RunsNoted, WaitedOnce, Made
<1>3. NobodyLeftBehind'
  BY DEF AllJoined, ProcInv, RunsNoted, NobodyLeftBehind
<1>4. QED
  BY <1>1, <1>2, <1>3 DEF ProcInv

LEMMA ProcNextInv == ASSUME NoHttp, ProcInv, [ProcNext]_procVars PROVE ProcInv'
<1>1. CASE UNCHANGED <<config, pc, next, noted, thread, waited>>
  BY <1>1 DEF ProcInv, ProcTypeOK, OwnName, RunsNoted, WaitedOnce, NobodyLeftBehind, Made
<1>2. CASE Main
  BY <1>2, RunInv, NoteInv, AllJoinedInv, JoinInv, JoinThrowsInv DEF Main
<1>3. CASE Signal
  BY <1>1, <1>3 DEF Signal
<1>4. CASE Resume
  BY <1>1, <1>4 DEF Resume
<1>5. CASE UNCHANGED procVars
  BY <1>1, <1>5 DEF procVars
<1>6. QED
  BY <1>2, <1>3, <1>4, <1>5, ThreadInv DEF ProcNext

---------------------------------------------------------------------------
\* Whoever fails, is stopped or ends while the threads are run and waited for,
\* start() leaves nobody behind unless a thread throws.
THEOREM EveryThreadJoined == NoHttp => (ProcSpec => []NobodyLeftBehind)
<1>1. ProcInit => ProcInv
  BY ProcInitInv
<1>2. ASSUME NoHttp PROVE ProcInv /\ [ProcNext]_procVars => ProcInv'
  BY <1>2, ProcNextInv
<1>3. ProcInv => NobodyLeftBehind
  BY DEF ProcInv
<1>4. ASSUME NoHttp PROVE ProcSpec => []NobodyLeftBehind
  <2>1. ProcInv /\ [ProcNext]_procVars => ProcInv'
    BY <1>2, <1>4
  <2>2. QED
    BY <1>1, <1>3, <2>1, PTL DEF ProcSpec
<1>5. QED
  BY <1>4


---------------------------------------------------------------------------
(* The configuration. *)

\* Where a node stands under.
Key(i) == ValueOf(NamedId(nodes[i].name, nodes[i].num))

\* Types and numbers have eight bits, as process_id.h says of them.
EightBits ==
  /\ Len(AllTypes) < Byte
  /\ \A n \in Nodes : n.num \in 0 .. Byte - 1
       /\ \A k \in DOMAIN n.connectTo : n.connectTo[k].nums \subseteq 0 .. Byte - 1

\* An endpoint stands under the id of the node that listens at it.
ConfigInv ==
  /\ nodes \in Seq(Nodes) /\ node \in 0 .. Len(nodes) /\ thisNode \in 0 .. node
  /\ \A e \in privateListenEps : \E i \in 1 .. node :
       /\ nodes[i].listen # NoListen /\ StringToType(nodes[i].name) # 0
       /\ e.key = Key(i) /\ e.ep = nodes[i].listen
  /\ ConnectsAsListed

\* A set of natural numbers that is not empty has a least one.
LEMMA LeastOf ==
  ASSUME NEW T \in SUBSET Nat, T # {}
  PROVE  \E x \in T : \A y \in T : x <= y
<1> DEFINE R == OpToRel(<, Nat)
<1>1. IsWellFoundedOn(R, Nat)
  BY NatLessThanWellFounded
<1>2. \A x, y \in Nat : x < y => <<x, y>> \in R
  BY DEF OpToRel
<1> HIDE DEF R
<1>3. PICK x \in T : \A y \in T : ~ (<<y, x>> \in R)
  BY <1>1, WFMin
<1>4. ASSUME NEW y \in T PROVE x <= y
  <2>1. x \in Nat /\ y \in Nat /\ ~ (y < x)
    BY <1>2, <1>3
  <2>2. QED
    BY <2>1
<1>5. QED
  BY <1>4

\* A name that is listed has a type, which is a place where it is listed.
LEMMA TypesTellNames ==
  ASSUME NEW name
  PROVE  /\ StringToType(name) = 0 <=> \A i \in DOMAIN AllTypes : AllTypes[i] # name
         /\ StringToType(name) # 0 =>
              StringToType(name) \in 1 .. Len(AllTypes) /\ AllTypes[StringToType(name)] = name
<1> DEFINE at == {i \in DOMAIN AllTypes : AllTypes[i] = name}
           away == {Len(AllTypes) - i : i \in at}
<1>1. DOMAIN AllTypes = 1 .. Len(AllTypes) /\ Len(AllTypes) \in Nat
  BY ConfigAssumption
<1>2. at = {} => StringToType(name) = 0
  BY DEF StringToType
<1>3. SUFFICES ASSUME at # {} PROVE StringToType(name) \in at
  <2>1. at # {} => StringToType(name) \in 1 .. Len(AllTypes) /\ AllTypes[StringToType(name)] = name
    BY <1>1, <1>3
  <2>2. QED
    BY <1>1, <1>2, <2>1
<1>4. away \in SUBSET Nat /\ away # {} /\ at \subseteq 1 .. Len(AllTypes)
  BY <1>1, <1>3
<1>5. PICK d \in away : \A e \in away : d <= e
  <2> HIDE DEF away
  <2>1. away \in SUBSET Nat /\ away # {}
    BY <1>4
  <2>2. QED
    BY <2>1, LeastOf
<1>6. PICK i \in at : d = Len(AllTypes) - i
  BY <1>5
<1>7. \A j \in at : j <= i
  <2>1. SUFFICES ASSUME NEW j \in at PROVE j <= i
    OBVIOUS
  <2>2. Len(AllTypes) - j \in away
    OBVIOUS
  <2>3. Len(AllTypes) - i <= Len(AllTypes) - j
    BY <1>5, <1>6, <2>2
  <2>4. QED
    BY <1>1, <1>4, <2>3
<1>8. StringToType(name) = CHOOSE k \in at : \A j \in at : j <= k
  BY <1>3 DEF StringToType
<1>9. QED
  BY <1>7, <1>8

\* Less than b is its own rest.
LEMMA Remainder ==
  ASSUME NEW a \in Nat, NEW b \in Nat, a < b
  PROVE  a % b = a
OBVIOUS

\* A number is a multiple of b and a rest in one way.
LEMMA OneNotation ==
  ASSUME NEW b \in Nat, NEW s \in Nat, NEW t \in Nat, NEW m \in 0 .. b - 1, NEW n \in 0 .. b - 1,
         s * b + m = t * b + n
  PROVE  s = t /\ m = n
<1>1. ASSUME NEW x \in Nat, NEW y \in Nat, x < y PROVE x * b + b <= y * b
  <2>1. PICK d \in Nat : y = x + 1 + d
    <3>1. y - x - 1 \in Nat /\ y = x + 1 + (y - x - 1)
      BY <1>1
    <3>2. QED
      BY <3>1
  <2>2. y * b = x * b + b + d * b
    BY <2>1
  <2>3. d * b \in Nat /\ x * b \in Nat
    OBVIOUS
  <2>4. QED
    BY <2>2, <2>3
<1>2. s * b \in Nat /\ t * b \in Nat
  OBVIOUS
<1>3. ~ (s < t)
  <2>1. SUFFICES ASSUME s < t PROVE FALSE
    OBVIOUS
  <2>2. s * b + b <= t * b
    BY <1>1, <2>1
  <2>3. QED
    BY <1>2, <2>2
<1>4. ~ (t < s)
  <2>1. SUFFICES ASSUME t < s PROVE FALSE
    OBVIOUS
  <2>2. t * b + b <= s * b
    BY <1>1, <2>1
  <2>3. QED
    BY <1>2, <2>2
<1>5. s = t
  BY <1>3, <1>4
<1>6. QED
  BY <1>2, <1>5

\* A type of eight bits can be shifted.
LEMMA TypeFits ==
  ASSUME NEW t \in 0 .. Byte - 1
  PROVE  /\ t \in 0 .. Word /\ t * Byte \in Nat /\ t * Byte + Byte <= Word - Byte /\ (t * Byte) % Word = t * Byte
         /\ t * Byte < Word
<1>1. Byte \in Nat /\ Byte > 0 /\ Word \in Nat /\ Byte * (Byte + 1) <= Word /\ t \in Nat
  BY ConfigAssumption
<1>2. Byte * (Byte + 1) = Byte * Byte + Byte /\ Byte * Byte >= Byte /\ Byte * Byte \in Nat
  BY <1>1
<1>3. t * Byte \in Nat /\ t * Byte + Byte <= Byte * Byte
  <2>1. PICK d \in Nat : Byte = t + 1 + d
    <3>1. Byte - t - 1 \in Nat /\ Byte = t + 1 + (Byte - t - 1)
      BY <1>1
    <3>2. QED
      BY <3>1
  <2>2. Byte * Byte = t * Byte + Byte + d * Byte
    BY <1>1, <2>1
  <2>3. d * Byte \in Nat /\ t * Byte \in Nat
    BY <1>1
  <2>4. QED
    BY <1>1, <2>2, <2>3
<1>4. t * Byte < Word /\ t * Byte + Byte <= Word - Byte
  BY <1>1, <1>2, <1>3
<1>5. (t * Byte) % Word = t * Byte
  BY <1>1, <1>3, <1>4, Remainder
<1>6. QED
  BY <1>1, <1>2, <1>3, <1>4, <1>5

\* The value of an id of eight bits, and of the id of a node.
LEMMA ListedValue ==
  ASSUME NEW t \in 0 .. Byte - 1, NEW n \in 0 .. Byte - 1
  PROVE  ValueOf([type |-> t, num |-> n]) = t * Byte + n
<1>1. BitsOr(t * Byte, n) = t * Byte + n
  BY TypeFits, OrAssumption
<1>2. QED
  BY <1>1, TypeFits DEF ValueOf

\* ... which is far above those of listed ids when the number is sign-extended.
LEMMA NamedValue ==
  ASSUME EightBits, NEW name, StringToType(name) # 0, NEW n \in 0 .. Byte - 1
  PROVE  LET v == ValueOf(NamedId(name, n)) IN
           v = StringToType(name) * Byte + n \/ v >= Word - Byte
<1> DEFINE t == StringToType(name)
<1>1. t \in 0 .. Byte - 1
  BY TypesTellNames, ConfigAssumption DEF EightBits
<1>2. n % Byte = n /\ Byte \in Nat /\ Word \in Nat /\ n \in Nat
  BY ConfigAssumption, Remainder
<1> HIDE DEF t
<1>3. \/ NamedId(name, n) = [type |-> t, num |-> n]
      \/ NamedId(name, n) = [type |-> t, num |-> Word - Byte + n]
  BY <1>2 DEF NamedId, t
<1>4. CASE NamedId(name, n) = [type |-> t, num |-> n]
  BY <1>1, <1>4, ListedValue DEF t
<1>5. CASE NamedId(name, n) = [type |-> t, num |-> Word - Byte + n]
  <2>1. Word - Byte + n \in Word - Byte .. Word - 1 /\ Word - Byte + n >= Word - Byte
    BY <1>2
  <2>2. BitsOr(t * Byte, Word - Byte + n) = Word - Byte + n
    BY <1>1, <2>1, TypeFits, OrAssumption
  <2>3. ValueOf(NamedId(name, n)) = Word - Byte + n
    BY <1>1, <1>5, <2>2, TypeFits DEF ValueOf
  <2>4. QED
    BY <2>1, <2>3
<1>6. QED
  BY <1>3, <1>4, <1>5

\* A listed id that stands for a node has its name and number.
LEMMA ListedIsNamed ==
  ASSUME EightBits, NEW item, NEW name, StringToType(item) # 0, StringToType(name) # 0,
         NEW m \in 0 .. Byte - 1, NEW n \in 0 .. Byte - 1,
         ValueOf([type |-> StringToType(item), num |-> m]) = ValueOf(NamedId(name, n))
  PROVE  item = name /\ m = n
<1> DEFINE s == StringToType(item)
           t == StringToType(name)
<1>1. s \in 0 .. Byte - 1 /\ t \in 0 .. Byte - 1 /\ AllTypes[s] = item /\ AllTypes[t] = name
  <2>1. /\ s \in 1 .. Len(AllTypes) /\ AllTypes[s] = item
        /\ t \in 1 .. Len(AllTypes) /\ AllTypes[t] = name
    BY TypesTellNames
  <2>2. Byte \in Nat /\ Len(AllTypes) < Byte /\ Len(AllTypes) \in Nat
    BY ConfigAssumption DEF EightBits
  <2> HIDE DEF s, t
  <2>3. QED
    BY <2>1, <2>2
<1> HIDE DEF s, t
<1>2. ValueOf([type |-> s, num |-> m]) = s * Byte + m /\ s * Byte + Byte <= Word - Byte
  BY <1>1, ListedValue, TypeFits
<1>3. s * Byte \in Nat /\ Byte \in Nat /\ Word \in Nat
  BY <1>1, TypeFits, ConfigAssumption
<1>4. s * Byte + m = t * Byte + n
  <2>1. ValueOf(NamedId(name, n)) = t * Byte + n \/ ValueOf(NamedId(name, n)) >= Word - Byte
    BY NamedValue DEF t
  <2>2. ValueOf(NamedId(name, n)) = s * Byte + m
    BY <1>2 DEF s
  <2>3. s * Byte + m < Word - Byte
    BY <1>2, <1>3
  <2>4. QED
    BY <1>3, <2>1, <2>2, <2>3
<1>5. s = t /\ m = n
  BY <1>1, <1>3, <1>4, OneNotation
<1>6. QED
  BY <1>1, <1>5

\* A node is read: it listens nowhere, or stands under its own id.
LEMMA ReadNodeKeeps ==
  ASSUME ConfigInv, ReadNode
  PROVE  ConfigInv'
<1>1. load = "loading" /\ node < Len(nodes) /\ UNCHANGED <<nodes, connect>> /\ load' # "loaded"
  BY DEF ReadNode, Fail
<1>2. ConnectsAsListed'
  BY <1>1 DEF ConnectsAsListed
<1>3. /\ nodes \in Seq(Nodes) /\ node \in 0 .. Len(nodes) /\ thisNode \in 0 .. node /\ Len(nodes) \in Nat
  BY DEF ConfigInv
<1>4. \A i : Key(i)' = Key(i)
  BY <1>1 DEF Key
<1>5. CASE UNCHANGED <<node, thisNode, privateListenEps>>
  BY <1>1, <1>2, <1>3, <1>4, <1>5 DEF ConfigInv
<1>6. CASE ~ UNCHANGED <<node, thisNode, privateListenEps>>
  <2> DEFINE n == nodes[node + 1]
  <2>1. /\ StringToType(n.name) # 0 /\ node' = node + 1 /\ thisNode' \in {thisNode, node + 1}
        /\ privateListenEps' = IF n.listen = NoListen THEN privateListenEps
             ELSE {e \in privateListenEps : e.key # Key(node + 1)} \cup {[key |-> Key(node + 1), ep |-> n.listen]}
    BY <1>6 DEF ReadNode, Fail, Key
  <2>2. node' \in 0 .. Len(nodes') /\ thisNode' \in 0 .. node' /\ node \in Nat
    BY <1>1, <1>3, <2>1
  <2>3. ASSUME NEW e \in privateListenEps'
        PROVE  \E i \in 1 .. node' :
                 /\ nodes[i].listen # NoListen /\ StringToType(nodes[i].name) # 0
                 /\ e.key = Key(i) /\ e.ep = nodes[i].listen
    <3>1. CASE e \in privateListenEps
      <4>1. PICK i \in 1 .. node : /\ nodes[i].listen # NoListen /\ StringToType(nodes[i].name) # 0
                                   /\ e.key = Key(i) /\ e.ep = nodes[i].listen
        BY <3>1 DEF ConfigInv
      <4>2. i \in 1 .. node'
        BY <1>3, <2>1, <2>2
      <4>3. QED
        BY <4>1, <4>2
    <3>2. CASE e \notin privateListenEps
      <4>1. n.listen # NoListen /\ e = [key |-> Key(node + 1), ep |-> n.listen]
        BY <2>1, <2>3, <3>2
      <4>2. node + 1 \in 1 .. node'
        BY <2>1, <2>2
      <4>3. QED
        BY <2>1, <4>1, <4>2
    <3>3. QED
      BY <3>1, <3>2
  <2>4. QED
    BY <1>1, <1>2, <1>3, <1>4, <2>2, <2>3 DEF ConfigInv
<1>7. QED
  BY <1>5, <1>6

\* The list is looked up.
LEMMA ConnectsKeeps ==
  ASSUME EightBits, ConfigInv, Connects
  PROVE  ConfigInv'
<1>1. UNCHANGED <<nodes, node, thisNode, privateListenEps>>
  BY DEF Connects, Fail
<1>2. SUFFICES ConnectsAsListed'
  BY <1>1 DEF ConfigInv, Key
<1> DEFINE n == nodes[thisNode]
           items == n.connectTo
           keys == {ValueOf(id) : id \in Listed(items)}
<1>3. SUFFICES ASSUME load' = "loaded", Sound'
               PROVE  connect' = {nodes[i].listen : i \in Named(n)} \ {NoListen}
  BY <1>1 DEF ConnectsAsListed, Named
<1>4. /\ thisNode # 0 /\ keys \subseteq {e.key : e \in privateListenEps} /\ Sound
      /\ connect' = {e.ep : e \in {e \in privateListenEps : e.key \in keys}}
  BY <1>1, <1>3 DEF Connects, Fail, Sound
<1>5. /\ n \in Nodes /\ DOMAIN nodes = 1 .. Len(nodes) /\ \A i \in 1 .. node : i \in DOMAIN nodes
      /\ \A i \in DOMAIN nodes : nodes[i] \in Nodes
  <2>1. nodes \in Seq(Nodes) /\ Len(nodes) \in Nat /\ node \in 0 .. Len(nodes) /\ thisNode \in 1 .. node
    BY <1>4 DEF ConfigInv
  <2>2. QED
    BY <2>1
<1>6. ASSUME NEW id \in Listed(items)
      PROVE  \E k \in DOMAIN items : /\ id.num \in items[k].nums /\ StringToType(items[k].name) # 0
                                     /\ id = [type |-> StringToType(items[k].name), num |-> id.num]
  BY <1>6 DEF Listed
<1> HIDE DEF n
\* The id under which node i stands.
<1>7. ASSUME NEW k \in DOMAIN items, NEW m \in items[k].nums, StringToType(items[k].name) # 0,
             NEW i \in 1 .. node, StringToType(nodes[i].name) # 0,
             ValueOf([type |-> StringToType(items[k].name), num |-> m]) = Key(i)
      PROVE  items[k].name = nodes[i].name /\ m = nodes[i].num
  <2>1. m \in 0 .. Byte - 1
    BY <1>5 DEF EightBits
  <2>2. nodes[i].num \in 0 .. Byte - 1
    BY <1>5 DEF EightBits
  <2>3. ValueOf([type |-> StringToType(items[k].name), num |-> m]) = ValueOf(NamedId(nodes[i].name, nodes[i].num))
    BY <1>7 DEF Key
  <2>4. QED
    BY <1>7, <2>1, <2>2, <2>3, ListedIsNamed
<1>8. ASSUME NEW ep \in connect' PROVE ep \in {nodes[i].listen : i \in Named(n)} \ {NoListen}
  <2>1. PICK e \in privateListenEps : e.key \in keys /\ ep = e.ep
    BY <1>4, <1>8
  <2>2. PICK id \in Listed(items) : e.key = ValueOf(id)
    BY <2>1
  <2>3. PICK k \in DOMAIN items : /\ id.num \in items[k].nums /\ StringToType(items[k].name) # 0
                                  /\ id = [type |-> StringToType(items[k].name), num |-> id.num]
    BY <1>6
  <2>4. PICK i \in 1 .. node : /\ nodes[i].listen # NoListen /\ StringToType(nodes[i].name) # 0
                               /\ e.key = Key(i) /\ e.ep = nodes[i].listen
    BY DEF ConfigInv
  <2>5. items[k].name = nodes[i].name /\ id.num = nodes[i].num
    BY <1>7, <2>2, <2>3, <2>4
  <2>6. i \in Named(n)
    BY <1>5, <2>3, <2>5 DEF Named
  <2>7. QED
    BY <2>1, <2>4, <2>6
<1>9. ASSUME NEW i \in Named(n), nodes[i].listen # NoListen PROVE nodes[i].listen \in connect'
  <2>1. PICK k \in DOMAIN items : i \in DOMAIN nodes /\ items[k].name = nodes[i].name /\ nodes[i].num \in items[k].nums
    BY <1>9 DEF Named
  <2> DEFINE t == StringToType(items[k].name)
             id == [type |-> t, num |-> nodes[i].num]
  <2>2. t # 0
    <3>1. PICK a \in DOMAIN AllTypes : nodes[i].name = AllTypes[a]
      BY <1>4, <2>1 DEF Sound
    <3>2. QED
      BY <2>1, <3>1, TypesTellNames
  <2>3. id \in Listed(items)
    BY <2>1, <2>2 DEF Listed
  <2>4. PICK e \in privateListenEps : e.key = ValueOf(id)
    BY <1>4, <2>3
  <2>5. PICK j \in 1 .. node : /\ nodes[j].listen # NoListen /\ StringToType(nodes[j].name) # 0
                               /\ e.key = Key(j) /\ e.ep = nodes[j].listen
    BY DEF ConfigInv
  <2>6. items[k].name = nodes[j].name /\ nodes[i].num = nodes[j].num
    BY <1>7, <2>1, <2>2, <2>4, <2>5
  <2>7. i = j
    BY <1>4, <1>5, <2>1, <2>6 DEF Sound
  <2>8. e.key \in keys
    BY <2>3, <2>4
  <2>9. QED
    BY <1>4, <2>5, <2>7, <2>8
<1>10. QED
  BY <1>8, <1>9

\* A process connects to the processes its configuration names and to no others,
\* as long as types and numbers have eight bits.
THEOREM ListsAreFollowed == EightBits => (ConfigSpec => []ConnectsAsListed)
<1> SUFFICES ASSUME EightBits PROVE ConfigSpec => []ConnectsAsListed
  OBVIOUS
<1>1. ConfigInit => ConfigInv
  <2>1. SUFFICES ASSUME ConfigInit PROVE ConfigInv
    OBVIOUS
  <2>2. PICK n \in 1 .. NodesMax : nodes \in [1 .. n -> Nodes]
    BY <2>1 DEF ConfigInit
  <2>3. nodes \in Seq(Nodes) /\ Len(nodes) \in Nat
    BY <2>2
  <2>4. QED
    BY <2>1, <2>3 DEF ConfigInit, ConfigInv, ConnectsAsListed
<1>2. ConfigInv /\ [ConfigNext]_configVars => ConfigInv'
  <2>1. SUFFICES ASSUME ConfigInv, [ConfigNext]_configVars PROVE ConfigInv'
    OBVIOUS
  <2>2. CASE UNCHANGED configVars
    BY <2>1, <2>2 DEF ConfigInv, configVars, Key, ConnectsAsListed, Sound, Named
  <2>3. QED
    BY <2>1, <2>2, ReadNodeKeeps, ConnectsKeeps DEF ConfigNext
<1>3. ConfigInv => ConnectsAsListed
  BY DEF ConfigInv
<1>4. QED
  BY <1>1, <1>2, <1>3, PTL DEF ConfigSpec
=============================================================================
