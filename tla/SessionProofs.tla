---------------------------- MODULE SessionProofs ----------------------------
EXTENDS Session, SequenceTheorems, TLAPS

(* Theorems about Session, for any number of connections and accounts, with *)
(* or without loss on the private links.                                    *)

Client == [openid : OpenIds, ccid : Conns]

\* A refused client has been forgotten, and only a new connection is taken in.
Refusal ==
  \A k \in Conns :
    /\ answer[k] = "failed" => gw[k] = "absent" /\ link[k] # "new"
    /\ link[k] = "new" => gw[k] = "absent"

\* The indexes agree, and no player has the cuid of nobody.
Inv == NoCuid \notin index.cuid /\ IndexesAgree

-----------------------------------------------------------------------------
(* Queues and indexes. *)

\* Losing a message leaves a queue of the same kind of messages.
LEMMA LostType ==
  ASSUME NEW S, NEW q \in Seq(S), NEW i \in DOMAIN q
  PROVE  Lost(q, i) \in Seq(S)
<1>1. i \in 1 .. Len(q) /\ Len(q) \in Nat
  BY LenProperties
<1>2. SubSeq(q, 1, i - 1) \in Seq(S) /\ SubSeq(q, i + 1, Len(q)) \in Seq(S)
  BY <1>1, SubSeqProperties
<1>3. QED
  BY <1>2, ConcatProperties DEF Lost

\* So does taking the first one.
LEMMA TakeType ==
  ASSUME NEW S, NEW q \in Seq(S), q # <<>>
  PROVE  Head(q) \in S /\ Tail(q) \in Seq(S)
BY HeadTailProperties

IndexType(n) == [openid : [OpenIds -> 0 .. n], cuid : SUBSET (0 .. n), ccid : [Conns -> 0 .. n]]

\* The operations on the indexes keep their type.
LEMMA IndexOps ==
  ASSUME NEW n \in Nat, NEW ix \in IndexType(n), NEW u \in 0 .. n, NEW c \in Client
  PROVE  /\ Entered(ix, u, c) \in IndexType(n)
         /\ Erased(ix, u, c) \in IndexType(n)
         /\ Inserted(ix, u, c) \in IndexType(n)
<1>1. Entered(ix, u, c) \in IndexType(n)
  BY DEF IndexType, Entered, Client
<1>2. Erased(ix, u, c) \in IndexType(n)
  BY DEF IndexType, Erased, Client, NoCuid
<1>3. QED
  BY <1>1, <1>2 DEF Inserted

\* Indexes of n clients are indexes of n + 1 clients.
LEMMA IndexGrows ==
  ASSUME NEW n \in Nat, NEW ix \in IndexType(n)
  PROVE  ix \in IndexType(n + 1)
<1>1. 0 .. n \subseteq 0 .. n + 1
  OBVIOUS
<1>2. [OpenIds -> 0 .. n] \subseteq [OpenIds -> 0 .. n + 1]
  BY <1>1
<1>3. [Conns -> 0 .. n] \subseteq [Conns -> 0 .. n + 1]
  BY <1>1
<1>4. QED
  BY <1>1, <1>2, <1>3 DEF IndexType

\* TypeOK names the type of the indexes.
LEMMA TypeOfIndex ==
  ASSUME TypeOK
  PROVE  index \in IndexType(Len(clients)) /\ Len(clients) \in Nat
BY LenProperties DEF TypeOK, IndexType, Cuids

-----------------------------------------------------------------------------
(* Type correctness. *)

LEMMA RegisterTypes ==
  ASSUME TypeOK, NEW q \in Client, Register(q)
  PROVE  clients' \in Seq(Client) /\ toGw' \in Seq(GwMessage) /\ index' \in IndexType(Len(clients'))
<1> DEFINE c == [openid |-> q.openid, ccid |-> q.ccid]
           u == Len(clients) + 1
           ok == Free(index, u, c)
           m == Ret(IF ok THEN "succes" ELSE "failed", q.ccid, u)
<1>1. c \in Client /\ Len(clients) \in Nat /\ index \in IndexType(Len(clients))
  BY TypeOfIndex DEF Client
<1>2. clients' = Append(clients, c) /\ clients \in Seq(Client)
  BY DEF Register, TypeOK, Client
<1>3. clients' \in Seq(Client) /\ Len(clients') = u
  BY <1>1, <1>2, AppendProperties
<1>4. m \in GwMessage
  BY <1>1 DEF Ret, GwMessage, Client
<1>5. toGw' \in Seq(GwMessage)
  <2>1. toGw' = Append(toGw, m) /\ toGw \in Seq(GwMessage)
    BY DEF Register, TypeOK
  <2> HIDE DEF m
  <2>2. QED
    BY <1>4, <2>1, AppendProperties
<1>6. index' \in IndexType(u)
  <2>1. index \in IndexType(u) /\ u \in 0 .. u /\ u \in Nat
    BY <1>1, IndexGrows
  <2>2. index' = IF ok THEN Inserted(index, u, c) ELSE Erased(index, u, c)
    BY DEF Register
  <2> HIDE DEF u, c, ok
  <2>3. QED
    BY <1>1, <2>1, <2>2, IndexOps
<1>7. QED
  BY <1>3, <1>5, <1>6

LEMMA ReloginTypes ==
  ASSUME TypeOK, NEW q \in Client, NEW u \in 1 .. Len(clients), Relogin(q, u)
  PROVE  clients' \in Seq(Client) /\ toGw' \in Seq(GwMessage) /\ index' \in IndexType(Len(clients'))
<1> DEFINE old == clients[u]
           new == [old EXCEPT !.ccid = q.ccid]
           out == Erased(index, u, old)
           no == Ret("failed", q.ccid, u)
           yes == Ret("succes", q.ccid, u)
           mid == IF Free(out, u, new) THEN <<>> ELSE <<no>>
<1>1. clients \in Seq(Client) /\ Len(clients) \in Nat /\ index \in IndexType(Len(clients))
  BY TypeOfIndex DEF TypeOK, Client
<1>2. old \in Client
  BY <1>1, ElementOfSeq
<1>3. new \in Client
  BY <1>2 DEF Client
<1>4. clients' \in Seq(Client) /\ Len(clients') = Len(clients)
  <2>1. clients' = [clients EXCEPT ![u] = new]
    BY DEF Relogin
  <2> HIDE DEF new
  <2>2. QED
    BY <1>1, <1>3, <2>1, ExceptSeq
<1>5. toGw' \in Seq(GwMessage)
  <2>1. Replaced(old.ccid) \in GwMessage /\ no \in GwMessage /\ yes \in GwMessage
    BY <1>1, <1>2 DEF Replaced, Ret, GwMessage, Client, NoCuid
  <2>2. toGw' = toGw \o <<Replaced(old.ccid)>> \o mid \o <<yes>> /\ toGw \in Seq(GwMessage)
    BY DEF Relogin, TypeOK
  <2>3. mid \in Seq(GwMessage) /\ <<Replaced(old.ccid)>> \in Seq(GwMessage) /\ <<yes>> \in Seq(GwMessage)
    BY <2>1
  <2> HIDE DEF mid, yes
  <2>4. QED
    BY <2>2, <2>3, ConcatProperties
<1>6. index' \in IndexType(Len(clients))
  <2>1. index' = Inserted(out, u, new)
    BY DEF Relogin
  <2>2. u \in 0 .. Len(clients)
    OBVIOUS
  <2>3. out \in IndexType(Len(clients))
    BY <1>1, <1>2, <2>2, IndexOps
  <2> HIDE DEF out, new
  <2>4. QED
    BY <1>1, <1>3, <2>1, <2>2, <2>3, IndexOps
<1>7. QED
  BY <1>4, <1>5, <1>6

LEMMA LobbyTypes ==
  ASSUME TypeOK, LobbyReceive
  PROVE  TypeOK'
<1> DEFINE q == Head(toLobby)
           u == index.openid[q.openid]
<1>1. toLobby \in Seq(Client) /\ toLobby # <<>>
  BY DEF TypeOK, LobbyReceive, Client
<1>2. q \in Client /\ toLobby' \in Seq(Client)
  BY <1>1, TakeType DEF LobbyReceive
<1>3. clients' \in Seq(Client) /\ toGw' \in Seq(GwMessage) /\ index' \in IndexType(Len(clients'))
  <2>1. CASE u = NoCuid
    <3>1. Register(q)
      BY <2>1 DEF LobbyReceive
    <3>2. QED
      BY <1>2, <3>1, RegisterTypes
  <2>2. CASE u # NoCuid
    <3>1. Relogin(q, u)
      BY <2>2 DEF LobbyReceive
    <3>2. u \in 1 .. Len(clients)
      BY <1>2, <2>2, TypeOfIndex DEF IndexType, Client, NoCuid
    <3> HIDE DEF u
    <3>3. QED
      BY <1>2, <3>1, <3>2, ReloginTypes
  <2>3. QED
    BY <2>1, <2>2
<1>4. UNCHANGED gwVars
  BY DEF LobbyReceive
<1>5. QED
  BY <1>2, <1>3, <1>4 DEF TypeOK, Client, gwVars, IndexType, Cuids

LEMMA GatewayTypes ==
  ASSUME TypeOK, GatewayReceive
  PROVE  TypeOK'
<1> DEFINE m == Head(toGw)
<1>1. m \in GwMessage /\ toGw' \in Seq(GwMessage)
  BY TakeType DEF TypeOK, GatewayReceive
<1>2. /\ gw' \in [Conns -> {"absent", "logining", "playing"}]
      /\ gwCuid' \in [Conns -> Nat] /\ dying' \subseteq Conns
      /\ answer' \in [Conns -> {"none", "succes", "failed"}]
  <2> HIDE DEF m
  <2>1. CASE gw[m.ccid] = "absent"
    BY <2>1 DEF GatewayReceive, m, TypeOK
  <2>2. CASE gw[m.ccid] # "absent" /\ m.type = "replaced"
    <3>1. ClientBeReplaced(m)
      BY <2>2 DEF GatewayReceive, m
    <3>2. QED
      BY <1>1, <3>1 DEF ClientBeReplaced, EraseLater, GwMessage, TypeOK
  <2>3. CASE gw[m.ccid] # "absent" /\ m.type # "replaced"
    <3>1. RetLoginQuest(m)
      BY <2>3 DEF GatewayReceive, m
    <3>2. QED
      BY <1>1, <2>3, <3>1 DEF RetLoginQuest, EraseLater, SendToClient, GwMessage, TypeOK
  <2>4. QED
    BY <2>1, <2>2, <2>3
<1>3. QED
  BY <1>1, <1>2 DEF TypeOK, GatewayReceive, lobbyVars, Cuids

LEMMA TypeStep ==
  ASSUME TypeOK, [Next]_vars
  PROVE  TypeOK'
<1>1. ASSUME NEW k \in Conns, ClientOnline(k) PROVE TypeOK'
  BY <1>1 DEF ClientOnline, TypeOK, lobbyVars, Cuids
<1>2. ASSUME NEW k \in Conns, ClientOffline(k) PROVE TypeOK'
  BY <1>2 DEF ClientOffline, TypeOK, lobbyVars, Cuids
<1>3. ASSUME NEW k \in Conns, NEW o \in Accounts[k], C_Login(k, o) PROVE TypeOK'
  <2>1. LoginQuest(o, k) \in [openid : OpenIds, ccid : Conns]
    BY SessionAssumption DEF LoginQuest
  <2>2. toLobby' \in Seq([openid : OpenIds, ccid : Conns])
    BY <1>3, <2>1, AppendProperties DEF C_Login, TypeOK
  <2>3. asked' \in [Conns -> Nat]
    BY <1>3 DEF C_Login, TypeOK
  <2>4. QED
    BY <1>3, <2>2, <2>3 DEF C_Login, TypeOK, lobbyVars, Cuids
<1>4. CASE TimerExec
  BY <1>4 DEF TimerExec, TypeOK, lobbyVars, Cuids
<1>5. CASE Lose
  <2>1. \A i \in DOMAIN toLobby : Lost(toLobby, i) \in Seq([openid : OpenIds, ccid : Conns])
    BY LostType DEF TypeOK
  <2>2. \A i \in DOMAIN toGw : Lost(toGw, i) \in Seq(GwMessage)
    BY LostType DEF TypeOK
  <2>3. toLobby' \in Seq([openid : OpenIds, ccid : Conns]) /\ toGw' \in Seq(GwMessage)
    BY <1>5, <2>1, <2>2 DEF Lose, TypeOK
  <2>4. QED
    BY <1>5, <2>3 DEF Lose, TypeOK, gwVars, lobbyVars, Cuids
<1>6. CASE UNCHANGED vars
  BY <1>6 DEF vars, gwVars, lobbyVars, TypeOK, Cuids
<1>7. QED
  BY <1>1, <1>2, <1>3, <1>4, <1>5, <1>6, LobbyTypes, GatewayTypes DEF Next

\* The variables keep their types, whatever the accounts, the number of
\* connections and the losses.
THEOREM SessionTypeCorrect == Spec => []TypeOK
<1>1. Init => TypeOK
  BY EmptySeq DEF Init, TypeOK, NoCuid, Cuids
<1>2. TypeOK /\ [Next]_vars => TypeOK'
  BY TypeStep
<1>3. QED
  BY <1>1, <1>2, PTL DEF Spec

-----------------------------------------------------------------------------
(* A refused connection. *)

LEMMA RefusalStep ==
  ASSUME TypeOK, Refusal, [Next]_vars
  PROVE  Refusal'
<1>1. ASSUME NEW k \in Conns, ClientOnline(k) PROVE Refusal'
  BY <1>1 DEF ClientOnline, TypeOK, Refusal
<1>2. ASSUME NEW k \in Conns, ClientOffline(k) PROVE Refusal'
  BY <1>2 DEF ClientOffline, TypeOK, Refusal
<1>3. ASSUME NEW k \in Conns, NEW o \in Accounts[k], C_Login(k, o) PROVE Refusal'
  BY <1>3 DEF C_Login, Refusal
<1>4. CASE GatewayReceive
  <2> DEFINE m == Head(toGw)
  <2>1. m \in GwMessage
    BY <1>4, TakeType DEF TypeOK, GatewayReceive
  <2>2. link' = link
    BY <1>4 DEF GatewayReceive
  <2> HIDE DEF m
  <2>3. CASE gw[m.ccid] = "absent"
    BY <1>4, <2>2, <2>3 DEF GatewayReceive, m, Refusal
  <2>4. CASE gw[m.ccid] # "absent" /\ m.type = "replaced"
    BY <1>4, <2>1, <2>2, <2>4 DEF GatewayReceive, m, ClientBeReplaced, EraseLater, Refusal, TypeOK, GwMessage
  <2>5. CASE gw[m.ccid] # "absent" /\ m.type # "replaced"
    <3>1. RetLoginQuest(m)
      BY <1>4, <2>5 DEF GatewayReceive, m
    <3>2. QED
      BY <2>1, <2>2, <2>5, <3>1 DEF RetLoginQuest, EraseLater, SendToClient, Refusal, TypeOK, GwMessage
  <2>6. QED
    BY <2>3, <2>4, <2>5
<1>5. CASE TimerExec \/ LobbyReceive \/ Lose \/ UNCHANGED vars
  BY <1>5 DEF TimerExec, LobbyReceive, Lose, vars, gwVars, Refusal
<1>6. QED
  BY <1>1, <1>2, <1>3, <1>4, <1>5 DEF Next

\* A connection that was told its login failed never plays, with any accounts
\* on any connections: the lobby's second answer finds no client to let in.
THEOREM RefusedStaysOut == Spec => []RefusedNeverPlays
<1>1. Init => Refusal
  BY DEF Init, Refusal
<1>2. TypeOK /\ Refusal /\ [Next]_vars => Refusal'
  BY RefusalStep
<1>3. Refusal => RefusedNeverPlays
  BY DEF Refusal, RefusedNeverPlays
<1>4. QED
  BY <1>1, <1>2, <1>3, SessionTypeCorrect, PTL DEF Spec

-----------------------------------------------------------------------------
(* The lobby's indexes, whatever accounts a connection is used with. *)

\* An account keeps its player in this step, or loses it to nobody, by a login
\* over a connection that carries another one.
KeptOrLost(o, q) ==
  index.openid[o] # NoCuid /\ index'.openid[o] # index.openid[o] =>
    /\ index'.openid[o] = NoCuid /\ q.openid = o
    /\ index.ccid[q.ccid] \notin {NoCuid, index.openid[o]}

\* The clients of the indexes are clients.
LEMMA IndexedType ==
  ASSUME TypeOK, Inv
  PROVE  /\ index.openid \in [OpenIds -> 0 .. Len(clients)]
         /\ index.ccid \in [Conns -> 0 .. Len(clients)]
         /\ index.cuid \subseteq 1 .. Len(clients)
         /\ Len(clients) \in Nat /\ DOMAIN clients = 1 .. Len(clients)
         /\ clients \in Seq(Client)
         /\ \A u \in 1 .. Len(clients) :
              clients[u] \in Client /\ clients[u].openid \in OpenIds /\ clients[u].ccid \in Conns
<1>1. clients \in Seq(Client) /\ index \in IndexType(Len(clients)) /\ Len(clients) \in Nat
  BY TypeOfIndex DEF TypeOK, Client
<1>2. \A u \in 1 .. Len(clients) : clients[u] \in Client
  BY <1>1, ElementOfSeq
<1>3. index.cuid \subseteq 1 .. Len(clients)
  BY <1>1 DEF Inv, IndexType, NoCuid
<1>4. QED
  BY <1>1, <1>2, <1>3, LenProperties DEF IndexType, Client

\* A registration enters a new player, or takes away the entry of the player on
\* the connection, whose miss the new client then explains.
LEMMA RegisterAgrees ==
  ASSUME TypeOK, Inv, NEW q \in Client, index.openid[q.openid] = NoCuid, Register(q)
  PROVE  Inv' /\ \A o \in OpenIds : KeptOrLost(o, q)
<1> DEFINE u == Len(clients) + 1
<1>1. /\ index.openid \in [OpenIds -> 0 .. Len(clients)]
      /\ index.ccid \in [Conns -> 0 .. Len(clients)]
      /\ index.cuid \subseteq 1 .. Len(clients)
      /\ Len(clients) \in Nat /\ DOMAIN clients = 1 .. Len(clients)
      /\ \A v \in 1 .. Len(clients) : clients[v].openid \in OpenIds /\ clients[v].ccid \in Conns
      /\ q.openid \in OpenIds /\ q.ccid \in Conns
      /\ [openid |-> q.openid, ccid |-> q.ccid] = q
  BY IndexedType DEF Client
<1>2. /\ clients' = Append(clients, q)
      /\ index' = IF Free(index, u, q) THEN Inserted(index, u, q) ELSE Erased(index, u, q)
  BY <1>1 DEF Register
<1>3. /\ DOMAIN clients' = 1 .. u /\ clients'[u] = q
      /\ \A v \in 1 .. Len(clients) : clients'[v] = clients[v]
  <2>1. clients \in Seq(Client) /\ clients' \in Seq(Client) /\ Len(clients') = u
    BY <1>2, IndexedType, AppendProperties
  <2>2. QED
    BY <1>2, <2>1, AppendProperties, LenProperties
<1>4. u \in Nat /\ u # NoCuid /\ u \notin 1 .. Len(clients) /\ u \notin index.cuid /\ u \in 1 .. u
      /\ 1 .. Len(clients) \subseteq 1 .. u
  BY <1>1 DEF NoCuid
<1> HIDE DEF u
<1>5. CASE Free(index, u, q)
  <2>1. /\ index'.openid = [index.openid EXCEPT ![q.openid] = u]
        /\ index'.cuid = index.cuid \cup {u}
        /\ index'.ccid = [index.ccid EXCEPT ![q.ccid] = u]
        /\ index.ccid[q.ccid] = NoCuid
    BY <1>2, <1>5 DEF Inserted, Entered, Free
  <2>2. ASSUME NEW v \in index'.cuid
        PROVE  /\ index'.openid[clients'[v].openid] = v
               /\ \/ index'.ccid[clients'[v].ccid] = v
                  \/ \E w \in DOMAIN clients' \ index'.cuid : clients'[w].ccid = clients'[v].ccid
    <3>1. CASE v = u
      BY <1>1, <1>3, <2>1, <3>1
    <3>2. CASE v \in index.cuid
      <4>1. clients'[v] = clients[v] /\ v # NoCuid /\ v \in 1 .. Len(clients)
        BY <1>1, <1>3, <3>2 DEF Inv
      <4>2. index'.openid[clients'[v].openid] = v
        BY <1>1, <2>1, <3>2, <4>1 DEF Inv, IndexesAgree
      <4>3. CASE index.ccid[clients[v].ccid] = v
        BY <1>1, <2>1, <4>1, <4>2, <4>3
      <4>4. CASE \E w \in DOMAIN clients \ index.cuid : clients[w].ccid = clients[v].ccid
        BY <1>1, <1>3, <1>4, <2>1, <4>1, <4>2, <4>4
      <4>5. QED
        BY <3>2, <4>3, <4>4 DEF Inv, IndexesAgree
    <3>3. QED
      BY <2>1, <3>1, <3>2
  <2>3. ASSUME NEW o \in OpenIds, index'.openid[o] # NoCuid
        PROVE  index'.openid[o] \in index'.cuid /\ clients'[index'.openid[o]].openid = o
    BY <1>1, <1>3, <2>1, <2>3 DEF Inv, IndexesAgree
  <2>4. ASSUME NEW k \in Conns, index'.ccid[k] # NoCuid
        PROVE  index'.ccid[k] \in index'.cuid /\ clients'[index'.ccid[k]].ccid = k
    BY <1>1, <1>3, <2>1, <2>4 DEF Inv, IndexesAgree
  <2>5. \A o \in OpenIds : KeptOrLost(o, q)
    BY <1>1, <2>1 DEF KeptOrLost
  <2>6. NoCuid \notin index'.cuid
    BY <1>4, <2>1 DEF Inv
  <2>7. QED
    BY <2>2, <2>3, <2>4, <2>5, <2>6 DEF Inv, IndexesAgree
<1>6. CASE ~Free(index, u, q)
  <2>1. /\ index'.openid = index.openid /\ index'.cuid = index.cuid
        /\ index'.ccid = [index.ccid EXCEPT ![q.ccid] = NoCuid]
    BY <1>1, <1>2, <1>4, <1>6 DEF Erased
  <2>2. ASSUME NEW v \in index'.cuid
        PROVE  /\ index'.openid[clients'[v].openid] = v
               /\ \/ index'.ccid[clients'[v].ccid] = v
                  \/ \E w \in DOMAIN clients' \ index'.cuid : clients'[w].ccid = clients'[v].ccid
    <3>1. clients'[v] = clients[v] /\ v \in 1 .. Len(clients)
          /\ index'.openid[clients'[v].openid] = v
      BY <1>1, <1>3, <2>1 DEF Inv, IndexesAgree
    <3>2. CASE clients[v].ccid = q.ccid
      BY <1>3, <1>4, <2>1, <3>1, <3>2
    <3>3. CASE clients[v].ccid # q.ccid
      <4>1. index'.ccid[clients[v].ccid] = index.ccid[clients[v].ccid]
        BY <1>1, <2>1, <3>1, <3>3
      <4>2. CASE index.ccid[clients[v].ccid] = v
        BY <3>1, <4>1, <4>2
      <4>3. CASE \E w \in DOMAIN clients \ index.cuid : clients[w].ccid = clients[v].ccid
        BY <1>1, <1>3, <1>4, <2>1, <3>1, <4>3
      <4>4. QED
        BY <2>1, <4>2, <4>3, <3>1 DEF Inv, IndexesAgree
    <3>4. QED
      BY <3>2, <3>3
  <2>3. ASSUME NEW o \in OpenIds, index'.openid[o] # NoCuid
        PROVE  index'.openid[o] \in index'.cuid /\ clients'[index'.openid[o]].openid = o
    BY <1>1, <1>3, <2>1, <2>3 DEF Inv, IndexesAgree
  <2>4. ASSUME NEW k \in Conns, index'.ccid[k] # NoCuid
        PROVE  index'.ccid[k] \in index'.cuid /\ clients'[index'.ccid[k]].ccid = k
    BY <1>1, <1>3, <2>1, <2>4 DEF Inv, IndexesAgree
  <2>5. \A o \in OpenIds : KeptOrLost(o, q)
    BY <2>1 DEF KeptOrLost
  <2>6. NoCuid \notin index'.cuid
    BY <2>1 DEF Inv
  <2>7. QED
    BY <2>2, <2>3, <2>4, <2>5, <2>6 DEF Inv, IndexesAgree
<1>7. QED
  BY <1>5, <1>6

\* A player that logs in again is moved to its new connection, or is lost when
\* another player is there.
LEMMA ReloginAgrees ==
  ASSUME TypeOK, Inv, NEW q \in Client, NEW u, u = index.openid[q.openid],
         u # NoCuid, Relogin(q, u)
  PROVE  Inv' /\ \A o \in OpenIds : KeptOrLost(o, q)
<1> DEFINE old == clients[u]
           new == [old EXCEPT !.ccid = q.ccid]
           out == Erased(index, u, old)
<1>1. /\ index.openid \in [OpenIds -> 0 .. Len(clients)]
      /\ index.ccid \in [Conns -> 0 .. Len(clients)]
      /\ index.cuid \subseteq 1 .. Len(clients)
      /\ Len(clients) \in Nat /\ DOMAIN clients = 1 .. Len(clients)
      /\ \A v \in 1 .. Len(clients) : clients[v].openid \in OpenIds /\ clients[v].ccid \in Conns
      /\ q.openid \in OpenIds /\ q.ccid \in Conns
  BY IndexedType DEF Client
<1>2. u \in index.cuid /\ old.openid = q.openid /\ u \in 1 .. Len(clients)
  BY <1>1 DEF Inv, IndexesAgree
<1>3. new = q
  <2>1. old \in Client
    BY <1>2, IndexedType
  <2>2. QED
    BY <1>2, <2>1 DEF Client
<1>4. /\ out.openid = [index.openid EXCEPT ![q.openid] = NoCuid]
      /\ out.cuid = index.cuid \ {u}
      /\ out.ccid = [index.ccid EXCEPT ![old.ccid] = NoCuid]
  BY <1>2 DEF Erased
<1>5. clients' = [clients EXCEPT ![u] = q] /\ index' = Inserted(out, u, q)
  BY <1>3 DEF Relogin
<1>6. /\ DOMAIN clients' = DOMAIN clients /\ clients'[u] = q
      /\ \A v \in 1 .. Len(clients) : v # u => clients'[v] = clients[v]
  BY <1>1, <1>2, <1>5
\* A player that finds its entry gone, or somebody else in it, has a witness.
<1>7. ASSUME NEW v \in index.cuid, v # u,
             index.ccid[clients[v].ccid] # v \/ clients[v].ccid = old.ccid
      PROVE  \E w \in DOMAIN clients \ index.cuid : w # u /\ clients[w].ccid = clients[v].ccid
  <2>1. CASE index.ccid[clients[v].ccid] # v
    BY <1>2, <2>1 DEF Inv, IndexesAgree
  <2>2. CASE index.ccid[clients[v].ccid] = v /\ clients[v].ccid = old.ccid
    <3>1. index.ccid[old.ccid] # u
      BY <1>7, <2>2
    <3>2. \E w \in DOMAIN clients \ index.cuid : clients[w].ccid = clients[u].ccid
      BY <1>2, <3>1 DEF Inv, IndexesAgree
    <3>3. QED
      BY <1>2, <2>2, <3>2
  <2>3. QED
    BY <1>7, <2>1, <2>2
<1>8. \A k \in Conns : index.ccid[k] # NoCuid /\ k # old.ccid =>
        index.ccid[k] # u /\ index.ccid[k] \in index.cuid /\ clients[index.ccid[k]].ccid = k
  BY DEF Inv, IndexesAgree
<1>9. old.ccid \in Conns
  BY <1>1, <1>2
<1> HIDE DEF out, new
<1>10. CASE Free(out, u, q)
  <2>1. /\ index'.openid = index.openid /\ index'.cuid = index.cuid
        /\ index'.ccid = [out.ccid EXCEPT ![q.ccid] = u]
    <3>1. /\ index'.openid = [out.openid EXCEPT ![q.openid] = u]
          /\ index'.cuid = out.cuid \cup {u}
          /\ index'.ccid = [out.ccid EXCEPT ![q.ccid] = u]
      BY <1>5, <1>10 DEF Inserted, Entered
    <3>2. [[index.openid EXCEPT ![q.openid] = NoCuid] EXCEPT ![q.openid] = u] = index.openid
      BY <1>1
    <3>3. QED
      BY <1>2, <1>4, <3>1, <3>2
  <2>2. q.ccid # old.ccid => index.ccid[q.ccid] = NoCuid
    BY <1>1, <1>4, <1>9, <1>10 DEF Free
  <2>3. ASSUME NEW v \in index'.cuid
        PROVE  /\ index'.openid[clients'[v].openid] = v
               /\ \/ index'.ccid[clients'[v].ccid] = v
                  \/ \E w \in DOMAIN clients' \ index'.cuid : clients'[w].ccid = clients'[v].ccid
    <3>1. CASE v = u
      BY <1>1, <1>4, <1>6, <1>9, <2>1, <3>1
    <3>2. CASE v # u
      <4>1. v \in index.cuid /\ clients'[v] = clients[v] /\ clients[v].ccid \in Conns /\ v # NoCuid
        BY <1>1, <1>6, <2>1, <3>2 DEF Inv
      <4>2. index'.openid[clients'[v].openid] = v
        BY <2>1, <4>1 DEF Inv, IndexesAgree
      <4>3. CASE index.ccid[clients[v].ccid] = v /\ clients[v].ccid # old.ccid
        <5>1. clients[v].ccid # q.ccid
          BY <2>2, <4>1, <4>3
        <5>2. QED
          BY <1>1, <1>4, <1>9, <2>1, <4>1, <4>2, <4>3, <5>1
      <4>4. CASE index.ccid[clients[v].ccid] # v \/ clients[v].ccid = old.ccid
        BY <1>1, <1>6, <1>7, <2>1, <3>2, <4>1, <4>2, <4>4
      <4>5. QED
        BY <4>3, <4>4
    <3>3. QED
      BY <3>1, <3>2
  <2>4. ASSUME NEW o \in OpenIds, index'.openid[o] # NoCuid
        PROVE  index'.openid[o] \in index'.cuid /\ clients'[index'.openid[o]].openid = o
    <3>1. index.openid[o] \in index.cuid /\ clients[index.openid[o]].openid = o
      BY <2>1, <2>4 DEF Inv, IndexesAgree
    <3>2. QED
      BY <1>1, <1>2, <1>6, <2>1, <3>1
  <2>5. ASSUME NEW k \in Conns, index'.ccid[k] # NoCuid
        PROVE  index'.ccid[k] \in index'.cuid /\ clients'[index'.ccid[k]].ccid = k
    <3>1. CASE k = q.ccid
      BY <1>1, <1>2, <1>4, <1>6, <2>1, <3>1
    <3>2. CASE k # q.ccid
      <4>1. k # old.ccid /\ index'.ccid[k] = index.ccid[k]
        BY <1>1, <1>4, <1>9, <2>1, <2>5, <3>2
      <4>2. QED
        BY <1>1, <1>6, <1>8, <2>1, <2>5, <4>1
    <3>3. QED
      BY <3>1, <3>2
  <2>6. QED
    BY <2>1, <2>3, <2>4, <2>5 DEF Inv, IndexesAgree, KeptOrLost
<1>11. CASE ~Free(out, u, q)
  <2>1. index' = out
    BY <1>5, <1>11 DEF Inserted
  <2>2. index.ccid[q.ccid] \notin {NoCuid, u}
    <3>1. out.openid[q.openid] = NoCuid /\ u \notin out.cuid
      BY <1>1, <1>4
    <3>2. out.ccid[q.ccid] # NoCuid
      BY <1>11, <3>1 DEF Free
    <3>3. q.ccid # old.ccid /\ index.ccid[q.ccid] # NoCuid
      BY <1>1, <1>4, <1>9, <3>2
    <3>4. QED
      BY <1>1, <1>8, <3>3
  <2>3. ASSUME NEW v \in index'.cuid
        PROVE  /\ index'.openid[clients'[v].openid] = v
               /\ \/ index'.ccid[clients'[v].ccid] = v
                  \/ \E w \in DOMAIN clients' \ index'.cuid : clients'[w].ccid = clients'[v].ccid
    <3>1. v \in index.cuid /\ v # u /\ clients'[v] = clients[v] /\ v \in 1 .. Len(clients)
          /\ clients[v].ccid \in Conns /\ clients[v].openid \in OpenIds
      BY <1>1, <1>4, <1>6, <2>1
    <3>2. index.openid[clients[v].openid] = v
      BY <3>1 DEF Inv, IndexesAgree
    <3>3. index'.openid[clients'[v].openid] = v
      BY <1>1, <1>4, <2>1, <3>1, <3>2
    <3>4. CASE index.ccid[clients[v].ccid] = v /\ clients[v].ccid # old.ccid
      BY <1>1, <1>4, <1>9, <2>1, <3>1, <3>3, <3>4
    <3>5. CASE index.ccid[clients[v].ccid] # v \/ clients[v].ccid = old.ccid
      BY <1>1, <1>4, <1>6, <1>7, <2>1, <3>1, <3>3, <3>5
    <3>6. QED
      BY <3>4, <3>5
  <2>4. ASSUME NEW o \in OpenIds, index'.openid[o] # NoCuid
        PROVE  index'.openid[o] \in index'.cuid /\ clients'[index'.openid[o]].openid = o
    <3>1. o # q.openid /\ index'.openid[o] = index.openid[o]
      BY <1>1, <1>4, <2>1, <2>4
    <3>2. index.openid[o] \in index.cuid /\ clients[index.openid[o]].openid = o
      BY <2>4, <3>1 DEF Inv, IndexesAgree
    <3>3. index.openid[o] # u
      BY <1>2, <3>1, <3>2
    <3>4. QED
      BY <1>1, <1>4, <1>6, <2>1, <3>1, <3>2, <3>3
  <2>5. ASSUME NEW k \in Conns, index'.ccid[k] # NoCuid
        PROVE  index'.ccid[k] \in index'.cuid /\ clients'[index'.ccid[k]].ccid = k
    <3>1. k # old.ccid /\ index'.ccid[k] = index.ccid[k]
      BY <1>1, <1>4, <1>9, <2>1, <2>5
    <3>2. QED
      BY <1>1, <1>4, <1>6, <1>8, <2>1, <2>5, <3>1
  <2>6. \A o \in OpenIds : KeptOrLost(o, q)
    BY <1>1, <1>4, <2>1, <2>2 DEF KeptOrLost
  <2>7. NoCuid \notin index'.cuid
    BY <1>4, <2>1 DEF Inv
  <2>8. QED
    BY <2>3, <2>4, <2>5, <2>6, <2>7 DEF Inv, IndexesAgree
<1>12. QED
  BY <1>10, <1>11

\* An account that loses its player in this step does so by its own login.
LosesByLoginOnly(o) ==
  index.openid[o] # NoCuid /\ index'.openid[o] # index.openid[o] =>
    /\ index'.openid[o] = NoCuid
    /\ toLobby # <<>> /\ Head(toLobby).openid = o
    /\ index.ccid[Head(toLobby).ccid] \notin {NoCuid, index.openid[o]}

\* Only the lobby's handler touches the clients and the indexes.
LEMMA InvStep ==
  ASSUME TypeOK, Inv, [Next]_vars
  PROVE  Inv' /\ \A o \in OpenIds : LosesByLoginOnly(o)
<1>1. CASE LobbyReceive
  <2> DEFINE q == Head(toLobby)
             u == index.openid[q.openid]
  <2>1. q \in Client /\ toLobby # <<>>
    BY <1>1, TakeType DEF TypeOK, Client, LobbyReceive
  <2> HIDE DEF q
  <2>2. Inv' /\ \A o \in OpenIds : KeptOrLost(o, q)
    <3>1. CASE u = NoCuid
      BY <1>1, <2>1, <3>1, RegisterAgrees DEF LobbyReceive, q
    <3>2. CASE u # NoCuid
      BY <1>1, <2>1, <3>2, ReloginAgrees DEF LobbyReceive, q
    <3>3. QED
      BY <3>1, <3>2
  <2>3. QED
    BY <2>1, <2>2 DEF KeptOrLost, LosesByLoginOnly, q
<1>2. CASE UNCHANGED lobbyVars
  BY <1>2 DEF lobbyVars, Inv, IndexesAgree, LosesByLoginOnly
<1>3. LobbyReceive \/ UNCHANGED lobbyVars
  BY DEF Next, ClientOnline, ClientOffline, C_Login, GatewayReceive, TimerExec, Lose, vars, lobbyVars
<1>4. QED
  BY <1>1, <1>2, <1>3

LEMMA InvInit == Init => Inv
BY DEF Init, Inv, IndexesAgree, NoCuid

\* The lobby's indexes hold the same players, each under its own keys, whatever
\* accounts a connection is used with and whatever proto_LoginQuest refuses.
THEOREM IndexesAlwaysAgree == Spec => []IndexesAgree
<1>1. TypeOK /\ Inv /\ [Next]_vars => Inv'
  BY InvStep
<1>2. Inv => IndexesAgree
  BY DEF Inv
<1>3. QED
  BY InvInit, <1>1, <1>2, SessionTypeCorrect, PTL DEF Spec

\* An account loses its player by nothing but its own login over a connection on
\* which the lobby has another account's player.
THEOREM AccountsKeepPlayers == Spec => AccountKept
<1>1. TypeOK /\ Inv /\ [Next]_vars => Inv'
  BY InvStep
<1>2. TypeOK /\ Inv /\ [Next]_vars => [\A o \in OpenIds : LosesByLoginOnly(o)]_vars
  BY InvStep
<1>3. TypeOK /\ Inv /\ [Next]_vars =>
        [\A o \in OpenIds :
           index.openid[o] # NoCuid /\ index'.openid[o] # index.openid[o] =>
             /\ index'.openid[o] = NoCuid
             /\ toLobby # <<>> /\ Head(toLobby).openid = o
             /\ index.ccid[Head(toLobby).ccid] \notin {NoCuid, index.openid[o]}]_vars
  BY <1>2 DEF LosesByLoginOnly
<1>4. QED
  BY InvInit, <1>1, <1>3, SessionTypeCorrect, PTL DEF Spec, AccountKept

-----------------------------------------------------------------------------
(* One connection per account, when the private links lose nothing. *)

\* The messages on their way to the gateway and to the lobby.
Flying == Range(toGw)
Asking == Range(toLobby)

\* Nobody knows of connection k yet.
Untouched(k) ==
  /\ \A q \in Asking : q.ccid # k
  /\ \A m \in Flying : m.ccid # k
  /\ \A u \in DOMAIN clients : clients[u].ccid # k

\* Player u is on connection k, or k is told to leave.
OnConn(u, k, cs, ms) ==
  /\ u \in DOMAIN cs
  /\ cs[u].ccid = k \/ Replaced(k) \in ms

\* A connection that was told to leave never plays again, so an answer behind
\* its notice is of no use to it.
OneInv ==
  /\ \A k \in Conns : link[k] = "new" => gw[k] = "absent" /\ Untouched(k)
  /\ \A m \in Flying : m.type = "succes" =>
       /\ m.cuid \in DOMAIN clients
       /\ gw[m.ccid] = "absent" \/ OnConn(m.cuid, m.ccid, clients, Flying)
  /\ \A k \in Conns : gw[k] = "playing" => OnConn(gwCuid[k], k, clients, Flying)

LEMMA RangeAppend ==
  ASSUME NEW S, NEW q \in Seq(S), NEW e \in S
  PROVE  Range(Append(q, e)) = Range(q) \cup {e}
<1>1. Append(q, e) = q \o <<e>> /\ <<e>> \in Seq(S)
  BY AppendIsConcat
<1>2. Range(<<e>>) = {e}
  <2>1. Range(<<e>>) = {<<e>>[i] : i \in 1 .. Len(<<e>>)}
    BY <1>1, RangeEquality
  <2>2. QED
    BY <2>1
<1>3. Range(q \o <<e>>) = Range(q) \cup Range(<<e>>)
  BY <1>1, RangeConcatenation
<1>4. QED
  BY <1>1, <1>2, <1>3

LEMMA RangeOne ==
  ASSUME NEW S, NEW e \in S
  PROVE  <<e>> \in Seq(S) /\ Range(<<e>>) = {e}
<1>1. <<e>> \in Seq(S)
  OBVIOUS
<1>2. Range(<<e>>) = {<<e>>[i] : i \in 1 .. Len(<<e>>)}
  BY <1>1, RangeEquality
<1>3. QED
  BY <1>1, <1>2

LEMMA RangeOfEmpty == Range(<<>>) = {}
<1>1. <<>> \in Seq({})
  BY EmptySeq
<1>2. Range(<<>>) \in SUBSET {}
  BY <1>1, RangeOfSeq
<1>3. QED
  BY <1>2

LEMMA RangeTail ==
  ASSUME NEW S, NEW q \in Seq(S), q # <<>>
  PROVE  Range(q) = {Head(q)} \cup Range(Tail(q)) /\ Head(q) \in S /\ Range(q) \subseteq S
<1>1. /\ Head(q) \in S /\ Tail(q) \in Seq(S) /\ Len(Tail(q)) = Len(q) - 1
      /\ \A i \in 1 .. Len(Tail(q)) : Tail(q)[i] = q[i + 1]
      /\ Head(q) = q[1] /\ Len(q) \in Nat \ {0}
  BY HeadTailProperties, EmptySeq
<1>2. Range(q) = {q[i] : i \in 1 .. Len(q)}
  BY RangeEquality
<1>3. Range(Tail(q)) = {Tail(q)[i] : i \in 1 .. Len(Tail(q))}
  BY <1>1, RangeEquality
<1>4. ASSUME NEW i \in 1 .. Len(q)
      PROVE  q[i] = Head(q) \/ q[i] \in Range(Tail(q))
  <2>1. CASE i = 1
    BY <1>1, <2>1
  <2>2. CASE i # 1
    <3>1. i - 1 \in 1 .. Len(Tail(q)) /\ (i - 1) + 1 = i
      BY <1>1, <2>2
    <3>2. Tail(q)[i - 1] = q[i]
      BY <1>1, <3>1
    <3>3. QED
      BY <1>3, <3>1, <3>2
  <2>3. QED
    BY <2>1, <2>2
<1>5. ASSUME NEW i \in 1 .. Len(Tail(q))
      PROVE  Tail(q)[i] \in Range(q)
  <2>1. i + 1 \in 1 .. Len(q)
    BY <1>1
  <2>2. QED
    BY <1>1, <1>2, <2>1
<1>6. Head(q) \in Range(q)
  <2>1. 1 \in 1 .. Len(q)
    BY <1>1
  <2>2. QED
    BY <1>1, <1>2, <2>1
<1>7. QED
  BY <1>1, <1>2, <1>3, <1>4, <1>5, <1>6, RangeOfSeq

\* The messages of the queues and the clients, by type.
LEMMA FlyingType ==
  ASSUME TypeOK
  PROVE  /\ Flying \subseteq GwMessage /\ Asking \subseteq Client
         /\ DOMAIN clients = 1 .. Len(clients) /\ Len(clients) \in Nat
         /\ \A u \in DOMAIN clients : clients[u] \in Client
<1>1. toGw \in Seq(GwMessage) /\ toLobby \in Seq(Client) /\ clients \in Seq(Client)
  BY DEF TypeOK, Client
<1>2. Range(toGw) \subseteq GwMessage /\ Range(toLobby) \subseteq Client
  BY <1>1, RangeOfSeq
<1>3. QED
  BY <1>1, <1>2, LenProperties, ElementOfSeq DEF Flying, Asking

LEMMA LobbyKeepsOne ==
  ASSUME TypeOK, OneInv, LobbyReceive
  PROVE  OneInv'
<1> DEFINE q == Head(toLobby)
           u == index.openid[q.openid]
<1>1. /\ q \in Asking /\ Asking' \subseteq Asking /\ q \in Client
      /\ q.openid \in OpenIds /\ q.ccid \in Conns
  <2>1. toLobby \in Seq(Client) /\ toLobby # <<>> /\ toLobby' = Tail(toLobby)
    BY DEF TypeOK, Client, LobbyReceive
  <2>2. Range(toLobby) = {q} \cup Range(toLobby') /\ q \in Client
    BY <2>1, RangeTail
  <2>3. QED
    BY <2>2 DEF Asking, Client
<1>2. link' = link /\ gw' = gw /\ gwCuid' = gwCuid
  BY DEF LobbyReceive, gwVars
<1>3. /\ toGw \in Seq(GwMessage) /\ Flying \subseteq GwMessage
      /\ DOMAIN clients = 1 .. Len(clients) /\ Len(clients) \in Nat
      /\ clients \in Seq(Client) /\ \A v \in DOMAIN clients : clients[v] \in Client
      /\ link \in [Conns -> {"new", "open", "closed"}]
  BY FlyingType DEF TypeOK, Client
<1>4. ASSUME NEW k \in Conns, link[k] = "new"
      PROVE  gw[k] = "absent" /\ Untouched(k) /\ k # q.ccid
  BY <1>1, <1>4 DEF OneInv, Untouched
<1> HIDE DEF q, u
<1>5. CASE u = NoCuid
  <2> DEFINE n == Len(clients) + 1
             c == [openid |-> q.openid, ccid |-> q.ccid]
             m == Ret(IF Free(index, n, c) THEN "succes" ELSE "failed", q.ccid, n)
  <2>1. clients' = Append(clients, c) /\ toGw' = Append(toGw, m)
    BY <1>5 DEF LobbyReceive, Register, q, u
  <2>2. c \in Client /\ c.ccid = q.ccid /\ m \in GwMessage
        /\ m.ccid = q.ccid /\ m.cuid = n /\ n \in Nat
    BY <1>1, <1>3 DEF Client, Ret, GwMessage
  <2> HIDE DEF m, c
  <2>3. Flying' = Flying \cup {m}
    BY <1>3, <2>1, <2>2, RangeAppend DEF Flying
  <2>4. /\ Len(clients') = n /\ clients' \in Seq(Client)
        /\ \A v \in 1 .. Len(clients) : clients'[v] = clients[v]
        /\ clients'[n] = c
    BY <1>3, <2>1, <2>2, AppendProperties
  <2>5. DOMAIN clients' = DOMAIN clients \cup {n} /\ n \notin DOMAIN clients
    <3>1. DOMAIN clients' = 1 .. Len(clients')
      BY <2>4, LenProperties
    <3>2. QED
      BY <1>3, <2>4, <3>1
  <2> HIDE DEF n
  <2>6. ASSUME NEW v, NEW k, OnConn(v, k, clients, Flying)
        PROVE  OnConn(v, k, clients', Flying')
    BY <1>3, <2>3, <2>4, <2>5, <2>6 DEF OnConn, Replaced
  <2>7. OnConn(n, q.ccid, clients', Flying')
    BY <2>2, <2>4, <2>5 DEF OnConn
  <2>8. ASSUME NEW k \in Conns, link[k] = "new"
        PROVE  gw[k] = "absent" /\ Untouched(k)'
    BY <1>1, <1>3, <1>4, <2>2, <2>3, <2>4, <2>5, <2>8 DEF Untouched
  <2>9. ASSUME NEW l \in Flying', l.type = "succes"
        PROVE  /\ l.cuid \in DOMAIN clients'
               /\ gw[l.ccid] = "absent" \/ OnConn(l.cuid, l.ccid, clients', Flying')
    <3>1. CASE l = m
      BY <2>2, <2>5, <2>7, <3>1
    <3>2. CASE l \in Flying
      BY <2>5, <2>6, <2>9, <3>2 DEF OneInv
    <3>3. QED
      BY <2>3, <3>1, <3>2
  <2>10. QED
    BY <1>2, <2>6, <2>8, <2>9 DEF OneInv
<1>6. CASE u # NoCuid
  <2> DEFINE old == clients[u]
             new == [old EXCEPT !.ccid = q.ccid]
             out == Erased(index, u, old)
             no == Ret("failed", q.ccid, u)
             yes == Ret("succes", q.ccid, u)
             mid == IF Free(out, u, new) THEN <<>> ELSE <<no>>
  <2>1. u \in 1 .. Len(clients)
    BY <1>1, <1>6, TypeOfIndex DEF IndexType, NoCuid, u
  <2>2. old \in Client /\ new \in Client /\ new.ccid = q.ccid /\ old.ccid \in Conns
    <3>1. old \in Client
      BY <1>3, <2>1
    <3>2. QED
      BY <1>1, <3>1 DEF Client
  <2>3. clients' = [clients EXCEPT ![u] = new]
        /\ toGw' = toGw \o <<Replaced(old.ccid)>> \o mid \o <<yes>>
    BY <1>6 DEF LobbyReceive, Relogin, q, u
  <2>4. /\ Replaced(old.ccid) \in GwMessage /\ no \in GwMessage /\ yes \in GwMessage
        /\ yes.ccid = q.ccid /\ yes.cuid = u /\ no.ccid = q.ccid /\ no.type = "failed"
        /\ Replaced(old.ccid).type = "replaced" /\ Replaced(old.ccid).ccid = old.ccid
    BY <1>1, <1>3, <2>1, <2>2 DEF Replaced, Ret, GwMessage, NoCuid
  <2>5. /\ mid \in Seq(GwMessage) /\ Range(mid) \subseteq {no}
    <3>1. <<no>> \in Seq(GwMessage) /\ Range(<<no>>) = {no}
      BY <2>4, RangeOne
    <3>2. <<>> \in Seq(GwMessage) /\ Range(<<>>) = {}
      BY EmptySeq, RangeOfEmpty
    <3> HIDE DEF no
    <3>3. QED
      BY <3>1, <3>2
  <2> HIDE DEF mid, no, yes, new, old, out
  <2>6. /\ Flying \cup {Replaced(old.ccid), yes} \subseteq Flying'
        /\ Flying' \subseteq Flying \cup {Replaced(old.ccid), yes, no}
    <3> DEFINE s1 == <<Replaced(old.ccid)>>
               s2 == <<yes>>
    <3>1. s1 \in Seq(GwMessage) /\ Range(s1) = {Replaced(old.ccid)}
      BY <2>4, RangeOne
    <3>2. s2 \in Seq(GwMessage) /\ Range(s2) = {yes}
      BY <2>4, RangeOne
    <3>3. toGw' = toGw \o s1 \o mid \o s2
      BY <2>3
    <3> HIDE DEF s1, s2
    <3> DEFINE t1 == toGw \o s1
               t2 == t1 \o mid
    <3>4. t1 \in Seq(GwMessage) /\ Range(t1) = Range(toGw) \cup Range(s1)
      BY <1>3, <3>1, ConcatProperties, RangeConcatenation
    <3>5. toGw' = t2 \o s2
      BY <3>3
    <3> HIDE DEF t1
    <3>6. t2 \in Seq(GwMessage)
      BY <2>5, <3>4, ConcatProperties
    <3>7. Range(t2) = Range(t1) \cup Range(mid)
      BY <2>5, <3>4, RangeConcatenation
    <3> HIDE DEF t2
    <3>8. Range(t2 \o s2) = Range(t2) \cup Range(s2)
      BY <3>2, <3>6, RangeConcatenation
    <3>9. QED
      BY <2>5, <3>1, <3>2, <3>4, <3>5, <3>7, <3>8 DEF Flying
  <2>7. DOMAIN clients' = DOMAIN clients /\ clients'[u] = new
        /\ \A v \in DOMAIN clients : v # u => clients'[v] = clients[v]
    BY <1>3, <2>1, <2>3
  <2>8. ASSUME NEW v, NEW k, OnConn(v, k, clients, Flying)
        PROVE  OnConn(v, k, clients', Flying')
    <3>1. CASE clients[v].ccid = k /\ v = u
      BY <2>6, <2>7, <2>8, <3>1 DEF OnConn, old
    <3>2. CASE Replaced(k) \in Flying \/ v # u
      BY <2>6, <2>7, <2>8, <3>2 DEF OnConn, Replaced
    <3>3. QED
      BY <2>8, <3>1, <3>2 DEF OnConn
  <2>9. OnConn(u, q.ccid, clients', Flying')
    BY <1>3, <2>1, <2>2, <2>7 DEF OnConn
  <2>10. ASSUME NEW k \in Conns, link[k] = "new"
         PROVE  gw[k] = "absent" /\ Untouched(k)'
    <3>1. k # old.ccid
      BY <1>3, <1>4, <2>1, <2>10 DEF Untouched, old
    <3>2. QED
      BY <1>1, <1>4, <2>2, <2>4, <2>6, <2>7, <2>10, <3>1 DEF Untouched
  <2>11. ASSUME NEW l \in Flying', l.type = "succes"
         PROVE  /\ l.cuid \in DOMAIN clients'
                /\ gw[l.ccid] = "absent" \/ OnConn(l.cuid, l.ccid, clients', Flying')
    <3>1. CASE l = yes
      BY <1>3, <2>1, <2>4, <2>7, <2>9, <3>1
    <3>2. CASE l \in Flying
      BY <2>7, <2>8, <2>11, <3>2 DEF OneInv
    <3>3. QED
      BY <2>4, <2>6, <2>11, <3>1, <3>2
  <2>12. QED
    BY <1>2, <2>8, <2>10, <2>11 DEF OneInv
<1>7. QED
  BY <1>5, <1>6

LEMMA GatewayKeepsOne ==
  ASSUME TypeOK, OneInv, GatewayReceive
  PROVE  OneInv'
<1> DEFINE m == Head(toGw)
<1>1. /\ m \in Flying /\ Flying = {m} \cup Flying' /\ m \in GwMessage
      /\ m.ccid \in Conns /\ Flying \subseteq GwMessage
  <2>1. toGw \in Seq(GwMessage) /\ toGw # <<>> /\ toGw' = Tail(toGw)
    BY DEF TypeOK, GatewayReceive
  <2>2. Range(toGw) = {m} \cup Range(toGw') /\ m \in GwMessage /\ Range(toGw) \subseteq GwMessage
    BY <2>1, RangeTail
  <2>3. QED
    BY <2>2 DEF Flying, GwMessage
<1>2. link' = link /\ Asking' = Asking /\ clients' = clients
  BY DEF GatewayReceive, lobbyVars, Asking
<1>3. /\ gw \in [Conns -> {"absent", "logining", "playing"}] /\ gwCuid \in [Conns -> Nat]
  BY DEF TypeOK
<1>4. ASSUME NEW v, NEW k, OnConn(v, k, clients, Flying), k # m.ccid
      PROVE  OnConn(v, k, clients', Flying')
  BY <1>1, <1>2, <1>4 DEF OnConn, Replaced
<1>5. /\ \A k \in Conns \ {m.ccid} : gw'[k] = gw[k] /\ gwCuid'[k] = gwCuid[k]
      /\ gw'[m.ccid] = "absent" \/ /\ m.type = "succes" /\ gw[m.ccid] # "absent"
                                   /\ gw'[m.ccid] = "playing" /\ gwCuid'[m.ccid] = m.cuid
  <2> HIDE DEF m
  <2>1. CASE gw[m.ccid] = "absent"
    BY <2>1 DEF GatewayReceive, m
  <2>2. CASE gw[m.ccid] # "absent" /\ m.type = "replaced"
    <3>1. ClientBeReplaced(m)
      BY <2>2 DEF GatewayReceive, m
    <3>2. QED
      BY <1>1, <1>3, <3>1 DEF ClientBeReplaced, EraseLater
  <2>3. CASE gw[m.ccid] # "absent" /\ m.type # "replaced"
    <3>1. RetLoginQuest(m)
      BY <2>3 DEF GatewayReceive, m
    <3>2. QED
      BY <1>1, <1>3, <2>3, <3>1 DEF RetLoginQuest, EraseLater
  <2>4. QED
    BY <2>1, <2>2, <2>3
<1> HIDE DEF m
<1>6. m.type = "succes" => Replaced(m.ccid) # m
  BY DEF Replaced
<1>7. ASSUME NEW k \in Conns, link[k] = "new"
      PROVE  gw'[k] = "absent" /\ Untouched(k)'
  <2>1. gw[k] = "absent" /\ Untouched(k) /\ k # m.ccid
    BY <1>1, <1>7 DEF OneInv, Untouched
  <2>2. QED
    BY <1>1, <1>2, <1>5, <2>1 DEF Untouched
<1>8. ASSUME NEW l \in Flying', l.type = "succes"
      PROVE  /\ l.cuid \in DOMAIN clients'
             /\ gw'[l.ccid] = "absent" \/ OnConn(l.cuid, l.ccid, clients', Flying')
  <2>1. l.ccid \in Conns /\ l \in Flying
    BY <1>1 DEF GwMessage
  <2>2. l.cuid \in DOMAIN clients /\ (gw[l.ccid] = "absent" \/ OnConn(l.cuid, l.ccid, clients, Flying))
    BY <1>8, <2>1 DEF OneInv
  <2>3. CASE l.ccid # m.ccid
    BY <1>2, <1>4, <1>5, <2>1, <2>2, <2>3
  <2>4. CASE l.ccid = m.ccid
    BY <1>1, <1>2, <1>5, <1>6, <2>1, <2>2, <2>4 DEF OnConn, Replaced
  <2>5. QED
    BY <2>3, <2>4
<1>9. ASSUME NEW k \in Conns, gw'[k] = "playing"
      PROVE  OnConn(gwCuid'[k], k, clients', Flying')
  <2>1. CASE k # m.ccid
    BY <1>4, <1>5, <1>9, <2>1 DEF OneInv
  <2>2. CASE k = m.ccid
    <3>1. m.type = "succes" /\ gwCuid'[k] = m.cuid /\ OnConn(m.cuid, k, clients, Flying)
      BY <1>1, <1>5, <1>9, <2>2 DEF OneInv
    <3>2. QED
      BY <1>1, <1>2, <1>6, <2>2, <3>1 DEF OnConn, Replaced
  <2>3. QED
    BY <2>1, <2>2
<1>10. QED
  BY <1>2, <1>7, <1>8, <1>9 DEF OneInv

LEMMA OneStep ==
  ASSUME ~ Lossy, TypeOK, OneInv, [Next]_vars
  PROVE  OneInv'
<1>1. ASSUME NEW k \in Conns, ClientOnline(k) PROVE OneInv'
  <2>1. Flying' = Flying /\ Asking' = Asking /\ clients' = clients /\ gwCuid' = gwCuid
    BY <1>1 DEF ClientOnline, lobbyVars, Flying, Asking
  <2>2. /\ \A l \in Conns \ {k} : link'[l] = link[l] /\ gw'[l] = gw[l]
        /\ link'[k] # "new" /\ gw'[k] # "playing" /\ Untouched(k)
    BY <1>1 DEF ClientOnline, TypeOK, OneInv
  <2>3. ASSUME NEW m \in Flying
        PROVE  m.ccid # k /\ m.ccid \in Conns
    BY <2>2, FlyingType DEF Untouched, GwMessage
  <2>4. QED
    BY <2>1, <2>2, <2>3 DEF OneInv, Untouched, OnConn
<1>2. ASSUME NEW k \in Conns, ClientOffline(k) PROVE OneInv'
  <2>1. Flying' = Flying /\ Asking' = Asking /\ clients' = clients /\ gwCuid' = gwCuid
    BY <1>2 DEF ClientOffline, lobbyVars, Flying, Asking
  <2>2. /\ \A l \in Conns \ {k} : link'[l] = link[l] /\ gw'[l] = gw[l]
        /\ link'[k] # "new" /\ gw'[k] = "absent"
    BY <1>2 DEF ClientOffline, TypeOK
  <2>3. \A m \in Flying : m.ccid \in Conns
    BY FlyingType DEF GwMessage
  <2>4. QED
    BY <2>1, <2>2, <2>3 DEF OneInv, Untouched, OnConn
<1>3. ASSUME NEW k \in Conns, NEW o \in Accounts[k], C_Login(k, o) PROVE OneInv'
  <2>1. Flying' = Flying /\ clients' = clients /\ UNCHANGED <<gwCuid, link, gw>> /\ gw[k] # "absent"
    BY <1>3 DEF C_Login, lobbyVars, Flying
  <2>2. LoginQuest(o, k) \in Client /\ toLobby \in Seq(Client)
    BY SessionAssumption DEF LoginQuest, Client, TypeOK
  <2>3. Asking' = Asking \cup {LoginQuest(o, k)}
    BY <1>3, <2>2, RangeAppend DEF C_Login, Asking
  <2>4. ASSUME NEW l \in Conns, link[l] = "new"
        PROVE  l # k
    BY <2>1, <2>4 DEF OneInv
  <2>5. LoginQuest(o, k).ccid = k
    BY DEF LoginQuest
  <2>6. QED
    BY <2>1, <2>3, <2>4, <2>5 DEF OneInv, Untouched, OnConn
<1>4. CASE TimerExec \/ UNCHANGED vars
  BY <1>4 DEF TimerExec, vars, gwVars, lobbyVars, OneInv, Untouched, OnConn, Flying, Asking
<1>5. CASE Lose
  BY <1>5 DEF Lose
<1>6. QED
  BY <1>1, <1>2, <1>3, <1>4, <1>5, LobbyKeepsOne, GatewayKeepsOne DEF Next

LEMMA OneInit == Init => OneInv
BY RangeOfEmpty DEF Init, OneInv, Untouched, Flying, Asking

\* As long as no message is lost, an account plays on one connection, whatever
\* accounts a connection logs in with and however often: any other connection
\* that plays for the player has its notice to leave under way.
THEOREM OneConnectionEach == ~ Lossy => (Spec => []OneConnectionPerAccount)
<1> SUFFICES ASSUME ~ Lossy PROVE Spec => []OneConnectionPerAccount
  OBVIOUS
<1>1. TypeOK /\ OneInv /\ [Next]_vars => OneInv'
  BY OneStep
<1>2. TypeOK /\ OneInv => OneConnectionPerAccount
  <2> SUFFICES ASSUME TypeOK, OneInv, NEW k \in Conns, gw[k] = "playing",
                      clients[gwCuid[k]].ccid # k
               PROVE  InFlight(Replaced(k))
    BY DEF OneConnectionPerAccount
  <2>1. Replaced(k) \in Range(toGw) /\ toGw \in Seq(GwMessage)
    BY DEF OneInv, OnConn, Flying, TypeOK
  <2>2. Range(toGw) = {toGw[i] : i \in 1 .. Len(toGw)} /\ DOMAIN toGw = 1 .. Len(toGw)
    BY <2>1, RangeEquality, LenProperties
  <2>3. QED
    BY <2>1, <2>2 DEF InFlight
<1>3. QED
  BY OneInit, <1>1, <1>2, SessionTypeCorrect, PTL DEF Spec

-----------------------------------------------------------------------------
(* The lobby's indexes, when a connection is used with one account. *)

\* A connection is used with one account.  Without it a registration may fail,
\* and its erase then drops the entry of the client that is on the connection.
OneAccountEach == \A k \in Conns : \A o, p \in Accounts[k] : o = p

\* Login requests and clients that name an account of their connection.
Rightful == {c \in Client : c.openid \in Accounts[c.ccid]}

\* Every player is entered under all of its keys.
AllIndexed ==
  /\ \A u \in index.cuid :
       index.openid[clients[u].openid] = u /\ index.ccid[clients[u].ccid] = u
  /\ \A o \in OpenIds : index.openid[o] # NoCuid =>
       index.openid[o] \in index.cuid /\ clients[index.openid[o]].openid = o
  /\ \A k \in Conns : index.ccid[k] # NoCuid =>
       index.ccid[k] \in index.cuid /\ clients[index.ccid[k]].ccid = k

EachInv ==
  /\ toLobby \in Seq(Rightful)
  /\ clients \in Seq(Rightful)
  /\ NoCuid \notin index.cuid
  /\ AllIndexed

\* Two clients of one connection, or a client and a request, share the account.
LEMMA SameConnSameAccount ==
  ASSUME OneAccountEach, NEW c \in Rightful, NEW d \in Rightful, c.ccid = d.ccid
  PROVE  c.openid = d.openid
BY DEF OneAccountEach, Rightful, Client

\* A client is found by its account and its connection, and there is no other
\* client with one of them.
LEMMA AloneInIndex ==
  ASSUME TypeOK, EachInv, OneAccountEach, NEW u \in index.cuid, NEW v \in index.cuid
  PROVE  /\ u \in 1 .. Len(clients) /\ clients[u] \in Rightful
         /\ clients[u].openid = clients[v].openid => u = v
         /\ clients[u].ccid = clients[v].ccid => u = v
<1>1. index.cuid \subseteq 1 .. Len(clients)
  BY TypeOfIndex DEF EachInv, IndexType, NoCuid
<1>2. clients[u] \in Rightful
  BY <1>1, ElementOfSeq DEF EachInv
<1>3. QED
  BY <1>1, <1>2 DEF EachInv, AllIndexed

\* A new account's connection is free, so a registration always succeeds.
LEMMA RegisterEach ==
  ASSUME TypeOK, EachInv, OneAccountEach, NEW q \in Rightful,
         index.openid[q.openid] = NoCuid, Register(q)
  PROVE  /\ clients' \in Seq(Rightful) /\ NoCuid \notin index'.cuid /\ AllIndexed'
         /\ \A o \in OpenIds : index.openid[o] # NoCuid => index'.openid[o] = index.openid[o]
         /\ clients' = Append(clients, q)
         /\ index'.ccid = [index.ccid EXCEPT ![q.ccid] = Len(clients) + 1]
         /\ toGw' = Append(toGw, Ret("succes", q.ccid, Len(clients) + 1))
<1> DEFINE c == [openid |-> q.openid, ccid |-> q.ccid]
           u == Len(clients) + 1
<1>1. /\ index \in IndexType(Len(clients)) /\ Len(clients) \in Nat
      /\ q.openid \in OpenIds /\ q.ccid \in Conns /\ c = q
  BY TypeOfIndex DEF Rightful, Client
<1>2. index.cuid \subseteq 1 .. Len(clients)
  BY <1>1 DEF EachInv, IndexType, NoCuid
<1>3. Free(index, u, c)
  <2>1. u \notin index.cuid
    BY <1>1, <1>2
  <2>2. SUFFICES ASSUME index.ccid[q.ccid] # NoCuid PROVE FALSE
    BY <2>1 DEF Free
  <2> DEFINE v == index.ccid[q.ccid]
  <2>3. v \in index.cuid /\ clients[v].ccid = q.ccid
    BY <1>1, <2>2 DEF EachInv, AllIndexed
  <2>4. clients[v] \in Rightful
    BY <2>3, AloneInIndex
  <2>5. clients[v].openid = q.openid
    BY <2>3, <2>4, SameConnSameAccount
  <2>6. index.openid[q.openid] = v
    BY <2>3, <2>5 DEF EachInv, AllIndexed
  <2>7. QED
    BY <2>2, <2>6
<1>4. index' = Entered(index, u, q)
  BY <1>1, <1>3 DEF Register, Inserted
<1>5. clients' = Append(clients, q) /\ clients \in Seq(Rightful)
  BY <1>1 DEF Register, EachInv
<1>6. /\ clients' \in Seq(Rightful) /\ clients'[u] = q
      /\ \A v \in 1 .. Len(clients) : clients'[v] = clients[v]
  BY <1>5, AppendProperties
<1>7. NoCuid \notin index'.cuid
  BY <1>1, <1>4 DEF Entered, EachInv, NoCuid
<1>8. /\ index'.openid = [index.openid EXCEPT ![q.openid] = u]
      /\ index'.cuid = index.cuid \cup {u}
      /\ index'.ccid = [index.ccid EXCEPT ![q.ccid] = u]
  BY <1>4 DEF Entered
<1>9. index.openid[q.openid] = NoCuid /\ index.ccid[q.ccid] = NoCuid
  BY <1>3 DEF Free
<1>10. /\ index.openid \in [OpenIds -> 0 .. Len(clients)]
       /\ index.ccid \in [Conns -> 0 .. Len(clients)]
  BY <1>1 DEF IndexType
<1>11. u \in Nat /\ u > Len(clients)
  BY <1>1
<1>12. toGw' = Append(toGw, Ret("succes", q.ccid, u))
  BY <1>3 DEF Register
<1> HIDE DEF u
<1>13. AllIndexed'
  <2>1. ASSUME NEW v \in index'.cuid
        PROVE  index'.openid[clients'[v].openid] = v /\ index'.ccid[clients'[v].ccid] = v
    <3>1. CASE v = u
      BY <1>1, <1>6, <1>8, <1>10, <3>1
    <3>2. CASE v \in index.cuid
      <4>1. clients'[v] = clients[v] /\ clients[v].openid \in OpenIds /\ clients[v].ccid \in Conns
        BY <1>2, <1>6, <3>2, AloneInIndex DEF Rightful, Client
      <4>2. index.openid[clients[v].openid] = v /\ index.ccid[clients[v].ccid] = v /\ v # NoCuid
        BY <3>2 DEF EachInv, AllIndexed
      <4>3. QED
        BY <1>8, <1>9, <1>10, <4>1, <4>2
    <3>3. QED
      BY <1>8, <2>1, <3>1, <3>2
  <2>2. ASSUME NEW o \in OpenIds, index'.openid[o] # NoCuid
        PROVE  index'.openid[o] \in index'.cuid /\ clients'[index'.openid[o]].openid = o
    <3>1. CASE o = q.openid
      BY <1>1, <1>6, <1>8, <1>10, <3>1
    <3>2. CASE o # q.openid
      <4>1. index'.openid[o] = index.openid[o]
        BY <1>8, <1>10, <3>2
      <4>2. index.openid[o] \in index.cuid /\ clients[index.openid[o]].openid = o
        BY <2>2, <4>1 DEF EachInv, AllIndexed
      <4>3. QED
        BY <1>2, <1>6, <1>8, <4>1, <4>2
    <3>3. QED
      BY <3>1, <3>2
  <2>3. ASSUME NEW k \in Conns, index'.ccid[k] # NoCuid
        PROVE  index'.ccid[k] \in index'.cuid /\ clients'[index'.ccid[k]].ccid = k
    BY <1>2, <1>6, <1>8, <1>10, <2>3 DEF EachInv, AllIndexed
  <2>4. QED
    BY <2>1, <2>2, <2>3 DEF AllIndexed
<1>14. QED
  BY <1>5, <1>6, <1>7, <1>8, <1>9, <1>10, <1>12, <1>13 DEF u

\* The connection an account moves to is free or already the account's own, so
\* a relogin always succeeds.
LEMMA ReloginEach ==
  ASSUME TypeOK, EachInv, OneAccountEach, NEW q \in Rightful, NEW u,
         u = index.openid[q.openid], u # NoCuid, Relogin(q, u)
  PROVE  /\ clients' \in Seq(Rightful) /\ NoCuid \notin index'.cuid /\ AllIndexed'
         /\ index'.openid = index.openid
         /\ u \in 1 .. Len(clients) /\ clients' = [clients EXCEPT ![u] = q]
         /\ index'.ccid = [index.ccid EXCEPT ![clients[u].ccid] = NoCuid, ![q.ccid] = u]
         /\ toGw' = toGw \o <<Replaced(clients[u].ccid)>> \o <<Ret("succes", q.ccid, u)>>
<1> DEFINE old == clients[u]
           new == [old EXCEPT !.ccid = q.ccid]
           out == Erased(index, u, old)
<1>1. /\ index.openid \in [OpenIds -> 0 .. Len(clients)]
      /\ index.ccid \in [Conns -> 0 .. Len(clients)]
      /\ Len(clients) \in Nat /\ q.openid \in OpenIds /\ q.ccid \in Conns
      /\ q \in Client
  BY TypeOfIndex DEF Rightful, Client, IndexType
<1>2. u \in index.cuid /\ old.openid = q.openid
  BY <1>1 DEF EachInv, AllIndexed
<1>3. u \in 1 .. Len(clients) /\ old \in Rightful /\ old \in Client
  BY <1>2, AloneInIndex DEF Rightful
<1>4. new = q
  <2>1. new.openid = q.openid /\ new.ccid = q.ccid /\ new \in Client
    BY <1>1, <1>2, <1>3 DEF Client
  <2>2. QED
    BY <1>1, <2>1 DEF Client
<1>5. index.openid[old.openid] = u /\ index.ccid[old.ccid] = u
  BY <1>2 DEF EachInv, AllIndexed
<1>6. /\ out.openid = [index.openid EXCEPT ![q.openid] = NoCuid]
      /\ out.cuid = index.cuid \ {u}
      /\ out.ccid = [index.ccid EXCEPT ![old.ccid] = NoCuid]
  BY <1>2 DEF Erased
<1>7. old.ccid \in Conns
  BY <1>3 DEF Client
<1> HIDE DEF out
<1>8. Free(out, u, q)
  <2>1. out.openid[q.openid] = NoCuid /\ u \notin out.cuid
    BY <1>1, <1>6
  <2>2. SUFFICES ASSUME out.ccid[q.ccid] # NoCuid PROVE FALSE
    BY <2>1 DEF Free
  <2> DEFINE v == index.ccid[q.ccid]
  <2>3. v # NoCuid /\ q.ccid # old.ccid
    BY <1>1, <1>6, <1>7, <2>2
  <2>4. v \in index.cuid /\ clients[v].ccid = q.ccid
    BY <1>1, <2>3 DEF EachInv, AllIndexed
  <2>5. clients[v] \in Rightful
    BY <2>4, AloneInIndex
  <2>6. clients[v].openid = q.openid
    BY <2>4, <2>5, SameConnSameAccount
  <2> HIDE DEF v
  <2>7. v = u
    BY <1>2, <2>4, <2>6, AloneInIndex
  <2>8. QED
    BY <2>3, <2>4, <2>7
<1>9. index' = Entered(out, u, q) /\ clients' = [clients EXCEPT ![u] = q]
  BY <1>4, <1>8 DEF Relogin, Inserted, out
<1>10. clients' \in Seq(Rightful) /\ \A v \in 1 .. Len(clients) : clients'[v] = IF v = u THEN q ELSE clients[v]
  <2>1. clients \in Seq(Rightful)
    BY DEF EachInv
  <2>2. QED
    BY <1>3, <1>9, <2>1, ExceptSeq, LenProperties
<1>11. /\ index'.openid = index.openid /\ index'.cuid = index.cuid
       /\ index'.ccid = [out.ccid EXCEPT ![q.ccid] = u]
  <2>1. /\ index'.openid = [out.openid EXCEPT ![q.openid] = u]
        /\ index'.cuid = out.cuid \cup {u}
        /\ index'.ccid = [out.ccid EXCEPT ![q.ccid] = u]
    BY <1>9 DEF Entered
  <2>2. [[index.openid EXCEPT ![q.openid] = NoCuid] EXCEPT ![q.openid] = u] = index.openid
    BY <1>1
  <2>3. QED
    BY <1>2, <1>6, <2>1, <2>2
<1>12. index.cuid \subseteq 1 .. Len(clients)
  BY AloneInIndex
<1>13. toGw' = toGw \o <<Replaced(old.ccid)>> \o <<Ret("succes", q.ccid, u)>>
  <2>1. toGw' = toGw \o <<Replaced(old.ccid)>> \o <<>> \o <<Ret("succes", q.ccid, u)>>
    BY <1>4, <1>8 DEF Relogin, out
  <2>2. toGw \in Seq(GwMessage) /\ Replaced(old.ccid) \in GwMessage
    BY <1>7 DEF TypeOK, GwMessage, Replaced, NoCuid
  <2>3. toGw \o <<Replaced(old.ccid)>> \in Seq(GwMessage)
    BY <2>2, ConcatProperties
  <2>4. QED
    BY <2>1, <2>3, ConcatEmptySeq
<1> HIDE DEF old
<1>14. AllIndexed'
  <2>1. ASSUME NEW v \in index'.cuid
        PROVE  index'.openid[clients'[v].openid] = v /\ index'.ccid[clients'[v].ccid] = v
    <3>1. CASE v = u
      BY <1>1, <1>6, <1>10, <1>11, <1>3, <3>1
    <3>2. CASE v # u
      <4>1. v \in index.cuid /\ clients'[v] = clients[v] /\ clients[v].ccid \in Conns
        BY <1>10, <1>11, <1>12, <2>1, <3>2, AloneInIndex DEF Rightful, Client
      <4>2. index.openid[clients[v].openid] = v /\ index.ccid[clients[v].ccid] = v
        BY <4>1 DEF EachInv, AllIndexed
      <4>3. clients[v].ccid # old.ccid
        BY <1>5, <3>2, <4>2
      <4>4. clients[v].ccid # q.ccid
        <5>1. SUFFICES ASSUME clients[v].ccid = q.ccid PROVE FALSE
          OBVIOUS
        <5>2. clients[v].openid = q.openid
          BY <4>1, <5>1, AloneInIndex, SameConnSameAccount
        <5>3. QED
          BY <3>2, <4>2, <5>2
      <4>5. QED
        BY <1>1, <1>6, <1>7, <1>11, <4>1, <4>2, <4>3, <4>4
    <3>3. QED
      BY <3>1, <3>2
  <2>2. ASSUME NEW o \in OpenIds, index'.openid[o] # NoCuid
        PROVE  index'.openid[o] \in index'.cuid /\ clients'[index'.openid[o]].openid = o
    <3>1. index.openid[o] \in index.cuid /\ clients[index.openid[o]].openid = o
      BY <1>11, <2>2 DEF EachInv, AllIndexed
    <3>2. QED
      BY <1>10, <1>11, <1>12, <3>1, <1>2 DEF old
  <2>3. ASSUME NEW k \in Conns, index'.ccid[k] # NoCuid
        PROVE  index'.ccid[k] \in index'.cuid /\ clients'[index'.ccid[k]].ccid = k
    <3>1. CASE k = q.ccid
      BY <1>1, <1>2, <1>3, <1>6, <1>10, <1>11, <3>1
    <3>2. CASE k # q.ccid
      <4>1. k # old.ccid /\ index'.ccid[k] = index.ccid[k]
        BY <1>1, <1>6, <1>7, <1>11, <2>3, <3>2
      <4>2. index.ccid[k] \in index.cuid /\ clients[index.ccid[k]].ccid = k
        BY <2>3, <4>1 DEF EachInv, AllIndexed
      <4>3. index.ccid[k] # u
        BY <4>1, <4>2 DEF old
      <4>4. QED
        BY <1>10, <1>11, <1>12, <4>1, <4>2, <4>3
    <3>3. QED
      BY <3>1, <3>2
  <2>4. QED
    BY <2>1, <2>2, <2>3 DEF AllIndexed
<1>15. QED
  BY <1>3, <1>6, <1>9, <1>10, <1>11, <1>13, <1>14 DEF EachInv, old

\* Only the lobby's handler touches the clients and the indexes.
LEMMA LobbyEach ==
  ASSUME TypeOK, EachInv, OneAccountEach, LobbyReceive
  PROVE  EachInv' /\ \A o \in OpenIds : index.openid[o] # NoCuid => index'.openid[o] = index.openid[o]
<1> DEFINE q == Head(toLobby)
           u == index.openid[q.openid]
<1>1. q \in Rightful /\ toLobby' \in Seq(Rightful)
  BY TakeType DEF EachInv, LobbyReceive
<1> HIDE DEF q
<1>2. CASE u = NoCuid
  <2>1. Register(q)
    BY <1>2 DEF LobbyReceive, q
  <2>2. QED
    BY <1>1, <1>2, <2>1, RegisterEach DEF EachInv
<1>3. CASE u # NoCuid
  <2>1. Relogin(q, u)
    BY <1>3 DEF LobbyReceive, q
  <2>2. QED
    BY <1>1, <1>3, <2>1, ReloginEach DEF EachInv
<1>4. QED
  BY <1>2, <1>3

LEMMA EachInvStep ==
  ASSUME TypeOK, EachInv, OneAccountEach, [Next]_vars
  PROVE  EachInv' /\ \A o \in OpenIds : index.openid[o] # NoCuid => index'.openid[o] = index.openid[o]
<1>1. ASSUME UNCHANGED lobbyVars, toLobby' \in Seq(Rightful)
      PROVE  EachInv' /\ index' = index
  BY <1>1 DEF EachInv, lobbyVars, AllIndexed
<1>2. ASSUME NEW k \in Conns, NEW o \in Accounts[k], C_Login(k, o)
      PROVE  UNCHANGED lobbyVars /\ toLobby' \in Seq(Rightful)
  <2>1. LoginQuest(o, k) \in Rightful
    BY SessionAssumption DEF LoginQuest, Rightful, Client
  <2>2. QED
    BY <1>2, <2>1, AppendProperties DEF C_Login, EachInv
<1>3. CASE Lose
  <2>1. \A i \in DOMAIN toLobby : Lost(toLobby, i) \in Seq(Rightful)
    BY LostType DEF EachInv
  <2>2. UNCHANGED lobbyVars /\ toLobby' \in Seq(Rightful)
    BY <1>3, <2>1 DEF Lose, EachInv
  <2>3. QED
    BY <1>1, <2>2
<1>4. ASSUME \/ \E k \in Conns : ClientOnline(k) \/ ClientOffline(k)
             \/ GatewayReceive \/ TimerExec \/ UNCHANGED vars
      PROVE  UNCHANGED lobbyVars /\ toLobby' \in Seq(Rightful)
  BY <1>4 DEF ClientOnline, ClientOffline, GatewayReceive, TimerExec, vars, lobbyVars, EachInv
<1>5. QED
  BY <1>1, <1>2, <1>3, <1>4, LobbyEach DEF Next

LEMMA EachInvInit == Init => EachInv
BY EmptySeq DEF Init, EachInv, AllIndexed, NoCuid

-----------------------------------------------------------------------------
(* The connection of a player plays, when a connection asks once. *)

\* A request that waits is the only one of its connection, and nothing has been
\* said to the connection or entered for it.
Waiting ==
  /\ \A i, j \in DOMAIN toLobby : toLobby[i].ccid = toLobby[j].ccid => i = j
  /\ \A q \in Asking : /\ \A m \in Flying : m.ccid # q.ccid
                       /\ \A u \in DOMAIN clients : clients[u].ccid # q.ccid

Fresh == \A k \in Conns : /\ link[k] = "new" => asked[k] = 0 /\ gw[k] = "absent"
                          /\ asked[k] = 0 => Untouched(k)

\* A connection that is told to leave, or has left while its link is open, is not
\* in the index and will not be entered again.
Left ==
  /\ \A m \in Flying : m.type # "succes" => index.ccid[m.ccid] = NoCuid
  /\ \A k \in Conns : link[k] = "open" /\ gw[k] = "absent" =>
       /\ asked[k] # 0 /\ index.ccid[k] = NoCuid
       /\ \A q \in Asking : q.ccid # k

Entry ==
  \A k \in Conns : index.ccid[k] # NoCuid /\ link[k] = "open" =>
    gw[k] = "playing" \/ Ret("succes", k, index.ccid[k]) \in Flying

CurrentInv == Waiting /\ Fresh /\ Left /\ Entry

\* The lobby enters connection k as that of player u and tells it so; o is the
\* player's connection until then, if there is one, and is told to leave.
LEMMA EnterKeepsCurrent ==
  ASSUME TypeOK, EachInv, CurrentInv, NEW q \in Asking, NEW u \in Nat,
         toLobby' = Tail(toLobby), q = Head(toLobby), toLobby # <<>>, UNCHANGED gwVars,
         NEW Gone \in SUBSET Conns,
         \A o \in Gone : \E v \in DOMAIN clients : clients[v].ccid = o,
         Flying' = Flying \cup {Replaced(o) : o \in Gone} \cup {Ret("succes", q.ccid, u)},
         index'.ccid = [k \in Conns |-> IF k = q.ccid THEN u
                                        ELSE IF k \in Gone THEN NoCuid ELSE index.ccid[k]],
         \A v \in DOMAIN clients' : \/ clients'[v].ccid = q.ccid
                                    \/ v \in DOMAIN clients /\ clients'[v] = clients[v]
  PROVE  CurrentInv'
<1>1. /\ Asking' \subseteq Asking /\ q.ccid \in Conns /\ Asking \subseteq Client
      /\ Flying \subseteq GwMessage
  <2>1. toLobby \in Seq(Client)
    BY DEF TypeOK, Client
  <2>2. Range(toLobby) = {q} \cup Range(toLobby')
    BY <2>1, RangeTail
  <2>3. QED
    BY <2>2, FlyingType DEF Asking, Client
<1>2. link' = link /\ gw' = gw /\ asked' = asked
  BY DEF gwVars
<1>3. q.ccid \notin Gone
  BY DEF CurrentInv, Waiting
<1>4. \A r \in Asking' : r.ccid # q.ccid /\ \A o \in Gone : r.ccid # o
  <2>1. ASSUME NEW r \in Asking' PROVE r.ccid # q.ccid
    <3>1. /\ toLobby \in Seq(Client) /\ Tail(toLobby) \in Seq(Client)
          /\ Len(Tail(toLobby)) = Len(toLobby) - 1 /\ Len(toLobby) \in Nat \ {0}
          /\ \A i \in 1 .. Len(Tail(toLobby)) : Tail(toLobby)[i] = toLobby[i + 1]
          /\ q = toLobby[1] /\ DOMAIN toLobby = 1 .. Len(toLobby)
      BY HeadTailProperties, EmptySeq, LenProperties DEF TypeOK, Client
    <3>2. Asking' = {Tail(toLobby)[i] : i \in 1 .. Len(Tail(toLobby))}
      <4>1. Range(Tail(toLobby)) = {Tail(toLobby)[i] : i \in 1 .. Len(Tail(toLobby))}
        <5>1. \A s \in Seq(Client) : Range(s) = {s[i] : i \in 1 .. Len(s)}
          BY RangeEquality
        <5>2. QED
          BY <3>1, <5>1, Zenon
      <4>2. QED
        BY <4>1 DEF Asking
    <3>3. PICK i \in 1 .. Len(Tail(toLobby)) : r = toLobby[i + 1]
      BY <3>1, <3>2
    <3>4. i + 1 \in DOMAIN toLobby /\ 1 \in DOMAIN toLobby /\ i + 1 # 1
      BY <3>1
    <3>5. toLobby[i + 1].ccid # toLobby[1].ccid
      BY <3>4 DEF CurrentInv, Waiting
    <3>6. QED
      BY <3>1, <3>3, <3>5
  <2>2. QED
    BY <1>1, <2>1 DEF CurrentInv, Waiting
<1>5. \A o \in Conns : /\ Replaced(o).ccid = o /\ Replaced(o).type = "replaced"
                       /\ Ret("succes", o, u).ccid = o /\ Ret("succes", o, u).type = "succes"
  BY DEF Replaced, Ret
<1>6. Waiting'
  <2>1. \A i, j \in DOMAIN toLobby' : toLobby'[i].ccid = toLobby'[j].ccid => i = j
    <3>1. /\ toLobby \in Seq(Client) /\ Tail(toLobby) \in Seq(Client)
          /\ Len(Tail(toLobby)) = Len(toLobby) - 1 /\ Len(toLobby) \in Nat \ {0}
          /\ \A i \in 1 .. Len(Tail(toLobby)) : Tail(toLobby)[i] = toLobby[i + 1]
          /\ DOMAIN toLobby = 1 .. Len(toLobby)
          /\ DOMAIN toLobby' = 1 .. Len(Tail(toLobby))
      BY HeadTailProperties, EmptySeq, LenProperties DEF TypeOK, Client
    <3>2. ASSUME NEW i \in DOMAIN toLobby', NEW j \in DOMAIN toLobby',
                 toLobby'[i].ccid = toLobby'[j].ccid
          PROVE  i = j
      <4>1. toLobby'[i] = toLobby[i + 1] /\ toLobby'[j] = toLobby[j + 1]
        BY <3>1
      <4>2. i + 1 \in DOMAIN toLobby /\ j + 1 \in DOMAIN toLobby /\ i \in Nat /\ j \in Nat
        BY <3>1
      <4>3. i + 1 = j + 1
        BY <3>2, <4>1, <4>2 DEF CurrentInv, Waiting
      <4>4. QED
        BY <4>2, <4>3
    <3>3. QED
      BY <3>2
  <2>2. ASSUME NEW r \in Asking'
        PROVE  /\ \A m \in Flying' : m.ccid # r.ccid
               /\ \A v \in DOMAIN clients' : clients'[v].ccid # r.ccid
    <3>1. r \in Asking /\ r.ccid # q.ccid /\ \A o \in Gone : r.ccid # o
      BY <1>1, <1>4
    <3>2. \A m \in Flying' : m.ccid # r.ccid
      BY <1>1, <1>5, <3>1 DEF CurrentInv, Waiting
    <3>3. \A v \in DOMAIN clients' : clients'[v].ccid # r.ccid
      BY <3>1 DEF CurrentInv, Waiting
    <3>4. QED
      BY <3>2, <3>3
  <2>3. QED
    BY <2>1, <2>2 DEF Waiting
<1>7. Fresh'
  <2>1. ASSUME NEW k \in Conns, asked[k] = 0
        PROVE  Untouched(k)'
    <3>1. Untouched(k) /\ k # q.ccid /\ k \notin Gone
      BY <2>1 DEF CurrentInv, Fresh, Untouched
    <3>2. QED
      BY <1>1, <1>5, <3>1 DEF Untouched
  <2>2. QED
    BY <1>2, <2>1 DEF CurrentInv, Fresh
<1>8. Left'
  <2>1. ASSUME NEW m \in Flying', m.type # "succes"
        PROVE  index'.ccid[m.ccid] = NoCuid
    <3>1. CASE m \in Flying
      <4>1. m.ccid \in Conns /\ m.ccid # q.ccid /\ index.ccid[m.ccid] = NoCuid
        BY <1>1, <2>1, <3>1 DEF CurrentInv, Waiting, Left, GwMessage
      <4>2. QED
        BY <4>1
    <3>2. CASE \E o \in Gone : m = Replaced(o)
      BY <1>3, <1>5, <3>2
    <3>3. QED
      BY <1>1, <1>5, <2>1, <3>1, <3>2
  <2>2. ASSUME NEW k \in Conns, link[k] = "open", gw[k] = "absent"
        PROVE  /\ asked[k] # 0 /\ index'.ccid[k] = NoCuid
               /\ \A r \in Asking' : r.ccid # k
    <3>1. /\ asked[k] # 0 /\ index.ccid[k] = NoCuid /\ \A r \in Asking : r.ccid # k
      BY <2>2 DEF CurrentInv, Left
    <3>2. QED
      BY <1>1, <3>1
  <2>3. QED
    BY <1>2, <2>1, <2>2 DEF Left
<1>9. Entry'
  <2>1. ASSUME NEW k \in Conns, index'.ccid[k] # NoCuid, link[k] = "open"
        PROVE  gw[k] = "playing" \/ Ret("succes", k, index'.ccid[k]) \in Flying'
    <3>1. CASE k = q.ccid
      BY <3>1
    <3>2. CASE k # q.ccid
      <4>1. index'.ccid[k] = index.ccid[k]
        BY <2>1, <3>2
      <4>2. QED
        BY <2>1, <4>1 DEF CurrentInv, Entry
    <3>3. QED
      BY <3>1, <3>2
  <2>2. QED
    BY <1>2, <2>1 DEF Entry
<1>10. QED
  BY <1>6, <1>7, <1>8, <1>9 DEF CurrentInv

LEMMA LobbyKeepsCurrent ==
  ASSUME TypeOK, EachInv, CurrentInv, OneAccountEach, LobbyReceive
  PROVE  CurrentInv'
<1> DEFINE q == Head(toLobby)
           u == index.openid[q.openid]
<1>1. /\ q \in Asking /\ q \in Rightful /\ toLobby' = Tail(toLobby) /\ toLobby # <<>>
      /\ q.openid \in OpenIds /\ q.ccid \in Conns
  <2>1. toLobby \in Seq(Rightful) /\ toLobby # <<>> /\ toLobby' = Tail(toLobby)
    BY DEF EachInv, LobbyReceive
  <2>2. Range(toLobby) = {q} \cup Range(toLobby') /\ q \in Rightful
    BY <2>1, RangeTail
  <2>3. QED
    BY <2>1, <2>2 DEF Asking, Rightful, Client
<1>2. UNCHANGED gwVars
  BY DEF LobbyReceive
<1>3. /\ toGw \in Seq(GwMessage) /\ index.ccid \in [Conns -> Cuids]
      /\ DOMAIN clients = 1 .. Len(clients) /\ Len(clients) \in Nat /\ clients \in Seq(Client)
      /\ \A v \in DOMAIN clients : clients[v] \in Client
  BY FlyingType DEF TypeOK, Client
<1> HIDE DEF q, u
<1>4. CASE u = NoCuid
  <2>1. Register(q) /\ index.openid[q.openid] = NoCuid
    BY <1>4 DEF LobbyReceive, q, u
  <2> DEFINE n == Len(clients) + 1
             m == Ret("succes", q.ccid, n)
  <2>2. /\ clients' = Append(clients, q)
        /\ index'.ccid = [index.ccid EXCEPT ![q.ccid] = n]
        /\ toGw' = Append(toGw, m)
    BY <1>1, <2>1, RegisterEach
  <2>3. n \in Nat /\ m \in GwMessage
    BY <1>1, <1>3 DEF Ret, GwMessage
  <2> HIDE DEF m
  <2>4. Flying' = Flying \cup {m}
    BY <1>3, <2>2, <2>3, RangeAppend DEF Flying
  <2>5. \A v \in DOMAIN clients' : \/ clients'[v].ccid = q.ccid
                                   \/ v \in DOMAIN clients /\ clients'[v] = clients[v]
    <3>1. q \in Client
      BY <1>1 DEF Rightful
    <3>2. /\ Len(clients') = n /\ clients' \in Seq(Client)
          /\ \A v \in 1 .. Len(clients) : clients'[v] = clients[v]
          /\ clients'[n] = q
      BY <1>3, <2>2, <3>1, AppendProperties
    <3>3. DOMAIN clients' = 1 .. n
      BY <3>2, LenProperties
    <3>4. QED
      BY <1>3, <3>2, <3>3
  <2> HIDE DEF n
  <2>6. index'.ccid = [k \in Conns |-> IF k = q.ccid THEN n
                                       ELSE IF k \in {} THEN NoCuid ELSE index.ccid[k]]
    BY <1>1, <1>3, <2>2
  <2>7. Flying' = Flying \cup {Replaced(o) : o \in {}} \cup {Ret("succes", q.ccid, n)}
    BY <2>4 DEF m
  <2> DEFINE Gone == {}
  <2>8. /\ Gone \in SUBSET Conns /\ \A o \in Gone : \E v \in DOMAIN clients : clients[v].ccid = o
        /\ Flying' = Flying \cup {Replaced(o) : o \in Gone} \cup {Ret("succes", q.ccid, n)}
        /\ index'.ccid = [k \in Conns |-> IF k = q.ccid THEN n
                                          ELSE IF k \in Gone THEN NoCuid ELSE index.ccid[k]]
    BY <2>6, <2>7
  <2> HIDE DEF Gone
  <2>9. q = Head(toLobby)
    BY DEF q
  <2>10. QED
    BY <1>1, <1>2, <2>3, <2>5, <2>8, <2>9, EnterKeepsCurrent
<1>5. CASE u # NoCuid
  <2>1. Relogin(q, u) /\ u = index.openid[q.openid]
    BY <1>5 DEF LobbyReceive, q, u
  <2> DEFINE old == clients[u]
             yes == Ret("succes", q.ccid, u)
  <2>2. /\ u \in 1 .. Len(clients) /\ clients' = [clients EXCEPT ![u] = q]
        /\ index'.ccid = [index.ccid EXCEPT ![clients[u].ccid] = NoCuid, ![q.ccid] = u]
        /\ toGw' = toGw \o <<Replaced(clients[u].ccid)>> \o <<Ret("succes", q.ccid, u)>>
    BY <1>1, <1>5, <2>1, ReloginEach
  <2>3. old \in Client /\ old.ccid \in Conns /\ u \in Nat /\ u \in DOMAIN clients
    BY <1>3, <2>2 DEF Client
  <2>4. Replaced(old.ccid) \in GwMessage /\ yes \in GwMessage
    BY <1>1, <2>3 DEF Replaced, Ret, GwMessage, NoCuid
  <2>5. index'.ccid = [k \in Conns |-> IF k = q.ccid THEN u
                                       ELSE IF k \in {old.ccid} THEN NoCuid ELSE index.ccid[k]]
    BY <1>1, <1>3, <2>2, <2>3
  <2>6. \A v \in DOMAIN clients' : \/ clients'[v].ccid = q.ccid
                                   \/ v \in DOMAIN clients /\ clients'[v] = clients[v]
    BY <1>3, <2>2, <2>3
  <2> HIDE DEF yes
  <2>7. Flying' = Flying \cup {Replaced(old.ccid)} \cup {yes}
    <3> DEFINE s1 == <<Replaced(old.ccid)>>
               s2 == <<yes>>
               t1 == toGw \o s1
    <3>1. s1 \in Seq(GwMessage) /\ Range(s1) = {Replaced(old.ccid)}
      BY <2>4, RangeOne
    <3>2. s2 \in Seq(GwMessage) /\ Range(s2) = {yes}
      BY <2>4, RangeOne
    <3>3. toGw' = t1 \o s2
      BY <2>2 DEF yes
    <3> HIDE DEF s1, s2
    <3>4. t1 \in Seq(GwMessage) /\ Range(t1) = Range(toGw) \cup Range(s1)
      BY <1>3, <3>1, ConcatProperties, RangeConcatenation
    <3> HIDE DEF t1
    <3>5. Range(t1 \o s2) = Range(t1) \cup Range(s2)
      BY <3>2, <3>4, RangeConcatenation
    <3>6. QED
      BY <3>1, <3>2, <3>3, <3>4, <3>5 DEF Flying
  <2> DEFINE Gone == {old.ccid}
  <2>8. /\ Gone \in SUBSET Conns /\ \A o \in Gone : \E v \in DOMAIN clients : clients[v].ccid = o
        /\ Flying' = Flying \cup {Replaced(o) : o \in Gone} \cup {Ret("succes", q.ccid, u)}
        /\ index'.ccid = [k \in Conns |-> IF k = q.ccid THEN u
                                          ELSE IF k \in Gone THEN NoCuid ELSE index.ccid[k]]
    BY <2>3, <2>5, <2>7 DEF yes
  <2> HIDE DEF Gone
  <2>9. q = Head(toLobby)
    BY DEF q
  <2>10. QED
    BY <1>1, <1>2, <2>3, <2>6, <2>8, <2>9, EnterKeepsCurrent
<1>6. QED
  BY <1>4, <1>5

LEMMA GatewayKeepsCurrent ==
  ASSUME TypeOK, CurrentInv, GatewayReceive
  PROVE  CurrentInv'
<1> DEFINE m == Head(toGw)
<1>1. /\ m \in Flying /\ Flying = {m} \cup Flying' /\ m \in GwMessage
      /\ m.ccid \in Conns /\ Flying \subseteq GwMessage
  <2>1. toGw \in Seq(GwMessage) /\ toGw # <<>> /\ toGw' = Tail(toGw)
    BY DEF TypeOK, GatewayReceive
  <2>2. Range(toGw) = {m} \cup Range(toGw') /\ m \in GwMessage /\ Range(toGw) \subseteq GwMessage
    BY <2>1, RangeTail
  <2>3. QED
    BY <2>2 DEF Flying, GwMessage
<1>2. /\ link' = link /\ Asking' = Asking /\ clients' = clients /\ index' = index /\ asked' = asked
      /\ toLobby' = toLobby
  BY DEF GatewayReceive, lobbyVars, Asking
<1>3. gw \in [Conns -> {"absent", "logining", "playing"}]
  BY DEF TypeOK
<1>4. /\ \A k \in Conns \ {m.ccid} : gw'[k] = gw[k]
      /\ \/ gw[m.ccid] = "absent" /\ gw'[m.ccid] = "absent"
         \/ gw[m.ccid] # "absent" /\ m.type = "succes" /\ gw'[m.ccid] = "playing"
         \/ gw[m.ccid] # "absent" /\ m.type # "succes" /\ gw'[m.ccid] = "absent"
  <2> HIDE DEF m
  <2>1. CASE gw[m.ccid] = "absent"
    BY <2>1 DEF GatewayReceive, m
  <2>2. CASE gw[m.ccid] # "absent" /\ m.type = "replaced"
    <3>1. ClientBeReplaced(m)
      BY <2>2 DEF GatewayReceive, m
    <3>2. QED
      BY <1>1, <1>3, <2>2, <3>1 DEF ClientBeReplaced, EraseLater
  <2>3. CASE gw[m.ccid] # "absent" /\ m.type # "replaced"
    <3>1. RetLoginQuest(m)
      BY <2>3 DEF GatewayReceive, m
    <3>2. QED
      BY <1>1, <1>3, <2>3, <3>1 DEF RetLoginQuest, EraseLater
  <2>4. QED
    BY <2>1, <2>2, <2>3
<1> HIDE DEF m
<1>5. Waiting'
  BY <1>1, <1>2 DEF CurrentInv, Waiting
<1>6. asked[m.ccid] # 0 /\ \A q \in Asking : q.ccid # m.ccid
  BY <1>1 DEF CurrentInv, Fresh, Untouched, Waiting
<1>7. Fresh'
  <2>1. ASSUME NEW k \in Conns, link[k] = "new"
        PROVE  asked[k] = 0 /\ gw'[k] = "absent"
    BY <1>4, <1>6, <2>1 DEF CurrentInv, Fresh
  <2>2. ASSUME NEW k \in Conns, asked[k] = 0
        PROVE  Untouched(k)'
    BY <1>1, <1>2, <2>2 DEF CurrentInv, Fresh, Untouched
  <2>3. QED
    BY <1>2, <2>1, <2>2 DEF Fresh
<1>8. Left'
  <2>1. ASSUME NEW k \in Conns, link[k] = "open", gw'[k] = "absent"
        PROVE  asked[k] # 0 /\ index.ccid[k] = NoCuid /\ \A q \in Asking : q.ccid # k
    <3>1. CASE gw[k] = "absent"
      BY <2>1, <3>1 DEF CurrentInv, Left
    <3>2. CASE gw[k] # "absent"
      BY <1>1, <1>4, <1>6, <2>1, <3>2 DEF CurrentInv, Left
    <3>3. QED
      BY <3>1, <3>2
  <2>2. QED
    BY <1>1, <1>2, <2>1 DEF CurrentInv, Left
<1>9. Entry'
  <2>1. ASSUME NEW k \in Conns, index.ccid[k] # NoCuid, link[k] = "open"
        PROVE  gw'[k] = "playing" \/ Ret("succes", k, index.ccid[k]) \in Flying'
    <3>1. gw[k] # "absent" /\ (gw[k] = "playing" \/ Ret("succes", k, index.ccid[k]) \in Flying)
      BY <2>1 DEF CurrentInv, Left, Entry
    <3>2. CASE k # m.ccid
      BY <1>1, <1>4, <3>1, <3>2 DEF Ret
    <3>3. CASE k = m.ccid
      BY <1>1, <1>4, <2>1, <3>1, <3>3 DEF CurrentInv, Left
    <3>4. QED
      BY <3>2, <3>3
  <2>2. QED
    BY <1>2, <2>1 DEF Entry
<1>10. QED
  BY <1>5, <1>7, <1>8, <1>9 DEF CurrentInv

LEMMA LoginKeepsCurrent ==
  ASSUME TypeOK, CurrentInv, MaxLogins <= 1, NEW k \in Conns, NEW o \in Accounts[k], C_Login(k, o)
  PROVE  CurrentInv'
<1> DEFINE q == LoginQuest(o, k)
<1>1. /\ UNCHANGED <<toGw, clients, index, link, gw>> /\ Flying' = Flying /\ gw[k] # "absent"
      /\ toLobby' = Append(toLobby, q)
  BY DEF C_Login, lobbyVars, Flying
<1>2. q \in Client /\ toLobby \in Seq(Client) /\ q.ccid = k
  BY SessionAssumption DEF LoginQuest, Client, TypeOK
<1>3. asked[k] = 0 /\ asked' = [asked EXCEPT ![k] = 1] /\ asked \in [Conns -> Nat]
  <2>1. asked \in [Conns -> Nat] /\ asked[k] < MaxLogins /\ asked' = [asked EXCEPT ![k] = @ + 1]
    BY DEF C_Login, TypeOK
  <2>2. asked[k] = 0
    BY <2>1, SessionAssumption
  <2>3. QED
    BY <2>1, <2>2
<1> HIDE DEF q
<1>4. Asking' = Asking \cup {q}
  BY <1>1, <1>2, RangeAppend DEF Asking
<1>5. Untouched(k) /\ link[k] # "new"
  BY <1>1, <1>3 DEF CurrentInv, Fresh
<1>6. Waiting'
  <2>1. /\ Len(toLobby) \in Nat /\ DOMAIN toLobby = 1 .. Len(toLobby)
        /\ DOMAIN toLobby' = 1 .. Len(toLobby) + 1
        /\ \A i \in 1 .. Len(toLobby) : toLobby'[i] = toLobby[i]
        /\ toLobby'[Len(toLobby) + 1] = q
    BY <1>1, <1>2, AppendProperties, LenProperties
  <2>2. \A i \in DOMAIN toLobby : toLobby[i].ccid # k
    <3>1. Range(toLobby) = {toLobby[i] : i \in 1 .. Len(toLobby)}
      BY <1>2, RangeEquality
    <3>2. QED
      BY <1>5, <2>1, <3>1 DEF Untouched, Asking
  <2>3. ASSUME NEW i \in DOMAIN toLobby', NEW j \in DOMAIN toLobby',
               toLobby'[i].ccid = toLobby'[j].ccid
        PROVE  i = j
    <3>1. CASE i \in DOMAIN toLobby /\ j \in DOMAIN toLobby
      BY <2>1, <2>3, <3>1 DEF CurrentInv, Waiting
    <3>2. CASE i \notin DOMAIN toLobby
      BY <1>2, <2>1, <2>2, <2>3, <3>2
    <3>3. CASE j \notin DOMAIN toLobby
      BY <1>2, <2>1, <2>2, <2>3, <3>3
    <3>4. QED
      BY <3>1, <3>2, <3>3
  <2>4. \A r \in Asking' : /\ \A m \in Flying' : m.ccid # r.ccid
                           /\ \A u \in DOMAIN clients' : clients'[u].ccid # r.ccid
    BY <1>1, <1>2, <1>4, <1>5 DEF CurrentInv, Waiting, Untouched
  <2>5. QED
    BY <2>3, <2>4 DEF Waiting
<1>7. Fresh'
  <2>1. ASSUME NEW l \in Conns, l # k, asked[l] = 0
        PROVE  Untouched(l)'
    BY <1>1, <1>2, <1>4, <2>1 DEF CurrentInv, Fresh, Untouched
  <2>2. QED
    BY <1>1, <1>3, <1>5, <2>1 DEF CurrentInv, Fresh
<1>8. Left'
  <2>1. ASSUME NEW l \in Conns, link[l] = "open", gw[l] = "absent"
        PROVE  asked'[l] # 0 /\ index.ccid[l] = NoCuid /\ \A r \in Asking' : r.ccid # l
    <3>1. l # k
      BY <1>1, <2>1
    <3>2. QED
      BY <1>2, <1>3, <1>4, <2>1, <3>1 DEF CurrentInv, Left
  <2>2. QED
    BY <1>1, <2>1 DEF CurrentInv, Left
<1>9. Entry'
  BY <1>1 DEF CurrentInv, Entry
<1>10. QED
  BY <1>6, <1>7, <1>8, <1>9 DEF CurrentInv

LEMMA CurrentStep ==
  ASSUME ~ Lossy, MaxLogins <= 1, OneAccountEach, TypeOK, EachInv, CurrentInv, [Next]_vars
  PROVE  CurrentInv'
<1>1. ASSUME NEW k \in Conns, ClientOnline(k) PROVE CurrentInv'
  <2>1. /\ UNCHANGED <<asked, toLobby, toGw, clients, index>> /\ Flying' = Flying /\ Asking' = Asking
    BY <1>1 DEF ClientOnline, lobbyVars, Flying, Asking
  <2>2. /\ \A l \in Conns \ {k} : link'[l] = link[l] /\ gw'[l] = gw[l]
        /\ link'[k] # "new" /\ (link'[k] = "open" => gw'[k] # "absent")
        /\ asked[k] = 0 /\ Untouched(k)
    BY <1>1 DEF ClientOnline, TypeOK, CurrentInv, Fresh
  <2>3. index.ccid[k] = NoCuid
    <3>1. index.cuid \subseteq DOMAIN clients
      <4>1. index.cuid \subseteq 1 .. Len(clients)
        BY TypeOfIndex DEF EachInv, IndexType, NoCuid
      <4>2. QED
        BY <4>1, FlyingType
    <3>2. QED
      BY <2>2, <3>1 DEF EachInv, AllIndexed, Untouched
  <2>4. Waiting'
    BY <2>1 DEF CurrentInv, Waiting
  <2>5. Fresh'
    BY <2>1, <2>2 DEF CurrentInv, Fresh, Untouched
  <2>6. Left'
    BY <2>1, <2>2 DEF CurrentInv, Left
  <2>7. Entry'
    BY <2>1, <2>2, <2>3 DEF CurrentInv, Entry
  <2>8. QED
    BY <2>4, <2>5, <2>6, <2>7 DEF CurrentInv
<1>2. ASSUME NEW k \in Conns, ClientOffline(k) PROVE CurrentInv'
  <2>1. /\ UNCHANGED <<asked, toLobby, toGw, clients, index>> /\ Flying' = Flying /\ Asking' = Asking
    BY <1>2 DEF ClientOffline, lobbyVars, Flying, Asking
  <2>2. /\ \A l \in Conns \ {k} : link'[l] = link[l] /\ gw'[l] = gw[l]
        /\ link'[k] = "closed"
    BY <1>2 DEF ClientOffline, TypeOK
  <2>3. QED
    BY <2>1, <2>2 DEF CurrentInv, Waiting, Fresh, Left, Entry, Untouched
<1>3. CASE TimerExec \/ UNCHANGED vars
  <2>1. /\ UNCHANGED <<link, gw, asked, toLobby, toGw, clients, index>>
        /\ Flying' = Flying /\ Asking' = Asking
    BY <1>3 DEF TimerExec, vars, gwVars, lobbyVars, Flying, Asking
  <2>2. QED
    BY <2>1 DEF CurrentInv, Waiting, Fresh, Left, Entry, Untouched
<1>4. CASE Lose
  BY <1>4 DEF Lose
<1>5. QED
  BY <1>1, <1>2, <1>3, <1>4, LobbyKeepsCurrent, GatewayKeepsCurrent, LoginKeepsCurrent DEF Next

LEMMA CurrentInit == Init => CurrentInv
BY RangeOfEmpty DEF Init, CurrentInv, Waiting, Fresh, Left, Entry, Untouched, Flying, Asking, NoCuid

\* The login that came last wins: when no message is lost and a connection asks
\* for one account and once, the connection the lobby has entered for a player
\* plays, or the answer that lets it play is under way.  A second request of one
\* connection makes the lobby tell it to leave (run session_relogin).
THEOREM CurrentConnectionPlays ==
  ~ Lossy /\ OneAccountEach /\ MaxLogins <= 1 => (Spec => []CurrentPlays)
<1> SUFFICES ASSUME ~ Lossy, OneAccountEach, MaxLogins <= 1 PROVE Spec => []CurrentPlays
  OBVIOUS
<1>1. TypeOK /\ EachInv /\ [Next]_vars => EachInv'
  BY EachInvStep
<1>2. TypeOK /\ EachInv /\ CurrentInv /\ [Next]_vars => CurrentInv'
  BY CurrentStep
<1>3. TypeOK /\ CurrentInv => CurrentPlays
  <2> SUFFICES ASSUME TypeOK, CurrentInv, NEW k \in Conns, index.ccid[k] # NoCuid,
                      link[k] = "open", gw[k] # "playing"
               PROVE  InFlight(Ret("succes", k, index.ccid[k]))
    BY DEF CurrentPlays
  <2>1. Ret("succes", k, index.ccid[k]) \in Range(toGw) /\ toGw \in Seq(GwMessage)
    BY DEF CurrentInv, Entry, Flying, TypeOK
  <2>2. Range(toGw) = {toGw[i] : i \in 1 .. Len(toGw)} /\ DOMAIN toGw = 1 .. Len(toGw)
    BY <2>1, RangeEquality, LenProperties
  <2>3. QED
    BY <2>1, <2>2 DEF InFlight
<1>4. QED
  BY EachInvInit, CurrentInit, <1>1, <1>2, <1>3, SessionTypeCorrect, PTL DEF Spec

=============================================================================
