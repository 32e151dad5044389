------------------------------- MODULE Session -------------------------------
(***************************************************************************)
(* Logging in: the gateway's ClientManager, the lobby's ClientManager and  *)
(* the messages between them.                                              *)
(*                                                                         *)
(* A client connects to the gateway and gets a connection id (ccid), asks  *)
(* to log in with an account (openid), and the lobby finds or makes the    *)
(* player (cuid) of that account.  The handlers of each process run on its *)
(* main timer thread, one at a time; connections come and go on other      *)
(* threads at any time.  Gateway, router and lobby are joined by one TCP   *)
(* connection per pair, so each direction is a FIFO queue here; the router *)
(* only forwards.                                                          *)
(***************************************************************************)
EXTENDS Naturals, Sequences, FiniteSets

CONSTANTS
  Conns,       \* connection ids; the gateway never gives one out twice
  OpenIds,     \* accounts
  Accounts,    \* the accounts a connection's client may log in with
  MaxLogins,   \* bound: login requests per connection
  Lossy        \* whether the private links may lose messages

ASSUME SessionAssumption ==
  /\ Accounts \in [Conns -> SUBSET OpenIds]
  /\ MaxLogins \in Nat
  /\ Lossy \in BOOLEAN

VARIABLES
  link,        \* the public connections of the gateway's connection manager
  asked,       \* login requests handled so far, by connection
  gw,          \* the gateway's clients: state by connection
  gwCuid,      \* Client::cuid at the gateway
  dying,       \* m_dyingClients
  answer,      \* the last S_LoginRet sent to the connection
  toLobby,     \* LoginQuest messages on their way
  toGw,        \* RetLoginQuest and ClientBeReplaced messages on their way
  clients,     \* the lobby's client objects; the cuid is the position
  index        \* the lobby's three indexes of clients

gwVars == <<link, asked, gw, gwCuid, dying, answer>>
lobbyVars == <<clients, index>>
vars == <<gwVars, toLobby, toGw, lobbyVars>>

NoCuid == 0

LoginQuest(o, k) == [openid |-> o, ccid |-> k]
Replaced(k) == [type |-> "replaced", ccid |-> k, cuid |-> NoCuid]
Ret(code, k, u) == [type |-> code, ccid |-> k, cuid |-> u]

Init ==
  /\ link = [k \in Conns |-> "new"]
  /\ asked = [k \in Conns |-> 0]
  /\ gw = [k \in Conns |-> "absent"]
  /\ gwCuid = [k \in Conns |-> NoCuid]
  /\ dying = {}
  /\ answer = [k \in Conns |-> "none"]
  /\ toLobby = <<>> /\ toGw = <<>>
  /\ clients = <<>>
  /\ index = [openid |-> [o \in OpenIds |-> NoCuid], cuid |-> {},
              ccid |-> [k \in Conns |-> NoCuid]]

-----------------------------------------------------------------------------
(* The gateway. *)

\* newClientConnection: the client is known before its connection is, and is
\* forgotten again when the connection cannot be added.
ClientOnline(k) ==
  /\ link[k] = "new"
  /\ \/ /\ link' = [link EXCEPT ![k] = "open"]
        /\ gw' = [gw EXCEPT ![k] = "logining"]
     \/ /\ link' = [link EXCEPT ![k] = "closed"]
        /\ UNCHANGED gw
  /\ UNCHANGED <<asked, gwCuid, dying, answer, toLobby, toGw, lobbyVars>>

\* The connection is erased and the client with it; the lobby is not told.
ClientOffline(k) ==
  /\ link[k] = "open"
  /\ link' = [link EXCEPT ![k] = "closed"]
  /\ gw' = [gw EXCEPT ![k] = "absent"]
  /\ UNCHANGED <<asked, gwCuid, dying, answer, toLobby, toGw, lobbyVars>>

\* A login request of a client the gateway has forgotten is ignored.
C_Login(k, o) ==
  /\ gw[k] # "absent" /\ asked[k] < MaxLogins
  /\ asked' = [asked EXCEPT ![k] = @ + 1]
  /\ toLobby' = Append(toLobby, LoginQuest(o, k))
  /\ UNCHANGED <<link, gw, gwCuid, dying, answer, toGw, lobbyVars>>

\* Fault: the client is only put on the list of clients to be dropped.
EraseInTimer(k) == UNCHANGED gw /\ dying' = dying \cup {k}

EraseLater(k) == gw' = [gw EXCEPT ![k] = "absent"] /\ dying' = dying \cup {k}

SendToClient(k, ret) ==
  answer' = IF link[k] = "open" THEN [answer EXCEPT ![k] = ret] ELSE answer

\* Fault: the client's state is not advanced.
RetLoginQuestInLogining(m) ==
  /\ gwCuid' = [gwCuid EXCEPT ![m.ccid] = m.cuid]
  /\ IF m.type = "succes" THEN UNCHANGED <<gw, dying>> ELSE EraseLater(m.ccid)
  /\ SendToClient(m.ccid, m.type)

\* The cuid and the state are set before the return code is looked at; a
\* refused client is erased at once all the same.
RetLoginQuest(m) ==
  /\ gwCuid' = [gwCuid EXCEPT ![m.ccid] = m.cuid]
  /\ IF m.type = "succes"
     THEN gw' = [gw EXCEPT ![m.ccid] = "playing"] /\ UNCHANGED dying
     ELSE EraseLater(m.ccid)
  /\ SendToClient(m.ccid, m.type)

ClientBeReplaced(m) == EraseLater(m.ccid) /\ UNCHANGED <<gwCuid, answer>>

\* The next message from the lobby; one for a forgotten client is dropped.
GatewayReceive ==
  /\ toGw # <<>>
  /\ toGw' = Tail(toGw)
  /\ LET m == Head(toGw) IN
     IF gw[m.ccid] = "absent" THEN UNCHANGED <<gw, gwCuid, dying, answer>>
     ELSE IF m.type = "replaced" THEN ClientBeReplaced(m) ELSE RetLoginQuest(m)
  /\ UNCHANGED <<link, asked, toLobby, lobbyVars>>

\* timerExec forgets the dying clients; closing their connections is commented
\* out.
TimerExec ==
  /\ dying # {}
  /\ dying' = {}
  /\ UNCHANGED <<link, asked, gw, gwCuid, answer, toLobby, toGw, lobbyVars>>

-----------------------------------------------------------------------------
(* The lobby.  Client c with cuid u in the indexes ix. *)

Free(ix, u, c) ==
  ix.openid[c.openid] = NoCuid /\ u \notin ix.cuid /\ ix.ccid[c.ccid] = NoCuid

Entered(ix, u, c) ==
  [openid |-> [ix.openid EXCEPT ![c.openid] = u],
   cuid |-> ix.cuid \cup {u},
   ccid |-> [ix.ccid EXCEPT ![c.ccid] = u]]

\* insert undoes its own entries when one of the keys is taken.
Inserted(ix, u, c) == IF Free(ix, u, c) THEN Entered(ix, u, c) ELSE ix

\* Fault: the entry under the connection is kept.
ErasedByCuid(ix, u, c) ==
  [ix EXCEPT !.openid[c.openid] = NoCuid, !.cuid = @ \ {u}]

\* erase goes by the client's keys, whoever is entered under them.
Erased(ix, u, c) ==
  [openid |-> [ix.openid EXCEPT ![c.openid] = NoCuid],
   cuid |-> ix.cuid \ {u},
   ccid |-> [ix.ccid EXCEPT ![c.ccid] = NoCuid]]

\* An account without a player: there is no database, so a player is made.
Register(q) ==
  LET c == [openid |-> q.openid, ccid |-> q.ccid]
      u == Len(clients) + 1
      ok == Free(index, u, c)
  IN /\ clients' = Append(clients, c)
     /\ index' = IF ok THEN Inserted(index, u, c) ELSE Erased(index, u, c)
     /\ toGw' = Append(toGw, Ret(IF ok THEN "succes" ELSE "failed", q.ccid, u))

\* Fault: the connection that is told to leave is the new one.
ReloginKickingNew(q, u) ==
  LET old == clients[u]
      new == [old EXCEPT !.ccid = q.ccid]
      out == Erased(index, u, old)
  IN /\ clients' = [clients EXCEPT ![u] = new]
     /\ index' = Inserted(out, u, new)
     /\ toGw' = toGw \o <<Replaced(new.ccid), Ret("succes", q.ccid, u)>>

\* Fault: the client is erased after it was inserted anew.
ReloginErasingLast(q, u) ==
  LET old == clients[u]
      new == [old EXCEPT !.ccid = q.ccid]
  IN /\ clients' = [clients EXCEPT ![u] = new]
     /\ index' = Erased(Inserted(index, u, new), u, old)
     /\ toGw' = toGw \o <<Replaced(old.ccid), Ret("succes", q.ccid, u)>>

\* The player is moved to its new connection.  When that fails the answer
\* "failed" is followed by the answer "succes".
Relogin(q, u) ==
  LET old == clients[u]
      new == [old EXCEPT !.ccid = q.ccid]
      out == Erased(index, u, old)
  IN /\ clients' = [clients EXCEPT ![u] = new]
     /\ index' = Inserted(out, u, new)
     /\ toGw' = toGw \o <<Replaced(old.ccid)>>
                     \o (IF Free(out, u, new) THEN <<>> ELSE <<Ret("failed", q.ccid, u)>>)
                     \o <<Ret("succes", q.ccid, u)>>

LobbyReceive ==
  /\ toLobby # <<>>
  /\ toLobby' = Tail(toLobby)
  /\ LET q == Head(toLobby)
         u == index.openid[q.openid]
     IN IF u = NoCuid THEN Register(q) ELSE Relogin(q, u)
  /\ UNCHANGED gwVars

-----------------------------------------------------------------------------

\* A private link that is down loses what is sent; nothing is sent again.
Lost(q, i) == SubSeq(q, 1, i - 1) \o SubSeq(q, i + 1, Len(q))
Lose ==
  /\ Lossy
  /\ \/ \E i \in DOMAIN toLobby : toLobby' = Lost(toLobby, i) /\ UNCHANGED toGw
     \/ \E i \in DOMAIN toGw : toGw' = Lost(toGw, i) /\ UNCHANGED toLobby
  /\ UNCHANGED <<gwVars, lobbyVars>>

Next ==
  \/ \E k \in Conns : ClientOnline(k) \/ ClientOffline(k) \/ \E o \in Accounts[k] : C_Login(k, o)
  \/ GatewayReceive
  \/ TimerExec
  \/ LobbyReceive
  \/ Lose

Spec == Init /\ [][Next]_vars

\* The main timer threads of gateway and lobby keep taking messages off their
\* receive queues and calling the timer handlers; clients owe nothing.
LoginFairness ==
  WF_vars(GatewayReceive) /\ WF_vars(LobbyReceive) /\ WF_vars(TimerExec)

-----------------------------------------------------------------------------
(* Correctness. *)

Cuids == 0 .. Len(clients)
GwMessage == [type : {"succes", "failed", "replaced"}, ccid : Conns, cuid : Nat]

\* Types of the gateway's and the lobby's client tables and of the messages
\* between them.
TypeOK ==
  /\ link \in [Conns -> {"new", "open", "closed"}]
  /\ asked \in [Conns -> Nat]
  /\ gw \in [Conns -> {"absent", "logining", "playing"}]
  /\ gwCuid \in [Conns -> Nat]
  /\ dying \subseteq Conns
  /\ answer \in [Conns -> {"none", "succes", "failed"}]
  /\ toLobby \in Seq([openid : OpenIds, ccid : Conns])
  /\ toGw \in Seq(GwMessage)
  /\ clients \in Seq([openid : OpenIds, ccid : Conns])
  /\ index \in [openid : [OpenIds -> Cuids], cuid : SUBSET Cuids, ccid : [Conns -> Cuids]]

\* The lobby's three indexes hold the same clients, each under its own keys: no
\* player becomes unreachable by its account and no message of a connection
\* reaches anybody but a player on that connection.  A player may miss its entry
\* under the connection only when another login over it was refused
\* (client_manager.cpp:166, 194).
IndexesAgree ==
  /\ \A u \in index.cuid :
       /\ index.openid[clients[u].openid] = u
       /\ \/ index.ccid[clients[u].ccid] = u
          \/ \E w \in DOMAIN clients \ index.cuid : clients[w].ccid = clients[u].ccid
  /\ \A o \in OpenIds : index.openid[o] # NoCuid =>
       index.openid[o] \in index.cuid /\ clients[index.openid[o]].openid = o
  /\ \A k \in Conns : index.ccid[k] # NoCuid =>
       index.ccid[k] \in index.cuid /\ clients[index.ccid[k]].ccid = k

\* An account keeps its player, for its rooms and its money hang on the cuid: it
\* loses it only by logging in itself over a connection that carries another
\* account's player, and is then without one, never with somebody else's.
AccountKept ==
  [][\A o \in OpenIds :
       index.openid[o] # NoCuid /\ index'.openid[o] # index.openid[o] =>
         /\ index'.openid[o] = NoCuid
         /\ toLobby # <<>> /\ Head(toLobby).openid = o
         /\ index.ccid[Head(toLobby).ccid] \notin {NoCuid, index.openid[o]}]_vars

InFlight(m) == \E i \in DOMAIN toGw : toGw[i] = m

\* An account plays on one connection: any other connection of the gateway that
\* still plays for the player has its notice to leave under way.
OneConnectionPerAccount ==
  \A k \in Conns : gw[k] = "playing" =>
    clients[gwCuid[k]].ccid = k \/ InFlight(Replaced(k))

\* The connection the lobby believes a player to be on is the one that plays,
\* unless it is closed or the answer is still under way: the login that came
\* last wins, and the messages to the player are not sent to a kicked client.
CurrentPlays ==
  \A k \in Conns : index.ccid[k] # NoCuid /\ link[k] = "open" =>
    gw[k] = "playing" \/ InFlight(Ret("succes", k, index.ccid[k]))

\* A connection that was told its login failed never plays, although the lobby
\* may send a second answer that says the opposite.
RefusedNeverPlays == \A k \in Conns : answer[k] = "failed" => gw[k] # "playing"

\* A login is decided: the connection does not stay in the login state.
LoginAnswered ==
  \A k \in Conns : gw[k] = "logining" /\ asked[k] > 0 ~> gw[k] # "logining"

=============================================================================
