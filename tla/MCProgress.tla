----------------------------- MODULE MCProgress -----------------------------
(***************************************************************************)
(* What must happen in the end: logins are decided, packets arrive, votes  *)
(* and settled rooms time out.  Logins, a link and rooms do not share      *)
(* state; each behavior is about one of them.                              *)
(***************************************************************************)
EXTENDS MCSession, TcpLink

CONSTANTS Clients, NoOne, Rooms, NoRoom, NoConn
VARIABLES part, room, roomOf, money, ccid, known, linked

G == INSTANCE Game13 WITH Conns <- {k1, k2}, Sizes <- {2}, Limits <- {1}, Payors <- {12},
                          InitMoney <- 15, VoteTicks <- 2, SettleTicks <- 1

roomVars == <<room, roomOf, money, ccid, known, linked>>
progressVars == <<part, vars, linkVars, roomVars>>

ProgressInit == part \in {"logins", "link", "rooms"} /\ Init /\ TcpInit /\ G!Init

Logins == part = "logins" /\ Next /\ UNCHANGED <<part, linkVars, roomVars>>
Packets == part = "link" /\ TcpNext /\ UNCHANGED <<part, vars, roomVars>>
Playing == part = "rooms" /\ G!Next /\ UNCHANGED <<part, vars, linkVars>>

\* What is not at work has no steps to take, so its fairness asks nothing.
ProgressSpec ==
  /\ ProgressInit /\ [][Logins \/ Packets \/ Playing]_progressVars
  /\ LoginFairness /\ SendFairness /\ RecvFairness /\ G!TimerFairness

\* The timeouts of votes and of settled rooms take effect (game13.cpp:896-926).
TimeoutsFireWhenQuiet == G!TimeoutsFireWhenQuiet

=============================================================================
