----------------------------- MODULE MCSession -----------------------------
(* Instances of Session for TLC: two or three connections, two accounts. *)
EXTENDS Session, TLC

CONSTANTS k1, k2, k3, oA, oB

\* Every connection belongs to one account; two of them to the same.
OneEach == (k1 :> {oA}) @@ (k2 :> {oA}) @@ (k3 :> {oB})

\* The client of the first connection knows both accounts.
SharedConn == (k1 :> {oA, oB}) @@ (k2 :> {oA})

=============================================================================
