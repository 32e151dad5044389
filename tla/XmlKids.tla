-------------------------------- MODULE XmlKids --------------------------------
(***************************************************************************)
(* What the document tree promises: every node has a sequence of children, *)
(* and an operation puts one tree into one place of one sequence, takes    *)
(* one out, or puts one in the place of another.  Trees are forgotten as a *)
(* whole, and a copy has the shape of what it copies.                      *)
(***************************************************************************)
EXTENDS Naturals, Sequences, FiniteSets

CONSTANTS Nodes, Doc

VARIABLES
  alive,       \* the nodes that are
  kids         \* their children


RECURSIVE Under(_, _)
Under(ks, n) == {n} \cup UNION {Under(ks, ks[n][i]) : i \in DOMAIN ks[n]}

Put(s, i, c) == SubSeq(s, 1, i - 1) \o <<c>> \o SubSeq(s, i, Len(s))
Cut(s, i) == SubSeq(s, 1, i - 1) \o SubSeq(s, i + 1, Len(s))

\* Two trees have the same shape.
RECURSIVE Same(_, _, _, _)
Same(ks, n, ls, m) ==
  /\ Len(ks[n]) = Len(ls[m])
  /\ \A i \in DOMAIN ks[n] : Same(ks, ks[n][i], ls, ls[m][i])

\* The other lists are as they were.
Others(p) == \A n \in (alive \cap alive') \ {p} : kids'[n] = kids[n]
Forgotten(S) == alive' = alive \ S

Init == alive = {Doc} /\ kids = [n \in Nodes |-> <<>>]

Create == \E n \in Nodes \ alive : alive' = alive \cup {n} /\ kids' = kids

\* A tree of its own becomes a child.
Link(p, n) ==
  /\ kids'[p] = Append(kids[p], n) /\ Others(p) /\ UNCHANGED alive

\* c, the copy of a tree, becomes a child, at place i of p or in the place of
\* the child that is there.
Copy(c) == \E n \in alive : Same(kids, n, kids', c)

Insert(p, i) ==
  \E c \in Nodes \ alive :
    /\ kids'[p] = Put(kids[p], i, c) /\ Others(p) /\ Copy(c)
    /\ alive' = alive \cup Under(kids', c)

Replace(p, i) ==
  \E c \in Nodes \ alive :
    /\ kids'[p] = [kids[p] EXCEPT ![i] = c] /\ Others(p) /\ Copy(c)
    /\ alive' = (alive \ Under(kids, kids[p][i])) \cup Under(kids', c)

Remove(p, i) ==
  /\ kids'[p] = Cut(kids[p], i) /\ Others(p) /\ Forgotten(Under(kids, kids[p][i]))

Clear(p) ==
  /\ kids'[p] = <<>> /\ Others(p) /\ Forgotten(Under(kids, p) \ {p})

Delete(n) == Others(n) /\ Forgotten(Under(kids, n))

Next ==
  \/ Create
  \/ \E p \in alive :
       \/ \E n \in alive \ {Doc} : Link(p, n)
       \/ \E i \in 1 .. Len(kids[p]) + 1 : Insert(p, i)
       \/ \E i \in DOMAIN kids[p] : Replace(p, i) \/ Remove(p, i)
       \/ Clear(p) \/ Delete(p)

Spec == Init /\ [][Next]_<<alive, kids>>
===============================================================================
