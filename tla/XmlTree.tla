-------------------------------- MODULE XmlTree --------------------------------
(***************************************************************************)
(* The document tree of the XML reader: nodes that point to their parent,  *)
(* their siblings and their first and last child, the operations that      *)
(* relink them, and the lookups the configuration files are read with.     *)
(* Nodes are numbers; the free ones are used from the lowest.  A node that *)
(* has no parent belongs to the caller.                                    *)
(***************************************************************************)
EXTENDS Naturals, Sequences, FiniteSets, FiniteSetsExt, Functions, SequencesExt

CONSTANTS
  MaxNodes,    \* nodes at a time, the document not counted
  Tags       \* names of elements; "text" is a node that is no element

Doc == 0
Null == MaxNodes + 1
Ids == 0 .. MaxNodes

VARIABLE dom   \* the nodes: [value, parent, first, last, prev, next]

Live == {n \in Ids : dom.value[n] # "free"}
Free == Ids \ Live

TreeInit ==
  dom = [value |-> [n \in Ids |-> IF n = Doc THEN "document" ELSE "free"],
       parent |-> [n \in Ids |-> Null], first |-> [n \in Ids |-> Null],
       last |-> [n \in Ids |-> Null], prev |-> [n \in Ids |-> Null], next |-> [n \in Ids |-> Null]]

\* A write through a pointer, which is not made through a null one.
Set(f, n, v) == IF n = Null THEN f ELSE [f EXCEPT ![n] = v]

---------------------------------------------------------------------------
\* What the destructor of n reaches, and what Clone copies.

Reached(x, n) ==
  LET step[k \in 0 .. MaxNodes] ==
        IF k = 0 THEN {n}
        ELSE LET S == step[k - 1] IN
             S \cup (({x.first[m] : m \in S} \cup {x.next[m] : m \in S \ {n}}) \ {Null})
  IN  step[MaxNodes]

\* ~TiXmlNode of n.
Deleted(x, n) ==
  LET S == Reached(x, n)
      Wipe(f) == [m \in Ids |-> IF m \in S THEN Null ELSE f[m]]
  IN  [value |-> [m \in Ids |-> IF m \in S THEN "free" ELSE x.value[m]],
       parent |-> Wipe(x.parent), first |-> Wipe(x.first), last |-> Wipe(x.last),
       prev |-> Wipe(x.prev), next |-> Wipe(x.next)]

\* The copies of the nodes under n are linked as the nodes are, and that of n
\* has no parent and no siblings yet.
RoomFor(n) == Cardinality(Reached(dom, n)) <= Cardinality(Free)
CopyOf(n) == LET S == Reached(dom, n) IN
  CHOOSE f \in [S -> Free] : IsInjective(f) /\ f[n] = Min(Free)
Copied(n) ==
  LET f == CopyOf(n)
      Image(m) == IF m \in DOMAIN f THEN f[m] ELSE Null
      Copy(g, top) == [m \in Ids |->
        IF m \in Range(f)
        THEN LET o == CHOOSE o \in DOMAIN f : f[o] = m IN IF o = n /\ top THEN Null ELSE Image(g[o])
        ELSE g[m]]
  IN  [value |-> [m \in Ids |-> IF m \in Range(f) THEN dom.value[CHOOSE o \in DOMAIN f : f[o] = m]
                                 ELSE dom.value[m]],
       parent |-> Copy(dom.parent, TRUE), first |-> Copy(dom.first, FALSE), last |-> Copy(dom.last, FALSE),
       prev |-> Copy(dom.prev, TRUE), next |-> Copy(dom.next, TRUE)]

---------------------------------------------------------------------------
\* The links, in a tree x.

LinkedLast(x, p, n) ==
  [x EXCEPT !.parent = Set(@, n, p), !.prev = Set(@, n, x.last[p]),
            !.next = Set(Set(@, n, Null), x.last[p], n),
            !.first = IF x.last[p] = Null THEN Set(@, p, n) ELSE @,
            !.last = Set(@, p, n)]

LinkedBefore(x, p, b, n) ==
  [x EXCEPT !.parent = Set(@, n, p), !.next = Set(Set(@, n, b), x.prev[b], n),
            !.prev = Set(Set(@, n, x.prev[b]), b, n),
            !.first = IF x.prev[b] = Null THEN Set(@, p, n) ELSE @]

LinkedAfter(x, p, a, n) ==
  [x EXCEPT !.parent = Set(@, n, p), !.prev = Set(Set(@, n, a), x.next[a], n),
            !.next = Set(Set(@, n, x.next[a]), a, n),
            !.last = IF x.next[a] = Null THEN Set(@, p, n) ELSE @]

LinkedFor(x, p, r, n) ==
  [x EXCEPT !.parent = Set(@, n, p), !.next = Set(Set(@, n, x.next[r]), x.prev[r], n),
            !.prev = Set(Set(@, n, x.prev[r]), x.next[r], n),
            !.last = IF x.next[r] = Null THEN Set(@, p, n) ELSE @,
            !.first = IF x.prev[r] = Null THEN Set(@, p, n) ELSE @]

\* Variant: the last child is not set back.
UnlinkedKeepsLast(x, p, r) ==
  [x EXCEPT !.prev = Set(@, x.next[r], x.prev[r]), !.next = Set(@, x.prev[r], x.next[r]),
            !.first = IF x.prev[r] = Null THEN Set(@, p, x.next[r]) ELSE @]

Unlinked(x, p, r) ==
  [x EXCEPT !.prev = Set(@, x.next[r], x.prev[r]), !.next = Set(@, x.prev[r], x.next[r]),
            !.last = IF x.next[r] = Null THEN Set(@, p, x.prev[r]) ELSE @,
            !.first = IF x.prev[r] = Null THEN Set(@, p, x.next[r]) ELSE @]

---------------------------------------------------------------------------
\* The operations.  A caller links only a tree of its own, and not below itself.

Parents == {n \in Live : dom.value[n] # "text"}
Detached == {n \in Live \ {Doc} : dom.parent[n] = Null}

Create(v) == Free # {} /\ dom' = [dom EXCEPT !.value[Min(Free)] = v]
LinkEndChild(p, n) ==
  n \in Detached /\ p \notin Reached(dom, n) /\ dom' = LinkedLast(dom, p, n)
InsertEndChild(p, n) == RoomFor(n) /\ dom' = LinkedLast(Copied(n), p, CopyOf(n)[n])
InsertBeforeChild(p, b, n) ==
  RoomFor(n) /\ dom.parent[b] = p /\ dom' = LinkedBefore(Copied(n), p, b, CopyOf(n)[n])
InsertAfterChild(p, a, n) ==
  RoomFor(n) /\ dom.parent[a] = p /\ dom' = LinkedAfter(Copied(n), p, a, CopyOf(n)[n])
ReplaceChild(p, r, n) ==
  /\ RoomFor(n) /\ dom.parent[r] = p
  /\ dom' = Deleted(LinkedFor(Copied(n), p, r, CopyOf(n)[n]), r)
RemoveChild(p, r) == dom.parent[r] = p /\ dom' = Deleted(Unlinked(dom, p, r), r)

\* The children go one by one, and then the two pointers.
Clear(p) ==
  LET gone == Reached(dom, p) \ {p}
      Wipe(f) == [m \in Ids |-> IF m \in gone THEN Null ELSE f[m]]
  IN  dom' = [value |-> [m \in Ids |-> IF m \in gone THEN "free" ELSE dom.value[m]],
            parent |-> Wipe(dom.parent), first |-> Set(Wipe(dom.first), p, Null),
            last |-> Set(Wipe(dom.last), p, Null), prev |-> Wipe(dom.prev), next |-> Wipe(dom.next)]

Delete(n) == n \in Detached /\ dom' = Deleted(dom, n)

TreeStep ==
  \/ \E v \in Tags \cup {"text"} : Create(v)
  \/ \E p \in Parents :
       \/ \E n \in Live : LinkEndChild(p, n) \/ (n # Doc /\ InsertEndChild(p, n))
       \/ \E c \in Live, n \in Live \ {Doc} :
            InsertBeforeChild(p, c, n) \/ InsertAfterChild(p, c, n) \/ ReplaceChild(p, c, n)
       \/ \E c \in Live : RemoveChild(p, c)
       \/ Clear(p)
  \/ \E n \in Live : Delete(n)

---------------------------------------------------------------------------
\* Lookups: the first node at or after m, in the direction of a pointer, that
\* is in S.

Seek(pointer, m, S) ==
  LET from[n \in Ids \cup {Null}] == IF n = Null \/ n \in S THEN n ELSE from[pointer[n]]
  IN  from[m]

Valued(v) == {n \in Live : dom.value[n] = v}
Elements == {n \in Live : dom.value[n] \notin {"text", "document", "free"}}

FirstChild(p, v) == Seek(dom.next, dom.first[p], Valued(v))
LastChild(p, v) == Seek(dom.prev, dom.last[p], Valued(v))
NextSibling(n, v) == Seek(dom.next, dom.next[n], Valued(v))
PreviousSibling(n, v) == Seek(dom.prev, dom.prev[n], Valued(v))
FirstChildElement(p) == Seek(dom.next, dom.first[p], Elements)
NextSiblingElement(n) == Seek(dom.next, dom.next[n], Elements)

\* The element that `count' steps over the elements named v reach.
ChildElement(p, v, count) ==
  LET nth[k \in 0 .. count] ==
        IF k = 0 THEN FirstChild(p, v)
        ELSE IF nth[k - 1] = Null THEN Null ELSE NextSibling(nth[k - 1], v)
  IN  nth[count]

\* for (node = parent.getChild(v); node; ++node), and back from the last.
Visit(start, step) ==
  LET visited[k \in 0 .. MaxNodes] ==
        IF k = 0 THEN IF start = Null THEN <<>> ELSE <<start>>
        ELSE LET s == visited[k - 1] IN
             IF Len(s) < k \/ step[s[k]] = Null THEN s ELSE Append(s, step[s[k]])
  IN  visited[MaxNodes]

---------------------------------------------------------------------------
\* The children of p in order: the chain from its first child.
Chain(p) == Visit(dom.first[p], dom.next)
KidsOf == [n \in Ids |-> IF n \in Live THEN Chain(n) ELSE <<>>]

Kids == INSTANCE XmlKids WITH Nodes <- Ids, Doc <- Doc, alive <- Live, kids <- KidsOf

\* Every change of the links is one of those steps.
KeepsKids == Kids!Init /\ [][dom' # dom => Kids!Next]_dom

\* Every list can be walked both ways, its ends are where the parent says, and
\* its members are the nodes whose parent it is.
ListsAgree ==
  \A p \in Live :
    LET ks == KidsOf[p] IN
      /\ \A i \in DOMAIN ks : dom.prev[ks[i]] = IF i = 1 THEN Null ELSE ks[i - 1]
      /\ dom.last[p] = IF ks = <<>> THEN Null ELSE Last(ks)
      /\ {ks[i] : i \in DOMAIN ks} = {n \in Live : dom.parent[n] = p}

\* The loops over the configuration visit the children of a name in order.
LoopsVisitAll ==
  \A p \in Parents, v \in Tags :
    LET named == SelectSeq(KidsOf[p], LAMBDA n : dom.value[n] = v)
        elements == SelectSeq(KidsOf[p], LAMBDA n : n \in Elements)
    IN  /\ Visit(FirstChild(p, v), [n \in Ids |-> NextSibling(n, v)]) = named
        /\ Visit(LastChild(p, v), [n \in Ids |-> PreviousSibling(n, v)]) = Reverse(named)
        /\ Visit(FirstChildElement(p), [n \in Ids |-> NextSiblingElement(n)]) = elements
        /\ \A k \in 0 .. MaxNodes :
             ChildElement(p, v, k) = IF k < Len(named) THEN named[k + 1] ELSE Null
===============================================================================
