----------------------------- MODULE XmlAttributes -----------------------------
(***************************************************************************)
(* The attributes of an element: a ring of records through a sentinel.     *)
(* Record 0 is the sentinel; `held' is what the caller has set and not     *)
(* removed, which the ring has to answer for.                              *)
(***************************************************************************)
EXTENDS Naturals, Sequences, FiniteSets, FiniteSetsExt

CONSTANTS
  MaxAttrs,    \* attributes at a time
  AttrNames,       \* their names, none of them empty
  Contents     \* their values

VARIABLES
  ring,        \* the records: [name, value, next, prev]
  held         \* name -> value

attrVars == <<ring, held>>

Record == 0 .. MaxAttrs
NoValue == "none"
Unused == [name |-> "", value |-> NoValue, next |-> 0, prev |-> 0]

AttrInit == ring = [r \in Record |-> Unused] /\ held = [n \in AttrNames |-> NoValue]

\* The sentinel's next, and the next of each, until the sentinel.
Walk(next) ==
  LET seq[k \in 0 .. MaxAttrs] ==
        IF k = 0 THEN <<>>
        ELSE LET s0 == seq[k - 1]
                 at == IF s0 = <<>> THEN next[0] ELSE next[s0[Len(s0)]]
             IN  IF Len(s0) < k - 1 \/ at = 0 THEN s0 ELSE Append(s0, at)
  IN  seq[MaxAttrs]

InRing == Walk([r \in Record |-> ring[r].next])
Members == {InRing[i] : i \in DOMAIN InRing}

Find(n) == IF \E r \in Members : ring[r].name = n
           THEN InRing[Min({i \in DOMAIN InRing : ring[InRing[i]].name = n})] ELSE 0

\* Add, at the end.
Added(r, n, v) ==
  LET linked == [ring EXCEPT ![r] = [name |-> n, value |-> v, next |-> 0, prev |-> ring[0].prev]]
      before == [linked EXCEPT ![ring[0].prev].next = r]
  IN  [before EXCEPT ![0].prev = r]

\* Variant: an attribute that is there is added again.
SetAgain(n, v) ==
  /\ Record \ (Members \cup {0}) # {}
  /\ ring' = Added(Min(Record \ (Members \cup {0})), n, v)
  /\ held' = [held EXCEPT ![n] = v]

\* FindOrCreate and SetValue.
SetAttribute(n, v) ==
  /\ IF Find(n) # 0 THEN ring' = [ring EXCEPT ![Find(n)].value = v]
     ELSE LET room == Record \ (Members \cup {0}) IN room # {} /\ ring' = Added(Min(room), n, v)
  /\ held' = [held EXCEPT ![n] = v]

Removed(r) ==
  LET forward == [ring EXCEPT ![ring[r].prev].next = ring[r].next]
      back == [forward EXCEPT ![ring[r].next].prev = ring[r].prev]
  IN  [back EXCEPT ![r] = Unused]

RemoveAttribute(n) ==
  /\ ring' = IF Find(n) = 0 THEN ring ELSE Removed(Find(n))
  /\ held' = [held EXCEPT ![n] = NoValue]

\* One of the steps of ClearThis: the first is removed until there is none.
ClearThis ==
  /\ ring[0].next # 0
  /\ ring' = Removed(ring[0].next) /\ held' = [held EXCEPT ![ring[ring[0].next].name] = NoValue]

AttrStep ==
  \/ \E n \in AttrNames, v \in Contents : SetAttribute(n, v)
  \/ \E n \in AttrNames : RemoveAttribute(n)
  \/ ClearThis

\* Each name is answered with what was set last, once, and the ring can be
\* walked both ways.
AttributesAreHeld ==
  /\ \A n \in AttrNames : held[n] = IF Find(n) = 0 THEN NoValue ELSE ring[Find(n)].value
  /\ Cardinality({ring[r].name : r \in Members}) = Len(InRing)
  /\ LET back == Walk([r \in Record |-> ring[r].prev]) IN
       Len(back) = Len(InRing) /\ \A i \in DOMAIN back : back[i] = InRing[Len(back) + 1 - i]
===============================================================================
