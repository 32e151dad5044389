------------------------------ MODULE SwapErase ------------------------------
(***************************************************************************)
(* A vector of keys and a table of their places, as FastTravelUnorderedMap *)
(* and Event keep them: the last entry takes the place of an erased one.   *)
(* Places count from 1 and an entry is its key; what is stored under it    *)
(* travels with it.                                                        *)
(***************************************************************************)
EXTENDS Naturals, Sequences

\* A key that is not there is put at the end.
Added(v, k) == Append(v, k)
PlacesAdded(v, p, k) == [j \in DOMAIN p \cup {k} |-> IF j = k THEN Len(v) + 1 ELSE p[j]]

\* Erasing the only entry, which the code does apart, comes to the same.
Erased(v, p, k) ==
  [i \in 1 .. Len(v) - 1 |-> IF i = p[k] THEN v[Len(v)] ELSE v[i]]

\* Fault: the table keeps the old place of the entry that moved.
PlacesErasedUnmoved(v, p, k) == [j \in DOMAIN p \ {k} |-> p[j]]

PlacesErased(v, p, k) ==
  [j \in DOMAIN p \ {k} |-> IF j = v[Len(v)] THEN p[k] ELSE p[j]]

\* The table has every entry of the vector at its place and nothing else.
Agrees(v, p) ==
  /\ \A i \in 1 .. Len(v) : v[i] \in DOMAIN p /\ p[v[i]] = i
  /\ \A k \in DOMAIN p : p[k] \in 1 .. Len(v) /\ v[p[k]] = k
=============================================================================
