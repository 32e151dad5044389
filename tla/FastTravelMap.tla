---------------------------- MODULE FastTravelMap ----------------------------
(***************************************************************************)
(* FastTravelUnorderedMap, the tables of clients of the gateway and of the *)
(* lobby.  Its users call it from one thread or under a lock.  It is also  *)
(* the table of the login tokens, which nothing ever fills: the loop that  *)
(* erases from that one, by iterators, always finds it empty and is left   *)
(* out.                                                                    *)
(*                                                                         *)
(* The header (lines 11-12) warns of a crash when the unordered_map        *)
(* rehashes.  erase holds an iterator of m_map across a write m_map[...];  *)
(* only a write that inserts a key can rehash and leave it behind.         *)
(***************************************************************************)
EXTENDS SwapErase

CONSTANT Keys

VARIABLES
  vec,         \* m_vec
  index        \* m_map

mapVars == <<vec, index>>

MapInit == vec = <<>> /\ index = [k \in {} |-> 0]

MapInsert(k) ==
  /\ k \notin DOMAIN index
  /\ vec' = Added(vec, k) /\ index' = PlacesAdded(vec, index, k)

EraseKey(k) ==
  /\ k \in DOMAIN index
  /\ vec' = Erased(vec, index, k) /\ index' = PlacesErased(vec, index, k)

MapStep == \E k \in Keys : MapInsert(k) \/ EraseKey(k)

MapSpec == MapInit /\ [][MapStep]_mapVars

\* A key is found at the place the table names, whatever was erased before.
IndexAgrees == Agrees(vec, index)

\* Erasing k inserts a key: the one of the last entry, which takes its place, is
\* not in the table.
Inserts(k) == index[k] # Len(vec) /\ vec[Len(vec)] \notin DOMAIN index

\* However keys came and went, no erase inserts a key, so none rehashes the table
\* under its own iterator, as the header fears.
EraseNeverRehashes == \A k \in DOMAIN index : vec # <<>> /\ ~ Inserts(k)
=============================================================================
