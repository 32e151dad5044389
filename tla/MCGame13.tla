------------------------------ MODULE MCGame13 ------------------------------
(* Instances of Game13 for TLC: clients, room slots and connections are
   interchangeable. *)
EXTENDS Game13, TLC

Symmetry == Permutations(Clients) \cup Permutations(Rooms) \cup Permutations(Conns)

=============================================================================
