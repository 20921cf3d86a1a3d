--------------------------- MODULE MCKeyedService ---------------------------
(* Symmetry for the runs of KeyedService. *)
EXTENDS KeyedService, TLC

Symmetric ==
    Permutations(Ids) \cup Permutations(Names) \cup Permutations(Rids)
      \cup Permutations(Handlers) \cup Permutations(Keys)

=============================================================================
