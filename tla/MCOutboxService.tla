-------------------------- MODULE MCOutboxService --------------------------
(* Symmetry for the runs of OutboxService that check no liveness. *)
EXTENDS OutboxService, TLC

Symmetric ==
    Permutations(Ids) \cup Permutations(Names)
      \cup Permutations(Rids) \cup Permutations(Runs)

=============================================================================
