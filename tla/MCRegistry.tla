----------------------------- MODULE MCRegistry -----------------------------
(* Symmetry for the runs of Registry. *)
EXTENDS Registry, TLC

Symmetric == Permutations(Ids) \cup Permutations(Texts)

\* No step depends on the last answer, and no property mentions it.
WithoutAnswer == <<db, syncs, outbox, remote, asked>>

=============================================================================
