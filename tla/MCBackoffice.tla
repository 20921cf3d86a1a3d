---------------------------- MODULE MCBackoffice ----------------------------
(* Symmetry and a view for the run of Backoffice. *)
EXTENDS Backoffice, TLC

Symmetric ==
    Permutations(Ids) \cup Permutations(Names) \cup Permutations(Rids)
      \cup Permutations(Handlers) \cup Permutations(Runs)

\* No step and no property of Backoffice depends on the last HTTP answers.
WithoutAnswers ==
    LET silent == [h \in Handlers |-> [handlers[h] EXCEPT !.answer = "none"]]
    IN  <<stage1Vars, db, silent, outbox, runs, missed>>

=============================================================================
