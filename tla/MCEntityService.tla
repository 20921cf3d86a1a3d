-------------------------- MODULE MCEntityService --------------------------
(* Symmetry and a view for the runs of EntityService that check no liveness. *)
EXTENDS EntityService, TLC

Symmetric ==
    Permutations(Ids) \cup Permutations(Names)
      \cup Permutations(Rids) \cup Permutations(Handlers)

\* No step depends on the last answer of a handler, and the properties that
\* mention it are about the step that gives it.
WithoutAnswers ==
    <<stage1Vars, db, outbox,
      [h \in Handlers |-> [handlers[h] EXCEPT !.answer = "none"]]>>

=============================================================================
