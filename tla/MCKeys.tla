------------------------------- MODULE MCKeys -------------------------------
(***************************************************************************)
(* Small instances of Keys.                                                *)
(***************************************************************************)
EXTENDS Keys, TLC

\* A partner key that expires, and inputs CreateKey must refuse.
Good    == [nameOk |-> TRUE, rank |-> "partner", scopes |-> {"tw"}, expires |-> 1]
Unknown == [nameOk |-> TRUE, rank |-> "", scopes |-> {"tw", "other"}, expires |-> Never]

MCInputs == {Good, Unknown}
OnlyGood == {Good}
Symmetry ==
  Permutations(Admins) \cup Permutations(Replicas) \cup Permutations(Clients)
    \cup Permutations(Secrets \ {Seed})
=============================================================================
