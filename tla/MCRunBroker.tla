---------------------------- MODULE MCRunBroker ----------------------------
(* RunBroker for TLC: the symmetry of the identifiers of each instance. *)
EXTENDS RunBroker, TLC

\* runs, approvals and commands are only compared, never ordered
IdSymmetry == Permutations(Runs) \cup Permutations(ApprovalIds)
                  \cup Permutations(CommandIds)
=============================================================================
