-------------------------- MODULE MCDashboardAuth --------------------------
(***************************************************************************)
(* Instances of DashboardAuth for TLC.                                     *)
(***************************************************************************)
EXTENDS DashboardAuth, TLC

\* Pairs and requests are interchangeable, and the users of a kind.
Symmetry ==
  Permutations(Sessions) \cup Permutations(Requests)
    \cup Permutations(SeedUsers) \cup Permutations(Users \ SeedUsers)
=============================================================================
