-------------------------- MODULE MCExtensionAuth --------------------------
(***************************************************************************)
(* Instances of ExtensionAuth for TLC.                                     *)
(***************************************************************************)
EXTENDS ExtensionAuth, TLC

\* Tokens and requests are interchangeable, and accounts of one domain.
Symmetry ==
  Permutations(Tokens) \cup Permutations(Requests) \cup Permutations(Accounts)
=============================================================================
