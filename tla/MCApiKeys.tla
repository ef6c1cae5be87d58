----------------------------- MODULE MCApiKeys ------------------------------
(* Instances of ApiKeys for TLC.                                           *)
EXTENDS ApiKeys, TLC

CONSTANTS k1, k2, r1, r2, a1, a2

\* Keys, requests and handlers are alike.
Symmetry == Permutations(Keys) \union Permutations(Requests)
              \union Permutations(Admins)
=============================================================================
