------------------------------ MODULE MCAccess ------------------------------
(* Instances of Access for TLC.                                            *)
EXTENDS Access, TLC

CONSTANTS s1, s2, a1, a2, a3, t1

\* Shorter than the code's, in its proportions: the lock of a key outlasts the
\* window, that of a login is as long as it.
ShortWindow   == [key |-> 1, login |-> 2]
ShortLockTime == [key |-> 2, login |-> 2]

\* Attempts are alike. (Sources are not: a free slot names one.)
Symmetry == Permutations(Attempts)
=============================================================================
