----------------------------- MODULE MCDelivery -----------------------------
(* Instances of Delivery for TLC.                                          *)
EXTENDS Delivery, TLC

CONSTANTS m1, m2, MaxSlips

\* One plain message and one of two segments; or one message of two segments.
PlainAndLong == [m \in Msgs |-> IF m = m2 THEN 2 ELSE 1]
Plain        == [m \in Msgs |-> 1]

\* A state constraint: a dispatch that is never polled would let the reaper
\* overlap it again and again.
SlipsBounded == \A m \in Msgs : slips[m] <= MaxSlips

Symmetry     == Permutations(Msgs)
Long         == [m \in Msgs |-> 2]
=============================================================================
