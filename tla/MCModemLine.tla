---------------------------- MODULE MCModemLine -----------------------------
(* Instances of ModemLine for TLC.                                         *)
EXTENDS ModemLine, TLC

CONSTANTS m1, m2

\* A long message in UCS2 and a plain one.
Mixed    == (m1 :> "UCS2") @@ (m2 :> "IRA")
LongOnce == (m1 :> 2) @@ (m2 :> 1)
=============================================================================
