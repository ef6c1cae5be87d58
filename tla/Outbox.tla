------------------------------- MODULE Outbox -------------------------------
(***************************************************************************)
(* What the outbound path of the gateway promises when nothing goes wrong  *)
(* in its bookkeeping: an accepted message is recorded as queued, its      *)
(* segments go out in order and once each, and it is then resolved, once,  *)
(* as sent (only after its last segment) or as failed.                     *)
(*                                                                         *)
(* The detailed module Delivery implements this specification as long as   *)
(* the process does not die, the database takes the status writes, the     *)
(* modem's answers are truthful, and a dispatch is over before the reaper  *)
(* considers its message (run delivery_outbox).                            *)
(***************************************************************************)
EXTENDS Naturals

CONSTANTS
  Msgs,     \* the messages clients may submit
  Parts     \* Parts[m]: how many SMS segments message m takes

VARIABLES
  row,      \* row[m]: the status column of m, "none" before the insert
  aired     \* aired[m][p]: copies of segment p of m the network took

vars == <<row, aired>>

Segments(m) == 1..Parts[m]
Resolved == {"sent", "failed"}

Init ==
  /\ row = [m \in Msgs |-> "none"]
  /\ aired = [m \in Msgs |-> [p \in Segments(m) |-> 0]]

Accept(m) ==
  /\ row[m] = "none"
  /\ row' = [row EXCEPT ![m] = "queued"]
  /\ UNCHANGED aired

\* The next segment, and never one that is already out.
Air(m, p) ==
  /\ row[m] = "queued"
  /\ \A q \in Segments(m) : aired[m][q] = (IF q < p THEN 1 ELSE 0)
  /\ aired' = [aired EXCEPT ![m][p] = 1]
  /\ UNCHANGED row

Resolve(m, status) ==
  /\ row[m] = "queued"
  /\ status = "sent" => \A p \in Segments(m) : aired[m][p] = 1
  /\ row' = [row EXCEPT ![m] = status]
  /\ UNCHANGED aired

Next == \E m \in Msgs :
  \/ Accept(m)
  \/ \E p \in Segments(m) : Air(m, p)
  \/ \E status \in Resolved : Resolve(m, status)

\* The abstract specification promises no progress by itself.
Spec == Init /\ [][Next]_vars
=============================================================================
