------------------------------- MODULE Inbox --------------------------------
(***************************************************************************)
(* What the inbound path of the gateway promises about a message the modem *)
(* has stored: it is recorded in the database at most once, and it is      *)
(* removed from the modem only after that. It does not promise that every  *)
(* stored message is recorded, nor that every recorded one is removed.     *)
(*                                                                         *)
(* The detailed module Inbound implements this specification as long as no *)
(* answer of the modem comes after the service stopped waiting for it (run *)
(* inbound_inbox).                                                         *)
(***************************************************************************)
EXTENDS Naturals

CONSTANT Msgs   \* the messages the network may deliver

VARIABLES
  held,   \* the messages in the modem's storage
  saved   \* saved[m]: rows of inbound_messages that hold m

vars == <<held, saved>>

Init == held = {} /\ saved = [m \in Msgs |-> 0]

Store(m) ==
  /\ m \notin held /\ saved[m] = 0
  /\ held' = held \union {m}
  /\ UNCHANGED saved

Save(m) ==
  /\ m \in held /\ saved[m] = 0
  /\ saved' = [saved EXCEPT ![m] = 1]
  /\ UNCHANGED held

Remove(m) ==
  /\ m \in held /\ saved[m] = 1
  /\ held' = held \ {m}
  /\ UNCHANGED saved

Next == \E m \in Msgs : Store(m) \/ Save(m) \/ Remove(m)

Spec == Init /\ [][Next]_vars
=============================================================================
