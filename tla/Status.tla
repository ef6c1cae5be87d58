------------------------------- MODULE Status -------------------------------
(***************************************************************************)
(* What the answers of the modem are taken to mean: the snapshot of its    *)
(* status, what health and deliverability are derived from it, and how     *)
(* long to wait before the port is opened again (modem/protocol.rs,        *)
(* health.rs, api/v1.rs).                                                  *)
(***************************************************************************)
EXTENDS Integers

None == -1  \* a value that is not known, or an answer without the line

-----------------------------------------------------------------------------
(* Answers. Each is the field of the line that counts, or None.            *)

\* parse_cpin: 0 stands for READY, 1 for any other code.
Sim(cpin) == IF cpin = None THEN "unknown"
             ELSE IF cpin = 0 THEN "ready" ELSE "not_ready"

\* parse_creg_registered: at home or roaming.
Registered(creg) == creg \in {1, 5}

\* Mutant: 99, "not known or not detectable", is scaled like a strength.
SignalOfUnknown(csq) == IF csq = None THEN None ELSE (csq * 100) \div 31

\* parse_csq_percent.
Signal(csq) ==
  IF csq = None \/ csq = 99 \/ csq > 31 THEN None ELSE (csq * 100) \div 31

\* refresh_status, once its four answers are in; the operator, a name, is 1.
Snapshot(answered, cpin, creg, csq, cops) ==
  [connected |-> TRUE, responsive |-> answered, sim |-> Sim(cpin),
   registered |-> Registered(creg), signal |-> Signal(csq), operator |-> cops]

\* mark_disconnected keeps the rest as it was last known.
Disconnected(s) == [s EXCEPT !.connected = FALSE, !.responsive = FALSE]

-----------------------------------------------------------------------------
(* What follows from them.                                                 *)

Health(s) ==
  IF ~s.connected \/ ~s.responsive \/ s.sim # "ready" THEN "unhealthy"
  ELSE IF ~s.registered THEN "degraded" ELSE "healthy"

\* deliverability_gate.
Deliverable(s) == s.connected /\ s.sim = "ready" /\ s.registered

\* build_health_response, and the fields of build_status_response.
HealthCode(s) == IF Health(s) = "unhealthy" THEN 503 ELSE 200
StatusFields(s) ==
  [signal |-> s.signal, operator |-> s.operator,
   registered |-> IF ~s.responsive THEN None ELSE IF s.registered THEN 1 ELSE 0]
Unavailable(s) == {f \in {"signal", "operator", "registered"} :
                     StatusFields(s)[f] = None}

\* Mutant: the doubling goes one step too far.
BackoffPastCap(attempt) ==
  LET exponent == IF attempt = 0 THEN 0 ELSE attempt - 1 IN
  IF exponent >= 7 THEN 60 ELSE 2 ^ exponent

\* reconnect_backoff_secs, for the attempt of backoff_or_giveup.
BackoffCap == 60
Backoff(attempt) ==
  LET exponent == IF attempt = 0 THEN 0 ELSE attempt - 1 IN
  IF exponent >= 6 \/ 2 ^ exponent > BackoffCap THEN BackoffCap ELSE 2 ^ exponent

-----------------------------------------------------------------------------
(* What they are to agree on.                                              *)

Answers == [answered : BOOLEAN, cpin : {None, 0, 1}, creg : {None} \union 0..5,
            csq : {None} \union 0..31 \union {50, 99, 200}, cops : {None, 1}]
Refreshed == {Snapshot(a.answered, a.cpin, a.creg, a.csq, a.cops) : a \in Answers}
Snapshots == Refreshed \union {Disconnected(s) : s \in Refreshed}

\* /health, /status and the gate speak of one modem: a send is refused unless
\* the service is healthy, but for a modem that missed the last refresh and may
\* still take it; what /status calls available is known, and a strength is a
\* percentage.
Agrees(s) ==
  /\ Health(s) = "healthy" => Deliverable(s)
  /\ Deliverable(s) => Health(s) = "healthy" \/ ~s.responsive
  /\ HealthCode(s) = 200 /\ ~Deliverable(s) => Health(s) = "degraded"
  /\ s.signal \in {None} \union 0..100
  /\ ~s.connected => "registered" \in Unavailable(s)

\* The delays double from one second to the cap and stay there.
Doubles(attempt) ==
  Backoff(attempt) =
    IF attempt = 1 THEN 1
    ELSE IF 2 * Backoff(attempt - 1) > BackoffCap THEN BackoffCap
    ELSE 2 * Backoff(attempt - 1)
=============================================================================
