------------------------------- MODULE Service -------------------------------
(***************************************************************************)
(* green_relay as a process: it comes up as Startup says, serves with the  *)
(* configuration it has loaded (build_router), and takes with it, when it  *)
(* ends, what Admission and Readers keep in memory (lib.rs, main.rs).      *)
(*                                                                         *)
(* The pure parts, Settings, Segmentation and Status, are checked against  *)
(* what they are to do: there are behaviours of one state each in which    *)
(* nothing happens, but an input is picked for them.                       *)
(***************************************************************************)
EXTENDS Startup, Admission, Readers

CONSTANTS
  Workloads, \* what the clients of a behaviour do, sets of kinds of traffic
  Steady,    \* the set-up of the service in the behaviours with clients
  LoadInputs,\* set-ups that Settings is checked on
  Bodies,    \* bodies that Segmentation is checked on
  Attempts   \* counts of attempts that Backoff is checked on

VARIABLES
  load, \* what the clients do
  input \* what a pure part is given, where nothing is done

serviceVars == <<startupVars, admissionVars, readersVars, load, input>>

Inputs == CASE load = {"cut"}     -> Bodies
            [] load = {"load"}    -> LoadInputs
            [] load = {"report"}  -> Snapshots
            [] load = {"backoff"} -> Attempts
            [] OTHER              -> {Missing}
Idle == load \in {{"cut"}, {"load"}, {"report"}, {"backoff"}}

ServiceAssumption == Steady \in Setups["service"] /\ Loads(Found[Steady])
ASSUME ServiceAssumption

Init ==
  /\ load \in Workloads /\ input \in Inputs
  /\ Init0 /\ InitAdmission /\ InitReaders
  /\ load # {} => \A p \in Procs : setup[p] = Steady
  /\ load # {} => (\A d \in Disks : recorded[d] = Version) /\ trouble = MaxTrouble - 1

NoTraffic == UNCHANGED <<admissionVars, readersVars, load, input>>

\* The service starts to answer with the limits it was configured with.
ServiceUp ==
  LET c == conf["service"] IN
  /\ Bind /\ Open(c["DEFAULT_RATE_LIMIT"], c["RATE_WINDOW_SECS"])
  /\ UNCHANGED <<readersVars, load, input>>

\* It ends, and forgets all but the tables.
ServiceDown ==
  /\ Fail("service") /\ Close /\ CutOff
  /\ UNCHANGED <<wall, table, load, input>>

Starts == ~Idle /\ Launch("service")

\* Everything else that processes do to come up. In the behaviours with clients
\* nobody edits set-ups or runs the tool.
Coming ==
  /\ \/ Starts \/ Restart \/ \E p \in Procs : Step(p)
     \/ UpsertAdmin \/ Fail("tool") \/ RunAgain
     \/ load = {} /\ (Launch("tool") \/ \E p \in Procs : Edit(p))
  /\ NoTraffic

Sending ==
  /\ Serving /\ "send" \in load /\ Traffic
  /\ UNCHANGED <<startupVars, readersVars, load, input>>

Reading ==
  /\ Serving
  /\ \/ load \intersect {"read", "watch"} # {} /\ Recording
     \/ "read" \in load /\ Paging
     \/ "watch" \in load /\ Watching
  /\ UNCHANGED <<startupVars, admissionVars, load, input>>

Next == Coming \/ ServiceUp \/ ServiceDown \/ Sending \/ Reading

\* The runtime goes on with the service whenever it can, and systemd starts it
\* again.
Upwards ==
  \/ (Starts \/ Step("service") \/ Restart) /\ NoTraffic
  \/ ServiceUp
Spec == Init /\ [][Next]_serviceVars /\ WF_serviceVars(Upwards)

-----------------------------------------------------------------------------
(* Properties.                                                             *)

\* The type invariants of the parts.
TypeOK == StartupTypeOK /\ AdmissionTypeOK /\ ReadersTypeOK

\* Every configuration is loaded as it should be, see LoadsRight (config::load).
LoadsAreRight == load = {"load"} => LoadsRight(input)

\* Every body is cut as it should be, see CutRight (segment_message).
SegmentsRight == load = {"cut"} => CutRight(input)

\* Whatever the modem answered, what is reported of it and what is decided on it
\* agree, see Agrees (derive_health, deliverability_gate,
\* build_status_response, parse_csq_percent).
StatusAgrees == load = {"report"} => Agrees(input)

\* The delay before the port is opened again doubles up to its cap, whatever the
\* count of attempts, see Doubles (reconnect_backoff_secs).
BackoffDoubles == load = {"backoff"} => Doubles(input)
=============================================================================
