------------------------------ MODULE Inbound -------------------------------
(***************************************************************************)
(* The inbound path of green_relay: from the modem's storage to the        *)
(* inbound_messages table (modem/session.rs, modem/transport.rs).          *)
(*                                                                         *)
(* Actors:                                                                 *)
(*   - the modem, which stores what the network delivers, announces it     *)
(*     with +CMTI on the serial line, and answers commands one by one;     *)
(*   - the session of the modem manager, which reads, records and deletes  *)
(*     the announced messages between its other commands, and which knows  *)
(*     an answer only by its being the next terminator on the line.        *)
(* The modem's storage and the database survive the loss of the port and   *)
(* of the process; the list of announced indexes does not.                 *)
(***************************************************************************)
EXTENDS Naturals, Sequences

CONSTANTS
  Msgs,       \* the messages the network may deliver
  Slots,      \* the indexes of the modem's message storage
  MaxReads,   \* attempts to read an index (3 in handle_inbound_inner)
  MaxLate,    \* bound on answers that come after their exchange timed out
  MaxFaults,  \* bound on commands that fail or stay unanswered, failed
              \* inserts and audit records, lost ports and dead processes
  None        \* stands for "no message"

ASSUME InboundAssumption ==
  /\ MaxReads \in Nat \ {0} /\ MaxLate \in Nat /\ MaxFaults \in Nat
  /\ None \notin Msgs

VARIABLES
  stored,     \* stored[i]: the message at index i of the modem's storage
  arrived,    \* the messages the network has delivered to the modem
  announced,  \* those whose +CMTI went out on an open port
  todo,       \* commands written to the port the modem has not dealt with
  wire,       \* what the modem has written and the session has not read
  pc,         \* where the session is, see Places
  idx,        \* the index it is handling
  tries,      \* the attempt to read it
  got,        \* the message it has read
  pending,    \* announced indexes not handled yet
  saved,      \* saved[m]: rows of inbound_messages that hold m
  reported,   \* messages whose handling ended with an audit record
  unaudited,  \* those whose audit record could not be written
  late, faults

modem   == <<stored, arrived, announced>>
line    == <<todo, wire>>
session == <<pc, idx, tries, got, pending>>
records == <<saved, reported, unaudited>>
vars == <<modem, line, session, records, late, faults>>

Commands == [op : {"CMGR", "CMGD"}, slot : Slots] \union [op : {"other"}]
Items    == [kind : {"CMTI"}, slot : Slots] \union [kind : {"CMGR"}, msg : Msgs]
              \union [kind : {"OK", "ERROR"}]

\* What the session does with the lines it collects depends on the exchange:
\* those of initialize, refresh_status and send_sms_part are not scanned for
\* +CMTI, those of AT+CMGR, AT+CMGD and of a raw command are.
Unscanned == {"setup", "refresh", "send"}
Scanned   == {"read", "delete", "raw"}
Exchanges == Unscanned \union Scanned
Places    == {"offline", "poll", "persist", "audit"} \union Exchanges

Init ==
  /\ stored = [i \in Slots |-> None] /\ arrived = {} /\ announced = {}
  /\ todo = <<>> /\ wire = <<>>
  /\ pc = "offline" /\ idx \in Slots /\ tries = 1 /\ got = None /\ pending = <<>>
  /\ saved = [m \in Msgs |-> 0] /\ reported = {} /\ unaudited = {}
  /\ late = 0 /\ faults = 0

Fault == faults < MaxFaults /\ faults' = faults + 1

-----------------------------------------------------------------------------
(* The modem and the network.                                              *)

\* A message is stored in a free place and announced, if someone has the port
\* open.
Arrive(m, i) ==
  /\ m \notin arrived /\ stored[i] = None
  /\ stored' = [stored EXCEPT ![i] = m] /\ arrived' = arrived \union {m}
  /\ IF pc = "offline"
     THEN UNCHANGED <<announced, wire>>
     ELSE /\ announced' = announced \union {m}
          /\ wire' = Append(wire, [kind |-> "CMTI", slot |-> i])
  /\ UNCHANGED <<todo, session, records, late, faults>>

\* What executing a command leaves in the storage, and its answer.
StorageAfter(c) ==
  IF c.op = "CMGD" THEN [stored EXCEPT ![c.slot] = None] ELSE stored

AnswerTo(c) ==
  IF c.op # "CMGR" THEN [kind |-> "OK"]
  ELSE IF stored[c.slot] = None THEN [kind |-> "ERROR"]
  ELSE [kind |-> "CMGR", msg |-> stored[c.slot]]

ModemAnswers ==
  /\ todo # <<>>
  /\ stored' = StorageAfter(Head(todo)) /\ todo' = Tail(todo)
  /\ wire' = Append(wire, AnswerTo(Head(todo)))
  /\ UNCHANGED <<arrived, announced, session, records, late, faults>>

\* The command is refused; or its answer never comes, executed or not.
ModemFails ==
  /\ todo # <<>> /\ Fault
  /\ \/ UNCHANGED stored /\ wire' = Append(wire, [kind |-> "ERROR"])
     \/ stored' \in {stored, StorageAfter(Head(todo))} /\ UNCHANGED wire
  /\ todo' = Tail(todo)
  /\ UNCHANGED <<arrived, announced, session, records, late>>

-----------------------------------------------------------------------------
(* The session between two exchanges.                                      *)

\* exchange, its first half: the command is written.
Write(place, command) ==
  pc' = place /\ todo' = Append(todo, command)

\* The port opens: recovery, initialize and, under "refresh", the status
\* refresh the session begins with. The line is a new one.
Connect ==
  /\ pc = "offline"
  /\ Write("setup", [op |-> "other"])
  /\ UNCHANGED <<modem, wire, idx, tries, got, pending, records, late,
                 faults>>

\* Mutant: the newest announcement first, and the others are forgotten.
ReadNewest ==
  /\ pc = "poll" /\ pending # <<>>
  /\ idx' = pending[Len(pending)] /\ tries' = 1 /\ pending' = <<>>
  /\ Write("read", [op |-> "CMGR", slot |-> pending[Len(pending)]])
  /\ UNCHANGED <<modem, wire, got, records, late, faults>>

\* while let Some(index) = pending.pop_front()
StartRead ==
  /\ pc = "poll" /\ pending # <<>>
  /\ idx' = Head(pending) /\ tries' = 1 /\ pending' = Tail(pending)
  /\ Write("read", [op |-> "CMGR", slot |-> Head(pending)])
  /\ UNCHANGED <<modem, wire, got, records, late, faults>>

\* With nothing pending: the refresh when it is due, or a request.
StartOther(place) ==
  /\ pc = "poll" /\ pending = <<>>
  /\ Write(place, [op |-> "other"])
  /\ UNCHANGED <<modem, wire, idx, tries, got, pending, records, late,
                 faults>>

\* Or a line, of which only +CMTI means anything here.
PollLine ==
  /\ pc = "poll" /\ pending = <<>> /\ wire # <<>>
  /\ wire' = Tail(wire)
  /\ pending' = IF Head(wire).kind = "CMTI" THEN <<Head(wire).slot>> ELSE <<>>
  /\ UNCHANGED <<modem, todo, pc, idx, tries, got, records, late,
                 faults>>

-----------------------------------------------------------------------------
(* An exchange, its second half: collect_until_terminator.                 *)

\* Mutant: reading is given up one attempt later.
RetryReadOnceMore ==
  IF tries <= MaxReads
  THEN /\ tries' = tries + 1 /\ Write("read", [op |-> "CMGR", slot |-> idx])
  ELSE pc' = "audit" /\ UNCHANGED <<todo, tries>>

\* The read failed or made no sense: once more, up to MaxReads, and then the
\* message is left where it is, with an inbound_read_failed record to write.
RetryRead ==
  IF tries < MaxReads
  THEN /\ tries' = tries + 1 /\ Write("read", [op |-> "CMGR", slot |-> idx])
  ELSE pc' = "audit" /\ UNCHANGED <<todo, tries>>

\* Mutant: a delete that did not answer OK has its index handled again.
DeleteAnsweredOrAgain(kind) ==
  /\ pc' = "poll" /\ got' = None
  /\ pending' = IF kind = "OK" THEN pending ELSE Append(pending, idx)

\* A delete that did not answer OK is only audited.
DeleteAnswered(kind) == pc' = "poll" /\ got' = None /\ UNCHANGED pending

\* What the session makes of the end of its exchange: an OK with a message,
\* a bare OK, an error or a timeout. The result of an exchange other than
\* AT+CMGR has no bearing on the inbound path.
Conclude(kind, msg) ==
  \/ /\ pc = "read" /\ kind = "CMGR"
     /\ pc' = "persist" /\ got' = msg /\ UNCHANGED <<todo, tries, pending>>
  \/ /\ pc = "read" /\ kind # "CMGR"
     /\ RetryRead /\ UNCHANGED <<got, pending>>
  \/ /\ pc = "delete"
     /\ DeleteAnswered(kind) /\ UNCHANGED <<todo, tries>>
  \/ /\ pc = "setup"
     /\ Write("refresh", [op |-> "other"]) /\ UNCHANGED <<got, tries, pending>>
  \/ /\ pc \in {"refresh", "send", "raw"}
     /\ pc' = "poll" /\ UNCHANGED <<todo, got, tries, pending>>

\* The next item is a +CMTI: scan_cmti keeps its index, or nobody does.
CollectNotice ==
  /\ pc \in Exchanges /\ wire # <<>> /\ Head(wire).kind = "CMTI"
  /\ wire' = Tail(wire)
  /\ pending' = IF pc \in Scanned THEN Append(pending, Head(wire).slot) ELSE pending
  /\ UNCHANGED <<modem, todo, pc, idx, tries, got, records, late, faults>>

\* Or it is an answer, to whichever command.
CollectAnswer ==
  /\ pc \in Exchanges /\ wire # <<>> /\ Head(wire).kind # "CMTI"
  /\ wire' = Tail(wire)
  /\ Conclude(Head(wire).kind,
              IF Head(wire).kind = "CMGR" THEN Head(wire).msg ELSE None)
  /\ UNCHANGED <<modem, idx, records, late, faults>>

\* The deadline passes: the modem will not answer any more, or not in time.
ExchangeTimeout ==
  /\ pc \in Exchanges /\ wire = <<>>
  /\ \/ todo = <<>> /\ UNCHANGED late
     \/ todo # <<>> /\ late < MaxLate /\ late' = late + 1
  /\ Conclude("Timeout", None)
  /\ UNCHANGED <<modem, wire, idx, records, faults>>

-----------------------------------------------------------------------------
(* The database, and the end of a session.                                 *)

\* Mutant: the message is deleted whether or not it could be recorded.
PersistOrNot ==
  /\ pc = "persist"
  /\ \/ saved' = [saved EXCEPT ![got] = @ + 1] /\ UNCHANGED faults
     \/ Fault /\ UNCHANGED saved
  /\ Write("delete", [op |-> "CMGD", slot |-> idx])
  /\ UNCHANGED <<modem, wire, idx, tries, got, pending, reported, unaudited, late>>

\* create_inbound_message, then AT+CMGD; when the insert fails the message
\* stays in the modem, with an inbound_persist_failed record to write.
Persist ==
  /\ pc = "persist"
  /\ \/ /\ saved' = [saved EXCEPT ![got] = @ + 1]
        /\ Write("delete", [op |-> "CMGD", slot |-> idx])
        /\ UNCHANGED <<got, faults>>
     \/ /\ Fault
        /\ pc' = "audit" /\ got' = None /\ UNCHANGED <<todo, saved>>
  /\ UNCHANGED <<modem, wire, idx, tries, pending, reported, unaudited, late>>

\* audit: the record of an index that was given up is written, or writing it
\* fails too, of which only the log is told. The session goes on either way.
Audit ==
  /\ pc = "audit" /\ pc' = "poll"
  /\ \/ reported' = reported \union {stored[idx]} /\ UNCHANGED <<unaudited, faults>>
     \/ Fault /\ unaudited' = unaudited \union {stored[idx]} /\ UNCHANGED reported
  /\ UNCHANGED <<modem, line, idx, tries, got, pending, saved, late>>

\* The port is lost, the process dies or its channel closes, in the middle of
\* whatever the session did. The modem may still execute the command it had received.
Disconnect ==
  /\ pc # "offline" /\ Fault
  /\ pc' = "offline" /\ pending' = <<>> /\ got' = None
  /\ stored' \in {stored} \union {StorageAfter(todo[n]) : n \in 1..Len(todo)}
  /\ todo' = <<>> /\ wire' = <<>>
  /\ UNCHANGED <<arrived, announced, idx, tries, records, late>>

-----------------------------------------------------------------------------
Modem   == ModemAnswers \/ ModemFails
Session == \/ Connect \/ StartRead \/ CollectNotice \/ CollectAnswer
           \/ ExchangeTimeout \/ Persist \/ Audit

Next ==
  \/ Modem \/ Session \/ PollLine \/ Disconnect
  \/ \E m \in Msgs, i \in Slots : Arrive(m, i)
  \/ \E place \in {"refresh", "send", "raw"} : StartOther(place)

Spec == Init /\ [][Next]_vars

\* The runtime polls the manager whenever it can go on, the modem answers or
\* stays silent past the deadline, and select! picks at random between a line
\* and a request, so that a line is not passed over for ever.
Fairness ==
  /\ WF_vars(Modem) /\ WF_vars(Session) /\ SF_vars(PollLine)

FairSpec == Spec /\ Fairness

-----------------------------------------------------------------------------
(* Properties.                                                             *)

\* Every variable keeps to its type: at most MaxReads attempts for an index,
\* and only indexes and messages that exist are ever handled.
ModemOK ==
  /\ stored \in [Slots -> Msgs \union {None}]
  /\ arrived \subseteq Msgs /\ announced \subseteq arrived
LineOK == todo \in Seq(Commands) /\ wire \in Seq(Items)
SessionOK ==
  /\ pc \in Places /\ idx \in Slots /\ tries \in 1..MaxReads
  /\ got \in Msgs \union {None} /\ pending \in Seq(Slots)
RecordsOK ==
  /\ saved \in [Msgs -> Nat]
  /\ reported \subseteq Msgs \union {None} /\ unaudited \subseteq Msgs \union {None}
  /\ late \in 0..MaxLate /\ faults \in 0..MaxFaults

TypeOK == ModemOK /\ LineOK /\ SessionOK /\ RecordsOK

\* A message the network delivered is in the modem or in the database at any
\* time: handle_inbound deletes an index only after what it holds is recorded,
\* whatever failed, timed out or crashed before.
NothingLost ==
  \A m \in arrived : saved[m] > 0 \/ \E i \in Slots : stored[i] = m

\* What makes it so as long as no answer is late: the modem has at most one
\* command or one answer in flight, for the index the session is handling;
\* what was read is what that index holds; and a delete is on its way only to
\* an index whose message is recorded.
IsNotice(item) == item.kind = "CMTI"
OnlyNotices(w) == \A n \in 1..Len(w) : IsNotice(w[n])
Expected(c) ==
  /\ pc \in Exchanges
  /\ c.op = "CMGR" => pc = "read" /\ c.slot = idx
  /\ c.op = "CMGD" => /\ pc = "delete" /\ c.slot = idx
                      /\ stored[idx] \in Msgs /\ saved[stored[idx]] > 0
OneInFlight ==
  \/ todo = <<>>
  \/ OnlyNotices(wire) /\ \E c \in Commands : todo = <<c>> /\ Expected(c)
OneAnswer ==
  \A n, k \in 1..Len(wire) : IsNotice(wire[n]) \/ IsNotice(wire[k]) \/ n = k
AnswersFit ==
  \A n \in 1..Len(wire) :
    /\ ~IsNotice(wire[n]) => pc \in Exchanges
    /\ wire[n].kind = "CMGR" => pc = "read" /\ wire[n].msg = stored[idx]
ReadIsStored == pc = "persist" => got \in Msgs /\ got = stored[idx]
InTime == OneInFlight /\ OneAnswer /\ AnswersFit /\ ReadIsStored

\* The inbound path implements Inbox: each message is recorded at most once,
\* and removed from the modem after that.
Abstract == INSTANCE Inbox WITH held <- {stored[i] : i \in Slots} \ {None}
InboxSpec == Abstract!Spec

\* What becomes of a message: it is recorded, or an audit record says why not,
\* or that record could not be written either, or the session ends.
Settled(m) ==
  saved[m] > 0 \/ m \in reported \/ m \in unaudited \/ pc = "offline"

\* An index the session has taken from the line is dealt with: it is neither
\* passed over nor tried for ever, whatever comes in while others are handled
\* and whichever read, insert, delete or audit record fails.
Noticed(m) == \E n \in 1..Len(pending) : stored[pending[n]] = m
NoticedIsHandled == \A m \in Msgs : Noticed(m) ~> Settled(m)

\* What README.md says of inbound messages: they arrive as +CMTI, which the
\* manager reads. An announcement on the open port is dealt with likewise.
AnnouncedIsHandled == \A m \in Msgs : m \in announced ~> Settled(m)
=============================================================================
