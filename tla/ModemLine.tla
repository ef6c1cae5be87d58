----------------------------- MODULE ModemLine ------------------------------
(***************************************************************************)
(* The serial line between green_relay and its modem while messages are    *)
(* sent: the two-phase AT+CMGS dialogue with its aborts, the character set *)
(* that UCS2 messages switch, and what is left on the line by whatever did *)
(* not come in time (modem/transport.rs, modem/session.rs).                *)
(*                                                                         *)
(* Actors:                                                                 *)
(*   - the session of the modem manager, which writes commands, headers    *)
(*     and texts and knows an answer only by its place on the line;        *)
(*   - the modem, which deals with what it is sent in order, slowly, and   *)
(*     which between the header and the end of a text takes everything for *)
(*     text (modelled from how the code uses it); each of its answers and  *)
(*     prompts may come after the session has given it up, and a ">" of    *)
(*     any other line before;                                              *)
(*   - the network, which takes or refuses a text the modem submits.       *)
(* The port, or the process, may be lost at any byte.                      *)
(***************************************************************************)
EXTENDS Naturals, Sequences

CONSTANTS
  Msgs,        \* messages to send
  Parts,       \* Parts[m]: the number of segments of m
  Enc,         \* Enc[m]: the character set m is sent in
  MaxAttempts, \* cfg.send_max_attempts, per segment
  MaxLate,     \* bound on answers given up while they were on their way
  MaxFaults,   \* bound on refusals, lost answers and lost ports
  MaxTardy,    \* bound on prompts given up while they were on their way
  MaxStrays,   \* bound on ">" bytes that are no prompt
  None         \* stands for "no message"

ASSUME ModemLineAssumption ==
  /\ Parts \in [Msgs -> Nat \ {0}] /\ Enc \in [Msgs -> {"IRA", "UCS2"}]
  /\ MaxAttempts \in Nat \ {0} /\ MaxLate \in Nat /\ MaxFaults \in Nat
  /\ MaxTardy \in Nat /\ MaxStrays \in Nat
  /\ None \notin Msgs

VARIABLES
  up,        \* the port is open and a session has it
  plan,      \* commands the session has still to write before anything else
  job, part, tries,  \* the message, segment and attempt it is sending
  wait,      \* what it waits for, see Waits
  told,      \* told[m]: what became of m, as the caller hears it
  todo,      \* what was written and the modem has not dealt with
  wire,      \* what the modem has written and the session has not consumed
  mode,      \* the modem: command line, text entry, or busy with the network
  draft,     \* the segment whose header it has accepted
  charset,   \* charset[p]: the set its parameter p stands at
  refused,   \* parameters whose last setting it did not carry out
  taken,     \* taken[m]: segments of m the network took
  late, faults, tardy, strays  \* how often each of the four things happened

session == <<up, plan, job, part, tries, wait, told>>
modem   == <<mode, draft, charset, refused, taken>>
prompts == <<tardy, strays>>
vars == <<session, todo, wire, modem, late, faults, prompts>>

Params == {"cscs", "csmp"}
Sets   == {"IRA", "UCS2"}
Esc    == [op |-> "esc"]
At     == [op |-> "at"]
Cut    == [op |-> "cut"]
Set(p, s)    == [op |-> "set", par |-> p, to |-> s]
Header(m, i) == [op |-> "cmgs", msg |-> m, part |-> i]
Text(m, i)   == [op |-> "text", msg |-> m, part |-> i]

Commands == {Esc, At} \union [op : {"set"}, par : Params, to : Sets]
Segment  == [msg : Msgs, part : Nat]
NoDraft  == [msg |-> None, part |-> 0]
Waits    == {"none", "answer", "prompt", "result"}

Init ==
  /\ up = FALSE /\ plan = <<>> /\ job = None /\ part = 1 /\ tries = 1
  /\ wait = "none" /\ told = [m \in Msgs |-> "none"]
  /\ todo = <<>> /\ wire = <<>>
  /\ mode = "command" /\ draft = NoDraft
  /\ charset \in [Params -> Sets] /\ refused = {}
  /\ taken = [m \in Msgs |-> {}]
  /\ late = 0 /\ faults = 0 /\ tardy = 0 /\ strays = 0

Fault == faults < MaxFaults /\ faults' = faults + 1

-----------------------------------------------------------------------------
(* The modem and the network.                                              *)

\* Whatever the modem writes while nobody has the port open is lost.
Emit(item) == wire' = IF up THEN Append(wire, item) ELSE wire

Obeys(c) ==
  IF c.op = "set"
  THEN charset' = [charset EXCEPT ![c.par] = c.to] /\ refused' = refused \ {c.par}
  ELSE UNCHANGED <<charset, refused>>

Ignores(c) ==
  /\ refused' = IF c.op = "set" THEN refused \union {c.par} ELSE refused
  /\ UNCHANGED charset

Next1(op) == todo # <<>> /\ Head(todo).op = op /\ todo' = Tail(todo)

\* A command is executed, or refused with an error, or its answer is lost.
ModemCommand ==
  /\ mode = "command" /\ \E op \in {"at", "set"} : Next1(op)
  /\ \/ Obeys(Head(todo)) /\ Emit("end") /\ UNCHANGED faults
     \/ Ignores(Head(todo)) /\ Emit("end") /\ Fault
     \/ (Obeys(Head(todo)) \/ Ignores(Head(todo))) /\ UNCHANGED wire /\ Fault
  /\ UNCHANGED <<session, mode, draft, taken, late, prompts>>

OpensDraft ==
  /\ mode' = "text"
  /\ draft' = [msg |-> Head(todo).msg, part |-> Head(todo).part]

\* AT+CMGS: the modem prompts for the text, or refuses; or its answer is lost.
ModemHeader ==
  /\ mode = "command" /\ Next1("cmgs")
  /\ \/ OpensDraft /\ Emit("prompt") /\ UNCHANGED faults
     \/ UNCHANGED <<mode, draft>> /\ Emit("end") /\ Fault
     \/ (OpensDraft \/ UNCHANGED <<mode, draft>>) /\ UNCHANGED wire /\ Fault
  /\ UNCHANGED <<session, charset, refused, taken, late, prompts>>

\* Text up to Ctrl-Z is submitted; without one the modem waits for more.
ModemText ==
  /\ mode = "text"
  /\ \/ Next1("text") /\ mode' = "busy"
     \/ Next1("cut") /\ UNCHANGED mode
  /\ UNCHANGED <<session, wire, draft, charset, refused, taken, late, faults,
                 prompts>>

\* A text at the command line is a command the modem does not know, or the
\* beginning of its next line. (That this spoils the next is a refusal of it.)
ModemTyped ==
  /\ mode = "command" /\ \E op \in {"text", "cut"} : Next1(op)
  /\ Emit("end") \/ UNCHANGED wire
  /\ UNCHANGED <<session, modem, late, faults, prompts>>

\* ESC: the text is dropped. Some modems say OK, some nothing.
ModemEsc ==
  /\ mode \in {"command", "text"} /\ Next1("esc")
  /\ mode' = "command" /\ draft' = NoDraft
  /\ Emit("end") \/ UNCHANGED wire
  /\ UNCHANGED <<session, charset, refused, taken, late, faults, prompts>>

\* The network takes the text or refuses it; or the modem never says which.
NetworkAnswers ==
  /\ mode = "busy" /\ mode' = "command" /\ draft' = NoDraft
  /\ \/ /\ taken' = [taken EXCEPT ![draft.msg] = @ \union {draft.part}]
        /\ Emit("sent") /\ UNCHANGED faults
     \/ UNCHANGED taken /\ Emit("end") /\ UNCHANGED faults
     \/ /\ \/ UNCHANGED taken
           \/ taken' = [taken EXCEPT ![draft.msg] = @ \union {draft.part}]
        /\ UNCHANGED wire /\ Fault
  /\ UNCHANGED <<session, todo, charset, refused, late, prompts>>

ModemStep ==
  \/ ModemCommand \/ ModemHeader \/ ModemText \/ ModemTyped \/ ModemEsc
  \/ NetworkAnswers

-----------------------------------------------------------------------------
(* The session.                                                            *)

Idle == up /\ wait = "none" /\ plan = <<>> /\ job = None

\* set_charset: the character set and the data-coding scheme.
SetCharset(s) == <<Set("cscs", s), Set("csmp", s)>>

\* Mutant: no recovery.
OpenWithoutRecovery ==
  /\ ~up /\ up' = TRUE
  /\ plan' = <<At>> \o SetCharset("IRA")
  /\ UNCHANGED <<job, part, tries, wait, told, todo, wire, modem, late, faults,
                 prompts>>

\* The port is opened: recover_command_mode, then initialize. Commands other
\* than those of the character set are alike to the line.
OpenSession ==
  /\ ~up /\ up' = TRUE
  /\ plan' = <<Esc, At>> \o SetCharset("IRA")
  /\ UNCHANGED <<job, part, tries, wait, told, todo, wire, modem, late, faults,
                 prompts>>

\* A status refresh or a raw command.
StartExchange ==
  /\ Idle
  /\ plan' = <<At>>
  /\ UNCHANGED <<up, job, part, tries, wait, told, todo, wire, modem, late,
                 faults, prompts>>

\* handle_send: AT+CMGF=1, the character set if it is not the one initialize
\* has set, then the segments.
StartSend(m) ==
  /\ Idle /\ told[m] = "none"
  /\ told' = [told EXCEPT ![m] = "pending"]
  /\ plan' = <<At>> \o (IF Enc[m] = "UCS2" THEN SetCharset("UCS2") ELSE <<>>)
  /\ job' = m /\ part' = 1 /\ tries' = 1
  /\ UNCHANGED <<up, wait, todo, wire, modem, late, faults, prompts>>

\* exchange, its first half; and the ESC of recover_command_mode.
WriteCommand ==
  /\ up /\ wait = "none" /\ plan # <<>>
  /\ todo' = Append(todo, Head(plan)) /\ plan' = Tail(plan)
  /\ wait' = "answer"
  /\ UNCHANGED <<up, job, part, tries, told, wire, modem, late, faults, prompts>>

\* What ends an exchange, as a caller tells it: with +CMGS or without.
Results == {"end", "sent"}

\* collect_until_terminator: lines up to the first that ends an exchange; a
\* prompt before it is part of a line.
EndAt(i) == wire[i] # "prompt" /\ \A j \in 1..(i - 1) : wire[j] = "prompt"
HasEnd   == \E i \in 1..Len(wire) : wire[i] # "prompt"
Collect(result) == \E i \in 1..Len(wire) :
  EndAt(i) /\ result = wire[i] /\ wire' = SubSeq(wire, i + 1, Len(wire))

\* Nothing more is to come from the modem of what it was sent.
Quiet == todo = <<>> /\ mode # "busy"

\* A time limit passes: the answer is lost, or only late.
TimesOut ==
  /\ \/ Quiet /\ ~HasEnd /\ UNCHANGED late
     \/ late < MaxLate /\ late' = late + 1
  /\ UNCHANGED wire

\* Mutant: an answer leaves the prompts that came before it on the line.
EndExchangeKeepingPrompts ==
  /\ up /\ wait = "answer" /\ wait' = "none"
  /\ \/ /\ \E i \in 1..Len(wire) :
            /\ EndAt(i)
            /\ wire' = SubSeq(wire, 1, i - 1) \o SubSeq(wire, i + 1, Len(wire))
        /\ UNCHANGED late
     \/ TimesOut
  /\ UNCHANGED <<up, plan, job, part, tries, told, todo, modem, faults, prompts>>

\* The end of an exchange, whatever its result: no caller of these stops for
\* an error or a timeout.
EndExchange ==
  /\ up /\ wait = "answer" /\ wait' = "none"
  /\ \/ \E r \in Results : Collect(r) /\ UNCHANGED late
     \/ TimesOut
  /\ UNCHANGED <<up, plan, job, part, tries, told, todo, modem, faults, prompts>>

\* Mutant: the single-shot build_cmgs, header and text at once.
WriteBoth ==
  /\ up /\ wait = "none" /\ plan = <<>> /\ job # None
  /\ todo' = todo \o <<Header(job, part), Text(job, part)>> /\ wait' = "result"
  /\ UNCHANGED <<up, plan, job, part, tries, told, wire, modem, late, faults,
                 prompts>>

\* send_sms_part, phase 1.
WriteHeader ==
  /\ up /\ wait = "none" /\ plan = <<>> /\ job # None
  /\ todo' = Append(todo, Header(job, part)) /\ wait' = "prompt"
  /\ UNCHANGED <<up, plan, job, part, tries, told, wire, modem, late, faults,
                 prompts>>

NoPromptIn(n) == \A j \in 1..n : wire[j] # "prompt"

\* Mutant: what came before the prompt stays to be read.
PromptedKeepingEarlier ==
  /\ up /\ wait = "prompt"
  /\ \E i \in 1..Len(wire) :
       /\ wire[i] = "prompt" /\ NoPromptIn(i - 1)
       /\ wire' = SubSeq(wire, 1, i - 1) \o SubSeq(wire, i + 1, Len(wire))
  /\ todo' = Append(todo, Text(job, part)) /\ wait' = "result"
  /\ UNCHANGED <<up, plan, job, part, tries, told, modem, late, faults, prompts>>

\* Phases 2 and 3: whatever comes before the prompt is dropped with it, and
\* the text is written.
Prompted ==
  /\ up /\ wait = "prompt"
  /\ \E i \in 1..Len(wire) :
       /\ wire[i] = "prompt" /\ NoPromptIn(i - 1)
       /\ wire' = SubSeq(wire, i + 1, Len(wire))
  /\ todo' = Append(todo, Text(job, part)) /\ wait' = "result"
  /\ UNCHANGED <<up, plan, job, part, tries, told, modem, late, faults, prompts>>

\* A ">" that is no prompt, of a line the modem sends unasked or of a late
\* answer's body, is taken for one. Lines that end no exchange matter nowhere
\* else: its coming and its being taken are one step.
Misprompted ==
  /\ up /\ wait = "prompt"
  /\ strays < MaxStrays /\ strays' = strays + 1
  /\ \E i \in 0..Len(wire) : NoPromptIn(i) /\ wire' = SubSeq(wire, i + 1, Len(wire))
  /\ todo' = Append(todo, Text(job, part)) /\ wait' = "result"
  /\ UNCHANGED <<up, plan, job, part, tries, told, modem, late, faults, tardy>>

\* Mutant: the default set is restored after success only.
EndSendRestoringIfSent(outcome) ==
  /\ told' = [told EXCEPT ![job] = outcome]
  /\ plan' = IF Enc[job] = "UCS2" /\ outcome = "sent" THEN SetCharset("IRA")
                                                     ELSE <<>>
  /\ job' = None /\ part' = 1 /\ tries' = 1

\* The message is over: the default character set is restored.
EndSend(outcome) ==
  /\ told' = [told EXCEPT ![job] = outcome]
  /\ plan' = IF Enc[job] = "UCS2" THEN SetCharset("IRA") ELSE <<>>
  /\ job' = None /\ part' = 1 /\ tries' = 1

\* The dialogue is abandoned: ESC, whose answer is awaited like that of an
\* exchange, and the message has failed ("timeout" is not tried again).
Abort ==
  /\ todo' = Append(todo, Esc) /\ wait' = "answer"
  /\ EndSend("failed")

\* No prompt within SEND_PROMPT_TIMEOUT_SECS: there is none, or it is only
\* late. What did come stays to be read.
NoPrompt ==
  /\ up /\ wait = "prompt"
  /\ \/ Quiet /\ NoPromptIn(Len(wire)) /\ UNCHANGED tardy
     \/ tardy < MaxTardy /\ tardy' = tardy + 1
  /\ Abort
  /\ UNCHANGED <<up, wire, modem, late, faults, strays>>

\* Phase 4: no result within SEND_RESULT_TIMEOUT_SECS.
NoResult ==
  /\ up /\ wait = "result" /\ TimesOut
  /\ Abort
  /\ UNCHANGED <<up, modem, faults, prompts>>

\* Mutant: one segment too many.
SegmentSentPastEnd ==
  /\ up /\ wait = "result" /\ Collect("sent") /\ wait' = "none"
  /\ IF part <= Parts[job]
     THEN part' = part + 1 /\ tries' = 1 /\ UNCHANGED <<plan, job, told>>
     ELSE EndSend("sent")
  /\ UNCHANGED <<up, todo, modem, late, faults, prompts>>

\* +CMGS and OK: the next segment, or the message is sent.
SegmentSent ==
  /\ up /\ wait = "result" /\ Collect("sent") /\ wait' = "none"
  /\ IF part < Parts[job]
     THEN part' = part + 1 /\ tries' = 1 /\ UNCHANGED <<plan, job, told>>
     ELSE EndSend("sent")
  /\ UNCHANGED <<up, todo, modem, late, faults, prompts>>

\* Mutant: attempts are not counted.
SegmentFailedUncounted ==
  /\ up /\ wait = "result" /\ Collect("end") /\ wait' = "none"
  /\ UNCHANGED <<up, plan, job, part, tries, told, todo, modem, late, faults,
                 prompts>>

\* An error, or OK without +CMGS: the segment again, or the message failed.
SegmentFailed ==
  /\ up /\ wait = "result" /\ Collect("end") /\ wait' = "none"
  /\ IF tries < MaxAttempts
     THEN tries' = tries + 1 /\ UNCHANGED <<plan, job, part, told>>
     ELSE EndSend("failed")
  /\ UNCHANGED <<up, todo, modem, late, faults, prompts>>

\* run_session, while it has nothing to do, drops what comes, line by line:
\* +CMGS and its OK are two, a prompt waits for the line it begins.
ReadLine ==
  /\ Idle /\ HasEnd
  /\ wire' = IF Head(wire) = "sent" THEN <<"end">> \o Tail(wire) ELSE Tail(wire)
  /\ UNCHANGED <<session, todo, modem, late, faults, prompts>>

\* The port is lost, or the process with it: of what was written a beginning
\* has reached the modem, maybe part of a text; or the modem itself restarts.
LosePort ==
  /\ up /\ up' = FALSE /\ Fault
  /\ plan' = <<>> /\ job' = None /\ part' = 1 /\ tries' = 1 /\ wait' = "none"
  /\ told' = [m \in Msgs |-> IF m = job THEN "lost" ELSE told[m]]
  /\ wire' = <<>>
  /\ \/ /\ \E n \in 0..Len(todo) :
             \/ todo' = SubSeq(todo, 1, n)
             \/ /\ n < Len(todo) /\ todo[n + 1].op = "text"
                /\ todo' = Append(SubSeq(todo, 1, n), Cut)
        /\ UNCHANGED modem
     \/ /\ todo' = <<>> /\ mode' = "command" /\ draft' = NoDraft
        /\ charset' = [p \in Params |-> "IRA"] /\ refused' = {}
        /\ UNCHANGED taken
  /\ UNCHANGED <<late, prompts>>

-----------------------------------------------------------------------------
Session ==
  \/ OpenSession \/ StartExchange \/ WriteCommand \/ EndExchange
  \/ WriteHeader \/ Prompted \/ Misprompted \/ NoPrompt \/ NoResult
  \/ SegmentSent \/ SegmentFailed \/ ReadLine

Next == ModemStep \/ Session \/ LosePort \/ \E m \in Msgs : StartSend(m)

Spec == Init /\ [][Next]_vars

\* The modem goes on with what it was sent and the time limits pass; whether
\* anyone asks for a send or an exchange, or the port is lost, is left open.
Fairness ==
  /\ WF_vars(ModemStep) /\ WF_vars(OpenSession) /\ WF_vars(WriteCommand)
  /\ WF_vars(EndExchange) /\ WF_vars(WriteHeader)
  /\ WF_vars(Prompted \/ Misprompted \/ NoPrompt)
  /\ WF_vars(NoResult \/ SegmentSent \/ SegmentFailed)

FairSpec == Spec /\ Fairness

-----------------------------------------------------------------------------
(* Properties.                                                             *)

SessionOK ==
  /\ up \in BOOLEAN /\ plan \in Seq(Commands)
  /\ job \in Msgs \union {None} /\ part \in Nat /\ tries \in 1..MaxAttempts
  /\ job # None => part \in 1..Parts[job]
  /\ wait \in Waits /\ (wait \in {"prompt", "result"} => job # None)
  /\ told \in [Msgs -> {"none", "pending", "sent", "failed", "lost"}]
LineOK ==
  /\ todo \in Seq(Commands \union {Cut} \union [op : {"cmgs", "text"},
                                                msg : Msgs, part : Nat])
  /\ wire \in Seq({"end", "sent", "prompt"})
ModemOK ==
  /\ mode \in {"command", "text", "busy"}
  /\ draft \in Segment \union {NoDraft}
  /\ mode # "command" => draft \in Segment
  /\ charset \in [Params -> Sets] /\ refused \subseteq Params
  /\ taken \in [Msgs -> SUBSET Nat]
  /\ late \in 0..MaxLate /\ faults \in 0..MaxFaults
  /\ tardy \in 0..MaxTardy /\ strays \in 0..MaxStrays

\* The type invariant.
TypeOK == SessionOK /\ LineOK /\ ModemOK

\* A modem at the prompt gets the text of the very segment whose header it
\* accepted, or ESC: it never takes a command for text, nor sends a text to
\* the recipient of another, whatever timed out, was lost or restarted in
\* between (abort_to_command_mode, recover_command_mode, send_sms_part).
NoCommandSwallowed ==
  mode = "text" /\ todo # <<>> =>
    \/ Head(todo) \in {Esc, Cut}
    \/ Head(todo) = Text(draft.msg, draft.part)

\* A session that waits for the prompt of its header, and has one to read, has
\* the modem wait for its text (wait_for_prompt).
PromptIsOwn ==
  wait = "prompt" /\ (\E i \in 1..Len(wire) : wire[i] = "prompt") =>
    todo = <<>> /\ mode = "text" /\ draft = [msg |-> job, part |-> part]

\* "`>` prompt received; the body may be written": the modem gets no text at the
\* command line, where it would run it (ModemMode::TextEntry, wait_for_prompt,
\* send_sms_part).
NoTextExecuted ==
  mode = "command" /\ todo # <<>> => Head(todo).op \notin {"text", "cut"}

\* A message that is called sent was taken by the network, every segment of it.
SentIsTaken == \A m \in Msgs : told[m] = "sent" => taken[m] = 1..Parts[m]

\* The code knows a prompt by a byte and an answer by its place, so these three
\* hold only while little goes wrong: nothing but prompts given up early and
\* bytes taken for prompts, or neither of these and at most four refusals, lost
\* or late answers and lost ports.
Tolerable ==
  \/ late + faults = 0
  \/ tardy = 0 /\ strays = 0 /\ late + faults <= 4

\* The prompt that a session finds is that of the header it has written: ESC
\* and the commands of a new connection or of a new message come before, and
\* an answer to any of them takes with it the prompt of an earlier connection
\* or of an abandoned dialogue. When it is not answered in time the session is
\* misled: one prompt given up early and the answer to AT+CMGF=1 lost are
\* enough, or a lost port and four answers
\* (recover_command_mode, initialize, handle_send, wait_for_prompt).
PromptIsOwnWithin == Tolerable => PromptIsOwn

\* A text is never typed at the command line, where the modem would run it:
\* it follows a header which the modem has accepted, or will
\* (send_sms_part, wait_for_prompt).
NoTextExecutedWithin == Tolerable => NoTextExecuted

\* A message is called sent only when the network took every segment of it:
\* no late result or abandoned dialogue is taken for the result of another
\* segment (collect_until_terminator, wait_for_prompt).
SentIsTakenWithin == Tolerable => SentIsTaken

\* A text is read in the character set of its message, unless the modem did
\* not carry out the last setting it was sent: timeouts, aborted dialogues and
\* lost sessions leave no wrong set behind (handle_send, set_charset).
TextInItsCharset ==
  mode = "text" /\ todo # <<>> /\ Head(todo).op = "text" =>
    \A p \in Params : charset[p] = Enc[draft.msg] \/ p \in refused

\* Every send comes to an end, on a modem that says nothing too.
SendEnds == \A m \in Msgs : told[m] = "pending" ~> told[m] # "pending"
=============================================================================
