--------------------------- MODULE ModemLineProofs ---------------------------
(***************************************************************************)
(* Proofs about ModemLine, for any messages, any number of segments and    *)
(* attempts, and any number of faults, late answers, late prompts and ">"  *)
(* bytes taken for one: the state is well typed; a modem that waits for    *)
(* the text of a segment gets that text or ESC, and nothing else; and a    *)
(* text is read in its own character set.                                  *)
(* What the session takes for its prompt, or for the result of a segment,  *)
(* is so only while little goes wrong (Tolerable): while no prompt was     *)
(* late and no byte taken for one, and four answers or ports at most were  *)
(* lost or late; or while prompts only were late, or taken for such.       *)
(***************************************************************************)
EXTENDS ModemLine, SequenceTheorems, TLAPS

USE ModemLineAssumption DEF session, modem, prompts

Items == Commands \union {Cut} \union [op : {"cmgs", "text"}, msg : Msgs, part : Nat]
Wires == {"end", "sent", "prompt"}

-----------------------------------------------------------------------------
(* Sequences.                                                              *)

LEMMA TailType ==
  ASSUME NEW S, NEW s \in Seq(S), s # <<>>
  PROVE  Head(s) \in S /\ Tail(s) \in Seq(S)
OBVIOUS

LEMMA AppendType ==
  ASSUME NEW S, NEW s \in Seq(S), NEW c \in S PROVE Append(s, c) \in Seq(S)
OBVIOUS

LEMMA PartType ==
  ASSUME NEW S, NEW s \in Seq(S), NEW m \in Nat \ {0}, NEW n \in 0..Len(s)
  PROVE  SubSeq(s, m, n) \in Seq(S)
OBVIOUS

LEMMA CharsetPlan ==
  ASSUME NEW s \in Sets
  PROVE  /\ SetCharset(s) \in Seq(Commands)
         /\ <<At>> \o SetCharset(s) \in Seq(Commands)
         /\ <<Esc, At>> \o SetCharset(s) \in Seq(Commands)
         /\ <<Esc, At>> \o SetCharset(s) # <<>>
         /\ Head(<<Esc, At>> \o SetCharset(s)) = Esc
<1>1. Set("cscs", s) \in Commands /\ Set("csmp", s) \in Commands
      /\ Esc \in Commands /\ At \in Commands
  BY DEF Set, Commands, Params
<1>2. SetCharset(s) = <<Set("cscs", s), Set("csmp", s)>>
  BY DEF SetCharset
<1> HIDE DEF Commands
<1>3. SetCharset(s) \in Seq(Commands)
  BY <1>1, <1>2
<1>4. <<Esc, At>> \in Seq(Commands) /\ <<At>> \in Seq(Commands)
  BY <1>1
<1>5. Len(<<Esc, At>> \o SetCharset(s)) > 0 /\ (<<Esc, At>> \o SetCharset(s))[1] = Esc
  BY <1>3, <1>4
<1> QED BY <1>3, <1>4, <1>5

-----------------------------------------------------------------------------
(* Type correctness.                                                       *)

LEMMA InitType == Init => TypeOK
<1> SUFFICES ASSUME Init PROVE TypeOK
  OBVIOUS
<1>1. told \in [Msgs -> {"none", "pending", "sent", "failed", "lost"}]
  BY DEF Init
<1>4. plan \in Seq(Commands) /\ wait \in Waits /\ part \in Nat /\ tries \in 1..MaxAttempts
  BY DEF Init, Waits
<1>2. LineOK
  BY DEF Init, LineOK
<1>3. ModemOK
  BY DEF Init, ModemOK, Sets
<1>5. SessionOK
  BY <1>1, <1>4 DEF Init, SessionOK
<1> QED BY <1>2, <1>3, <1>5 DEF TypeOK

LEMMA WireType ==
  ASSUME LineOK, NEW item \in Wires, Emit(item) \/ UNCHANGED wire
  PROVE  wire' \in Seq(Wires)
<1>1. wire \in Seq(Wires)
  BY DEF LineOK, Wires
<1>2. Append(wire, item) \in Seq(Wires)
  BY <1>1, AppendType
<1> QED BY <1>1, <1>2 DEF Emit

LEMMA NextType ==
  ASSUME LineOK, NEW op, Next1(op)
  PROVE  /\ Head(todo) \in Items /\ todo' \in Seq(Items)
         /\ todo # <<>> /\ todo' = Tail(todo) /\ Head(todo).op = op
<1>1. todo \in Seq(Items) /\ todo # <<>>
  BY DEF LineOK, Items, Next1
<1> QED BY <1>1, TailType DEF Next1

LEMMA SetOK ==
  ASSUME ModemOK, NEW c \in Items, Obeys(c) \/ Ignores(c)
  PROVE  charset' \in [Params -> Sets] /\ refused' \subseteq Params
<1>1. CASE c.op = "set"
  <2>1. c.par \in Params /\ c.to \in Sets
    BY <1>1 DEF Items, Commands, Esc, At, Cut
  <2> QED BY <1>1, <2>1 DEF Obeys, Ignores, ModemOK
<1>2. CASE c.op # "set"
  BY <1>2 DEF Obeys, Ignores, ModemOK
<1> QED BY <1>1, <1>2

LEMMA ModemType == ASSUME TypeOK, ModemStep PROVE TypeOK'
<1>0. SessionOK /\ LineOK /\ ModemOK
  BY DEF TypeOK
<1>1. SessionOK'
  BY <1>0 DEF SessionOK, ModemStep, ModemCommand, ModemHeader, ModemText, ModemTyped,
              ModemEsc, NetworkAnswers
<1>2. CASE ModemCommand
  <2>1. PICK op \in {"at", "set"} : Next1(op)
    BY <1>2 DEF ModemCommand
  <2>2. Head(todo) \in Items /\ todo' \in Seq(Items)
    BY <1>0, <2>1, NextType
  <2>3. Emit("end") \/ UNCHANGED wire
    BY <1>2 DEF ModemCommand
  <2>4. wire' \in Seq(Wires)
    BY <1>0, <2>3, WireType DEF Wires
  <2>5. charset' \in [Params -> Sets] /\ refused' \subseteq Params
    BY <1>0, <1>2, <2>2, SetOK DEF ModemCommand
  <2>6. faults' \in 0..MaxFaults
    BY <1>0, <1>2 DEF ModemCommand, Fault, ModemOK
  <2>7. ModemOK'
    BY <1>0, <1>2, <2>5, <2>6 DEF ModemCommand, ModemOK
  <2> QED BY <1>1, <2>2, <2>4, <2>7 DEF TypeOK, LineOK, Items, Wires
<1>3. CASE ModemHeader
  <2>1. Next1("cmgs")
    BY <1>3 DEF ModemHeader
  <2>2. Head(todo) \in Items /\ todo' \in Seq(Items) /\ Head(todo).op = "cmgs"
    BY <1>0, <2>1, NextType
  <2>3. Emit("prompt") \/ Emit("end") \/ UNCHANGED wire
    BY <1>3 DEF ModemHeader
  <2>4. wire' \in Seq(Wires)
    BY <1>0, <2>3, WireType DEF Wires
  <2>5. [msg |-> Head(todo).msg, part |-> Head(todo).part] \in Segment
    BY <2>2 DEF Items, Commands, Esc, At, Cut, Segment
  <2>6. faults' \in 0..MaxFaults
    BY <1>0, <1>3 DEF ModemHeader, Fault, ModemOK
  <2>7. OpensDraft \/ UNCHANGED <<mode, draft>>
    BY <1>3 DEF ModemHeader
  <2>8. ModemOK'
    BY <1>0, <1>3, <2>5, <2>6, <2>7 DEF ModemHeader, OpensDraft, ModemOK
  <2> QED BY <1>1, <2>2, <2>4, <2>8 DEF TypeOK, LineOK, Items, Wires
<1>4. CASE ModemText
  <2>1. Next1("text") \/ Next1("cut")
    BY <1>4 DEF ModemText
  <2>2. todo' \in Seq(Items)
    BY <1>0, <2>1, NextType
  <2>3. ModemOK'
    BY <1>0, <1>4 DEF ModemText, ModemOK
  <2> QED BY <1>0, <1>1, <1>4, <2>2, <2>3 DEF ModemText, TypeOK, LineOK, Items
<1>7. CASE ModemTyped
  <2>1. (Next1("text") \/ Next1("cut")) /\ (Emit("end") \/ UNCHANGED wire)
    BY <1>7 DEF ModemTyped
  <2>2. todo' \in Seq(Items)
    BY <1>0, <2>1, NextType
  <2>3. wire' \in Seq(Wires)
    BY <1>0, <2>1, WireType DEF Wires
  <2>4. ModemOK'
    BY <1>0, <1>7 DEF ModemTyped, ModemOK
  <2> QED BY <1>1, <2>2, <2>3, <2>4 DEF TypeOK, LineOK, Items, Wires
<1>5. CASE ModemEsc
  <2>1. Next1("esc") /\ (Emit("end") \/ UNCHANGED wire)
    BY <1>5 DEF ModemEsc
  <2>2. todo' \in Seq(Items)
    BY <1>0, <2>1, NextType
  <2>3. wire' \in Seq(Wires)
    BY <1>0, <2>1, WireType DEF Wires
  <2>4. ModemOK'
    BY <1>0, <1>5 DEF ModemEsc, ModemOK
  <2> QED BY <1>1, <2>2, <2>3, <2>4 DEF TypeOK, LineOK, Items, Wires
<1>6. CASE NetworkAnswers
  <2>1. Emit("sent") \/ Emit("end") \/ UNCHANGED wire
    BY <1>6 DEF NetworkAnswers
  <2>2. wire' \in Seq(Wires)
    BY <1>0, <2>1, WireType DEF Wires
  <2>3. draft.msg \in Msgs /\ draft.part \in Nat
    BY <1>0, <1>6 DEF NetworkAnswers, ModemOK, Segment
  <2>4. [taken EXCEPT ![draft.msg] = @ \union {draft.part}] \in [Msgs -> SUBSET Nat]
    BY <1>0, <2>3 DEF ModemOK
  <2>5. taken' \in [Msgs -> SUBSET Nat] /\ faults' \in 0..MaxFaults
    BY <1>0, <1>6, <2>4 DEF NetworkAnswers, Fault, ModemOK
  <2>6. ModemOK'
    BY <1>0, <1>6, <2>5 DEF NetworkAnswers, ModemOK
  <2>7. todo' \in Seq(Items)
    BY <1>0, <1>6 DEF NetworkAnswers, LineOK, Items
  <2> QED BY <1>1, <2>2, <2>6, <2>7 DEF TypeOK, LineOK, Items, Wires
<1> QED BY <1>2, <1>3, <1>4, <1>5, <1>6, <1>7 DEF ModemStep

\* What is consumed leaves a wire.
LEMMA CollectType ==
  ASSUME LineOK, \/ \E r \in Results : Collect(r)
                 \/ UNCHANGED wire
  PROVE  wire' \in Seq(Wires)
<1>1. wire \in Seq(Wires)
  BY DEF LineOK, Wires
<1>2. ASSUME NEW i \in 1..Len(wire) PROVE SubSeq(wire, i + 1, Len(wire)) \in Seq(Wires)
  BY <1>1, PartType
<1> QED BY <1>1, <1>2 DEF Collect

LEMMA TimesOutType ==
  ASSUME ModemOK, TimesOut, UNCHANGED <<modem, faults, prompts>> PROVE ModemOK'
<1>1. late' \in 0..MaxLate
  BY DEF TimesOut, ModemOK
<1> QED BY <1>1 DEF ModemOK

LEMMA EndSendType ==
  ASSUME SessionOK, job # None, NEW outcome \in {"sent", "failed"}, EndSend(outcome),
         UNCHANGED up, wait' \in {"none", "answer"}
  PROVE  SessionOK'
<1>1. plan' \in Seq(Commands)
  <2>1. SetCharset("IRA") \in Seq(Commands) /\ <<>> \in Seq(Commands)
    BY CharsetPlan DEF Sets
  <2> QED BY <2>1 DEF EndSend
<1>2. told' \in [Msgs -> {"none", "pending", "sent", "failed", "lost"}]
  BY DEF EndSend, SessionOK
<1> QED BY <1>1, <1>2 DEF EndSend, SessionOK, Waits

\* Texts and headers of the segment that is being sent.
LEMMA SegmentItems ==
  ASSUME SessionOK, job # None
  PROVE  Header(job, part) \in Items /\ Text(job, part) \in Items
BY DEF SessionOK, Items, Header, Text

LEMMA WriteType ==
  ASSUME LineOK, NEW c \in Items
  PROVE  Append(todo, c) \in Seq(Items)
BY AppendType DEF LineOK, Items

LEMMA EscItem == Esc \in Items
BY DEF Items, Commands

LEMMA SessionType == ASSUME TypeOK, Session PROVE TypeOK'
<1>0. SessionOK /\ LineOK /\ ModemOK
  BY DEF TypeOK
<1>w. todo \in Seq(Items) /\ wire \in Seq(Wires)
  BY <1>0 DEF LineOK, Items, Wires
<1>1. CASE OpenSession
  <2>1. plan' \in Seq(Commands)
    BY <1>1, CharsetPlan DEF OpenSession, Sets
  <2> QED BY <1>0, <1>1, <2>1 DEF OpenSession, TypeOK, SessionOK, LineOK, ModemOK
<1>2. CASE StartExchange
  <2>1. plan' \in Seq(Commands)
    BY <1>2 DEF StartExchange, Commands
  <2> QED BY <1>0, <1>2, <2>1 DEF StartExchange, TypeOK, SessionOK, LineOK, ModemOK
<1>3. CASE WriteCommand
  <2>1. Head(plan) \in Commands /\ plan' \in Seq(Commands)
    BY <1>0, <1>3, TailType DEF WriteCommand, SessionOK
  <2>2. todo' \in Seq(Items)
    BY <1>0, <1>3, <2>1, WriteType DEF WriteCommand, Items
  <2>3. SessionOK'
    BY <1>0, <1>3, <2>1 DEF WriteCommand, SessionOK, Waits
  <2> QED BY <1>0, <1>3, <2>2, <2>3 DEF WriteCommand, TypeOK, LineOK, ModemOK, Items
<1>4. CASE EndExchange
  <2>1. wire' \in Seq(Wires)
    BY <1>0, <1>4, CollectType DEF EndExchange, TimesOut
  <2>2. SessionOK'
    BY <1>0, <1>4 DEF EndExchange, SessionOK, Waits
  <2>3. ModemOK'
    <3>1. CASE UNCHANGED late
      BY <1>0, <1>4, <3>1 DEF EndExchange, ModemOK
    <3>2. CASE TimesOut
      BY <1>0, <1>4, <3>2, TimesOutType DEF EndExchange
    <3> QED BY <1>4, <3>1, <3>2 DEF EndExchange
  <2> QED BY <1>0, <1>4, <2>1, <2>2, <2>3 DEF EndExchange, TypeOK, LineOK, Wires
<1>5. CASE WriteHeader
  <2>1. todo' \in Seq(Items)
    BY <1>0, <1>5, SegmentItems, WriteType DEF WriteHeader
  <2>2. SessionOK'
    BY <1>0, <1>5 DEF WriteHeader, SessionOK, Waits
  <2> QED BY <1>0, <1>5, <2>1, <2>2 DEF WriteHeader, TypeOK, LineOK, ModemOK, Items
<1>6. CASE Prompted
  <2>0. job # None
    BY <1>0, <1>6 DEF Prompted, SessionOK
  <2>1. todo' \in Seq(Items)
    BY <1>0, <1>6, <2>0, SegmentItems, WriteType DEF Prompted
  <2>2. SessionOK'
    BY <1>0, <1>6, <2>0 DEF Prompted, SessionOK, Waits
  <2>3. wire' \in Seq(Wires)
    <3>1. ASSUME NEW i \in 1..Len(wire) PROVE SubSeq(wire, i + 1, Len(wire)) \in Seq(Wires)
      BY <1>w, PartType
    <3> QED BY <1>6, <3>1 DEF Prompted
  <2> QED BY <1>0, <1>6, <2>1, <2>2, <2>3 DEF Prompted, TypeOK, LineOK, ModemOK, Items,
                                              Wires
<1>10. CASE Misprompted
  <2>0. job # None
    BY <1>0, <1>10 DEF Misprompted, SessionOK
  <2>1. todo' \in Seq(Items)
    BY <1>0, <1>10, <2>0, SegmentItems, WriteType DEF Misprompted
  <2>2. SessionOK'
    BY <1>0, <1>10, <2>0 DEF Misprompted, SessionOK, Waits
  <2>3. wire' \in Seq(Wires)
    <3>1. ASSUME NEW i \in 0..Len(wire) PROVE SubSeq(wire, i + 1, Len(wire)) \in Seq(Wires)
      BY <1>w, PartType
    <3> QED BY <1>10, <3>1 DEF Misprompted
  <2>4. ModemOK'
    <3>1. strays' \in 0..MaxStrays
      BY <1>0, <1>10 DEF Misprompted, ModemOK
    <3> QED BY <1>0, <1>10, <3>1 DEF Misprompted, ModemOK
  <2> QED BY <2>1, <2>2, <2>3, <2>4 DEF TypeOK, LineOK, Items, Wires
<1>7. CASE NoPrompt \/ NoResult
  <2>1. job # None /\ Abort /\ UNCHANGED up
    BY <1>0, <1>7 DEF NoPrompt, NoResult, SessionOK
  <2>2. SessionOK'
    BY <1>0, <2>1, EndSendType DEF Abort
  <2>3. todo' \in Seq(Items)
    BY <1>0, <2>1, EscItem, WriteType DEF Abort
  <2>4. wire' \in Seq(Wires)
    BY <1>w, <1>7 DEF NoPrompt, NoResult, TimesOut
  <2>5. ModemOK'
    <3>1. CASE NoPrompt
      <4>1. tardy' \in 0..MaxTardy
        BY <1>0, <3>1 DEF NoPrompt, ModemOK
      <4> QED BY <1>0, <3>1, <4>1 DEF NoPrompt, ModemOK
    <3>2. CASE NoResult
      BY <1>0, <3>2, TimesOutType DEF NoResult
    <3> QED BY <1>7, <3>1, <3>2
  <2> QED BY <2>2, <2>3, <2>4, <2>5 DEF TypeOK, LineOK, Items, Wires
<1>8. CASE SegmentSent \/ SegmentFailed
  <2>1. job # None /\ wait' = "none" /\ UNCHANGED <<up, todo, modem, late, faults, prompts>>
    BY <1>0, <1>8 DEF SegmentSent, SegmentFailed, SessionOK
  <2>2. wire' \in Seq(Wires)
    BY <1>0, <1>8, CollectType DEF SegmentSent, SegmentFailed, Results
  <2>3. SessionOK'
    <3>1. CASE EndSend("sent") \/ EndSend("failed")
      BY <1>0, <2>1, <3>1, EndSendType
    <3>2. CASE part < Parts[job] /\ part' = part + 1 /\ tries' = 1
               /\ UNCHANGED <<plan, job, told>>
      BY <1>0, <2>1, <3>2 DEF SessionOK, Waits
    <3>3. CASE tries < MaxAttempts /\ tries' = tries + 1 /\ UNCHANGED <<plan, job, part, told>>
      BY <1>0, <2>1, <3>3 DEF SessionOK, Waits
    <3> QED BY <1>8, <3>1, <3>2, <3>3 DEF SegmentSent, SegmentFailed
  <2> QED BY <1>0, <2>1, <2>2, <2>3 DEF TypeOK, LineOK, ModemOK, Wires
<1>9. CASE ReadLine
  <2>1. wire # <<>>
    BY <1>w, <1>9 DEF ReadLine, HasEnd
  <2>2. Tail(wire) \in Seq(Wires) /\ <<"end">> \in Seq(Wires)
    BY <1>w, <2>1, TailType DEF Wires
  <2>3. wire' \in Seq(Wires)
    BY <1>9, <2>2 DEF ReadLine
  <2> QED BY <1>0, <1>9, <2>3 DEF ReadLine, TypeOK, SessionOK, LineOK, ModemOK, Wires
<1> QED BY <1>1, <1>2, <1>3, <1>4, <1>5, <1>6, <1>7, <1>8, <1>9, <1>10 DEF Session

LEMMA StartType == ASSUME TypeOK, NEW m \in Msgs, StartSend(m) PROVE TypeOK'
<1>1. plan' \in Seq(Commands)
  <2>1. <<At>> \o SetCharset("UCS2") \in Seq(Commands)
    BY CharsetPlan DEF Sets
  <2>2. <<At>> \o <<>> \in Seq(Commands)
    BY DEF Commands
  <2> QED BY <2>1, <2>2 DEF StartSend
<1>2. told' \in [Msgs -> {"none", "pending", "sent", "failed", "lost"}]
  BY DEF StartSend, TypeOK, SessionOK
<1>3. 1 \in 1..Parts[m]
  OBVIOUS
<1> QED BY <1>1, <1>2, <1>3 DEF StartSend, TypeOK, SessionOK, LineOK, ModemOK

LEMMA LoseType == ASSUME TypeOK, LosePort PROVE TypeOK'
<1>1. todo \in Seq(Items)
  BY DEF TypeOK, LineOK, Items
<1>2. todo' \in Seq(Items)
  <2>1. ASSUME NEW n \in 0..Len(todo)
        PROVE  SubSeq(todo, 1, n) \in Seq(Items) /\ Append(SubSeq(todo, 1, n), Cut) \in Seq(Items)
    BY <1>1, PartType, AppendType DEF Items
  <2>2. CASE todo' = <<>>
    BY <2>2
  <2>3. CASE \E n \in 0..Len(todo) : \/ todo' = SubSeq(todo, 1, n)
                                    \/ todo' = Append(SubSeq(todo, 1, n), Cut)
    BY <2>1, <2>3
  <2> QED BY <2>2, <2>3 DEF LosePort
<1>3. SessionOK'
  <2>1. told' \in [Msgs -> {"none", "pending", "sent", "failed", "lost"}]
    BY DEF LosePort, TypeOK, SessionOK
  <2>2. plan' = <<>> /\ up' = FALSE /\ wait' = "none" /\ job' = None
        /\ part' = 1 /\ tries' = 1
    BY DEF LosePort
  <2>3. plan' \in Seq(Commands) /\ part' \in Nat /\ tries' \in 1..MaxAttempts
    BY <2>2
  <2> QED BY <2>1, <2>2, <2>3 DEF SessionOK, Waits
<1>4. faults' \in 0..MaxFaults /\ late' \in 0..MaxLate
  BY DEF LosePort, Fault, TypeOK, ModemOK
<1>5. UNCHANGED prompts
  BY DEF LosePort
<1>8. \/ UNCHANGED modem
      \/ mode' = "command" /\ draft' = NoDraft /\ refused' = {} /\ UNCHANGED taken
         /\ charset' = [p \in Params |-> "IRA"]
  BY DEF LosePort
<1>6. ModemOK'
  BY <1>4, <1>5, <1>8 DEF TypeOK, ModemOK, Sets
<1>7. wire' = <<>>
  BY DEF LosePort
<1> QED BY <1>2, <1>3, <1>6, <1>7 DEF TypeOK, LineOK, Items

LEMMA StepType == TypeOK /\ [Next]_vars => TypeOK'
<1> SUFFICES ASSUME TypeOK, [Next]_vars PROVE TypeOK'
  OBVIOUS
<1>1. CASE UNCHANGED vars
  BY <1>1 DEF vars, TypeOK, SessionOK, LineOK, ModemOK
<1> QED BY <1>1, ModemType, SessionType, StartType, LoseType DEF Next

\* The state is well typed: the segment that is being sent is one of its message,
\* and only a modem at the prompt or busy has the draft of one (send_sms_part).
THEOREM Typed == Spec => []TypeOK
BY InitType, StepType, PTL DEF Spec
-----------------------------------------------------------------------------
(* The dialogue. What is written behind a header is the text of it, or ESC *)
(* if the dialogue is abandoned; behind a text that a lost port has cut    *)
(* short it is ESC. An end that is still open is the session's own, while  *)
(* it waits for the prompt, or the next thing it writes is ESC.            *)

Opens(c) == c.op \in {"cmgs", "cut"}

Follows(c, n) ==
  \/ n = Esc
  \/ c.op = "cmgs" /\ n \in {Cut, Text(c.msg, c.part)}

Paired(t) == \A i \in 1..(Len(t) - 1) : Opens(t[i]) => Follows(t[i], t[i + 1])

LastOf(t) == t[Len(t)]

\* The modem will be at the prompt when it has dealt with all it was sent, as
\* far as the session can know.
Open == IF todo = <<>> THEN mode = "text" ELSE Opens(LastOf(todo))

\* What is open is the segment the session is sending.
OwnOpen ==
  /\ todo = <<>> => draft = [msg |-> job, part |-> part]
  /\ todo # <<>> => LastOf(todo) = Header(job, part)

Closed ==
  Open => \/ ~up
          \/ wait = "none" /\ plan # <<>> /\ Head(plan) = Esc
          \/ wait = "prompt" /\ OwnOpen

Dialogue ==
  /\ Paired(todo) /\ NoCommandSwallowed /\ Closed
  /\ ~up => wait = "none"

LEMMA PairedTail ==
  ASSUME NEW t \in Seq(Items), t # <<>>, Paired(t)
  PROVE  Paired(Tail(t))
<1>1. Len(Tail(t)) = Len(t) - 1 /\ \A i \in 1..Len(Tail(t)) : Tail(t)[i] = t[i + 1]
  OBVIOUS
<1> QED BY <1>1 DEF Paired

LEMMA TailLast ==
  ASSUME NEW t \in Seq(Items), t # <<>>
  PROVE  LastOf(t) = IF Tail(t) = <<>> THEN Head(t) ELSE LastOf(Tail(t))
<1> DEFINE n == Len(t)  k == Len(Tail(t))
<1>1. n \in Nat /\ k = n - 1 /\ \A i \in 1..k : Tail(t)[i] = t[i + 1]
  OBVIOUS
<1>2. /\ Tail(t) = <<>> => k = 0
      /\ Tail(t) # <<>> => k \in Nat \ {0}
  <2>1. Tail(t) \in Seq(Items)
    BY TailType
  <2> QED BY <2>1, EmptySeq, Zenon
<1>3. LastOf(t) = t[n] /\ LastOf(Tail(t)) = Tail(t)[k] /\ Head(t) = t[1]
  BY DEF LastOf
<1> HIDE DEF n, k
<1>4. CASE Tail(t) = <<>>
  <2>1. n = 1
    BY <1>1, <1>2, <1>4
  <2> QED BY <1>3, <1>4, <2>1, Zenon
<1>5. CASE Tail(t) # <<>>
  <2>1. k \in 1..k /\ k + 1 = n
    BY <1>1, <1>2, <1>5
  <2>2. Tail(t)[k] = t[n]
    BY <1>1, <2>1
  <2> QED BY <1>3, <1>5, <2>2
<1> QED BY <1>4, <1>5

LEMMA TailFollows ==
  ASSUME NEW t \in Seq(Items), Paired(t), Tail(t) # <<>>, t # <<>>, Opens(Head(t))
  PROVE  Follows(Head(t), Head(Tail(t)))
<1>1. Len(t) > 1 /\ Head(t) = t[1] /\ Head(Tail(t)) = t[2]
  OBVIOUS
<1>2. 1 \in 1..(Len(t) - 1) /\ 1 + 1 = 2
  BY <1>1
<1>3. Follows(t[1], t[1 + 1])
  BY <1>1, <1>2 DEF Paired, Opens
<1> QED BY <1>1, <1>2, <1>3, Zenon

LEMMA PairedAppend ==
  ASSUME NEW t \in Seq(Items), NEW c \in Items, Paired(t),
         (t # <<>> /\ Opens(LastOf(t))) => Follows(LastOf(t), c)
  PROVE  /\ Paired(Append(t, c)) /\ Append(t, c) # <<>> /\ LastOf(Append(t, c)) = c
         /\ t # <<>> => Head(Append(t, c)) = Head(t)
         /\ t = <<>> => Head(Append(t, c)) = c
<1>1. /\ Len(Append(t, c)) = Len(t) + 1 /\ Append(t, c)[Len(t) + 1] = c
      /\ \A i \in 1..Len(t) : Append(t, c)[i] = t[i]
  OBVIOUS
<1>2. ASSUME NEW i \in 1..(Len(Append(t, c)) - 1), Opens(Append(t, c)[i])
      PROVE  Follows(Append(t, c)[i], Append(t, c)[i + 1])
  <2>1. i \in 1..Len(t) /\ Append(t, c)[i] = t[i]
    BY <1>1
  <2>2. CASE i = Len(t)
    BY <1>1, <1>2, <2>1, <2>2 DEF LastOf
  <2>3. CASE i < Len(t)
    BY <1>1, <1>2, <2>1, <2>3 DEF Paired
  <2> QED BY <2>1, <2>2, <2>3
<1>3. Paired(Append(t, c))
  BY <1>2 DEF Paired
<1>4. LastOf(Append(t, c)) = c /\ Append(t, c) # <<>>
  BY <1>1 DEF LastOf
<1>5. /\ t # <<>> => Head(Append(t, c)) = Head(t)
      /\ t = <<>> => Head(Append(t, c)) = c
  BY <1>1
<1> QED BY <1>3, <1>4, <1>5

LEMMA PairedPart ==
  ASSUME NEW t \in Seq(Items), NEW n \in 0..Len(t), Paired(t)
  PROVE  /\ Paired(SubSeq(t, 1, n)) /\ SubSeq(t, 1, n) \in Seq(Items)
         /\ n # 0 => /\ SubSeq(t, 1, n) # <<>> /\ Head(SubSeq(t, 1, n)) = Head(t)
                     /\ LastOf(SubSeq(t, 1, n)) = t[n]
         /\ n = 0 => SubSeq(t, 1, n) = <<>>
<1>1. Len(SubSeq(t, 1, n)) = n /\ \A i \in 1..n : SubSeq(t, 1, n)[i] = t[i]
  OBVIOUS
<1>2. Paired(SubSeq(t, 1, n))
  BY <1>1 DEF Paired
<1>3. SubSeq(t, 1, n) \in Seq(Items)
  BY PartType
<1> QED BY <1>1, <1>2, <1>3 DEF LastOf

LEMMA InitDialogue == Init => Dialogue
BY DEF Init, Dialogue, Paired, NoCommandSwallowed, Closed, Open

\* What is written keeps the dialogue in order if it is fit for an open end.
LEMMA Writes ==
  ASSUME TypeOK, Dialogue, NEW c \in Items, todo' = Append(todo, c),
         UNCHANGED <<mode, draft>>,
         Open => c = Esc \/ (OwnOpen /\ c = Text(job, part))
  PROVE  /\ Paired(todo)' /\ NoCommandSwallowed' /\ todo' # <<>> /\ LastOf(todo') = c
         /\ Open' <=> Opens(c)
<1>1. todo \in Seq(Items) /\ Paired(todo)
  BY DEF TypeOK, LineOK, Items, Dialogue
<1>2. (todo # <<>> /\ Opens(LastOf(todo))) => Follows(LastOf(todo), c)
  BY DEF Open, OwnOpen, Follows, Header, Text
<1>3. /\ Paired(todo') /\ todo' # <<>> /\ LastOf(todo') = c
      /\ todo # <<>> => Head(todo') = Head(todo)
      /\ todo = <<>> => Head(todo') = c
  BY <1>1, <1>2, PairedAppend
<1>4. NoCommandSwallowed'
  <2>1. CASE todo # <<>>
    BY <1>3, <2>1 DEF Dialogue, NoCommandSwallowed
  <2>2. CASE todo = <<>>
    BY <1>3, <2>2 DEF Open, OwnOpen, NoCommandSwallowed, Text
  <2> QED BY <2>1, <2>2
<1> QED BY <1>3, <1>4 DEF Open, Paired

\* The modem deals with the first of what it was sent.
LEMMA Deals ==
  ASSUME TypeOK, Dialogue, todo # <<>>, todo' = Tail(todo), UNCHANGED session,
         \/ mode' # "text"
         \/ /\ mode' = "text" /\ Head(todo).op = "cmgs"
            /\ draft' = [msg |-> Head(todo).msg, part |-> Head(todo).part]
         \/ mode' = "text" /\ Head(todo).op = "cut"
  PROVE  Dialogue'
<1>1. todo \in Seq(Items) /\ Paired(todo)
  BY DEF TypeOK, LineOK, Items, Dialogue
<1>2. /\ Paired(todo')
      /\ todo' # <<>> => /\ LastOf(todo') = LastOf(todo)
                         /\ Opens(Head(todo)) => Follows(Head(todo), Head(todo'))
      /\ todo' = <<>> => LastOf(todo) = Head(todo)
  <2>1. Paired(Tail(todo))
    BY <1>1, PairedTail
  <2>2. LastOf(todo) = IF Tail(todo) = <<>> THEN Head(todo) ELSE LastOf(Tail(todo))
    BY <1>1, TailLast
  <2>3. ASSUME Tail(todo) # <<>>, Opens(Head(todo))
        PROVE  Follows(Head(todo), Head(Tail(todo)))
    BY <1>1, <2>3, TailFollows
  <2> QED BY <2>1, <2>2, <2>3
<1>3. NoCommandSwallowed'
  BY <1>2 DEF NoCommandSwallowed, Follows, Opens
<1>4. Open' => Open
  BY <1>2 DEF Open, Opens
<1>5. Open' /\ OwnOpen => OwnOpen'
  <2>1. CASE todo' # <<>>
    BY <1>2, <2>1 DEF OwnOpen
  <2>2. CASE todo' = <<>>
    BY <1>2, <2>2 DEF OwnOpen, Open, Header
  <2> QED BY <2>1, <2>2
<1>6. Closed'
  BY <1>4, <1>5 DEF Dialogue, Closed
<1> QED BY <1>2, <1>3, <1>6 DEF Dialogue, Paired

LEMMA ModemDialogue == ASSUME TypeOK, Dialogue, ModemStep PROVE Dialogue'
<1>1. UNCHANGED session
  BY DEF ModemStep, ModemCommand, ModemHeader, ModemText, ModemTyped, ModemEsc,
         NetworkAnswers
<1>2. CASE NetworkAnswers
  BY <1>1, <1>2 DEF NetworkAnswers, Dialogue, NoCommandSwallowed, Closed, Open, OwnOpen,
                    Paired
<1>3. CASE ModemCommand \/ ModemTyped \/ ModemEsc
  BY <1>1, <1>3, Deals DEF ModemCommand, ModemTyped, ModemEsc, Next1
<1>4. CASE ModemText
  BY <1>1, <1>4, Deals DEF ModemText, Next1
<1>5. CASE ModemHeader
  BY <1>1, <1>5, Deals DEF ModemHeader, OpensDraft, Next1
<1> QED BY <1>2, <1>3, <1>4, <1>5 DEF ModemStep

\* Where the session writes nothing and nothing is open, all stays in order.
LEMMA Quietly ==
  ASSUME Dialogue, UNCHANGED <<todo, mode, draft>>, ~Open,
         ~up' => wait' = "none"
  PROVE  Dialogue'
BY DEF Dialogue, Closed, Open, NoCommandSwallowed, Paired

LEMMA SessionDialogue == ASSUME TypeOK, Dialogue, Session PROVE Dialogue'
<1>1. CASE OpenSession
  <2>1. plan' # <<>> /\ Head(plan') = Esc /\ wait' = "none"
    BY <1>1, CharsetPlan DEF OpenSession, Sets, Dialogue
  <2> QED BY <1>1, <2>1
          DEF OpenSession, Dialogue, NoCommandSwallowed, Closed, Open, OwnOpen, Paired
<1>2. CASE StartExchange
  BY <1>2, Quietly DEF StartExchange, Idle, Dialogue, Closed
<1>3. CASE WriteCommand
  <2>1. Head(plan) \in Commands
    BY <1>3, TailType DEF WriteCommand, TypeOK, SessionOK
  <2>2. Head(plan) \in Items /\ ~Opens(Head(plan))
    BY <2>1 DEF Items, Commands, Esc, At, Opens
  <2>3. Open => Head(plan) = Esc
    BY <1>3 DEF WriteCommand, Dialogue, Closed
  <2>4. Paired(todo)' /\ NoCommandSwallowed' /\ ~Open'
    BY <1>3, <2>2, <2>3, Writes DEF WriteCommand
  <2> QED BY <1>3, <2>4 DEF WriteCommand, Dialogue, Closed
<1>4. CASE EndExchange
  BY <1>4, Quietly DEF EndExchange, Dialogue, Closed
<1>5. CASE WriteHeader
  <2>1. Header(job, part) \in Items /\ ~Open
    BY <1>5, SegmentItems DEF WriteHeader, TypeOK, Dialogue, Closed
  <2>2. /\ Paired(todo)' /\ NoCommandSwallowed'
        /\ todo' # <<>> /\ LastOf(todo') = Header(job, part)
    BY <1>5, <2>1, Writes DEF WriteHeader
  <2>3. OwnOpen' /\ wait' = "prompt" /\ up'
    BY <1>5, <2>2 DEF WriteHeader, OwnOpen
  <2> QED BY <2>2, <2>3 DEF Dialogue, Closed
<1>6. CASE Prompted \/ Misprompted
  <2>1. Text(job, part) \in Items /\ ~Opens(Text(job, part))
    BY <1>6, SegmentItems DEF Prompted, Misprompted, TypeOK, SessionOK, Opens, Text
  <2>2. Open => OwnOpen
    BY <1>6 DEF Prompted, Misprompted, Dialogue, Closed
  <2>3. Paired(todo)' /\ NoCommandSwallowed' /\ ~Open'
    BY <1>6, <2>1, <2>2, Writes DEF Prompted, Misprompted
  <2> QED BY <1>6, <2>3 DEF Prompted, Misprompted, Dialogue, Closed
<1>7. CASE NoPrompt \/ NoResult
  <2>1. ~Opens(Esc)
    BY DEF Opens, Esc
  <2>2. Paired(todo)' /\ NoCommandSwallowed' /\ ~Open'
    BY <1>7, <2>1, EscItem, Writes DEF NoPrompt, NoResult, Abort
  <2> QED BY <1>7, <2>2 DEF NoPrompt, NoResult, Dialogue, Closed
<1>8. CASE SegmentSent \/ SegmentFailed
  BY <1>8, Quietly DEF SegmentSent, SegmentFailed, Dialogue, Closed
<1>9. CASE ReadLine
  BY <1>9, Quietly DEF ReadLine, Idle, Dialogue, Closed
<1> QED BY <1>1, <1>2, <1>3, <1>4, <1>5, <1>6, <1>7, <1>8, <1>9 DEF Session

LEMMA LoseDialogue == ASSUME TypeOK, Dialogue, LosePort PROVE Dialogue'
<1>1. ~up' /\ wait' = "none"
  BY DEF LosePort
<1>2. todo \in Seq(Items) /\ Paired(todo) /\ Cut \in Items
  BY DEF TypeOK, LineOK, Items, Dialogue
<1>3. CASE todo' = <<>> /\ mode' = "command"
  BY <1>1, <1>3 DEF Dialogue, Paired, NoCommandSwallowed, Closed
<1>4. ASSUME NEW n \in 0..Len(todo), todo' = SubSeq(todo, 1, n), UNCHANGED modem
      PROVE  Dialogue'
  <2>1. Paired(todo') /\ (todo' # <<>> => Head(todo') = Head(todo) /\ todo # <<>>)
    BY <1>2, <1>4, PairedPart
  <2> QED BY <1>1, <1>4, <2>1 DEF Dialogue, Paired, NoCommandSwallowed, Closed
<1>5. ASSUME NEW n \in 0..Len(todo), n < Len(todo), todo[n + 1].op = "text",
             todo' = Append(SubSeq(todo, 1, n), Cut), UNCHANGED modem
      PROVE  Dialogue'
  <2> DEFINE s == SubSeq(todo, 1, n)
  <2>1. /\ Paired(s) /\ s \in Seq(Items)
        /\ n # 0 => s # <<>> /\ Head(s) = Head(todo) /\ LastOf(s) = todo[n]
        /\ n = 0 => s = <<>>
    BY <1>2, PairedPart
  <2>2. s # <<>> /\ Opens(LastOf(s)) => Follows(LastOf(s), Cut)
    <3>1. SUFFICES ASSUME n # 0, Opens(todo[n]) PROVE Follows(todo[n], Cut)
      BY <2>1
    <3>2. n \in 1..(Len(todo) - 1)
      BY <1>2, <1>5, <3>1
    <3>3. Follows(todo[n], todo[n + 1])
      BY <1>2, <3>1, <3>2 DEF Paired
    <3> QED BY <1>5, <3>3 DEF Follows, Esc
  <2> HIDE DEF s
  <2>3. /\ Paired(todo')
        /\ s # <<>> => Head(todo') = Head(s)
        /\ s = <<>> => Head(todo') = Cut
    BY <1>2, <1>5, <2>1, <2>2, PairedAppend DEF s
  <2>4. todo # <<>>
    BY <1>5
  <2>5. NoCommandSwallowed'
    BY <1>5, <2>1, <2>3, <2>4 DEF Dialogue, NoCommandSwallowed
  <2> QED BY <1>1, <2>3, <2>5 DEF Dialogue, Paired, Closed
<1> QED BY <1>3, <1>4, <1>5 DEF LosePort

LEMMA DialogueStep == TypeOK /\ Dialogue /\ [Next]_vars => Dialogue'
<1> SUFFICES ASSUME TypeOK, Dialogue, [Next]_vars PROVE Dialogue'
  OBVIOUS
<1>1. CASE UNCHANGED vars
  BY <1>1 DEF vars, Dialogue, NoCommandSwallowed, Closed, Open, OwnOpen, Paired
<1>2. ASSUME NEW m \in Msgs, StartSend(m) PROVE Dialogue'
  BY <1>2, Quietly DEF StartSend, Idle, Dialogue, Closed
<1> QED BY <1>1, <1>2, ModemDialogue, SessionDialogue, LoseDialogue DEF Next

\* A modem at the prompt gets the text of the segment whose header it accepted,
\* or ESC, whatever was late, refused, lost or restarted, and however often: the
\* protection does not rest on the bounds of the run (abort_to_command_mode,
\* recover_command_mode, send_sms_part).
THEOREM NothingSwallowed == Spec => []NoCommandSwallowed
<1>1. Dialogue => NoCommandSwallowed
  BY DEF Dialogue
<1> QED BY <1>1, Typed, InitDialogue, DialogueStep, PTL DEF Spec

-----------------------------------------------------------------------------
(* The character set. Every setting is on its way in the order in which it *)
(* was written, and the last one before a text is that of its message.     *)

IsSet(c, p) == c.op = "set" /\ c.par = p

\* Of the first n items of the list t, the last to set p sets it to s; none
\* sets it.
LastIs(t, n, p, s) ==
  \E k \in 1..n : t[k] = Set(p, s) /\ \A l \in (k + 1)..n : ~IsSet(t[l], p)
NoneSets(t, n, p) == \A l \in 1..n : ~IsSet(t[l], p)

\* How p stands when the modem has dealt with the first n items.
Stood(p, s) == charset[p] = s \/ p \in refused
Stands(n, p, s) ==
  LastIs(todo, n, p, s) \/ (NoneSets(todo, n, p) /\ Stood(p, s))

TextIn(c, s) == c.op = "text" /\ Enc[c.msg] = s
TextsFit ==
  \A n \in 1..Len(todo) : \A p \in Params : \A s \in Sets :
    TextIn(todo[n], s) => Stands(n, p, s)

\* What the session sees to, by what it is about to write or has written.
Due == IF job = None THEN "IRA" ELSE Enc[job]
SeenTo(p) ==
  \/ LastIs(plan, Len(plan), p, Due)
  \/ NoneSets(plan, Len(plan), p) /\ Stands(Len(todo), p, Due)

Charset ==
  /\ TextsFit
  /\ up => \A p \in Params : SeenTo(p)
  /\ wait \in {"prompt", "result"} => plan = <<>>
  /\ wait \in {"prompt", "result"} \/ job # None => up

LEMMA SetAppend ==
  ASSUME NEW S, NEW t \in Seq(S), NEW c \in S, NEW p, NEW s
  PROVE  /\ \A n \in 0..Len(t) :
              /\ LastIs(t, n, p, s) <=> LastIs(Append(t, c), n, p, s)
              /\ NoneSets(t, n, p) <=> NoneSets(Append(t, c), n, p)
         /\ c = Set(p, s) => LastIs(Append(t, c), Len(t) + 1, p, s)
         /\ ~IsSet(c, p) =>
              /\ LastIs(t, Len(t), p, s) => LastIs(Append(t, c), Len(t) + 1, p, s)
              /\ NoneSets(t, Len(t), p) => NoneSets(Append(t, c), Len(t) + 1, p)
<1> DEFINE u == Append(t, c)  len == Len(t)
<1>1. len \in Nat /\ u[len + 1] = c /\ \A i \in 1..len : u[i] = t[i]
  <2>1. len \in Nat
    BY LenProperties
  <2>2. u[len + 1] = c
    BY AppendProperties
  <2>3. \A i \in 1..len : u[i] = t[i]
    BY AppendProperties
  <2> QED BY <2>1, <2>2, <2>3
<1> HIDE DEF u, len
<1>2. ASSUME NEW n \in 0..len
      PROVE  /\ LastIs(t, n, p, s) <=> LastIs(u, n, p, s)
             /\ NoneSets(t, n, p) <=> NoneSets(u, n, p)
  BY SMTT(20), <1>1 DEF LastIs, NoneSets
<1>3. c = Set(p, s) => LastIs(u, len + 1, p, s)
  <2>1. len + 1 \in 1..(len + 1) /\ (len + 1 + 1)..(len + 1) = {}
    BY <1>1
  <2> QED BY <1>1, <2>1 DEF LastIs
<1>4. ASSUME ~IsSet(c, p)
      PROVE  /\ LastIs(t, len, p, s) => LastIs(u, len + 1, p, s)
             /\ NoneSets(t, len, p) => NoneSets(u, len + 1, p)
  <2>1. ASSUME NEW k \in 1..len, t[k] = Set(p, s),
               \A l \in (k + 1)..len : ~IsSet(t[l], p)
        PROVE  LastIs(u, len + 1, p, s)
    <3>1. k \in 1..(len + 1) /\ u[k] = Set(p, s)
      BY <1>1, <2>1
    <3>2. ASSUME NEW l \in (k + 1)..(len + 1) PROVE ~IsSet(u[l], p)
      <4>1. l = len + 1 \/ (l \in 1..len /\ l \in (k + 1)..len)
        BY <1>1
      <4> QED BY <1>1, <1>4, <2>1, <4>1
    <3> QED BY <3>1, <3>2 DEF LastIs
  <2>2. ASSUME NoneSets(t, len, p), NEW l \in 1..(len + 1) PROVE ~IsSet(u[l], p)
    <3>1. l = len + 1 \/ l \in 1..len
      BY <1>1
    <3> QED BY <1>1, <1>4, <2>2, <3>1 DEF NoneSets
  <2> QED BY <2>1, <2>2 DEF LastIs, NoneSets
<1> QED BY <1>2, <1>3, <1>4 DEF u, len

LEMMA SetTail ==
  ASSUME NEW S, NEW t \in Seq(S), t # <<>>, NEW p, NEW s, NEW n \in 0..Len(Tail(t))
  PROVE  /\ LastIs(t, n + 1, p, s) =>
              \/ LastIs(Tail(t), n, p, s)
              \/ Head(t) = Set(p, s) /\ NoneSets(Tail(t), n, p)
         /\ NoneSets(t, n + 1, p) => ~IsSet(Head(t), p) /\ NoneSets(Tail(t), n, p)
<1> DEFINE u == Tail(t)
<1>1. \A i \in 1..n : i + 1 \in 1..(n + 1) /\ u[i] = t[i + 1]
  OBVIOUS
<1>2. Head(t) = t[1] /\ 1 \in 1..(n + 1) /\ n \in Nat
  OBVIOUS
<1> HIDE DEF u
<1>3. ASSUME NEW k \in 1..(n + 1), t[k] = Set(p, s),
             \A l \in (k + 1)..(n + 1) : ~IsSet(t[l], p)
      PROVE  LastIs(u, n, p, s) \/ (Head(t) = Set(p, s) /\ NoneSets(u, n, p))
  <2>1. CASE k = 1
    <3>1. ASSUME NEW l \in 1..n PROVE ~IsSet(u[l], p)
      <4>1. l + 1 \in (k + 1)..(n + 1)
        BY <1>2, <2>1
      <4> QED BY <1>1, <1>3, <4>1
    <3> QED BY <1>2, <1>3, <2>1, <3>1 DEF NoneSets
  <2>2. CASE k # 1
    <3>1. PICK j \in 1..n : j + 1 = k
      <4>1. k - 1 \in 1..n /\ (k - 1) + 1 = k
        BY <1>2, <2>2
      <4> QED BY <4>1
    <3>2. u[j] = Set(p, s)
      BY <1>1, <1>3, <3>1
    <3>3. ASSUME NEW l \in (j + 1)..n PROVE ~IsSet(u[l], p)
      <4>1. l \in 1..n /\ l + 1 \in (k + 1)..(n + 1)
        BY <1>2, <3>1
      <4> QED BY <1>1, <1>3, <4>1
    <3> QED BY <3>1, <3>2, <3>3 DEF LastIs
  <2> QED BY <2>1, <2>2
<1>4. NoneSets(t, n + 1, p) => ~IsSet(Head(t), p) /\ NoneSets(u, n, p)
  BY <1>1, <1>2 DEF NoneSets
<1> QED BY <1>3, <1>4 DEF LastIs, u

LEMMA SetPart ==
  ASSUME NEW S, NEW t \in Seq(S), NEW p, NEW s, NEW k \in 0..Len(t), NEW n \in 0..k
  PROVE  /\ LastIs(t, n, p, s) <=> LastIs(SubSeq(t, 1, k), n, p, s)
         /\ NoneSets(t, n, p) <=> NoneSets(SubSeq(t, 1, k), n, p)
<1> DEFINE u == SubSeq(t, 1, k)
<1>1. \A i \in 1..n : u[i] = t[i]
  OBVIOUS
<1> HIDE DEF u
<1> QED BY <1>1 DEF LastIs, NoneSets, u

\* What the session plans at its opening, for a message, and after it.
LEMMA LastTwo ==
  ASSUME NEW s \in Sets, NEW p \in Params, NEW n \in Nat, n >= 2, NEW t,
         t[n - 1] = Set("cscs", s), t[n] = Set("csmp", s)
  PROVE  LastIs(t, n, p, s)
<1>1. CASE p = "cscs"
  <2>1. n - 1 \in 1..n /\ \A l \in ((n - 1) + 1)..n : l = n
    OBVIOUS
  <2>2. ~IsSet(t[n], p)
    BY <1>1 DEF IsSet, Set
  <2> QED BY <1>1, <2>1, <2>2 DEF LastIs
<1>2. CASE p = "csmp"
  <2>1. n \in 1..n /\ (n + 1)..n = {}
    OBVIOUS
  <2> QED BY <1>2, <2>1 DEF LastIs
<1> QED BY <1>1, <1>2 DEF Params

LEMMA CharsetLast ==
  ASSUME NEW s \in Sets, NEW p \in Params
  PROVE  /\ LastIs(SetCharset(s), Len(SetCharset(s)), p, s)
         /\ LastIs(<<At>> \o SetCharset(s), Len(<<At>> \o SetCharset(s)), p, s)
         /\ LastIs(<<Esc, At>> \o SetCharset(s), Len(<<Esc, At>> \o SetCharset(s)), p, s)
<1> DEFINE c == Set("cscs", s)  d == Set("csmp", s)  t == SetCharset(s)
<1>0. c \in Commands /\ d \in Commands /\ At \in Commands /\ Esc \in Commands
  BY DEF Set, Commands, Params
<1>1. t = <<c, d>>
  BY DEF SetCharset
<1> HIDE DEF c, d, t
<1>2. t \in Seq(Commands) /\ Len(t) = 2 /\ t[1] = c /\ t[2] = d
  BY <1>0, <1>1
<1>3. LastIs(t, 2, p, s)
  BY <1>2, LastTwo DEF c, d
<1>4. ASSUME NEW a \in Seq(Commands) PROVE LastIs(a \o t, Len(a \o t), p, s)
  <2> DEFINE u == a \o t  n == Len(u)
  <2>0. Len(a) \in Nat
    BY LenProperties
  <2>c. /\ n = Len(a) + Len(t)
        /\ \A i \in 1..(Len(a) + Len(t)) : u[i] = IF i <= Len(a) THEN a[i] ELSE t[i - Len(a)]
    <3>1. t \in Seq(Commands)
      BY <1>2
    <3>2. Len(a \o t) = Len(a) + Len(t)
      BY <3>1
    <3>3. \A i \in 1..(Len(a) + Len(t)) :
            (a \o t)[i] = IF i <= Len(a) THEN a[i] ELSE t[i - Len(a)]
      BY <3>1
    <3> QED BY <3>2, <3>3
  <2>1. n = Len(a) + 2 /\ Len(a) \in Nat
    BY <1>2, <2>0, <2>c
  <2>2. u[Len(a) + 1] = c /\ u[Len(a) + 2] = d
    <3> DEFINE len == Len(a)
    <3>1. len \in Nat /\ len + 1 \in 1..(len + Len(t)) /\ len + 2 \in 1..(len + Len(t))
      BY <1>2, <2>1
    <3>2. \A i \in 1..(len + Len(t)) : u[i] = IF i <= len THEN a[i] ELSE t[i - len]
      BY <2>c
    <3> HIDE DEF len, u, n
    <3>3. u[len + 1] = t[(len + 1) - len] /\ u[len + 2] = t[(len + 2) - len]
      BY <3>1, <3>2
    <3>4. (len + 1) - len = 1 /\ (len + 2) - len = 2
      BY <3>1
    <3> QED BY <1>2, <3>3, <3>4 DEF len
  <2> HIDE DEF u, n
  <2>3. n \in Nat /\ n >= 2 /\ u[n - 1] = c /\ u[n] = d
    BY <2>1, <2>2
  <2>4. LastIs(u, n, p, s)
    BY <2>3, LastTwo DEF c, d
  <2> QED BY <2>4 DEF u, n
<1>5. <<At>> \in Seq(Commands) /\ <<Esc, At>> \in Seq(Commands)
  BY <1>0
<1> QED BY <1>2, <1>3, <1>4, <1>5 DEF t

LEMMA InitCharset == Init => Charset
BY DEF Init, Charset, TextsFit

\* What the session writes comes last.
LEMMA Appends ==
  ASSUME TypeOK, NEW c \in Items, todo' = Append(todo, c), UNCHANGED <<charset, refused>>,
         NEW p \in Params, NEW s \in Sets
  PROVE  /\ Len(todo') = Len(todo) + 1
         /\ \A n \in 1..Len(todo) : Stands(n, p, s) => Stands(n, p, s)'
         /\ c = Set(p, s) => Stands(Len(todo), p, s)'
         /\ ~IsSet(c, p) /\ Stands(Len(todo), p, s) => Stands(Len(todo), p, s)'
<1>1. todo \in Seq(Items) /\ Len(todo) \in Nat
  BY DEF TypeOK, LineOK, Items
<1>2. Len(todo') = Len(todo) + 1
  BY <1>1
<1>3. /\ \A n \in 0..Len(todo) :
           /\ LastIs(todo, n, p, s) <=> LastIs(todo', n, p, s)
           /\ NoneSets(todo, n, p) <=> NoneSets(todo', n, p)
      /\ c = Set(p, s) => LastIs(todo', Len(todo) + 1, p, s)
      /\ ~IsSet(c, p) =>
           /\ LastIs(todo, Len(todo), p, s) => LastIs(todo', Len(todo) + 1, p, s)
           /\ NoneSets(todo, Len(todo), p) => NoneSets(todo', Len(todo) + 1, p)
  BY <1>1, SetAppend
<1>4. Stood(p, s)' = Stood(p, s)
  BY DEF Stood
<1>5. \A n \in 1..Len(todo) : Stands(n, p, s) => Stands(n, p, s)'
  BY <1>3, <1>4 DEF Stands
<1>6. /\ c = Set(p, s) => Stands(Len(todo), p, s)'
      /\ ~IsSet(c, p) /\ Stands(Len(todo), p, s) => Stands(Len(todo), p, s)'
  BY <1>2, <1>3, <1>4 DEF Stands
<1> QED BY <1>2, <1>5, <1>6

LEMMA TextsAppended ==
  ASSUME TypeOK, TextsFit, NEW c \in Items, todo' = Append(todo, c),
         UNCHANGED <<charset, refused>>,
         \A p \in Params, s \in Sets : TextIn(c, s) => Stands(Len(todo), p, s)
  PROVE  TextsFit'
<1>1. todo \in Seq(Items) /\ Len(todo) \in Nat
  BY DEF TypeOK, LineOK, Items
<1>2. /\ Len(todo') = Len(todo) + 1 /\ todo'[Len(todo) + 1] = c
      /\ \A n \in 1..Len(todo) : todo'[n] = todo[n]
  BY <1>1
<1> SUFFICES ASSUME NEW n \in 1..Len(todo'), NEW p \in Params, NEW s \in Sets,
                    TextIn(todo'[n], s)
             PROVE  Stands(n, p, s)'
  BY DEF TextsFit, TextIn
<1>3. CASE n \in 1..Len(todo)
  <2>1. Stands(n, p, s)
    BY <1>2, <1>3 DEF TextsFit
  <2> QED BY <1>3, <2>1, Appends
<1>4. CASE n = Len(todo) + 1
  <2>1. Stands(Len(todo), p, s) /\ ~IsSet(c, p)
    BY <1>2, <1>4 DEF TextIn, IsSet
  <2>2. Stands(Len(todo), p, s)'
    BY <2>1, Appends
  <2>3. Len(todo)' = n
    BY <1>2, <1>4
  <2> QED BY <2>2, <2>3
<1> QED BY <1>1, <1>2, <1>3, <1>4

\* What the modem has dealt with is as it was going to be.
LEMMA DealsWithSet ==
  ASSUME TypeOK, todo # <<>>, todo' = Tail(todo), Obeys(Head(todo)) \/ Ignores(Head(todo)),
         NEW p \in Params, NEW s \in Sets, NEW n \in 0..Len(Tail(todo)),
         Stands(n + 1, p, s)
  PROVE  Stands(n, p, s)'
<1>1. todo \in Seq(Items) /\ charset \in [Params -> Sets]
  BY DEF TypeOK, LineOK, Items, ModemOK
<1>2. /\ LastIs(todo, n + 1, p, s) =>
           \/ LastIs(todo', n, p, s)
           \/ Head(todo) = Set(p, s) /\ NoneSets(todo', n, p)
      /\ NoneSets(todo, n + 1, p) => ~IsSet(Head(todo), p) /\ NoneSets(todo', n, p)
  BY <1>1, SetTail
<1>3. ~IsSet(Head(todo), p) /\ Stood(p, s) => Stood(p, s)'
  BY <1>1 DEF Stood, Obeys, Ignores, IsSet
<1>4. Head(todo) = Set(p, s) => Stood(p, s)'
  BY <1>1 DEF Stood, Obeys, Ignores, Set
<1> QED BY <1>2, <1>3, <1>4 DEF Stands

LEMMA ModemCharset == ASSUME TypeOK, Charset, ModemStep PROVE Charset'
<1>1. UNCHANGED session
  BY DEF ModemStep, ModemCommand, ModemHeader, ModemText, ModemTyped, ModemEsc,
         NetworkAnswers
<1>2. CASE NetworkAnswers
  BY <1>1, <1>2 DEF NetworkAnswers, Charset, TextsFit, SeenTo, Stands, Stood, Due
<1>3. CASE ~NetworkAnswers
  <2>1. todo # <<>> /\ todo' = Tail(todo) /\ (Obeys(Head(todo)) \/ Ignores(Head(todo)))
    BY <1>3 DEF ModemStep, ModemCommand, ModemHeader, ModemText, ModemTyped, ModemEsc,
                Next1, Obeys, Ignores
  <2>2. /\ todo \in Seq(Items) /\ Len(todo) \in Nat /\ Len(todo) = Len(todo') + 1
        /\ Len(todo') \in Nat
        /\ \A n \in 1..Len(todo') : /\ n + 1 \in 1..Len(todo) /\ todo'[n] = todo[n + 1]
                                    /\ todo[n + 1] \in Items
    BY <2>1 DEF TypeOK, LineOK, Items
  <2>3. ASSUME NEW n \in 1..Len(todo'), NEW p \in Params, NEW s \in Sets,
               TextIn(todo'[n], s)
        PROVE  Stands(n, p, s)'
    <3>1. n + 1 \in 1..Len(todo) /\ TextIn(todo[n + 1], s)
      BY <2>2, <2>3
    <3>2. Stands(n + 1, p, s)
      BY <3>1 DEF Charset, TextsFit
    <3>3. n \in 0..Len(Tail(todo))
      BY <2>1, <2>2
    <3> QED BY <2>1, <3>2, <3>3, DealsWithSet
  <2>4. TextsFit'
    BY <2>3 DEF TextsFit, TextIn
  <2>5. ASSUME NEW p \in Params, up PROVE SeenTo(p)'
    <3>1. PICK s \in Sets : s = Due
      BY DEF Due, TypeOK, SessionOK, Sets
    <3>2. Due' = s
      BY <1>1, <3>1 DEF Due
    <3>3. CASE LastIs(plan, Len(plan), p, s)
      BY <1>1, <3>2, <3>3 DEF SeenTo
    <3>4. CASE NoneSets(plan, Len(plan), p) /\ Stands(Len(todo), p, s)
      <4>1. PICK n \in 0..Len(Tail(todo)) : n = Len(todo') /\ n + 1 = Len(todo)
        <5>1. Len(todo') \in 0..Len(Tail(todo)) /\ Len(todo') + 1 = Len(todo)
          BY <2>1, <2>2
        <5> QED BY <5>1
      <4>2. Stands(n, p, s)'
        BY <2>1, <3>4, <4>1, DealsWithSet
      <4>3. Stands(Len(todo), p, s)'
        BY <4>1, <4>2
      <4> QED BY <1>1, <3>2, <3>4, <4>3 DEF SeenTo
    <3> QED BY <2>5, <3>1, <3>3, <3>4 DEF Charset, SeenTo
  <2> QED BY <1>1, <2>4, <2>5 DEF Charset
<1> QED BY <1>2, <1>3

\* What is planned last, the session sees to.
LEMMA PlannedAnew ==
  ASSUME NEW p \in Params, LastIs(plan', Len(plan'), p, Due') PROVE SeenTo(p)'
BY DEF SeenTo

LEMMA NothingPlanned ==
  ASSUME Charset, up, plan = <<>>, NEW p \in Params PROVE Stands(Len(todo), p, Due)
<1>1. Len(plan) = 0
  OBVIOUS
<1> QED BY <1>1 DEF Charset, SeenTo, LastIs

LEMMA NoneInEmpty == ASSUME NEW p PROVE NoneSets(<<>>, 0, p) /\ Len(<<>>) = 0
BY DEF NoneSets

LEMMA WriteCommandCharset ==
  ASSUME TypeOK, Charset, WriteCommand PROVE Charset'
<1>1. PICK c \in Commands : c = Head(plan)
  BY TailType DEF WriteCommand, TypeOK, SessionOK
<1>2. /\ c \in Items /\ todo' = Append(todo, c) /\ plan' = Tail(plan) /\ plan # <<>>
      /\ c.op # "text" /\ plan \in Seq(Commands)
      /\ UNCHANGED <<charset, refused, up, job>> /\ wait' = "answer" /\ up
  BY <1>1 DEF WriteCommand, Items, Commands, Esc, At, TypeOK, SessionOK
<1>3. TextsFit'
  BY <1>2, TextsAppended DEF Charset, TextIn
<1>4. ASSUME NEW p \in Params PROVE SeenTo(p)'
  <2>1. PICK s \in Sets : s = Due /\ Due' = s
    BY <1>2 DEF Due, TypeOK, SessionOK, Sets
  <2>2. PICK n \in 0..Len(Tail(plan)) : n = Len(plan') /\ n + 1 = Len(plan)
    <3>1. Len(Tail(plan)) \in Nat /\ Len(Tail(plan)) + 1 = Len(plan)
      BY <1>2
    <3>2. Len(plan') \in 0..Len(Tail(plan))
      BY <1>2, <3>1
    <3> QED BY <1>2, <3>1, <3>2
  <2>3. /\ LastIs(plan, n + 1, p, s) =>
             \/ LastIs(plan', n, p, s)
             \/ c = Set(p, s) /\ NoneSets(plan', n, p)
        /\ NoneSets(plan, n + 1, p) => ~IsSet(c, p) /\ NoneSets(plan', n, p)
    BY <1>1, <1>2, SetTail
  <2>4. /\ c = Set(p, s) => Stands(Len(todo), p, s)'
        /\ ~IsSet(c, p) /\ Stands(Len(todo), p, s) => Stands(Len(todo), p, s)'
    BY <1>2, Appends
  <2>5. LastIs(plan, n + 1, p, s) \/ (NoneSets(plan, n + 1, p) /\ Stands(Len(todo), p, s))
    BY <1>2, <2>1, <2>2 DEF Charset, SeenTo
  <2>6. LastIs(plan', n, p, s) \/ (NoneSets(plan', n, p) /\ Stands(Len(todo), p, s)')
    BY <2>3, <2>4, <2>5
  <2> QED BY <2>1, <2>2, <2>6 DEF SeenTo
<1> QED BY <1>2, <1>3, <1>4 DEF Charset

\* A message ends: what it set is set back.
LEMMA EndSendCharset ==
  ASSUME TypeOK, Charset, wait \in {"prompt", "result"},
         NEW outcome, EndSend(outcome), UNCHANGED <<up, charset, refused>>,
         wait' \notin {"prompt", "result"},
         UNCHANGED todo \/ todo' = Append(todo, Esc)
  PROVE  Charset'
<1>1. up /\ plan = <<>> /\ job \in Msgs /\ job' = None
  BY DEF Charset, EndSend, TypeOK, SessionOK
<1>2. Esc \in Items /\ Esc.op # "text" /\ \A p : ~IsSet(Esc, p)
  BY EscItem DEF Esc, IsSet
<1>3. TextsFit'
  <2>1. CASE UNCHANGED todo
    BY <2>1 DEF Charset, TextsFit, Stands, Stood
  <2>2. CASE todo' = Append(todo, Esc)
    BY <1>2, <2>2, TextsAppended DEF Charset, TextIn
  <2> QED BY <2>1, <2>2
<1>4. ASSUME NEW p \in Params PROVE SeenTo(p)'
  <2>1. PICK s \in Sets : s = "IRA" /\ Due' = s
    BY <1>1 DEF Due, Sets
  <2>2. CASE Enc[job] = "UCS2"
    BY <2>1, <2>2, CharsetLast, PlannedAnew DEF EndSend
  <2>3. CASE Enc[job] # "UCS2"
    <3>1. Due = s /\ plan' = <<>>
      BY <1>1, <2>1, <2>3 DEF Due, EndSend, Sets
    <3>2. Stands(Len(todo), p, s)
      BY <1>1, <3>1, NothingPlanned
    <3>3. Stands(Len(todo), p, s)'
      <4>1. CASE UNCHANGED todo
        BY <3>2, <4>1 DEF Stands, Stood
      <4>2. CASE todo' = Append(todo, Esc)
        BY <1>2, <3>2, <4>2, Appends
      <4> QED BY <4>1, <4>2
    <3>4. NoneSets(plan', Len(plan'), p)
      BY <3>1, NoneInEmpty
    <3> QED BY <2>1, <3>3, <3>4 DEF SeenTo
  <2> QED BY <2>2, <2>3
<1> QED BY <1>1, <1>3, <1>4 DEF Charset

\* Where nothing is written, planned or begun.
LEMMA CharsetKept ==
  ASSUME Charset, UNCHANGED <<todo, plan, job, up, charset, refused>>,
         wait' = wait \/ wait' \notin {"prompt", "result"}
  PROVE  Charset'
BY DEF Charset, TextsFit, SeenTo, Stands, Stood, Due

\* Where nothing is written, and what is planned is seen to.
LEMMA CharsetPlanned ==
  ASSUME Charset, UNCHANGED <<todo, charset, refused>>, up', wait' \notin {"prompt", "result"},
         \A p \in Params : SeenTo(p)'
  PROVE  Charset'
<1>1. TextsFit'
  BY DEF Charset, TextsFit, Stands, Stood
<1> QED BY <1>1 DEF Charset

LEMMA SessionCharset == ASSUME TypeOK, Charset, Session PROVE Charset'
<1>1. CASE OpenSession
  <2>1. plan' = <<Esc, At>> \o SetCharset("IRA") /\ Due' = "IRA" /\ "IRA" \in Sets
        /\ wait' \notin {"prompt", "result"}
    BY <1>1 DEF OpenSession, Due, Charset, TypeOK, SessionOK, Sets
  <2>2. \A p \in Params : SeenTo(p)'
    BY <2>1, CharsetLast, PlannedAnew
  <2> QED BY <1>1, <2>1, <2>2, CharsetPlanned DEF OpenSession
<1>2. CASE StartExchange
  <2>1. ASSUME NEW p \in Params PROVE SeenTo(p)'
    <3>1. PICK s \in Sets : s = Due /\ Due' = s
      BY <1>2 DEF Due, StartExchange, TypeOK, SessionOK, Sets
    <3>2. Stands(Len(todo), p, s)
      BY <1>2, <3>1, NothingPlanned DEF StartExchange, Idle
    <3>3. Stands(Len(todo), p, s)'
      BY <1>2, <3>2 DEF StartExchange, Stands, Stood
    <3>4. plan' = <<At>> /\ Len(plan') = 1 /\ plan'[1] = At /\ ~IsSet(At, p)
      BY <1>2 DEF StartExchange, IsSet, At
    <3>5. NoneSets(plan', Len(plan'), p)
      BY <3>4 DEF NoneSets
    <3> QED BY <3>1, <3>3, <3>5 DEF SeenTo
  <2> QED BY <1>2, <2>1, CharsetPlanned DEF StartExchange, Idle
<1>3. CASE WriteCommand
  BY <1>3, WriteCommandCharset
<1>4. CASE EndExchange
  BY <1>4, CharsetKept DEF EndExchange
<1>5. CASE WriteHeader \/ Prompted \/ Misprompted
  <2>1. PICK c \in Items : /\ todo' = Append(todo, c)
                           /\ c = Header(job, part) \/ c = Text(job, part)
    BY <1>5, SegmentItems DEF WriteHeader, Prompted, Misprompted, TypeOK, SessionOK
  <2>2. c.msg = job /\ job \in Msgs /\ (\A p : ~IsSet(c, p)) /\ plan = <<>> /\ up
    BY <1>5, <2>1 DEF Header, Text, IsSet, WriteHeader, Prompted, Misprompted, TypeOK,
                      SessionOK, Charset
  <2>3. /\ UNCHANGED <<plan, job, up, charset, refused>>
        /\ Due = Enc[job] /\ Due' = Enc[job] /\ Enc[job] \in Sets
    BY <1>5, <2>2 DEF WriteHeader, Prompted, Misprompted, Due, Sets
  <2>4. \A p \in Params : Stands(Len(todo), p, Enc[job])
    BY <2>2, <2>3, NothingPlanned
  <2>5. TextsFit'
    BY <2>1, <2>2, <2>3, <2>4, TextsAppended DEF Charset, TextIn
  <2>6. ASSUME NEW p \in Params PROVE SeenTo(p)'
    <3>1. PICK s \in Sets : s = Enc[job]
      BY <2>3
    <3>2. Stands(Len(todo), p, s)'
      BY <2>1, <2>2, <2>3, <2>4, <3>1, Appends
    <3>3. NoneSets(plan', Len(plan'), p)
      BY <2>2, <2>3, NoneInEmpty
    <3> QED BY <2>3, <3>1, <3>2, <3>3 DEF SeenTo
  <2> QED BY <2>2, <2>3, <2>5, <2>6 DEF Charset
<1>6. CASE NoPrompt \/ NoResult
  BY <1>6, EndSendCharset DEF NoPrompt, NoResult, Abort
<1>7. CASE SegmentSent \/ SegmentFailed
  <2>1. CASE EndSend("sent") \/ EndSend("failed")
    BY <1>7, <2>1, EndSendCharset DEF SegmentSent, SegmentFailed
  <2>2. CASE UNCHANGED <<plan, job>>
    BY <1>7, <2>2, CharsetKept DEF SegmentSent, SegmentFailed
  <2> QED BY <1>7, <2>1, <2>2 DEF SegmentSent, SegmentFailed
<1>8. CASE ReadLine
  BY <1>8, CharsetKept DEF ReadLine
<1> QED BY <1>1, <1>2, <1>3, <1>4, <1>5, <1>6, <1>7, <1>8 DEF Session

LEMMA StartCharset == ASSUME TypeOK, Charset, NEW m \in Msgs, StartSend(m) PROVE Charset'
<1>1. /\ up /\ plan = <<>> /\ job = None /\ job' = m /\ wait' = "none" /\ up'
      /\ UNCHANGED <<todo, charset, refused>>
  BY DEF StartSend, Idle
<1>2. Due = "IRA" /\ Due' = Enc[m] /\ Enc[m] \in Sets
  BY <1>1 DEF Due, Sets
<1>3. ASSUME NEW p \in Params PROVE SeenTo(p)'
  <2>1. CASE Enc[m] = "UCS2"
    BY <1>2, <2>1, CharsetLast, PlannedAnew DEF StartSend
  <2>2. CASE Enc[m] # "UCS2"
    <3>1. PICK s \in Sets : s = Due /\ Due' = s
      BY <1>2, <2>2 DEF Sets
    <3>2. Stands(Len(todo), p, s)
      BY <1>1, <3>1, NothingPlanned
    <3>3. Stands(Len(todo), p, s)'
      BY <1>1, <3>2 DEF Stands, Stood
    <3>4. plan' = <<At>> \o <<>> /\ ~IsSet(At, p)
      BY <2>2 DEF StartSend, IsSet, At
    <3>5. Len(plan') = 1 /\ plan'[1] = At
      BY <3>4
    <3>6. NoneSets(plan', Len(plan'), p)
      BY <3>4, <3>5 DEF NoneSets
    <3> QED BY <3>1, <3>3, <3>6 DEF SeenTo
  <2> QED BY <2>1, <2>2
<1> QED BY <1>1, <1>3, CharsetPlanned

LEMMA LoseCharset == ASSUME TypeOK, Charset, LosePort PROVE Charset'
<1>1. up' = FALSE /\ wait' = "none" /\ job' = None
  BY DEF LosePort
<1>2. todo \in Seq(Items) /\ \A i \in 1..Len(todo) : todo[i] \in Items
  BY DEF TypeOK, LineOK, Items
<1>3. CASE todo' = <<>>
  BY <1>1, <1>3 DEF Charset, TextsFit
<1>4. ASSUME NEW k \in 0..Len(todo), UNCHANGED modem,
             \/ todo' = SubSeq(todo, 1, k)
             \/ todo' = Append(SubSeq(todo, 1, k), Cut)
      PROVE  TextsFit'
  <2> DEFINE t == SubSeq(todo, 1, k)
  <2>1. t \in Seq(Items) /\ Cut \in Items /\ Len(t) = k /\ \A i \in 1..k : t[i] = todo[i]
    BY <1>2, PartType DEF Items
  <2> HIDE DEF t
  <2>2. \A n \in 1..Len(todo') : todo'[n].op = "text" => n \in 1..k /\ todo'[n] = todo[n]
    <3>1. CASE todo' = t
      BY <2>1, <3>1
    <3>2. CASE todo' = Append(t, Cut)
      <4>1. Len(todo') = k + 1 /\ todo'[k + 1] = Cut /\ \A i \in 1..k : todo'[i] = t[i]
        BY <2>1, <3>2
      <4>2. Cut.op # "text"
        BY DEF Cut
      <4> QED BY <2>1, <4>1, <4>2
    <3> QED BY <1>4, <3>1, <3>2 DEF t
  <2>3. ASSUME NEW n \in 1..k, NEW p \in Params, NEW s \in Sets, Stands(n, p, s)
        PROVE  Stands(n, p, s)'
    <3>1. /\ LastIs(todo, n, p, s) => LastIs(t, n, p, s)
          /\ NoneSets(todo, n, p) => NoneSets(t, n, p)
      BY <1>2, SetPart DEF t
    <3>2. /\ LastIs(t, n, p, s) => LastIs(todo', n, p, s)
          /\ NoneSets(t, n, p) => NoneSets(todo', n, p)
      <4>1. CASE todo' = t
        BY <4>1
      <4>2. CASE todo' = Append(t, Cut)
        <5>1. n \in 0..Len(t)
          BY <2>1
        <5> QED BY <2>1, <4>2, <5>1, SetAppend
      <4> QED BY <1>4, <4>1, <4>2 DEF t
    <3>3. Stood(p, s)' = Stood(p, s)
      BY <1>4 DEF Stood
    <3> QED BY <2>3, <3>1, <3>2, <3>3 DEF Stands
  <2>4. ASSUME NEW n \in 1..Len(todo'), NEW p \in Params, NEW s \in Sets,
               TextIn(todo'[n], s)
        PROVE  Stands(n, p, s)'
    <3>1. n \in 1..k /\ n \in 1..Len(todo) /\ TextIn(todo[n], s)
      BY <2>2, <2>4 DEF TextIn
    <3>2. Stands(n, p, s)
      BY <3>1 DEF Charset, TextsFit
    <3> QED BY <2>3, <3>1, <3>2
  <2> QED BY <2>4 DEF TextsFit, TextIn
<1>5. TextsFit'
  BY <1>3, <1>4 DEF LosePort, Charset
<1> QED BY <1>1, <1>5 DEF Charset

LEMMA CharsetStep == TypeOK /\ Charset /\ [Next]_vars => Charset'
<1>1. ASSUME Charset, UNCHANGED vars PROVE Charset'
  BY <1>1, CharsetKept DEF vars
<1> QED BY <1>1, ModemCharset, SessionCharset, StartCharset, LoseCharset DEF Next

\* The text is that of the message in the modem, whose set was the last asked
\* for.
LEMMA CharsetShows ==
  ASSUME TypeOK, Charset, NoCommandSwallowed PROVE TextInItsCharset
<1> SUFFICES ASSUME mode = "text", todo # <<>>, Head(todo).op = "text", NEW p \in Params
             PROVE  charset[p] = Enc[draft.msg] \/ p \in refused
  BY DEF TextInItsCharset
<1>1. /\ todo \in Seq(Items) /\ 1 \in 1..Len(todo) /\ Head(todo) = todo[1]
  BY DEF TypeOK, LineOK, Items
<1>2. todo[1].msg = draft.msg /\ todo[1].op = "text"
  BY <1>1 DEF NoCommandSwallowed, Esc, Cut, Text
<1>3. PICK s \in Sets : s = Enc[draft.msg]
  <2>1. draft.msg \in Msgs
    BY <1>1, <1>2 DEF Items, Commands, Cut, Esc, At
  <2> QED BY <2>1 DEF Sets
<1>4. Stands(1, p, s)
  BY <1>1, <1>2, <1>3 DEF Charset, TextsFit, TextIn
<1>5. ~LastIs(todo, 1, p, s)
  BY <1>2 DEF LastIs, Set
<1> QED BY <1>3, <1>4, <1>5 DEF Stands, Stood

\* A text is read in the character set of its message, or the modem did not
\* carry out the last setting it was sent, with any number of faults and late
\* answers: what a send set is set back before the next thing is written,
\* aborted or not, and a new session sets it again (handle_send, set_charset,
\* initialize).
THEOREM CharsetKeptRight == Spec => []TextInItsCharset
BY Typed, NothingSwallowed, InitCharset, CharsetStep, CharsetShows, PTL DEF Spec

-----------------------------------------------------------------------------
(* What holds while the session finds no prompt but its own. A text is     *)
(* then written to a modem that waits for it and has nothing else to do.   *)

Texty(c)  == c.op \in {"text", "cut"}
TextFirst == \A n \in 1..Len(todo) : Texty(todo[n]) => n = 1 /\ mode = "text"

LEMMA TextFirstAppended ==
  ASSUME TypeOK, TextFirst, NEW c \in Items, todo' = Append(todo, c), UNCHANGED mode,
         Texty(c) => todo = <<>> /\ mode = "text"
  PROVE  TextFirst'
<1>1. todo \in Seq(Items)
  BY DEF TypeOK, LineOK, Items
<1>2. /\ Len(todo') = Len(todo) + 1 /\ todo'[Len(todo) + 1] = c /\ Len(todo) \in Nat
      /\ \A n \in 1..Len(todo) : todo'[n] = todo[n]
      /\ todo = <<>> => Len(todo) = 0
  BY <1>1
<1>3. ASSUME NEW n \in 1..Len(todo'), Texty(todo'[n]) PROVE n = 1 /\ mode' = "text"
  <2>1. CASE n \in 1..Len(todo)
    BY <1>2, <1>3, <2>1 DEF TextFirst
  <2>2. CASE n = Len(todo) + 1
    BY <1>2, <1>3, <2>2
  <2> QED BY <1>2, <2>1, <2>2
<1> QED BY <1>3 DEF TextFirst, Texty

LEMMA TextFirstDealt ==
  ASSUME TypeOK, TextFirst, todo # <<>>, todo' = Tail(todo) PROVE TextFirst'
<1>1. ASSUME NEW n \in 1..Len(todo') PROVE ~Texty(todo'[n])
  <2>1. n + 1 \in 1..Len(todo) /\ n + 1 # 1 /\ todo'[n] = todo[n + 1]
    BY DEF TypeOK, LineOK
  <2> QED BY <2>1 DEF TextFirst
<1> QED BY <1>1 DEF TextFirst, Texty

NoStray == strays = 0

LEMMA NotMisprompted == ASSUME TypeOK, NoStray' PROVE ~Misprompted
BY DEF Misprompted, NoStray, TypeOK, ModemOK

LEMMA TextFirstStep ==
  TypeOK /\ PromptIsOwn /\ TextFirst /\ NoStray' /\ [Next]_vars => TextFirst'
<1> SUFFICES ASSUME TypeOK, PromptIsOwn, TextFirst, NoStray', [Next]_vars PROVE TextFirst'
  OBVIOUS
<1>9. ~Misprompted
  BY NotMisprompted
<1>0. todo \in Seq(Items)
  BY DEF TypeOK, LineOK, Items
<1>1. CASE UNCHANGED <<todo, mode>>
  BY <1>1 DEF TextFirst, Texty
<1>2. CASE ModemStep
  <2>1. CASE NetworkAnswers
    BY <2>1 DEF NetworkAnswers, TextFirst, Texty
  <2>2. CASE ~NetworkAnswers
    <3>1. todo # <<>> /\ todo' = Tail(todo)
      BY <1>2, <2>2 DEF ModemStep, ModemCommand, ModemHeader, ModemText, ModemTyped,
                        ModemEsc, Next1
    <3> QED BY <3>1, TextFirstDealt
  <2> QED BY <2>1, <2>2
<1>3. CASE WriteCommand
  <2>1. PICK c \in Commands : c = Head(plan)
    BY <1>3, TailType DEF WriteCommand, TypeOK, SessionOK
  <2>2. c \in Items /\ ~Texty(c) /\ todo' = Append(todo, c) /\ UNCHANGED mode
    BY <1>3, <2>1 DEF WriteCommand, Items, Commands, Esc, At, Texty
  <2> QED BY <2>2, TextFirstAppended
<1>4. CASE WriteHeader
  <2>1. Header(job, part) \in Items /\ ~Texty(Header(job, part))
    BY <1>4, SegmentItems DEF WriteHeader, TypeOK, Header, Texty
  <2> QED BY <1>4, <2>1, TextFirstAppended DEF WriteHeader
<1>5. CASE Prompted
  <2>1. Text(job, part) \in Items /\ todo = <<>> /\ mode = "text"
    BY <1>5, SegmentItems DEF Prompted, TypeOK, SessionOK, PromptIsOwn
  <2> QED BY <1>5, <2>1, TextFirstAppended DEF Prompted
<1>6. CASE NoPrompt \/ NoResult
  <2>1. ~Texty(Esc) /\ todo' = Append(todo, Esc) /\ UNCHANGED mode
    BY <1>6 DEF NoPrompt, NoResult, Abort, Texty, Esc
  <2> QED BY <2>1, EscItem, TextFirstAppended
<1>7. CASE LosePort
  <2>1. CASE todo' = <<>>
    BY <2>1 DEF TextFirst
  <2>2. ASSUME NEW k \in 0..Len(todo), todo' = SubSeq(todo, 1, k), UNCHANGED mode
        PROVE  TextFirst'
    <3>1. \A n \in 1..Len(todo') : n \in 1..Len(todo) /\ todo'[n] = todo[n]
      BY <1>0, <2>2
    <3> QED BY <2>2, <3>1 DEF TextFirst, Texty
  <2>3. ASSUME NEW k \in 0..Len(todo), k < Len(todo), todo[k + 1].op = "text",
               todo' = Append(SubSeq(todo, 1, k), Cut), UNCHANGED mode
        PROVE  TextFirst'
    <3>1. k + 1 \in 1..Len(todo) /\ Len(todo) \in Nat
      BY <1>0, <2>3
    <3>2. k + 1 = 1 /\ mode = "text"
      BY <2>3, <3>1 DEF TextFirst, Texty
    <3>3. k = 0
      BY <3>2
    <3>4. SubSeq(todo, 1, k) \in Seq(Items) /\ Len(SubSeq(todo, 1, k)) = k /\ Cut \in Items
      BY <1>0, PartType DEF Items
    <3>5. Len(todo') = 1
      BY <2>3, <3>3, <3>4
    <3> QED BY <2>3, <3>2, <3>5 DEF TextFirst
  <2> QED BY <1>7, <2>1, <2>2, <2>3 DEF LosePort
<1>8. CASE \/ OpenSession \/ StartExchange \/ EndExchange \/ SegmentSent
           \/ SegmentFailed \/ ReadLine \/ UNCHANGED vars
           \/ \E m \in Msgs : StartSend(m)
  BY <1>1, <1>8 DEF OpenSession, StartExchange, EndExchange, SegmentSent, SegmentFailed,
                    ReadLine, StartSend, vars
<1> QED BY <1>2, <1>3, <1>4, <1>5, <1>6, <1>7, <1>8, <1>9 DEF Next, Session

LEMMA TextFirstShows == TypeOK /\ TextFirst => NoTextExecuted
<1> SUFFICES ASSUME TypeOK, TextFirst, mode = "command", todo # <<>>
             PROVE  ~Texty(Head(todo))
  BY DEF NoTextExecuted, Texty
<1>1. 1 \in 1..Len(todo) /\ Head(todo) = todo[1]
  BY DEF TypeOK, LineOK
<1> QED BY <1>1 DEF TextFirst

\* As long as each prompt the session finds is its own, and no other ">" is taken
\* for one, no text is typed at the command line, whatever else was lost, late or
\* restarted (send_sms_part, wait_for_prompt).
THEOREM TextsAreRead == Spec /\ [](PromptIsOwn /\ NoStray) => []NoTextExecuted
<1>1. Init => TextFirst
  BY DEF Init, TextFirst
<1>2. TypeOK /\ TextFirst => NoTextExecuted
  BY TextFirstShows
<1> QED BY <1>1, <1>2, Typed, TextFirstStep, PTL DEF Spec

-----------------------------------------------------------------------------
(* What the network took. While a result is awaited, all that the modem    *)
(* has to do is the text it is awaited for, and all it has written is the  *)
(* result of it.                                                           *)

Own == [msg |-> job, part |-> part]

Awaited ==
  \/ todo = <<Text(job, part)>> /\ mode = "text" /\ draft = Own /\ wire = <<>>
  \/ todo = <<>> /\ mode = "busy" /\ draft = Own /\ wire = <<>>
  \/ /\ todo = <<>> /\ mode = "command" /\ Len(wire) <= 1
     /\ Len(wire) = 1 /\ wire[1] = "sent" => part \in taken[job]

PromptLast == \A i \in 1..Len(wire) : wire[i] = "prompt" => i = Len(wire)

InDialogue == (wait = "result" => Awaited) /\ (wait = "prompt" => PromptLast)

\* The segments that go out are segments of their messages.
HeadersFit == \A n \in 1..Len(todo) :
  todo[n].op = "cmgs" => todo[n].part \in 1..Parts[todo[n].msg]
PartsExist ==
  /\ HeadersFit
  /\ draft.msg \in Msgs => draft.part \in 1..Parts[draft.msg]
  /\ \A m \in Msgs : taken[m] \subseteq 1..Parts[m]

\* The segments before the one being sent were taken, and all those of a sent
\* message.
SoFar ==
  /\ job # None => \A q \in 1..(part - 1) : q \in taken[job]
  /\ \A m \in Msgs : told[m] = "sent" => \A q \in 1..Parts[m] : q \in taken[m]

LEMMA InitSends == Init => InDialogue /\ PartsExist /\ SoFar
BY DEF Init, InDialogue, PartsExist, HeadersFit, SoFar, NoDraft

\* The modem while a result is awaited.
LEMMA ModemInDialogue ==
  ASSUME TypeOK, PromptIsOwn, Charset, InDialogue, ModemStep PROVE InDialogue'
<1>0. UNCHANGED session /\ wire \in Seq(Wires)
  BY DEF ModemStep, ModemCommand, ModemHeader, ModemText, ModemTyped, ModemEsc,
         NetworkAnswers, TypeOK, LineOK, Wires
<1>1. ASSUME wait = "result" PROVE Awaited'
  <2>0. up /\ Awaited /\ job \in Msgs
    BY <1>1 DEF Charset, InDialogue, TypeOK, SessionOK
  <2>1. CASE todo = <<Text(job, part)>> /\ mode = "text" /\ draft = Own /\ wire = <<>>
    <3>1. Head(todo).op = "text" /\ Tail(todo) = <<>>
      BY <2>1 DEF Text
    <3>2. ModemText /\ Next1("text")
      BY <2>1, <3>1 DEF ModemStep, ModemCommand, ModemHeader, ModemText, ModemTyped,
                        ModemEsc, NetworkAnswers, Next1
    <3>3. todo' = <<>> /\ mode' = "busy" /\ UNCHANGED <<draft, wire>>
      BY <3>1, <3>2 DEF ModemText, Next1
    <3> QED BY <1>0, <2>1, <3>3 DEF Awaited, Own
  <2>2. CASE todo = <<>> /\ mode = "busy" /\ draft = Own /\ wire = <<>>
    <3>1. NetworkAnswers
      BY <2>2 DEF ModemStep, ModemCommand, ModemHeader, ModemText, ModemTyped, ModemEsc,
                  Next1
    <3>2. todo' = <<>> /\ mode' = "command"
      BY <2>2, <3>1 DEF NetworkAnswers
    <3>3. \/ wire' = <<"sent">> /\ taken' = [taken EXCEPT ![job] = @ \union {part}]
          \/ wire' = <<"end">> \/ wire' = <<>>
      BY <2>0, <2>2, <3>1 DEF NetworkAnswers, Emit, Own
    <3>4. wire' = <<"sent">> \/ wire' = <<"end">> \/ wire' = <<>>
      BY <3>3
    <3>5. Len(wire') <= 1
      <4>1. wire' = <<"sent">> => Len(wire') <= 1
        OBVIOUS
      <4>2. wire' = <<"end">> => Len(wire') <= 1
        OBVIOUS
      <4>3. wire' = <<>> => Len(wire') <= 1
        OBVIOUS
      <4> QED BY <3>4, <4>1, <4>2, <4>3, Zenon
    <3>8. Len(wire') = 1 /\ wire'[1] = "sent" => wire' = <<"sent">>
      <4>1. wire' = <<"end">> => wire'[1] # "sent"
        OBVIOUS
      <4>2. wire' = <<>> => Len(wire') # 1
        OBVIOUS
      <4> QED BY <3>4, <4>1, <4>2, Zenon
    <3>6. wire' = <<"sent">> => part \in taken'[job]
      BY <2>0, <3>3 DEF TypeOK, ModemOK
    <3>7. UNCHANGED <<job, part>>
      BY <1>0 DEF session
    <3> QED BY <3>2, <3>5, <3>8, <3>6, <3>7 DEF Awaited
  <2>3. CASE todo = <<>> /\ mode = "command"
    BY <2>3 DEF ModemStep, ModemCommand, ModemHeader, ModemText, ModemTyped, ModemEsc,
                Next1, NetworkAnswers
  <2> QED BY <2>0, <2>1, <2>2, <2>3 DEF Awaited
<1>2. ASSUME wait = "prompt" PROVE PromptLast'
  <2>1. CASE \E i \in 1..Len(wire) : wire[i] = "prompt"
    <3>1. todo = <<>> /\ mode = "text"
      BY <1>2, <2>1 DEF PromptIsOwn
    <3> QED BY <3>1 DEF ModemStep, ModemCommand, ModemHeader, ModemText, ModemTyped,
                        ModemEsc, Next1, NetworkAnswers
  <2>2. CASE \A i \in 1..Len(wire) : wire[i] # "prompt"
    <3>1. \/ wire' = wire
          \/ \E item \in Wires : wire' = Append(wire, item)
      BY DEF ModemStep, ModemCommand, ModemHeader, ModemText, ModemTyped, ModemEsc,
             NetworkAnswers, Emit, Wires
    <3>2. ASSUME NEW item \in Wires, wire' = Append(wire, item) PROVE PromptLast'
      <4>1. Len(wire') = Len(wire) + 1 /\ \A i \in 1..Len(wire) : wire'[i] = wire[i]
        BY <1>0, <3>2
      <4>2. \A i \in 1..Len(wire') : i \in 1..Len(wire) \/ i = Len(wire')
        BY <1>0, <4>1
      <4> QED BY <2>2, <4>1, <4>2 DEF PromptLast
    <3> QED BY <2>2, <3>1, <3>2 DEF PromptLast
  <2> QED BY <2>1, <2>2
<1> QED BY <1>0, <1>1, <1>2 DEF InDialogue

\* Into the wait for a prompt and, with the text, into that for a result.
LEMMA SessionInDialogue ==
  ASSUME TypeOK, PromptIsOwn, PromptIsOwn', InDialogue, NoStray',
         Session \/ LosePort \/ UNCHANGED vars \/ \E m \in Msgs : StartSend(m)
  PROVE  InDialogue'
<1>0. wire \in Seq(Wires) /\ todo \in Seq(Items)
  BY DEF TypeOK, LineOK, Wires, Items
<1>1. CASE WriteHeader
  <2>1. wait' = "prompt" /\ todo' # <<>>
    BY <1>0, <1>1 DEF WriteHeader
  <2>2. ~\E i \in 1..Len(wire') : wire'[i] = "prompt"
    BY <2>1 DEF PromptIsOwn
  <2> QED BY <2>1, <2>2 DEF InDialogue, PromptLast
<1>2. CASE Prompted
  <2>1. PICK i \in 1..Len(wire) : wire[i] = "prompt" /\ wire' = SubSeq(wire, i + 1, Len(wire))
    BY <1>2 DEF Prompted
  <2>2. i = Len(wire) /\ todo = <<>> /\ mode = "text" /\ draft = Own
    BY <1>2, <2>1 DEF Prompted, InDialogue, PromptLast, PromptIsOwn, Own
  <2>3. wire' = <<>>
    <3>1. Len(wire) \in Nat
      BY <1>0
    <3>2. wire' = SubSeq(wire, Len(wire) + 1, Len(wire))
      BY <2>1, <2>2
    <3> QED BY <1>0, <3>1, <3>2
  <2>4. /\ wait' = "result" /\ UNCHANGED <<job, part, mode, draft>>
        /\ todo' = <<Text(job, part)>>
    BY <1>2, <2>2 DEF Prompted
  <2>5. Awaited'
    BY <2>2, <2>3, <2>4 DEF Awaited, Own, Text
  <2> QED BY <2>4, <2>5 DEF InDialogue
<1>3. CASE UNCHANGED <<wait, job, part, todo, mode, draft, wire, taken>>
  BY <1>3 DEF InDialogue, Awaited, PromptLast, Own, Text
<1>4. CASE wait' \notin {"prompt", "result"}
  BY <1>4 DEF InDialogue
<1>5. ~Misprompted
  BY NotMisprompted
<1> QED BY <1>1, <1>2, <1>3, <1>4, <1>5
        DEF Session, OpenSession, StartExchange, WriteCommand, EndExchange, NoPrompt,
            Abort, NoResult, SegmentSent, SegmentFailed, ReadLine, StartSend, Idle,
            LosePort, vars

LEMMA HeadersAppended ==
  ASSUME TypeOK, HeadersFit, NEW c \in Items, todo' = Append(todo, c),
         c.op = "cmgs" => c.part \in 1..Parts[c.msg]
  PROVE  HeadersFit'
<1>1. todo \in Seq(Items)
  BY DEF TypeOK, LineOK, Items
<1>2. /\ Len(todo') = Len(todo) + 1 /\ todo'[Len(todo) + 1] = c /\ Len(todo) \in Nat
      /\ \A n \in 1..Len(todo) : todo'[n] = todo[n]
  BY <1>1
<1>3. \A n \in 1..Len(todo') : n \in 1..Len(todo) \/ n = Len(todo) + 1
  BY <1>2
<1> QED BY <1>2, <1>3 DEF HeadersFit

LEMMA HeadersFitStep == ASSUME TypeOK, PartsExist, [Next]_vars PROVE HeadersFit'
<1>0. todo \in Seq(Items) /\ HeadersFit
  BY DEF TypeOK, LineOK, Items, PartsExist
<1>1. CASE UNCHANGED todo
  BY <1>0, <1>1 DEF HeadersFit
<1>2. CASE todo # <<>> /\ todo' = Tail(todo)
  <2>1. \A n \in 1..Len(todo') : n + 1 \in 1..Len(todo) /\ todo'[n] = todo[n + 1]
    BY <1>0, <1>2
  <2> QED BY <1>0, <2>1 DEF HeadersFit
<1>3. CASE \/ WriteCommand \/ NoPrompt \/ NoResult \/ Prompted \/ Misprompted
           \/ WriteHeader
  <2>1. plan # <<>> => Head(plan) \in Commands
    BY TailType DEF TypeOK, SessionOK
  <2>2. PICK c \in Items : /\ todo' = Append(todo, c)
                           /\ c.op = "cmgs" => c.part \in 1..Parts[c.msg]
    <3>1. CASE WriteCommand
      BY <2>1, <3>1 DEF WriteCommand, Items, Commands, Esc, At
    <3>2. CASE NoPrompt \/ NoResult
      BY <3>2, EscItem DEF NoPrompt, NoResult, Abort, Esc
    <3>3. CASE Prompted \/ Misprompted
      BY <3>3, SegmentItems DEF Prompted, Misprompted, TypeOK, SessionOK, Text
    <3>4. CASE WriteHeader
      BY <3>4, SegmentItems DEF WriteHeader, TypeOK, SessionOK, Header
    <3> QED BY <1>3, <3>1, <3>2, <3>3, <3>4
  <2> QED BY <1>0, <2>2, HeadersAppended
<1>4. CASE LosePort
  <2>1. CASE todo' = <<>>
    BY <2>1 DEF HeadersFit
  <2>2. ASSUME NEW k \in 0..Len(todo), \/ todo' = SubSeq(todo, 1, k)
                                       \/ todo' = Append(SubSeq(todo, 1, k), Cut)
        PROVE  HeadersFit'
    <3> DEFINE t == SubSeq(todo, 1, k)
    <3>1. t \in Seq(Items) /\ Cut \in Items /\ Len(t) = k /\ \A i \in 1..k : t[i] = todo[i]
      BY <1>0, PartType DEF Items
    <3>2. k \in Nat /\ \A i \in 1..k : i \in 1..Len(todo)
      BY <1>0
    <3> HIDE DEF t
    <3>3. CASE todo' = t
      BY <1>0, <3>1, <3>2, <3>3 DEF HeadersFit
    <3>4. CASE todo' = Append(t, Cut)
      <4>1. Len(todo') = k + 1 /\ todo'[k + 1] = Cut /\ \A i \in 1..k : todo'[i] = t[i]
        BY <3>1, <3>4
      <4>2. \A n \in 1..Len(todo') : n \in 1..k \/ n = k + 1
        BY <3>2, <4>1
      <4>3. Cut.op # "cmgs"
        BY DEF Cut
      <4> QED BY <1>0, <3>1, <3>2, <4>1, <4>2, <4>3 DEF HeadersFit
    <3> QED BY <2>2, <3>3, <3>4 DEF t
  <2> QED BY <1>4, <2>1, <2>2 DEF LosePort
<1> QED BY <1>1, <1>2, <1>3, <1>4
        DEF Next, ModemStep, ModemCommand, ModemHeader, ModemText, ModemTyped, ModemEsc,
            NetworkAnswers, Next1, Session, OpenSession, StartExchange, EndExchange,
            SegmentSent, SegmentFailed, ReadLine, StartSend, vars

LEMMA PartsExistStep == ASSUME TypeOK, PartsExist, [Next]_vars PROVE PartsExist'
<1>1. HeadersFit'
  BY HeadersFitStep
<1>2. CASE UNCHANGED <<draft, taken>>
  BY <1>1, <1>2 DEF PartsExist
<1>3. CASE ModemHeader
  <2>1. 1 \in 1..Len(todo) /\ Head(todo) = todo[1] /\ Head(todo).op = "cmgs"
    BY <1>3 DEF ModemHeader, Next1, TypeOK, LineOK
  <2>2. Head(todo).part \in 1..Parts[Head(todo).msg]
    BY <2>1 DEF PartsExist, HeadersFit
  <2>3. OpensDraft \/ UNCHANGED draft
    BY <1>3 DEF ModemHeader
  <2>4. UNCHANGED taken
    BY <1>3 DEF ModemHeader
  <2> QED BY <1>1, <2>2, <2>3, <2>4 DEF PartsExist, OpensDraft
<1>4. CASE NetworkAnswers
  <2>1. draft.msg \in Msgs /\ draft.part \in 1..Parts[draft.msg]
    BY <1>4 DEF NetworkAnswers, TypeOK, ModemOK, Segment, PartsExist
  <2>2. \/ taken' = taken
        \/ taken' = [taken EXCEPT ![draft.msg] = @ \union {draft.part}]
    BY <1>4 DEF NetworkAnswers
  <2>3. \A m \in Msgs : taken'[m] \subseteq 1..Parts[m]
    BY <2>1, <2>2 DEF PartsExist, TypeOK, ModemOK
  <2>4. draft'.msg \notin Msgs
    BY <1>4 DEF NetworkAnswers, NoDraft
  <2> QED BY <1>1, <2>3, <2>4 DEF PartsExist
<1>5. CASE draft' = NoDraft /\ UNCHANGED taken
  BY <1>1, <1>5 DEF PartsExist, NoDraft
<1> QED BY <1>2, <1>3, <1>4, <1>5
        DEF Next, ModemStep, ModemCommand, ModemText, ModemTyped, ModemEsc, Session,
            OpenSession, StartExchange, WriteCommand, EndExchange, WriteHeader,
            Prompted, Misprompted, NoPrompt, NoResult, SegmentSent, SegmentFailed,
            ReadLine, StartSend, LosePort, vars

\* What was taken stays taken, and a message is not told sent in passing.
LEMMA SoFarKept ==
  ASSUME TypeOK, SoFar, \A m \in Msgs : taken[m] \subseteq taken'[m],
         \A m \in Msgs : told'[m] = "sent" => told[m] = "sent",
         job' = None \/ (job' \in Msgs /\ part' = 1) \/ UNCHANGED <<job, part>>
  PROVE  SoFar'
<1>1. \A m \in Msgs : told'[m] = "sent" => \A q \in 1..Parts[m] : q \in taken'[m]
  BY DEF SoFar
<1>2. job' # None => \A q \in 1..(part' - 1) : q \in taken'[job']
  BY DEF SoFar, TypeOK, SessionOK
<1> QED BY <1>1, <1>2 DEF SoFar

\* The result that a segment is called sent by is its own.
LEMMA ResultOwn ==
  ASSUME TypeOK, InDialogue, SegmentSent PROVE part \in taken[job]
<1>1. Awaited /\ wire \in Seq(Wires)
  BY DEF SegmentSent, InDialogue, TypeOK, LineOK, Wires
<1>2. PICK i \in 1..Len(wire) : wire[i] = "sent"
  BY DEF SegmentSent, Collect
<1>3. wire # <<>>
  BY <1>2
<1>4. Len(wire) <= 1
  BY <1>1, <1>3 DEF Awaited
<1>5. Len(wire) \in Nat
  BY <1>1
<1>6. i = 1 /\ Len(wire) = 1
  <2>1. i = 1
    BY <1>4, <1>5
  <2>2. 1 <= Len(wire)
    BY <1>5, <2>1
  <2>3. \A n \in Nat : n <= 1 /\ 1 <= n => n = 1
    OBVIOUS
  <2> QED BY <1>4, <1>5, <2>1, <2>2, <2>3
<1> QED BY <1>1, <1>2, <1>3, <1>6 DEF Awaited

LEMMA SoFarStep ==
  ASSUME TypeOK, SegmentSent => part \in taken[job], SoFar, [Next]_vars PROVE SoFar'
<1>0. \A m \in Msgs : taken[m] \subseteq taken'[m]
  <2>1. \/ UNCHANGED taken
        \/ \E m, q : taken' = [taken EXCEPT ![m] = @ \union {q}]
    BY DEF Next, ModemStep, ModemCommand, ModemHeader, ModemText, ModemTyped, ModemEsc,
           NetworkAnswers, Session, OpenSession, StartExchange, WriteCommand,
           EndExchange, WriteHeader, Prompted, Misprompted, NoPrompt, NoResult,
           SegmentSent, SegmentFailed, ReadLine, StartSend, LosePort, vars
  <2>2. DOMAIN taken = Msgs
    BY DEF TypeOK, ModemOK
  <2> QED BY <2>1, <2>2
<1>1. CASE SegmentSent
  <2>1. job \in Msgs /\ part \in 1..Parts[job] /\ UNCHANGED taken
    BY <1>1 DEF SegmentSent, TypeOK, SessionOK
  <2>2. part \in taken[job]
    BY <1>1
  <2>3. \A q \in 1..part : q \in taken[job]
    <3>1. \A q \in 1..part : q \in 1..(part - 1) \/ q = part
      BY <2>1
    <3> QED BY <2>1, <2>2, <3>1 DEF SoFar
  <2>4. CASE part < Parts[job]
    <3>1. part' = part + 1 /\ UNCHANGED <<job, told, taken>> /\ part' - 1 = part
      BY <1>1, <2>1, <2>4 DEF SegmentSent
    <3> QED BY <2>3, <3>1 DEF SoFar
  <2>5. CASE ~(part < Parts[job])
    <3>1. part = Parts[job]
      BY <2>1, <2>5
    <3>2. job' = None /\ told' = [told EXCEPT ![job] = "sent"]
      BY <1>1, <2>5 DEF SegmentSent, EndSend
    <3>3. \A m \in Msgs : told'[m] = "sent" => m = job \/ told[m] = "sent"
      BY <2>1, <3>2 DEF TypeOK, SessionOK
    <3> QED BY <2>1, <2>3, <3>1, <3>2, <3>3 DEF SoFar
  <2> QED BY <2>4, <2>5
<1>2. CASE NoPrompt \/ NoResult \/ SegmentFailed
  <2>1. EndSend("failed") \/ UNCHANGED <<job, part, told>>
    BY <1>2 DEF NoPrompt, NoResult, SegmentFailed, Abort
  <2>2. \A m \in Msgs : told'[m] = "sent" => told[m] = "sent"
    BY <2>1 DEF EndSend, TypeOK, SessionOK
  <2> QED BY <1>0, <2>1, <2>2, SoFarKept DEF EndSend
<1>3. ASSUME NEW m \in Msgs, StartSend(m) PROVE SoFar'
  <2>1. \A n \in Msgs : told'[n] = "sent" => told[n] = "sent"
    BY <1>3 DEF StartSend, TypeOK, SessionOK
  <2> QED BY <1>0, <1>3, <2>1, SoFarKept DEF StartSend
<1>4. CASE LosePort
  <2>1. \A m \in Msgs : told'[m] = "sent" => told[m] = "sent"
    BY <1>4 DEF LosePort
  <2> QED BY <1>0, <1>4, <2>1, SoFarKept DEF LosePort
<1>5. CASE UNCHANGED <<job, part, told>>
  BY <1>0, <1>5, SoFarKept
<1> QED BY <1>1, <1>2, <1>3, <1>4, <1>5
        DEF Next, ModemStep, ModemCommand, ModemHeader, ModemText, ModemTyped, ModemEsc,
            NetworkAnswers, Session, OpenSession, StartExchange, WriteCommand,
            EndExchange, WriteHeader, Prompted, Misprompted, ReadLine, vars

LEMMA SentStep ==
  ASSUME TypeOK, Charset, PromptIsOwn, PromptIsOwn', InDialogue, PartsExist, SoFar,
         NoStray', [Next]_vars
  PROVE  InDialogue' /\ PartsExist' /\ SoFar'
<1>1. ModemStep => InDialogue'
  BY ModemInDialogue
<1>2. Session \/ LosePort \/ UNCHANGED vars \/ (\E m \in Msgs : StartSend(m)) => InDialogue'
  BY SessionInDialogue
<1>3. InDialogue'
  BY <1>1, <1>2 DEF Next
<1> QED BY <1>3, ResultOwn, PartsExistStep, SoFarStep

\* As long as each prompt the session finds is its own, and no other ">" is taken
\* for one, a message is called sent only when the network took every segment of
\* it: no late result of an abandoned dialogue, and no answer to a command, is
\* taken for that of a segment (send_sms_part, collect_until_terminator).
THEOREM SentWasTaken == Spec /\ [](PromptIsOwn /\ NoStray) => []SentIsTaken
<1>1. TypeOK /\ Charset /\ PromptIsOwn /\ PromptIsOwn' /\ InDialogue /\ PartsExist /\ SoFar
        /\ NoStray' /\ [Next]_vars => InDialogue' /\ PartsExist' /\ SoFar'
  BY SentStep
<1>2. PartsExist /\ SoFar => SentIsTaken
  BY DEF PartsExist, SoFar, SentIsTaken
<1>3. TypeOK /\ Charset /\ [Next]_vars => Charset'
  BY CharsetStep
<1> QED BY <1>1, <1>2, <1>3, Typed, InitCharset, InitSends, PTL DEF Spec

-----------------------------------------------------------------------------
(* While no port is lost and no prompt late, every prompt is the session's *)
(* own: what is written and read is in order, so a header is the last      *)
(* thing written, and its prompt the last thing on the line.               *)

Headerless == \A n \in 1..Len(todo) : todo[n].op # "cmgs"
Promptless == \A i \in 1..Len(wire) : wire[i] # "prompt"

HeaderLast == \A n \in 1..Len(todo) : todo[n].op = "cmgs" =>
  n = Len(todo) /\ todo[n] = Header(job, part) /\ wait = "prompt" /\ Promptless
PromptForHeader == \A i \in 1..Len(wire) : wire[i] = "prompt" =>
  i = Len(wire) /\ wait = "prompt" /\ todo = <<>> /\ mode = "text" /\ draft = Own

InOrder == HeaderLast /\ PromptForHeader

LEMMA Without == InOrder /\ wait # "prompt" => Headerless /\ Promptless
BY DEF InOrder, HeaderLast, PromptForHeader, Headerless, Promptless

LEMMA WithoutIsInOrder == Headerless /\ Promptless => InOrder
BY DEF InOrder, HeaderLast, PromptForHeader, Headerless, Promptless

LEMMA HeaderlessAppended ==
  ASSUME TypeOK, Headerless, NEW c \in Items, c.op # "cmgs", todo' = Append(todo, c)
  PROVE  Headerless'
<1>1. todo \in Seq(Items)
  BY DEF TypeOK, LineOK, Items
<1>2. /\ Len(todo') = Len(todo) + 1 /\ todo'[Len(todo) + 1] = c /\ Len(todo) \in Nat
      /\ \A n \in 1..Len(todo) : todo'[n] = todo[n]
  BY <1>1
<1>3. \A n \in 1..Len(todo') : n \in 1..Len(todo) \/ n = Len(todo) + 1
  BY <1>2
<1> QED BY <1>2, <1>3 DEF Headerless

LEMMA PromptlessRest ==
  ASSUME TypeOK, Promptless, NEW i \in 1..Len(wire), wire' = SubSeq(wire, i + 1, Len(wire))
  PROVE  Promptless'
<1>1. wire \in Seq(Wires) /\ Len(wire) \in Nat
  BY DEF TypeOK, LineOK, Wires
<1>2. /\ Len(wire') = Len(wire) - i
      /\ \A j \in 1..Len(wire') : wire'[j] = wire[i + j] /\ i + j \in 1..Len(wire)
  BY <1>1
<1> QED BY <1>2 DEF Promptless

\* The modem deals with what it is sent one by one, in order.
LEMMA ModemInOrder == ASSUME TypeOK, InOrder, ModemStep PROVE InOrder'
<1>0. /\ todo \in Seq(Items) /\ wire \in Seq(Wires) /\ Len(wire) \in Nat
      /\ UNCHANGED session
  BY DEF TypeOK, LineOK, Items, Wires, ModemStep, ModemCommand, ModemHeader, ModemText,
         ModemTyped, ModemEsc, NetworkAnswers
<1>1. Promptless
  <2>1. mode = "busy" \/ todo # <<>>
    BY DEF ModemStep, ModemCommand, ModemHeader, ModemText, ModemTyped, ModemEsc,
           NetworkAnswers, Next1
  <2> QED BY <2>1 DEF InOrder, PromptForHeader, Promptless
<1>2. ASSUME NEW item \in Wires, wire' = Append(wire, item)
      PROVE  /\ item # "prompt" => Promptless'
             /\ \A i \in 1..Len(wire') : wire'[i] = "prompt" => i = Len(wire')
  <2>1. /\ Len(wire') = Len(wire) + 1 /\ wire'[Len(wire) + 1] = item
        /\ \A i \in 1..Len(wire) : wire'[i] = wire[i]
    BY <1>0, <1>2
  <2>2. \A i \in 1..Len(wire') : i \in 1..Len(wire) \/ i = Len(wire) + 1
    BY <1>0, <2>1
  <2> QED BY <1>1, <2>1, <2>2 DEF Promptless
<1>3. UNCHANGED wire => Promptless'
  BY <1>1 DEF Promptless
<1>4. CASE ModemHeader
  <2>1. 1 \in 1..Len(todo) /\ Head(todo) = todo[1] /\ Head(todo).op = "cmgs"
    BY <1>0, <1>4 DEF ModemHeader, Next1
  <2>2. Len(todo) = 1 /\ Head(todo) = Header(job, part) /\ wait = "prompt"
    BY <2>1 DEF InOrder, HeaderLast
  <2>3. todo' = <<>>
    BY <1>0, <1>4, <2>2 DEF ModemHeader, Next1
  <2>4. Headerless'
    BY <2>3 DEF Headerless
  <2>5. CASE OpensDraft /\ Emit("prompt") /\ up
    <3>1. wire' = Append(wire, "prompt") /\ "prompt" \in Wires
      BY <2>5 DEF Emit, Wires
    <3>2. \A i \in 1..Len(wire') : wire'[i] = "prompt" => i = Len(wire')
      BY <1>2, <3>1
    <3>3. mode' = "text" /\ draft' = Own' /\ wait' = "prompt"
      BY <1>0, <2>2, <2>5 DEF OpensDraft, Own, Header
    <3>4. HeaderLast'
      BY <2>4 DEF HeaderLast, Headerless
    <3> QED BY <2>3, <3>2, <3>3, <3>4 DEF InOrder, PromptForHeader
  <2>6. CASE Emit("end") /\ up
    BY <1>2, <2>4, <2>6, WithoutIsInOrder DEF Emit, Wires, InOrder, HeaderLast,
       PromptForHeader, Headerless, Promptless
  <2>7. CASE UNCHANGED wire
    <3>1. Promptless'
      BY <1>3, <2>7
    <3> QED BY <2>4, <3>1 DEF InOrder, HeaderLast, PromptForHeader, Headerless, Promptless
  <2> QED BY <1>4, <2>5, <2>6, <2>7 DEF ModemHeader, Emit
<1>5. CASE ~ModemHeader
  <2>1. Promptless'
    <3>1. \/ UNCHANGED wire
          \/ \E item \in Wires \ {"prompt"} : wire' = Append(wire, item)
      BY <1>5 DEF ModemStep, ModemCommand, ModemText, ModemTyped, ModemEsc,
                  NetworkAnswers, Emit, Wires
    <3> QED BY <1>2, <1>3, <3>1
  <2>2. UNCHANGED todo \/ (todo # <<>> /\ todo' = Tail(todo))
    BY <1>5 DEF ModemStep, ModemCommand, ModemText, ModemTyped, ModemEsc,
                NetworkAnswers, Next1
  <2>3. CASE UNCHANGED todo
    BY <1>0, <2>1, <2>3 DEF InOrder, HeaderLast, PromptForHeader, Promptless
  <2>4. CASE todo # <<>> /\ todo' = Tail(todo)
    <3>1. /\ Len(todo') = Len(todo) - 1 /\ Len(todo) \in Nat
          /\ \A n \in 1..Len(todo') : n + 1 \in 1..Len(todo) /\ todo'[n] = todo[n + 1]
      BY <1>0, <2>4
    <3>2. \A n \in 1..Len(todo') : n + 1 = Len(todo) => n = Len(todo')
      BY <3>1
    <3> QED BY <1>0, <2>1, <3>1, <3>2
            DEF InOrder, HeaderLast, PromptForHeader, Promptless
  <2> QED BY <2>2, <2>3, <2>4
<1> QED BY <1>4, <1>5

\* No prompt was given up while it was on its way, and nothing taken for one.
Timely == tardy = 0 /\ strays = 0

LEMMA InTime ==
  ASSUME TypeOK, Timely'
  PROVE  NoStray' /\ ~Misprompted /\ (NoPrompt => Quiet /\ NoPromptIn(Len(wire)))
<1>1. ~Misprompted /\ NoStray'
  BY NotMisprompted DEF Timely, NoStray
<1>2. NoPrompt => Quiet /\ NoPromptIn(Len(wire))
  BY DEF NoPrompt, Timely, TypeOK, ModemOK
<1> QED BY <1>1, <1>2

\* A header is written when there is none, and abandoned when it is gone.
LEMMA SessionInOrder == ASSUME TypeOK, InOrder, Timely', Session PROVE InOrder'
<1>0. todo \in Seq(Items) /\ Len(todo) \in Nat /\ wire \in Seq(Wires) /\ Len(wire) \in Nat
  BY DEF TypeOK, LineOK, Items, Wires
<1>6. ~Misprompted
  BY InTime
<1>1. CASE WriteHeader
  <2>1. Headerless /\ Promptless /\ Header(job, part) \in Items
    BY <1>1, Without, SegmentItems DEF WriteHeader, TypeOK
  <2>2. Promptless' /\ wait' = "prompt" /\ UNCHANGED <<job, part>>
    BY <1>1, <2>1 DEF WriteHeader, Promptless
  <2>3. /\ Len(todo') = Len(todo) + 1 /\ todo'[Len(todo) + 1] = Header(job, part)
        /\ \A n \in 1..Len(todo) : todo'[n] = todo[n]
    BY <1>0, <1>1, <2>1 DEF WriteHeader
  <2>4. \A n \in 1..Len(todo') : n \in 1..Len(todo) \/ n = Len(todo')
    BY <1>0, <2>3
  <2> QED BY <2>1, <2>2, <2>3, <2>4 DEF InOrder, HeaderLast, PromptForHeader, Headerless,
                                         Promptless
<1>2. CASE Prompted
  <2>1. PICK i \in 1..Len(wire) : wire[i] = "prompt" /\ wire' = SubSeq(wire, i + 1, Len(wire))
    BY <1>2 DEF Prompted
  <2>2. i = Len(wire) /\ todo = <<>>
    BY <2>1 DEF InOrder, PromptForHeader
  <2>3. Len(wire') = 0
    BY <1>0, <2>1, <2>2
  <2>4. Headerless
    BY <2>2 DEF Headerless
  <2>5. todo' = Append(todo, Text(job, part)) /\ Text(job, part) \in Items
    BY <1>2, SegmentItems DEF Prompted, TypeOK, SessionOK
  <2>6. Headerless'
    BY <2>4, <2>5, HeaderlessAppended DEF Text
  <2>7. Promptless'
    BY <2>3 DEF Promptless
  <2> QED BY <2>6, <2>7 DEF InOrder, HeaderLast, PromptForHeader, Headerless, Promptless
<1>3. CASE NoPrompt
  <2>0. Quiet /\ NoPromptIn(Len(wire))
    BY <1>3, InTime
  <2>1. todo = <<>> /\ Promptless /\ UNCHANGED wire /\ todo' = Append(todo, Esc)
    BY <1>3, <2>0 DEF NoPrompt, Quiet, NoPromptIn, Abort, Promptless
  <2>2. Headerless
    BY <2>1 DEF Headerless
  <2>3. Headerless'
    BY <2>1, <2>2, EscItem, HeaderlessAppended DEF Esc
  <2>4. Promptless'
    BY <2>1 DEF Promptless
  <2> QED BY <2>3, <2>4 DEF InOrder, HeaderLast, PromptForHeader, Headerless, Promptless
<1>4. CASE /\ wait # "prompt" /\ ~WriteHeader /\ ~Prompted /\ ~NoPrompt
  <2>1. Headerless /\ Promptless
    BY <1>4, Without
  <2>2. Headerless'
    <3>1. CASE UNCHANGED todo
      BY <2>1, <3>1 DEF Headerless
    <3>2. CASE WriteCommand
      <4>1. Head(plan) \in Commands
        BY <3>2, TailType DEF WriteCommand, TypeOK, SessionOK
      <4>2. Head(plan) \in Items /\ Head(plan).op # "cmgs" /\ todo' = Append(todo, Head(plan))
        BY <3>2, <4>1 DEF WriteCommand, Items, Commands, Esc, At
      <4> QED BY <2>1, <4>2, HeaderlessAppended
    <3>3. CASE NoResult
      BY <2>1, <3>3, EscItem, HeaderlessAppended DEF NoResult, Abort, Esc
    <3> QED BY <1>4, <1>6, <3>1, <3>2, <3>3
            DEF Session, OpenSession, StartExchange, EndExchange, SegmentSent,
                SegmentFailed, ReadLine
  <2>3. Promptless'
    <3>1. CASE UNCHANGED wire
      BY <2>1, <3>1 DEF Promptless
    <3>2. CASE \E i \in 1..Len(wire) : wire' = SubSeq(wire, i + 1, Len(wire))
      BY <2>1, <3>2, PromptlessRest
    <3>3. CASE ReadLine
      <4>1. /\ wire # <<>> /\ Len(Tail(wire)) = Len(wire) - 1 /\ Tail(wire) \in Seq(Wires)
            /\ \A i \in 1..Len(Tail(wire)) : /\ i + 1 \in 1..Len(wire)
                                             /\ Tail(wire)[i] = wire[i + 1]
        BY <1>0, <3>3 DEF ReadLine, HasEnd
      <4>2. CASE wire' = Tail(wire)
        BY <2>1, <4>1, <4>2 DEF Promptless
      <4>3. CASE wire' = <<"end">> \o Tail(wire)
        <5>1. <<"end">> \in Seq(Wires) /\ Len(<<"end">>) = 1 /\ <<"end">>[1] = "end"
          BY DEF Wires
        <5>2. /\ Len(wire') = 1 + Len(Tail(wire)) /\ wire'[1] = "end"
              /\ \A i \in 1..Len(wire') : i > 1 => wire'[i] = Tail(wire)[i - 1]
          BY <4>1, <4>3, <5>1, ConcatProperties
        <5>3. \A i \in 1..Len(wire') : i = 1 \/ (i > 1 /\ i - 1 \in 1..Len(Tail(wire)))
          BY <1>0, <4>1, <5>2
        <5> QED BY <2>1, <4>1, <5>2, <5>3 DEF Promptless
      <4> QED BY <3>3, <4>2, <4>3 DEF ReadLine
    <3> QED BY <1>4, <1>6, <3>1, <3>2, <3>3
            DEF Session, OpenSession, StartExchange, WriteCommand, EndExchange, NoResult,
                SegmentSent, SegmentFailed, Collect, TimesOut
  <2> QED BY <2>2, <2>3 DEF InOrder, HeaderLast, PromptForHeader, Headerless, Promptless
<1>5. CASE OpenSession
  BY <1>5 DEF OpenSession, InOrder, HeaderLast, PromptForHeader, Promptless, Own, Header
<1> QED BY <1>1, <1>2, <1>3, <1>4, <1>5, <1>6
        DEF Session, StartExchange, WriteCommand, EndExchange, NoResult, SegmentSent,
            SegmentFailed, ReadLine, Idle

LEMMA InOrderStep ==
  ASSUME TypeOK, InOrder, Timely', [Next]_vars, ~LosePort PROVE InOrder'
<1>1. CASE UNCHANGED <<todo, wire, wait, job, part, mode, draft>>
  BY <1>1 DEF InOrder, HeaderLast, PromptForHeader, Promptless, Own, Header
<1>2. ASSUME NEW m \in Msgs, StartSend(m) PROVE InOrder'
  <2>1. Headerless /\ Promptless /\ UNCHANGED <<todo, wire>>
    BY <1>2, Without DEF StartSend, Idle
  <2> QED BY <2>1 DEF InOrder, HeaderLast, PromptForHeader, Headerless, Promptless
<1> QED BY <1>1, <1>2, ModemInOrder, SessionInOrder DEF Next, vars

\* While no port is lost, no prompt comes later than the session waits for it and
\* no other ">" is taken for one, every prompt is the session's own, whatever
\* number of answers and results is lost, refused or comes too late
\* (wait_for_prompt, abort_to_command_mode, collect_until_terminator).
THEOREM PromptsAreOwn ==
  Spec /\ []Timely /\ [][~LosePort]_vars => []PromptIsOwn
<1>1. Init => InOrder
  BY DEF Init, InOrder, HeaderLast, PromptForHeader
<1>2. TypeOK /\ InOrder /\ Timely' /\ [Next]_vars /\ [~LosePort]_vars => InOrder'
  <2> SUFFICES ASSUME TypeOK, InOrder, Timely', [Next]_vars, [~LosePort]_vars PROVE InOrder'
    OBVIOUS
  <2>1. CASE UNCHANGED vars
    BY <2>1 DEF InOrder, HeaderLast, PromptForHeader, Promptless, Own, Header, vars
  <2>2. CASE ~LosePort
    BY <2>2, InOrderStep
  <2> QED BY <2>1, <2>2
<1>3. InOrder => PromptIsOwn
  BY DEF InOrder, PromptForHeader, PromptIsOwn, Own
<1> QED BY <1>1, <1>2, <1>3, Typed, PTL DEF Spec

-----------------------------------------------------------------------------
(* A lost port leaves headers behind, whose prompts the next session may   *)
(* find. Before a header of its own it writes ESC, AT, the two settings    *)
(* and the command that a send begins with, and waits for an answer to     *)
(* each; ESC alone need not have one. An answer that comes takes what was  *)
(* on the line before it along, and one that does not was lost or is late. *)
(* So after a lost port it takes four more of these to mislead a session:  *)
(* what follows counts them.                                               *)

One(b) == IF b THEN 1 ELSE 0
Busy   == One(mode = "busy")

\* What was written and not yet answered, and answers not yet read: none but
\* those that were given up, and the one that is awaited.
Pending == ~Headerless \/ ~Promptless
Waited  == wait \in {"answer", "result"} \/ (wait = "prompt" /\ Pending)
Load == Len(todo) + Len(wire) + Busy
Outstanding == Load <= late + faults + One(Waited)

\* The answers the session will have waited for when it writes a header,
\* without that to the ESC it begins with.
Ahead == Len(plan) + One(wait = "answer") + One(job = None)
Room  == IF up /\ Ahead <= 4 THEN Ahead ELSE 4

\* The answer that is awaited was lost.
Silence == wait = "answer" /\ Ahead <= 4 /\ Quiet /\ ~HasEnd

\* A header or prompt of an earlier session, with k things before it on the
\* line, is read away before the session writes a header of its own.
Slack   == late + faults + Room - One(Silence)
Owed(k) == k + 5 <= Slack
Owing   ==
  /\ \A q \in 1..Len(wire) : wire[q] = "prompt" => Owed(q - 1)
  /\ \A q \in 1..Len(todo) : todo[q].op = "cmgs" => Owed(Len(wire) + Busy + q - 1)

\* Every answer but that to the opening ESC is one the modem owes.
Awaits ==
  up /\ wait = "answer" /\ Ahead <= 4 /\ todo # <<>> => LastOf(todo).op \in {"at", "set"}

Down  == ~up => wait = "none" /\ plan = <<>> /\ job = None /\ wire = <<>>
Shape == \A n \in 1..Len(plan) : plan[n].op = "esc" => n = 1 /\ Len(plan) = 4 /\ job = None

Few     == Timely /\ late + faults <= 4
Orderly == InOrder \/ (Owing /\ Awaits)
Counted == Few => Outstanding /\ Orderly

Numbered ==
  /\ todo \in Seq(Items) /\ wire \in Seq(Wires) /\ plan \in Seq(Commands)
  /\ Len(todo) \in Nat /\ Len(wire) \in Nat /\ Len(plan) \in Nat
  /\ late \in Nat /\ faults \in Nat /\ Busy \in {0, 1}
  /\ Ahead \in Nat /\ Room \in 0..4 /\ Slack \in Int

LEMMA Numbers == TypeOK => Numbered
<1> SUFFICES ASSUME TypeOK PROVE Numbered
  OBVIOUS
<1>1. /\ todo \in Seq(Items) /\ wire \in Seq(Wires) /\ plan \in Seq(Commands)
      /\ late \in Nat /\ faults \in Nat
  BY DEF TypeOK, LineOK, SessionOK, ModemOK, Items, Wires
<1>2. Len(todo) \in Nat /\ Len(wire) \in Nat /\ Len(plan) \in Nat
  BY <1>1
<1>3. Busy \in {0, 1} /\ One(Silence) \in {0, 1} /\ Ahead \in Nat
  <2>1. Busy \in {0, 1} /\ One(Silence) \in {0, 1}
    BY DEF Busy, One
  <2>2. One(wait = "answer") \in Nat /\ One(job = None) \in Nat
    BY DEF One
  <2> QED BY <1>2, <2>1, <2>2 DEF Ahead
<1>4. Room \in 0..4
  BY <1>3 DEF Room
<1>5. Slack \in Int
  BY <1>1, <1>3, <1>4 DEF Slack
<1> QED BY <1>1, <1>2, <1>3, <1>4, <1>5 DEF Numbered

LEMMA NumbersNext == ASSUME TypeOK, [Next]_vars PROVE Numbered /\ Numbered'
<1>1. TypeOK'
  BY StepType
<1> QED BY <1>1, Numbers, PTL

LEMMA Dealt ==
  ASSUME NEW S, NEW s \in Seq(S), s # <<>>
  PROVE  /\ Tail(s) \in Seq(S) /\ Len(Tail(s)) = Len(s) - 1 /\ Len(s) \in Nat \ {0}
         /\ Head(s) = s[1] /\ 1 \in 1..Len(s)
         /\ \A q \in 1..(Len(s) - 1) : Tail(s)[q] = s[q + 1] /\ q + 1 \in 1..Len(s)
         /\ Tail(s) = <<>> => Len(s) = 1 /\ LastOf(s) = Head(s)
         /\ Tail(s) # <<>> => LastOf(Tail(s)) = LastOf(s)
<1>1. /\ Tail(s) \in Seq(S) /\ Len(Tail(s)) = Len(s) - 1 /\ Len(s) \in Nat \ {0}
      /\ Head(s) = s[1] /\ 1 \in 1..Len(s)
      /\ \A q \in 1..(Len(s) - 1) : Tail(s)[q] = s[q + 1] /\ q + 1 \in 1..Len(s)
  OBVIOUS
<1>2. (Tail(s) = <<>> => Len(Tail(s)) = 0) /\ (Tail(s) # <<>> => Len(Tail(s)) # 0)
  BY <1>1, EmptySeq, Zenon
<1>3. Tail(s) = <<>> => Len(s) = 1 /\ LastOf(s) = Head(s)
  <2>1. Tail(s) = <<>> => Len(s) = 1
    BY <1>1, <1>2
  <2> QED BY <1>1, <2>1 DEF LastOf
<1>4. Tail(s) # <<>> => LastOf(Tail(s)) = LastOf(s)
  <2>1. Tail(s) # <<>> => Len(s) - 1 \in 1..(Len(s) - 1) /\ (Len(s) - 1) + 1 = Len(s)
    BY <1>1, <1>2
  <2>2. Tail(s) # <<>> => Tail(s)[Len(Tail(s))] = s[Len(s)]
    BY <1>1, <2>1
  <2> QED BY <2>2 DEF LastOf
<1> QED BY <1>1, <1>3, <1>4

LEMMA Extended ==
  ASSUME NEW S, NEW s \in Seq(S), NEW e \in S
  PROVE  /\ Append(s, e) \in Seq(S) /\ Append(s, e) # <<>>
         /\ Len(Append(s, e)) = Len(s) + 1 /\ Len(s) \in Nat
         /\ Append(s, e)[Len(s) + 1] = e /\ LastOf(Append(s, e)) = e
         /\ \A q \in 1..Len(s) : Append(s, e)[q] = s[q]
         /\ \A q \in 1..(Len(s) + 1) : q \in 1..Len(s) \/ q = Len(s) + 1
<1>1. /\ Append(s, e) \in Seq(S) /\ Append(s, e) # <<>>
      /\ Len(Append(s, e)) = Len(s) + 1 /\ Len(s) \in Nat
      /\ Append(s, e)[Len(s) + 1] = e
  OBVIOUS
<1>2. \A q \in 1..Len(s) : Append(s, e)[q] = s[q]
  OBVIOUS
<1>3. \A q \in 1..(Len(s) + 1) : q \in 1..Len(s) \/ q = Len(s) + 1
  BY <1>1
<1> QED BY <1>1, <1>2, <1>3 DEF LastOf

LEMMA Joined ==
  ASSUME NEW S, NEW u \in Seq(S), NEW v \in Seq(S)
  PROVE  /\ Len(u \o v) = Len(u) + Len(v)
         /\ \A n \in 1..Len(u) : (u \o v)[n] = u[n]
         /\ \A n \in 1..Len(v) : (u \o v)[Len(u) + n] = v[n]
BY ConcatProperties

\* What the session plans to write: one ESC at most, at the beginning.
LEMMA Plans ==
  ASSUME NEW s \in Sets
  PROVE  /\ Len(SetCharset(s)) = 2
         /\ Len(<<At>> \o SetCharset(s)) = 3
         /\ Len(<<Esc, At>> \o SetCharset(s)) = 4
         /\ \A n \in 1..2 : SetCharset(s)[n].op # "esc"
         /\ \A n \in 1..3 : (<<At>> \o SetCharset(s))[n].op # "esc"
         /\ \A n \in 2..4 : (<<Esc, At>> \o SetCharset(s))[n].op # "esc"
<1> DEFINE c == SetCharset(s)
           t == <<At>>
           u == <<Esc, At>>
<1>1. c \in Seq(Commands) /\ t \in Seq(Commands) /\ u \in Seq(Commands)
  <2>1. Esc \in Commands /\ At \in Commands
    BY DEF Commands
  <2> QED BY <2>1, CharsetPlan
<1>2. Len(c) = 2 /\ c[1].op = "set" /\ c[2].op = "set"
  BY DEF SetCharset, Set
<1>3. Len(t) = 1 /\ t[1].op = "at" /\ Len(u) = 2 /\ u[2].op = "at"
  BY DEF At
<1> HIDE DEF c, t, u
<1>4. /\ Len(t \o c) = 3 /\ (t \o c)[1] = t[1]
      /\ (t \o c)[1 + 1] = c[1] /\ (t \o c)[1 + 2] = c[2]
  <2>1. /\ Len(t \o c) = Len(t) + Len(c)
        /\ \A n \in 1..Len(t) : (t \o c)[n] = t[n]
        /\ \A n \in 1..Len(c) : (t \o c)[Len(t) + n] = c[n]
    BY <1>1, Joined
  <2> QED BY <1>2, <1>3, <2>1
<1>5. /\ Len(u \o c) = 4 /\ (u \o c)[2] = u[2]
      /\ (u \o c)[2 + 1] = c[1] /\ (u \o c)[2 + 2] = c[2]
  <2>1. /\ Len(u \o c) = Len(u) + Len(c)
        /\ \A n \in 1..Len(u) : (u \o c)[n] = u[n]
        /\ \A n \in 1..Len(c) : (u \o c)[Len(u) + n] = c[n]
    BY <1>1, Joined
  <2> QED BY <1>2, <1>3, <2>1
<1>6. \A n \in 1..2 : c[n].op # "esc"
  BY <1>2
<1>7. \A n \in 1..3 : (t \o c)[n].op # "esc"
  BY <1>2, <1>3, <1>4
<1>8. \A n \in 2..4 : (u \o c)[n].op # "esc"
  BY <1>2, <1>3, <1>5
<1> QED BY <1>2, <1>4, <1>5, <1>6, <1>7, <1>8 DEF c, t, u

\* A step of the modem adds nothing to what is outstanding, and makes a prompt
\* of a header only.
LEMMA ModemDeals ==
  ASSUME TypeOK, ModemStep
  PROVE  /\ UNCHANGED session /\ late' = late /\ faults' \in {faults, faults + 1}
         /\ \/ todo # <<>> /\ todo' = Tail(todo) /\ mode # "busy"
            \/ UNCHANGED todo /\ mode = "busy" /\ mode' = "command"
         /\ Len(wire') + Busy' <= Len(wire) + Busy + One(mode # "busy")
         /\ \/ UNCHANGED wire
            \/ \E e \in {"end", "sent"} : wire' = Append(wire, e)
            \/ /\ wire' = Append(wire, "prompt") /\ up
               /\ mode = "command" /\ todo # <<>> /\ Head(todo).op = "cmgs"
<1>0. /\ wire \in Seq(Wires) /\ Len(wire) \in Nat
      /\ \A e \in Wires : Append(wire, e) \in Seq(Wires) /\ Len(Append(wire, e)) = Len(wire) + 1
  BY Numbers, Extended DEF Numbered
<1>1. UNCHANGED session /\ late' = late /\ faults' \in {faults, faults + 1}
  BY DEF ModemStep, ModemCommand, ModemHeader, ModemText, ModemTyped, ModemEsc,
         NetworkAnswers, Fault
<1>2. \/ todo # <<>> /\ todo' = Tail(todo) /\ mode # "busy"
      \/ UNCHANGED todo /\ mode = "busy" /\ mode' = "command"
  BY DEF ModemStep, ModemCommand, ModemHeader, ModemText, ModemTyped, ModemEsc,
         NetworkAnswers, Next1
<1>3. \/ UNCHANGED wire
      \/ \E e \in {"end", "sent"} : wire' = Append(wire, e)
      \/ /\ wire' = Append(wire, "prompt") /\ up
         /\ mode = "command" /\ todo # <<>> /\ Head(todo).op = "cmgs"
  BY DEF ModemStep, ModemCommand, ModemHeader, ModemText, ModemTyped, ModemEsc,
         NetworkAnswers, Emit, Next1
<1>4. mode' = "busy" => UNCHANGED wire
  <2>1. CASE ModemText
    BY <2>1 DEF ModemText
  <2>2. CASE ~ModemText
    BY <2>2 DEF ModemStep, ModemCommand, ModemHeader, ModemTyped, ModemEsc,
                NetworkAnswers, OpensDraft
  <2> QED BY <2>1, <2>2
<1>5. Len(wire') \in {Len(wire), Len(wire) + 1}
  BY <1>0, <1>3 DEF Wires
<1>6. Len(wire') + Busy' <= Len(wire) + Busy + One(mode # "busy")
  <2>1. CASE mode = "busy"
    BY <1>0, <1>2, <1>5, <2>1 DEF Busy, One
  <2>2. CASE mode # "busy" /\ mode' = "busy"
    BY <1>0, <1>4, <2>2 DEF Busy, One
  <2>3. CASE mode # "busy" /\ mode' # "busy"
    BY <1>0, <1>5, <2>3 DEF Busy, One
  <2> QED BY <2>1, <2>2, <2>3
<1> QED BY <1>1, <1>2, <1>3, <1>6

\* A lost answer gives the session one less to wait for, but it is a fault.
LEMMA ModemSlack ==
  ASSUME TypeOK, Down, Awaits, ModemStep PROVE Slack' >= Slack /\ Slack' \in Int
<1>1. /\ UNCHANGED session /\ late' = late /\ faults' \in {faults, faults + 1}
      /\ late \in Nat /\ faults \in Nat /\ Room \in 0..4
      /\ todo \in Seq(Items) /\ wire \in Seq(Wires)
  BY ModemDeals, Numbers DEF Numbered
<1>2. UNCHANGED <<Room, Ahead>>
  BY <1>1 DEF Room, Ahead
<1>3. ASSUME faults' = faults PROVE ~Silence'
  <2> SUFFICES ASSUME Silence' PROVE FALSE
    OBVIOUS
  <2>1. /\ wait = "answer" /\ Ahead <= 4 /\ up
        /\ todo' = <<>> /\ mode' # "busy" /\ ~HasEnd'
    BY <1>1, <1>2 DEF Silence, Quiet, Down
  <2>2. ASSUME NEW e \in {"end", "sent"} PROVE wire' # Append(wire, e)
    <3>1. wire' = Append(wire, e) =>
            Len(wire) + 1 \in 1..Len(wire') /\ wire'[Len(wire) + 1] # "prompt"
      BY <1>1, Extended DEF Wires
    <3> QED BY <2>1, <3>1 DEF HasEnd
  <2>3. ~NetworkAnswers
    BY <1>1, <1>3, <2>1, <2>2 DEF NetworkAnswers, Emit, Fault
  <2>4. todo # <<>> /\ todo' = Tail(todo)
    BY <2>3 DEF ModemStep, ModemCommand, ModemHeader, ModemText, ModemTyped, ModemEsc,
                Next1
  <2>5. LastOf(todo) = Head(todo)
    BY <1>1, <2>1, <2>4, Dealt
  <2>6. Head(todo).op \in {"at", "set"}
    BY <2>1, <2>4, <2>5 DEF Awaits
  <2>7. ModemCommand
    BY <2>3, <2>6 DEF ModemStep, ModemHeader, ModemText, ModemTyped, ModemEsc, Next1
  <2>8. Emit("end")
    BY <1>1, <1>3, <2>7 DEF ModemCommand, Fault
  <2> QED BY <2>1, <2>2, <2>8 DEF Emit
<1>4. One(Silence) \in {0, 1} /\ One(Silence') \in {0, 1} /\ (~Silence' => One(Silence') = 0)
  BY DEF One
<1>5. faults' + One(Silence) >= faults + One(Silence')
  BY <1>1, <1>3, <1>4
<1> QED BY <1>1, <1>2, <1>4, <1>5 DEF Slack

LEMMA ModemOrderly ==
  ASSUME TypeOK, Down, Owing, Awaits, ModemStep PROVE Owing' /\ Awaits'
<1>1. /\ todo \in Seq(Items) /\ wire \in Seq(Wires) /\ Len(todo) \in Nat /\ Len(wire) \in Nat
      /\ Busy \in {0, 1} /\ Slack \in Int
      /\ Len(wire') \in Nat /\ Busy' \in {0, 1}
  BY NumbersNext DEF Numbered, Next
<1>2. Slack' >= Slack /\ Slack' \in Int
  BY ModemSlack
<1>3. /\ UNCHANGED session
      /\ \/ todo # <<>> /\ todo' = Tail(todo) /\ mode # "busy"
         \/ UNCHANGED todo /\ mode = "busy" /\ mode' = "command"
      /\ Len(wire') + Busy' <= Len(wire) + Busy + One(mode # "busy")
  BY ModemDeals
<1>4. ASSUME NEW q \in 1..Len(wire'), wire'[q] = "prompt" PROVE Owed(q - 1)'
  <2>1. CASE q \in 1..Len(wire) /\ wire[q] = "prompt"
    BY <1>1, <1>2, <2>1 DEF Owing, Owed
  <2>2. ASSUME NEW e \in Wires, wire' = Append(wire, e)
        PROVE  \/ q \in 1..Len(wire) /\ wire[q] = "prompt"
               \/ q = Len(wire) + 1 /\ e = "prompt"
    <3>1. /\ Len(wire') = Len(wire) + 1 /\ wire'[Len(wire) + 1] = e
          /\ \A i \in 1..Len(wire) : wire'[i] = wire[i]
      <4>1. wire \in Seq(Wires)
        BY <1>1
      <4> QED BY <2>2, <4>1, Extended
    <3>2. q \in 1..(Len(wire) + 1)
      BY <3>1
    <3>3. q \in 1..Len(wire) \/ q = Len(wire) + 1
      <4>1. Len(wire) \in Nat
        BY <1>1
      <4> QED BY <3>2, <4>1
    <3>4. CASE q \in 1..Len(wire)
      BY <1>4, <3>1, <3>4
    <3>5. CASE q = Len(wire) + 1
      BY <1>4, <3>1, <3>5
    <3> QED BY <3>3, <3>4, <3>5
  <2>3. CASE q = Len(wire) + 1 /\ mode = "command" /\ todo # <<>> /\ Head(todo).op = "cmgs"
    <3>1. Busy = 0 /\ 1 \in 1..Len(todo) /\ todo[1].op = "cmgs"
      BY <1>1, <2>3 DEF Busy, One
    <3>2. Owed(Len(wire) + Busy + 1 - 1)
      BY <3>1 DEF Owing
    <3> QED BY <1>1, <1>2, <2>3, <3>1, <3>2 DEF Owed
  <2> QED BY <1>4, <2>1, <2>2, <2>3, ModemDeals DEF Wires
<1>5. ASSUME NEW q \in 1..Len(todo'), todo'[q].op = "cmgs"
      PROVE  Owed(Len(wire) + Busy + q - 1)'
  <2>1. CASE todo # <<>> /\ todo' = Tail(todo) /\ mode # "busy"
    <3>1. q + 1 \in 1..Len(todo) /\ todo[q + 1].op = "cmgs"
      BY <1>1, <1>5, <2>1, Dealt
    <3>2. Owed(Len(wire) + Busy + (q + 1) - 1)
      BY <3>1 DEF Owing
    <3>3. Len(wire') + Busy' <= Len(wire) + Busy + 1
      BY <1>3, <2>1 DEF One
    <3>4. q \in Nat /\ Len(wire') + Busy' \in Nat
      BY <1>1
    <3>5. Len(wire') + Busy' + q - 1 <= Len(wire) + Busy + (q + 1) - 1
      BY <1>1, <3>3, <3>4
    <3>6. Len(wire) + Busy + (q + 1) - 1 + 5 <= Slack
      BY <3>2 DEF Owed
    <3>7. PICK x \in Int : x = Slack'
      BY <1>2
    <3>8. Len(wire) + Busy + (q + 1) - 1 + 5 <= x
      <4>1. Len(wire) + Busy + (q + 1) - 1 + 5 \in Int
        BY <1>1, <3>4
      <4>2. Slack <= x
        BY <1>2, <3>7
      <4> QED BY <1>1, <3>6, <3>7, <4>1, <4>2
    <3>9. Len(wire') + Busy' + q - 1 + 5 <= x
      BY <1>1, <3>4, <3>5, <3>7, <3>8
    <3> QED BY <3>7, <3>9 DEF Owed
  <2>2. CASE UNCHANGED todo /\ mode = "busy" /\ mode' = "command"
    <3>1. Owed(Len(wire) + Busy + q - 1)
      BY <1>5, <2>2 DEF Owing
    <3>2. Len(wire') + Busy' <= Len(wire) + Busy
      BY <1>1, <1>3, <2>2 DEF One
    <3> QED BY <1>1, <1>2, <3>1, <3>2 DEF Owed
  <2> QED BY <1>3, <2>1, <2>2
<1>6. Awaits'
  <2>1. UNCHANGED Ahead
    BY <1>3 DEF Ahead
  <2>2. todo' # <<>> => todo # <<>> /\ LastOf(todo') = LastOf(todo)
    BY <1>1, <1>3, Dealt
  <2> QED BY <1>3, <2>1, <2>2 DEF Awaits
<1> QED BY <1>4, <1>5, <1>6 DEF Owing

\* With the port go the plans; and ESC comes first, if at all.
LEMMA PlansStep == ASSUME TypeOK, Down, Shape, [Next]_vars PROVE Down' /\ Shape'
<1>1. CASE UNCHANGED <<up, wait, plan, job>>
  <2>1. UNCHANGED wire \/ up
    BY <1>1 DEF Next, vars, ModemStep, ModemCommand, ModemHeader, ModemText, ModemTyped,
                ModemEsc, NetworkAnswers, Emit, Session, OpenSession, StartExchange,
                WriteCommand, EndExchange, WriteHeader, Prompted, Misprompted, NoPrompt,
                NoResult, SegmentSent, SegmentFailed, ReadLine, Idle, LosePort,
                StartSend
  <2> QED BY <1>1, <2>1 DEF Down, Shape
<1>2. CASE OpenSession
  <2>1. up' /\ plan' = <<Esc, At>> \o SetCharset("IRA") /\ job' = None
    BY <1>2 DEF OpenSession, Down
  <2>2. Len(plan') = 4 /\ \A n \in 2..4 : plan'[n].op # "esc"
    BY <2>1, Plans DEF Sets
  <2> QED BY <2>1, <2>2 DEF Down, Shape
<1>3. CASE StartExchange
  <2>1. up' /\ Len(plan') = 1 /\ plan'[1].op # "esc"
    BY <1>3 DEF StartExchange, Idle, At
  <2> QED BY <2>1 DEF Down, Shape
<1>4. ASSUME NEW m \in Msgs, StartSend(m) PROVE Down' /\ Shape'
  <2>1. up' /\ (plan' = <<At>> \o SetCharset("UCS2") \/ plan' = <<At>> \o <<>>)
    BY <1>4 DEF StartSend, Idle
  <2>2. plan' = <<At>> \o <<>> => Len(plan') = 1 /\ plan'[1] = At
    OBVIOUS
  <2>3. \A n \in 1..Len(plan') : plan'[n].op # "esc"
    BY <2>1, <2>2, Plans DEF Sets, At
  <2> QED BY <2>1, <2>3 DEF Down, Shape
<1>5. CASE WriteCommand
  <2>1. plan # <<>> /\ plan' = Tail(plan) /\ up /\ up' /\ plan \in Seq(Commands)
    BY <1>5, Numbers DEF WriteCommand, Numbered
  <2>2. \A n \in 1..Len(plan') : n + 1 \in 1..Len(plan) /\ plan'[n] = plan[n + 1] /\ n + 1 # 1
    BY <2>1, Dealt
  <2> QED BY <2>1, <2>2 DEF Down, Shape
<1>6. CASE EndExchange \/ WriteHeader \/ Prompted \/ Misprompted
  BY <1>6 DEF EndExchange, WriteHeader, Prompted, Misprompted, Down, Shape
<1>7. CASE NoPrompt \/ NoResult \/ SegmentSent \/ SegmentFailed
  <2>1. /\ up'
        /\ \/ UNCHANGED <<plan, job>>
           \/ plan' = SetCharset("IRA") \/ plan' = <<>>
    BY <1>7 DEF NoPrompt, NoResult, SegmentSent, SegmentFailed, Abort, EndSend
  <2>2. plan' # plan \/ job' # job => \A n \in 1..Len(plan') : plan'[n].op # "esc"
    BY <2>1, Plans DEF Sets
  <2> QED BY <2>1, <2>2 DEF Down, Shape
<1>8. CASE LosePort
  BY <1>8 DEF LosePort, Down, Shape
<1> QED BY <1>1, <1>2, <1>3, <1>4, <1>5, <1>6, <1>7, <1>8
        DEF Next, Session, ModemStep, ModemCommand, ModemHeader, ModemText, ModemTyped,
            ModemEsc, NetworkAnswers, ReadLine, vars

\* A session that goes on without an answer outstanding is not ahead of what
\* earlier sessions left: it has read all of it away, if it lacks few answers.
LEMMA Behind ==
  ASSUME TypeOK, Few, Owing, ~(Headerless /\ Promptless)
  PROVE  ~(up /\ plan = <<>> /\ wait # "answer" /\ job # None)
<1>1. Numbered
  BY Numbers
<1>2. Slack >= 5
  <2>1. ASSUME NEW q \in 1..Len(wire), wire[q] = "prompt" PROVE Slack >= 5
    BY <1>1, <2>1 DEF Owing, Owed, Numbered
  <2>2. ASSUME NEW q \in 1..Len(todo), todo[q].op = "cmgs" PROVE Slack >= 5
    <3>1. Owed(Len(wire) + Busy + q - 1)
      BY <2>2 DEF Owing
    <3> QED BY <1>1, <3>1 DEF Owed, Numbered
  <2> QED BY <2>1, <2>2 DEF Headerless, Promptless
<1>3. One(Silence) \in {0, 1}
  BY DEF One
<1>4. Room >= 1
  BY <1>1, <1>2, <1>3 DEF Slack, Few, Numbered
<1> SUFFICES ASSUME up, plan = <<>>, wait # "answer", job # None PROVE FALSE
  OBVIOUS
<1>5. Ahead = 0
  BY DEF Ahead, One
<1> QED BY <1>4, <1>5 DEF Room

\* The session reads d things, and writes no header.
Reads(d) ==
  /\ Len(wire') + Busy' + d <= Len(wire) + Busy
  /\ \A q \in 1..Len(wire') :
       wire'[q] = "prompt" => q + d \in 1..Len(wire) /\ wire[q + d] = "prompt"
NoneWritten ==
  \A q \in 1..Len(todo') : todo'[q].op = "cmgs" => q \in 1..Len(todo) /\ todo[q].op = "cmgs"

LEMMA OwingMoved ==
  ASSUME TypeOK, [Next]_vars, Owing, NEW d \in Nat, Slack - d <= Slack', Reads(d), NoneWritten
  PROVE  Owing'
<1>1. /\ Slack \in Int /\ Slack' \in Int
      /\ Len(wire) \in Nat /\ Len(wire') \in Nat /\ Len(todo') \in Nat
      /\ Busy \in {0, 1} /\ Busy' \in {0, 1}
  BY NumbersNext DEF Numbered
<1>2. Len(wire') + Busy' + d <= Len(wire) + Busy
  BY DEF Reads
<1>3. ASSUME NEW q \in 1..Len(wire'), wire'[q] = "prompt" PROVE Owed(q - 1)'
  <2>1. Owed(q + d - 1)
    BY <1>3 DEF Owing, Reads
  <2>2. q \in Int
    OBVIOUS
  <2> QED BY <1>1, <2>1, <2>2 DEF Owed
<1>4. ASSUME NEW q \in 1..Len(todo'), todo'[q].op = "cmgs"
      PROVE  Owed(Len(wire) + Busy + q - 1)'
  <2>1. Owed(Len(wire) + Busy + q - 1)
    BY <1>4 DEF Owing, NoneWritten
  <2>2. q \in Int
    OBVIOUS
  <2> QED BY <1>1, <1>2, <2>1, <2>2 DEF Owed
<1> QED BY <1>3, <1>4 DEF Owing

\* The same, where nothing is read.
LEMMA OwingKept ==
  ASSUME TypeOK, [Next]_vars, Owing, Slack <= Slack', UNCHANGED <<wire, mode>>, NoneWritten
  PROVE  Owing'
<1>1. Slack \in Int /\ Slack' \in Int /\ Len(wire) \in Nat /\ Busy \in {0, 1}
  BY NumbersNext DEF Numbered
<1>2. Slack - 0 <= Slack'
  BY <1>1
<1>3. Busy' = Busy
  BY DEF Busy
<1>4. Reads(0)
  BY <1>1, <1>3 DEF Reads
<1> QED BY <1>2, <1>4, OwingMoved

\* The slack of a session that waits for no answer.
LEMMA SlackIs ==
  /\ wait # "answer" => One(Silence) = 0
  /\ One(Silence) \in {0, 1}
  /\ wait = "answer" => One(wait = "answer") = 1
  /\ wait # "answer" => One(wait = "answer") = 0
  /\ job = None => One(job = None) = 1
  /\ job # None => One(job = None) = 0
BY DEF One, Silence

LEMMA Rest ==
  ASSUME NEW S, NEW s \in Seq(S), NEW i \in 1..Len(s)
  PROVE  /\ Len(SubSeq(s, i + 1, Len(s))) = Len(s) - i /\ i \in Nat /\ i >= 1
         /\ \A q \in 1..(Len(s) - i) :
              q + i \in 1..Len(s) /\ SubSeq(s, i + 1, Len(s))[q] = s[q + i]
OBVIOUS

\* A line that is dropped, of an item of two, leaves the others in their places.
LEMMA LineRead ==
  ASSUME wire \in Seq(Wires), wire # <<>>
  PROVE  /\ Len(<<"end">> \o Tail(wire)) = Len(wire) /\ (<<"end">> \o Tail(wire))[1] = "end"
         /\ \A q \in 2..Len(wire) : (<<"end">> \o Tail(wire))[q] = wire[q]
<1> DEFINE u == <<"end">>
           v == Tail(wire)
<1>1. u \in Seq(Wires) /\ Len(u) = 1 /\ u[1] = "end"
  BY DEF Wires
<1>2. /\ v \in Seq(Wires) /\ Len(v) = Len(wire) - 1 /\ Len(wire) \in Nat
      /\ \A q \in 1..(Len(wire) - 1) : v[q] = wire[q + 1]
  BY Dealt
<1> HIDE DEF u, v
<1>3. /\ Len(u \o v) = Len(u) + Len(v)
      /\ \A n \in 1..Len(u) : (u \o v)[n] = u[n]
      /\ \A n \in 1..Len(v) : (u \o v)[Len(u) + n] = v[n]
  <2>1. u \in Seq(Wires) /\ v \in Seq(Wires)
    BY <1>1, <1>2
  <2> QED BY <2>1, Joined
<1>4. ASSUME NEW q \in 2..Len(wire) PROVE (u \o v)[q] = wire[q]
  <2>1. q - 1 \in 1..Len(v) /\ Len(u) + (q - 1) = q /\ (q - 1) + 1 = q
    BY <1>1, <1>2
  <2>2. (u \o v)[Len(u) + (q - 1)] = v[q - 1]
    BY <1>3, <2>1
  <2>3. v[q - 1] = wire[(q - 1) + 1]
    BY <1>2, <2>1
  <2> QED BY <2>1, <2>2, <2>3
<1> QED BY <1>1, <1>2, <1>3, <1>4 DEF u, v

\* Each step of a session takes what it reads off the line, or counts what it
\* gives up.
LEMMA SessionOwing ==
  ASSUME TypeOK, Charset, Down, Shape, Few, Owing, Awaits, ~(Headerless /\ Promptless),
         Session
  PROVE  Owing' /\ Awaits'
<1>0. [Next]_vars
  BY DEF Next
<1>1. Numbered /\ Numbered'
  BY <1>0, NumbersNext
<1>2. CASE OpenSession
  <2>1. up' /\ wait = "none" /\ wait' = "none" /\ job = None /\ job' = None /\ ~up
    BY <1>2 DEF OpenSession, Down
  <2>2. Len(plan') = 4
    BY <1>2, Plans DEF OpenSession, Sets
  <2>3. Ahead' = 5 /\ Room = 4
    BY <2>1, <2>2 DEF Ahead, One, Room
  <2>4. Room' = 4 /\ One(Silence) = 0 /\ One(Silence)' = 0
    BY <2>1, <2>3 DEF Room, One, Silence
  <2>5. Slack <= Slack'
    BY <1>1, <1>2, <2>3, <2>4 DEF Slack, OpenSession, Numbered
  <2>6. UNCHANGED <<wire, mode>> /\ NoneWritten /\ Awaits'
    BY <1>2, <2>1 DEF OpenSession, NoneWritten, Awaits
  <2> QED BY <1>0, <2>5, <2>6, OwingKept
<1>3. CASE StartExchange
  <2>1. up /\ up' /\ wait = "none" /\ wait' = "none" /\ job = None /\ job' = None /\ plan = <<>>
    BY <1>3 DEF StartExchange, Idle
  <2>2. Len(plan') = 1 /\ Len(plan) = 0
    BY <1>3, <2>1 DEF StartExchange
  <2>3. Ahead = 1 /\ Ahead' = 2
    BY <2>1, <2>2 DEF Ahead, One
  <2>4. Room = 1 /\ Room' = 2 /\ One(Silence) = 0 /\ One(Silence)' = 0
    BY <2>1, <2>3 DEF Room, One, Silence
  <2>5. Slack <= Slack'
    BY <1>1, <1>3, <2>4 DEF Slack, StartExchange, Numbered
  <2>6. UNCHANGED <<wire, mode>> /\ NoneWritten /\ Awaits'
    BY <1>3, <2>1 DEF StartExchange, NoneWritten, Awaits
  <2> QED BY <1>0, <2>5, <2>6, OwingKept
<1>4. CASE WriteCommand
  <2>1. /\ up /\ up' /\ wait = "none" /\ wait' = "answer" /\ UNCHANGED <<job, wire, mode>>
        /\ plan # <<>> /\ plan' = Tail(plan) /\ todo' = Append(todo, Head(plan))
        /\ UNCHANGED <<late, faults>>
    BY <1>4 DEF WriteCommand
  <2>2. /\ Len(plan) - 1 = Len(plan') /\ Head(plan) = plan[1] /\ 1 \in 1..Len(plan)
        /\ Head(plan) \in Commands
    BY <1>1, <2>1, Dealt, TailType DEF Numbered
  <2>3. /\ todo' # <<>> /\ LastOf(todo') = Head(plan) /\ Len(todo') = Len(todo) + 1
        /\ todo'[Len(todo) + 1] = Head(plan)
        /\ \A q \in 1..Len(todo) : todo'[q] = todo[q]
        /\ \A q \in 1..(Len(todo) + 1) : q \in 1..Len(todo) \/ q = Len(todo) + 1
    <3>1. Head(plan) \in Items
      BY <2>2 DEF Items
    <3>2. todo \in Seq(Items)
      BY <1>1 DEF Numbered
    <3> QED BY <2>1, <3>1, <3>2, Extended
  <2>4. Ahead' = Ahead
    BY <1>1, <2>1, <2>2 DEF Ahead, One, Numbered
  <2>5. Room' = Room /\ One(Silence) = 0 /\ One(Silence)' = 0
    BY <2>1, <2>3, <2>4 DEF Room, One, Silence, Quiet
  <2>6. Slack <= Slack'
    BY <1>1, <2>1, <2>5 DEF Slack, Numbered
  <2>7. NoneWritten
    <3>1. Head(plan).op # "cmgs"
      BY <2>2 DEF Commands, Esc, At
    <3> QED BY <2>3, <3>1 DEF NoneWritten
  <2>8. Awaits'
    <3>1. Ahead <= 4 => Head(plan).op # "esc"
      <4>1. Head(plan).op = "esc" => Len(plan) = 4 /\ job = None
        BY <2>2 DEF Shape
      <4>2. Len(plan) = 4 /\ job = None => Ahead = 5
        BY <2>1 DEF Ahead, One
      <4> QED BY <4>1, <4>2
    <3>2. Head(plan).op \in {"esc", "at", "set"}
      BY <2>2 DEF Commands, Esc, At
    <3> QED BY <2>3, <2>4, <3>1, <3>2 DEF Awaits
  <2> QED BY <1>0, <2>1, <2>6, <2>7, <2>8, OwingKept
<1>5. CASE EndExchange
  <2>1. /\ up /\ up' /\ wait = "answer" /\ wait' = "none"
        /\ UNCHANGED <<plan, job, todo, mode, faults>>
    BY <1>5 DEF EndExchange
  <2>2. Ahead - 1 = Ahead'
    BY <1>1, <2>1 DEF Ahead, One, Numbered
  <2>3. /\ Ahead <= 4 => Room - 1 = Room'
        /\ Ahead > 4 => Room' = 4 /\ Room = 4
    BY <1>1, <2>1, <2>2 DEF Room, Numbered
  <2>4. One(Silence)' = 0 /\ One(Silence) \in {0, 1}
    BY <2>1 DEF One, Silence
  <2>5. NoneWritten /\ Awaits'
    BY <2>1 DEF NoneWritten, Awaits
  <2>6. Busy' = Busy
    BY <2>1 DEF Busy
  <2>7. /\ late \in Nat /\ faults \in Nat /\ Ahead \in Nat /\ Room \in 0..4 /\ Room' \in 0..4
        /\ Slack' = late' + faults + Room'
    BY <1>1, <2>1, <2>4 DEF Slack, Numbered
  <2>8. ASSUME NEW r \in Results, Collect(r), UNCHANGED late PROVE Owing'
    <3>1. PICK i \in 1..Len(wire) : wire' = SubSeq(wire, i + 1, Len(wire))
      BY <2>8 DEF Collect
    <3>2. /\ Len(wire) - i = Len(wire') /\ i \in Nat /\ i >= 1
          /\ \A q \in 1..Len(wire') : q + i \in 1..Len(wire) /\ wire'[q] = wire[q + i]
      BY <1>1, <3>1, Rest DEF Numbered
    <3>3. Slack - i <= Slack'
      <4>1. Slack' = late + faults + Room'
        BY <2>7, <2>8
      <4>2. Room - 1 <= Room'
        BY <2>3, <2>7
      <4>3. Slack <= late + faults + Room
        BY <2>4, <2>7 DEF Slack
      <4>4. i \in Nat /\ i >= 1 /\ Slack \in Int
        BY <1>1, <3>2 DEF Numbered
      <4>5. late + faults + Room - i <= Slack'
        <5>1. PICK n \in 0..4 : n = Room'
          BY <2>7
        <5>2. Room - i <= n
          BY <2>7, <4>2, <4>4, <5>1
        <5>3. late + faults + Room - i <= late + faults + n
          BY <2>7, <4>4, <5>2
        <5> QED BY <4>1, <5>1, <5>3
      <4>6. late + faults + Room - i \in Int /\ Slack' \in Int
        BY <1>1, <2>7, <4>4 DEF Numbered
      <4> QED BY <2>7, <4>3, <4>4, <4>5, <4>6
    <3>4. Reads(i)
      BY <1>1, <2>6, <3>2 DEF Reads, Numbered
    <3> QED BY <1>0, <2>5, <3>2, <3>3, <3>4, OwingMoved
  <2>9. CASE TimesOut
    <3>1. UNCHANGED wire /\ \/ late' = late + 1
                            \/ late' = late /\ Quiet /\ ~HasEnd
      BY <2>9 DEF TimesOut
    <3>2. late' = late + 1 => Slack <= Slack'
      <4>1. SUFFICES ASSUME late' = late + 1 PROVE Slack <= Slack'
        OBVIOUS
      <4>2. Slack' = (late + 1) + faults + Room'
        BY <2>7, <4>1
      <4> QED BY <2>3, <2>4, <2>7, <4>2 DEF Slack
    <3>3. late' = late /\ Quiet /\ ~HasEnd => Slack <= Slack'
      <4>1. SUFFICES ASSUME late' = late, Quiet, ~HasEnd PROVE Slack <= Slack'
        OBVIOUS
      <4>2. Slack' = late + faults + Room'
        BY <2>7, <4>1
      <4>3. Ahead <= 4 => One(Silence) = 1
        BY <2>1, <4>1 DEF One, Silence
      <4> QED BY <2>3, <2>4, <2>7, <4>2, <4>3 DEF Slack
    <3>4. Slack <= Slack'
      BY <3>1, <3>2, <3>3
    <3> QED BY <1>0, <2>1, <2>5, <3>1, <3>4, OwingKept
  <2> QED BY <1>5, <2>5, <2>8, <2>9 DEF EndExchange
<1>6. CASE WriteHeader
  BY <1>6, Behind DEF WriteHeader
<1>7. CASE \/ Prompted \/ Misprompted \/ NoPrompt \/ NoResult
           \/ SegmentSent \/ SegmentFailed
  <2>1. up /\ wait \in {"prompt", "result"}
    BY <1>7 DEF Prompted, Misprompted, NoPrompt, NoResult, SegmentSent, SegmentFailed
  <2>2. plan = <<>> /\ job # None
    BY <2>1 DEF Charset, TypeOK, SessionOK
  <2> QED BY <2>1, <2>2, Behind
<1>8. CASE ReadLine
  <2>1. /\ wait = "none" /\ wire # <<>> /\ UNCHANGED <<todo, mode, session, late, faults>>
        /\ wire' = IF Head(wire) = "sent" THEN <<"end">> \o Tail(wire) ELSE Tail(wire)
    BY <1>1, <1>8 DEF ReadLine, Idle, HasEnd, Numbered
  <2>2. /\ One(Silence)' = 0 /\ One(Silence) = 0 /\ NoneWritten /\ Awaits'
        /\ Room' = Room /\ Busy' = Busy
    BY <2>1 DEF One, Silence, NoneWritten, Awaits, Room, Ahead, Busy
  <2>3. Slack' = Slack
    BY <2>1, <2>2 DEF Slack
  <2>4. CASE wire' = Tail(wire)
    <3>1. Reads(1)
      <4>1. /\ Len(wire) - 1 = Len(wire')
            /\ \A q \in 1..Len(wire') : q + 1 \in 1..Len(wire) /\ wire'[q] = wire[q + 1]
        BY <1>1, <2>1, <2>4, Dealt DEF Numbered
      <4> QED BY <1>1, <2>2, <4>1 DEF Reads, Numbered
    <3> QED BY <1>0, <1>1, <2>2, <2>3, <3>1, OwingMoved DEF Numbered
  <2>5. CASE wire' = <<"end">> \o Tail(wire)
    <3>1. Reads(0)
      <4>1. /\ Len(wire) = Len(wire') /\ wire'[1] = "end"
            /\ \A q \in 2..Len(wire') : wire'[q] = wire[q]
        BY <1>1, <2>1, <2>5, LineRead DEF Numbered
      <4> QED BY <1>1, <2>2, <4>1 DEF Reads, Numbered
    <3> QED BY <1>0, <1>1, <2>2, <2>3, <3>1, OwingMoved DEF Numbered
  <2> QED BY <2>1, <2>2, <2>4, <2>5
<1> QED BY <1>2, <1>3, <1>4, <1>5, <1>6, <1>7, <1>8 DEF Session

\* Of what was written, a beginning is left when the port is lost, or nothing.
LEMMA LineLost ==
  ASSUME TypeOK, LosePort
  PROVE  /\ wire' = <<>> /\ Len(wire') = 0 /\ Len(todo') \in Nat /\ Len(todo') <= Len(todo)
         /\ Busy' \in {0, 1} /\ Busy' <= Busy
         /\ ~up' /\ wait' = "none" /\ late' = late /\ faults' = faults + 1
<1>1. Numbered /\ Numbered'
  BY NumbersNext DEF Next
<1>2. wire' = <<>> /\ ~up' /\ wait' = "none" /\ late' = late /\ faults' = faults + 1
  BY DEF LosePort, Fault
<1>3. Len(todo') <= Len(todo)
  <2>1. CASE todo' = <<>>
    BY <1>1, <2>1 DEF Numbered
  <2>2. ASSUME NEW n \in 0..Len(todo),
               \/ todo' = SubSeq(todo, 1, n)
               \/ n < Len(todo) /\ todo' = Append(SubSeq(todo, 1, n), Cut)
        PROVE  Len(todo') <= Len(todo)
    <3>1. SubSeq(todo, 1, n) \in Seq(Items) /\ Len(SubSeq(todo, 1, n)) = n
      BY <1>1, PartType DEF Numbered
    <3>2. Cut \in Items
      BY DEF Items
    <3>3. Len(Append(SubSeq(todo, 1, n), Cut)) = n + 1
      BY <3>1, <3>2, Extended
    <3> QED BY <1>1, <2>2, <3>1, <3>3 DEF Numbered
  <2> QED BY <2>1, <2>2 DEF LosePort
<1>4. Busy' <= Busy
  BY DEF LosePort, Busy, One
<1>5. Len(<<>>) = 0
  OBVIOUS
<1> QED BY <1>1, <1>2, <1>3, <1>4, <1>5 DEF Numbered

\* The next session has four answers to wait for before a header of its own.
LEMMA LoseOwing ==
  ASSUME TypeOK, Outstanding, LosePort PROVE Owing' /\ Awaits'
<1>1. Numbered /\ Numbered'
  BY NumbersNext DEF Next
<1>2. /\ wire' = <<>> /\ Len(wire') = 0 /\ Len(todo') \in Nat /\ Len(todo') <= Len(todo)
      /\ Busy' \in {0, 1} /\ Busy' <= Busy
      /\ ~up' /\ wait' = "none" /\ late' = late /\ faults' = faults + 1
  BY LineLost
<1>3. Slack' = late + (faults + 1) + 4
  <2>1. Room' = 4 /\ One(Silence)' = 0
    BY <1>2 DEF Room, One, Silence
  <2> QED BY <1>1, <1>2, <2>1 DEF Slack, Numbered
<1>4. ASSUME NEW q \in 1..Len(todo') PROVE Owed(Len(wire) + Busy + q - 1)'
  <2>1. PICK b \in {0, 1} : b = Busy'
    BY <1>2
  <2>2. q \in Int /\ q <= Len(todo)
    BY <1>1, <1>2 DEF Numbered
  <2>3. /\ Len(todo) \in Nat /\ Len(wire) \in Nat /\ Busy \in Nat
        /\ late \in Nat /\ faults \in Nat
    BY <1>1 DEF Numbered
  <2>4. Len(todo) + Busy <= late + faults + 1
    <3>1. One(Waited) \in {0, 1}
      BY DEF One
    <3> QED BY <2>3, <3>1 DEF Outstanding, Load
  <2>5. b <= Busy
    BY <1>2, <2>1
  <2>6. 0 + b + q - 1 + 5 <= late + (faults + 1) + 4
    <3>1. b \in Nat
      BY <2>1
    <3>2. b + q <= Busy + Len(todo)
      BY <2>2, <2>3, <2>5, <3>1
    <3> QED BY <2>2, <2>3, <2>4, <3>1, <3>2
  <2> QED BY <1>2, <1>3, <2>1, <2>6 DEF Owed
<1>5. Awaits'
  BY <1>2 DEF Awaits
<1> QED BY <1>2, <1>4, <1>5 DEF Owing

LEMMA LoseOutstanding ==
  ASSUME TypeOK, Outstanding, LosePort PROVE Outstanding'
<1>1. /\ Len(wire') = 0 /\ Len(todo') \in Nat /\ Len(todo') <= Len(todo)
      /\ Busy' \in {0, 1} /\ Busy' <= Busy
      /\ wait' = "none" /\ late' = late /\ faults' = faults + 1
  BY LineLost
<1>2. /\ Len(todo) \in Nat /\ Len(wire) \in Nat /\ Busy \in Nat
      /\ late \in Nat /\ faults \in Nat
  BY Numbers DEF Numbered
<1>3. One(Waited) \in {0, 1} /\ One(Waited)' = 0
  BY <1>1 DEF One, Waited
<1>4. PICK b \in {0, 1} : b = Busy'
  BY <1>1
<1>5. PICK t \in Nat : t = Len(todo')
  BY <1>1
<1>6. t + 0 + b <= late + (faults + 1) + 0
  BY <1>1, <1>2, <1>3, <1>4, <1>5 DEF Outstanding, Load
<1> QED BY <1>1, <1>3, <1>4, <1>5, <1>6 DEF Outstanding, Load

\* Without a header, or a prompt, nothing is pending; another step than one that
\* deals with a header leaves what is.
LEMMA ModemPending ==
  ASSUME TypeOK, ModemStep, Pending, ~Pending', up PROVE faults' = faults + 1
<1>1. Numbered
  BY Numbers
<1>2. ~Promptless => ~Promptless'
  <2> SUFFICES ASSUME NEW i \in 1..Len(wire), wire[i] = "prompt" PROVE ~Promptless'
    BY DEF Promptless
  <2>1. UNCHANGED wire \/ \E e \in Wires : wire' = Append(wire, e)
    BY ModemDeals DEF Wires
  <2>2. i \in 1..Len(wire') /\ wire'[i] = "prompt"
    BY <1>1, <2>1, Extended DEF Numbered
  <2> QED BY <2>2 DEF Promptless
<1>3. Promptless /\ ~Headerless /\ Headerless' /\ Promptless'
  BY <1>2 DEF Pending
<1>4. PICK n \in 1..Len(todo) : todo[n].op = "cmgs"
  BY <1>3 DEF Headerless
<1>5. todo' # todo
  BY <1>3 DEF Headerless
<1>6. todo # <<>> /\ todo' = Tail(todo)
  BY <1>5, ModemDeals
<1>7. Head(todo).op = "cmgs"
  <2>1. CASE n = 1
    BY <1>1, <1>4, <1>6, <2>1, Dealt DEF Numbered
  <2>2. CASE n # 1
    <3>1. n - 1 \in 1..Len(todo') /\ todo'[n - 1] = todo[n]
      <4>1. n - 1 \in 1..(Len(todo) - 1) /\ (n - 1) + 1 = n
        BY <1>1, <2>2 DEF Numbered
      <4> QED BY <1>1, <1>6, <4>1, Dealt DEF Numbered
    <3> QED BY <1>3, <1>4, <3>1 DEF Headerless
  <2> QED BY <2>1, <2>2
<1>8. ModemHeader
  BY <1>5, <1>7 DEF ModemStep, ModemCommand, ModemText, ModemTyped, ModemEsc,
                    NetworkAnswers, Next1
<1>9. wire' # Append(wire, "prompt")
  <2>1. wire' = Append(wire, "prompt") =>
          Len(wire) + 1 \in 1..Len(wire') /\ wire'[Len(wire) + 1] = "prompt"
    BY <1>1, Extended DEF Wires, Numbered
  <2> QED BY <1>3, <2>1 DEF Promptless
<1> QED BY <1>8, <1>9 DEF ModemHeader, Emit, Fault

LEMMA ModemOutstanding ==
  ASSUME TypeOK, Down, Outstanding, ModemStep PROVE Outstanding'
<1>1. /\ Len(todo) \in Nat /\ Len(wire) \in Nat /\ Busy \in {0, 1} /\ todo \in Seq(Items)
      /\ late \in Nat /\ faults \in Nat
      /\ Len(todo') \in Nat /\ Len(wire') \in Nat /\ Busy' \in {0, 1}
  BY NumbersNext DEF Numbered, Next
<1>2. /\ UNCHANGED session /\ late' = late /\ faults' \in {faults, faults + 1}
      /\ \/ todo # <<>> /\ todo' = Tail(todo) /\ mode # "busy"
         \/ UNCHANGED todo /\ mode = "busy" /\ mode' = "command"
      /\ Len(wire') + Busy' <= Len(wire) + Busy + One(mode # "busy")
  BY ModemDeals
<1>3. One(Waited) \in {0, 1} /\ One(Waited)' \in {0, 1}
  BY DEF One
<1>4. Load' <= Load /\ Load' \in Nat /\ Load \in Nat
  <2>1. Load' \in Nat /\ Load \in Nat
    BY <1>1 DEF Load
  <2>2. CASE todo # <<>> /\ todo' = Tail(todo) /\ mode # "busy"
    <3>1. Len(todo') = Len(todo) - 1 /\ One(mode # "busy") = 1
      BY <1>1, <2>2, Dealt DEF One
    <3> QED BY <1>1, <1>2, <2>1, <3>1 DEF Load
  <2>3. CASE UNCHANGED todo /\ mode = "busy"
    <3>1. One(mode # "busy") = 0
      BY <2>3 DEF One
    <3> QED BY <1>1, <1>2, <2>1, <2>3, <3>1 DEF Load
  <2> QED BY <1>2, <2>1, <2>2, <2>3
<1>5. CASE faults' = faults + 1
  <2>1. Load' <= late + (faults + 1) + 0
    BY <1>1, <1>3, <1>4 DEF Outstanding
  <2>2. PICK o \in {0, 1} : o = One(Waited)'
    BY <1>3
  <2>3. Load' <= late + (faults + 1) + o
    BY <1>1, <1>4, <2>1, <2>2
  <2> QED BY <1>2, <1>5, <2>2, <2>3 DEF Outstanding
<1>6. CASE faults' = faults
  <2>1. Pending => Pending' \/ ~up
    BY <1>1, <1>6, ModemPending
  <2>2. Waited => Waited'
    BY <1>2, <2>1 DEF Waited, Down
  <2>3. PICK o \in {0, 1} : o = One(Waited)'
    BY <1>3
  <2>4. One(Waited) <= o
    BY <2>2, <2>3 DEF One
  <2>5. Load' <= late + faults + o
    BY <1>1, <1>3, <1>4, <2>3, <2>4 DEF Outstanding
  <2> QED BY <1>2, <1>6, <2>3, <2>5 DEF Outstanding
<1> QED BY <1>2, <1>5, <1>6

\* What a session gives up it has counted, or it was lost and the line is empty.
LEMMA GivenUp ==
  ASSUME TypeOK, Orderly, Outstanding, TimesOut, wait # "prompt", UNCHANGED faults
  PROVE  Load - faults <= late'
<1>1. /\ Len(todo) \in Nat /\ Len(wire) \in Nat /\ Busy \in {0, 1} /\ todo \in Seq(Items)
      /\ late \in Nat /\ faults \in Nat /\ Room \in 0..4 /\ Slack \in Int
  BY Numbers DEF Numbered
<1>2. Load \in Nat
  BY <1>1 DEF Load
<1>3. CASE late' = late + 1
  <2>1. One(Waited) \in {0, 1}
    BY DEF One
  <2>2. Load - faults <= late + 1
    BY <1>1, <1>2, <2>1 DEF Outstanding
  <2> QED BY <1>3, <2>2
<1>4. CASE late' = late /\ Quiet /\ ~HasEnd
  <2>1. Load = Len(wire)
    BY <1>1, <1>4 DEF Load, Quiet, Busy, One
  <2>2. CASE Len(wire) = 0
    BY <1>1, <1>4, <2>1, <2>2
  <2>3. CASE Len(wire) # 0
    <3>1. Len(wire) \in 1..Len(wire) /\ wire[Len(wire)] = "prompt"
      BY <1>1, <1>4, <2>3 DEF HasEnd
    <3>2. ~InOrder
      BY <3>1, Without DEF Promptless
    <3>3. Owed(Len(wire) - 1)
      BY <3>1, <3>2 DEF Orderly, Owing
    <3>4. One(Silence) \in {0, 1}
      BY DEF One
    <3>5. Len(wire) - faults <= late
      BY <1>1, <3>3, <3>4 DEF Owed, Slack
    <3> QED BY <1>4, <2>1, <3>5
  <2> QED BY <2>2, <2>3
<1> QED BY <1>3, <1>4 DEF TimesOut

\* Each thing written is waited for, and each thing read, or given up, was.
LEMMA SessionOutstanding ==
  ASSUME TypeOK, Down, Outstanding, Orderly, Timely', Session PROVE Outstanding'
<1>1. /\ todo \in Seq(Items) /\ wire \in Seq(Wires)
      /\ Len(todo) \in Nat /\ Len(wire) \in Nat /\ Busy \in {0, 1}
      /\ late \in Nat /\ faults \in Nat /\ Load \in Nat /\ Load' \in Nat
  <2>1. /\ todo \in Seq(Items) /\ wire \in Seq(Wires)
        /\ Len(todo) \in Nat /\ Len(wire) \in Nat /\ Busy \in {0, 1}
        /\ late \in Nat /\ faults \in Nat
        /\ Len(todo') \in Nat /\ Len(wire') \in Nat /\ Busy' \in {0, 1}
    BY NumbersNext DEF Numbered, Next
  <2> QED BY <2>1 DEF Load
<1>2. One(Waited) \in {0, 1} /\ One(Waited)' \in {0, 1}
  BY DEF One
<1>3. UNCHANGED mode => Busy' = Busy
  BY DEF Busy
<1>4. /\ wait = "none" => One(Waited) = 0
      /\ wait' = "none" => One(Waited)' = 0
      /\ wait' \in {"answer", "result"} => One(Waited)' = 1
  BY DEF Waited, One
<1>5. UNCHANGED <<todo, wire, mode>> => Load' = Load
  BY <1>3 DEF Load
<1>6. ASSUME NEW c \in Items, todo' = Append(todo, c), UNCHANGED <<wire, mode>>
      PROVE  Load' = Load + 1
  <2>1. Len(todo') = Len(todo) + 1
    BY <1>1, <1>6, Extended
  <2> QED BY <1>1, <1>3, <1>6, <2>1 DEF Load
<1>7. ASSUME NEW i \in 1..Len(wire), wire' = SubSeq(wire, i + 1, Len(wire)),
             UNCHANGED <<todo, mode>>
      PROVE  Load' <= Load - 1
  <2>1. Len(wire') = Len(wire) - i /\ i \in Nat /\ i >= 1
    BY <1>1, <1>7, Rest
  <2> QED BY <1>1, <1>3, <1>7, <2>1 DEF Load
<1>8. CASE OpenSession \/ StartExchange
  BY <1>4, <1>5, <1>8 DEF OpenSession, StartExchange, Idle, Down, Outstanding
<1>9. CASE WriteCommand
  <2>1. Head(plan) \in Items
    BY <1>9, TailType DEF WriteCommand, TypeOK, SessionOK, Items
  <2>2. Load' = Load + 1 /\ One(Waited) = 0 /\ One(Waited)' = 1 /\ UNCHANGED <<late, faults>>
    BY <1>4, <1>6, <1>9, <2>1 DEF WriteCommand
  <2>3. Load + 1 <= late + faults + 1
    BY <1>1, <2>2 DEF Outstanding
  <2> QED BY <2>2, <2>3 DEF Outstanding
<1>10. CASE WriteHeader
  <2>1. Header(job, part) \in Items
    BY <1>10, SegmentItems DEF WriteHeader, TypeOK
  <2>2. Load' = Load + 1 /\ One(Waited) = 0 /\ UNCHANGED <<late, faults>>
    BY <1>4, <1>6, <1>10, <2>1 DEF WriteHeader
  <2>3. Len(todo) + 1 \in 1..Len(todo') /\ todo'[Len(todo) + 1].op = "cmgs"
    BY <1>1, <1>10, <2>1, Extended DEF WriteHeader, Header
  <2>4. One(Waited)' = 1
    BY <1>10, <2>3 DEF WriteHeader, Waited, Pending, Headerless, One
  <2>5. Load + 1 <= late + faults + 1
    BY <1>1, <2>2 DEF Outstanding
  <2> QED BY <2>2, <2>4, <2>5 DEF Outstanding
<1>11. CASE Prompted
  <2>1. Text(job, part) \in Items
    BY <1>11, SegmentItems DEF Prompted, TypeOK, SessionOK
  <2>2. PICK i \in 1..Len(wire) : wire' = SubSeq(wire, i + 1, Len(wire))
    BY <1>11 DEF Prompted
  <2>3. Len(wire') = Len(wire) - i /\ i \in Nat /\ i >= 1
    BY <1>1, <2>2, Rest
  <2>4. Len(todo') = Len(todo) + 1 /\ Busy' = Busy
    BY <1>1, <1>3, <1>11, <2>1, Extended DEF Prompted
  <2>5. Load' <= Load
    BY <1>1, <2>3, <2>4 DEF Load
  <2>6. One(Waited)' = 1 /\ UNCHANGED <<late, faults>>
    BY <1>4, <1>11 DEF Prompted
  <2>7. Load' <= late + faults + 1
    BY <1>1, <1>2, <2>5 DEF Outstanding
  <2> QED BY <2>6, <2>7 DEF Outstanding
<1>12. CASE NoPrompt
  <2>1. Load' = Load + 1 /\ One(Waited)' = 1 /\ UNCHANGED <<late, faults>>
    BY <1>4, <1>6, <1>12, EscItem DEF NoPrompt, Abort
  <2>2. One(Waited) = 0
    <3>1. Headerless /\ Promptless
      BY <1>12, InTime DEF Quiet, NoPromptIn, Headerless, Promptless
    <3> QED BY <1>12, <3>1 DEF NoPrompt, Waited, Pending, One
  <2>3. Load + 1 <= late + faults + 1
    BY <1>1, <2>2 DEF Outstanding
  <2> QED BY <2>1, <2>3 DEF Outstanding
<1>13. CASE NoResult
  <2>1. Load' = Load + 1 /\ One(Waited)' = 1 /\ UNCHANGED faults
    BY <1>4, <1>6, <1>13, EscItem DEF NoResult, Abort, TimesOut
  <2>2. Load - faults <= late'
    BY <1>13, GivenUp DEF NoResult
  <2>3. PICK l \in Nat : l = late'
    BY NumbersNext DEF Numbered, Next
  <2>4. Load + 1 <= l + faults + 1
    <3>1. Load \in Nat /\ faults \in Nat /\ Load - faults <= l
      BY <1>1, <2>2, <2>3
    <3> QED BY <3>1
  <2> QED BY <2>1, <2>3, <2>4 DEF Outstanding
<1>14. CASE EndExchange /\ TimesOut
  <2>1. Load' = Load /\ One(Waited)' = 0 /\ UNCHANGED faults
    BY <1>4, <1>5, <1>14 DEF EndExchange, TimesOut
  <2>2. Load - faults <= late'
    BY <1>14, GivenUp DEF EndExchange
  <2>3. PICK l \in Nat : l = late'
    BY NumbersNext DEF Numbered, Next
  <2>4. Load <= l + faults + 0
    <3>1. Load \in Nat /\ faults \in Nat /\ Load - faults <= l
      BY <1>1, <2>2, <2>3
    <3> QED BY <3>1
  <2> QED BY <2>1, <2>3, <2>4 DEF Outstanding
<1>15. CASE (EndExchange /\ ~TimesOut) \/ SegmentSent \/ SegmentFailed
  <2>1. PICK i \in 1..Len(wire) : wire' = SubSeq(wire, i + 1, Len(wire))
    BY <1>15 DEF EndExchange, SegmentSent, SegmentFailed, Collect
  <2>2. UNCHANGED <<todo, mode, late, faults>> /\ One(Waited)' = 0
    BY <1>4, <1>15 DEF EndExchange, SegmentSent, SegmentFailed
  <2>3. Load' <= Load - 1
    BY <1>7, <2>1, <2>2
  <2>4. Load' <= late + faults + 0
    BY <1>1, <1>2, <2>3 DEF Outstanding
  <2> QED BY <2>2, <2>4 DEF Outstanding
<1>16. CASE ReadLine
  <2>1. /\ wait = "none" /\ wait' = "none" /\ wire # <<>>
        /\ UNCHANGED <<todo, mode, late, faults>>
        /\ wire' = IF Head(wire) = "sent" THEN <<"end">> \o Tail(wire) ELSE Tail(wire)
    BY <1>1, <1>16 DEF ReadLine, Idle, HasEnd
  <2>2. Len(wire') \in {Len(wire) - 1, Len(wire)}
    BY <1>1, <2>1, Dealt, LineRead
  <2>3. Load' <= Load
    BY <1>1, <1>3, <2>1, <2>2 DEF Load
  <2>4. Load' <= late + faults + 0
    BY <1>1, <1>4, <2>1, <2>3 DEF Outstanding
  <2> QED BY <1>4, <2>1, <2>4 DEF Outstanding
<1>17. ~Misprompted
  BY InTime
<1> QED BY <1>8, <1>9, <1>10, <1>11, <1>12, <1>13, <1>14, <1>15, <1>16, <1>17 DEF Session

\* What was lost or late stays counted.
LEMMA Counts ==
  ASSUME TypeOK, [Next]_vars
  PROVE  /\ \/ UNCHANGED <<late, faults>>
            \/ UNCHANGED late /\ faults' = faults + 1
            \/ UNCHANGED faults /\ late' = late + 1
         /\ late \in Nat /\ faults \in Nat /\ (Timely' => Timely)
<1>1. \/ UNCHANGED <<late, faults>>
      \/ UNCHANGED late /\ faults' = faults + 1
      \/ UNCHANGED faults /\ late' = late + 1
  BY DEF Next, vars, ModemStep, ModemCommand, ModemHeader, ModemText, ModemTyped,
         ModemEsc, NetworkAnswers, Fault, Session, OpenSession, StartExchange,
         WriteCommand, EndExchange, TimesOut, WriteHeader, Prompted, Misprompted,
         NoPrompt, NoResult, SegmentSent, SegmentFailed, ReadLine, LosePort, StartSend
<1>2. late \in Nat /\ faults \in Nat /\ tardy \in Nat /\ strays \in Nat
  BY DEF TypeOK, ModemOK
<1>3. tardy' \in {tardy, tardy + 1} /\ strays' \in {strays, strays + 1}
  BY DEF Next, vars, ModemStep, ModemCommand, ModemHeader, ModemText, ModemTyped,
         ModemEsc, NetworkAnswers, Session, OpenSession, StartExchange, WriteCommand,
         EndExchange, WriteHeader, Prompted, Misprompted, NoPrompt, NoResult,
         SegmentSent, SegmentFailed, ReadLine, LosePort, StartSend
<1> QED BY <1>1, <1>2, <1>3 DEF Timely

LEMMA FewBefore == ASSUME TypeOK, Few', [Next]_vars PROVE Few
<1>1. /\ \/ UNCHANGED <<late, faults>>
         \/ UNCHANGED late /\ faults' = faults + 1
         \/ UNCHANGED faults /\ late' = late + 1
      /\ late \in Nat /\ faults \in Nat /\ Timely
  BY Counts DEF Few
<1>2. late' + faults' <= 4
  BY DEF Few
<1>3. late + faults <= 4
  BY <1>1, <1>2
<1> QED BY <1>1, <1>3 DEF Few

\* Once few answers are lost or late, all is in order or the session has yet to
\* read away what is not.
LEMMA CountedStep ==
  ASSUME TypeOK, Charset, Down, Shape, Counted, [Next]_vars PROVE Counted'
<1>1. SUFFICES ASSUME Few' PROVE Outstanding' /\ Orderly'
  BY DEF Counted
<1>2. Few
  BY <1>1, FewBefore
<1>3. Outstanding /\ Orderly /\ Timely'
  BY <1>1, <1>2 DEF Counted, Few
<1>4. CASE LosePort
  BY <1>3, <1>4, LoseOwing, LoseOutstanding DEF Orderly
<1>5. CASE ModemStep
  <2>1. InOrder => InOrder'
    BY <1>5, ModemInOrder
  <2>2. Owing /\ Awaits => Owing' /\ Awaits'
    BY <1>5, ModemOrderly
  <2> QED BY <1>3, <1>5, <2>1, <2>2, ModemOutstanding DEF Orderly
<1>6. CASE Session
  <2>1. InOrder => InOrder'
    BY <1>3, <1>6, SessionInOrder
  <2>2. Owing /\ Awaits /\ ~InOrder => Owing' /\ Awaits'
    BY <1>2, <1>6, WithoutIsInOrder, SessionOwing
  <2> QED BY <1>3, <1>6, <2>1, <2>2, SessionOutstanding DEF Orderly
<1>7. ASSUME NEW m \in Msgs, StartSend(m) PROVE Outstanding' /\ Orderly'
  <2>1. /\ wait = "none" /\ plan = <<>> /\ job = None /\ up /\ job' # None
        /\ UNCHANGED <<todo, wire, mode, draft, late, faults, up, wait>>
    BY <1>7 DEF StartSend, Idle
  <2>2. Outstanding'
    BY <1>3, <2>1 DEF Outstanding, Load, Busy, Waited
  <2>3. InOrder => InOrder'
    <3>1. InOrder => Headerless /\ Promptless
      BY <2>1, Without
    <3>2. Headerless /\ Promptless => Headerless' /\ Promptless'
      BY <2>1 DEF Headerless, Promptless
    <3> QED BY <3>1, <3>2 DEF InOrder, HeaderLast, PromptForHeader, Headerless, Promptless
  <2>4. Owing /\ Awaits => Owing' /\ Awaits'
    <3> SUFFICES ASSUME Owing PROVE Owing' /\ Awaits'
      OBVIOUS
    <3>1. Len(plan) = 0 /\ Len(plan') \in {1, 3}
      <4>1. plan' = <<At>> \o SetCharset("UCS2") \/ plan' = <<At>> \o <<>>
        BY <1>7 DEF StartSend
      <4>2. Len(<<At>> \o <<>>) = 1
        OBVIOUS
      <4> QED BY <2>1, <4>1, <4>2, Plans DEF Sets
    <3>2. Ahead = 1 /\ Ahead' \in {1, 3}
      BY <2>1, <3>1 DEF Ahead, One
    <3>3. Room = 1 /\ Room' \in {1, 3} /\ One(Silence) = 0 /\ One(Silence)' = 0
      BY <2>1, <3>2 DEF Room, One, Silence
    <3>4. Slack <= Slack'
      <4>1. late \in Nat /\ faults \in Nat
        BY Numbers DEF Numbered
      <4>2. /\ Slack = late + faults + 1 - 0
            /\ Slack' \in {late + faults + 1 - 0, late + faults + 3 - 0}
        BY <2>1, <3>3 DEF Slack
      <4> QED BY <4>1, <4>2
    <3>5. NoneWritten /\ Awaits'
      BY <2>1 DEF NoneWritten, Awaits
    <3> QED BY <2>1, <3>4, <3>5, OwingKept
  <2> QED BY <1>3, <2>2, <2>3, <2>4 DEF Orderly
<1>8. CASE UNCHANGED vars
  <2>1. Outstanding'
    BY <1>3, <1>8 DEF vars, Outstanding, Load, Busy, Waited, Pending, Headerless,
                      Promptless
  <2>2. InOrder => InOrder'
    BY <1>8 DEF vars, InOrder, HeaderLast, PromptForHeader, Promptless, Own, Header
  <2>3. Owing /\ Awaits => Owing' /\ Awaits'
    <3>1. Slack' = Slack /\ Awaits' = Awaits /\ NoneWritten
      BY <1>8 DEF vars, Slack, Room, Ahead, Silence, Quiet, HasEnd, Awaits, NoneWritten
    <3>2. Slack <= Slack'
      BY <3>1, Numbers DEF Numbered
    <3> QED BY <1>8, <3>1, <3>2, OwingKept DEF vars
  <2> QED BY <1>3, <2>1, <2>2, <2>3 DEF Orderly
<1> QED BY <1>4, <1>5, <1>6, <1>7, <1>8 DEF Next

LEMMA CountedShows == TypeOK /\ Charset /\ Counted /\ Few => PromptIsOwn
<1> SUFFICES ASSUME TypeOK, Charset, Counted, Few PROVE PromptIsOwn
  OBVIOUS
<1>1. InOrder => PromptIsOwn
  BY DEF InOrder, PromptForHeader, PromptIsOwn, Own
<1>2. ASSUME Owing, ~InOrder PROVE PromptIsOwn
  <2>1. ~(Headerless /\ Promptless)
    BY <1>2, WithoutIsInOrder
  <2>2. ~(up /\ plan = <<>> /\ wait # "answer" /\ job # None)
    BY <1>2, <2>1, Behind
  <2>3. wait = "prompt" => up /\ plan = <<>> /\ job # None
    BY DEF Charset, TypeOK, SessionOK
  <2> QED BY <2>2, <2>3 DEF PromptIsOwn
<1> QED BY <1>1, <1>2 DEF Counted, Orderly

InCount == Charset /\ Down /\ Shape /\ Counted

LEMMA InCountHolds == Spec => []InCount
<1>1. Init => InCount
  <2>1. Init => Down /\ Shape /\ InOrder
    BY DEF Init, Down, Shape, InOrder, HeaderLast, PromptForHeader
  <2>2. Init => Outstanding
    <3> SUFFICES ASSUME Init PROVE Outstanding
      OBVIOUS
    <3>1. Load = 0 /\ late = 0 /\ faults = 0
      BY DEF Init, Load, Busy, One
    <3>2. One(Waited) = 0
      BY DEF Init, Waited, One
    <3> QED BY <3>1, <3>2 DEF Outstanding
  <2> QED BY <2>1, <2>2, InitCharset DEF InCount, Counted, Orderly
<1>2. TypeOK /\ InCount /\ [Next]_vars => InCount'
  BY CharsetStep, PlansStep, CountedStep DEF InCount
<1> QED BY <1>1, <1>2, Typed, PTL DEF Spec

-----------------------------------------------------------------------------
(* A modem that answers everything in time but the prompt, and a line with *)
(* ">" bytes of other lines: session and modem stay in step. The session   *)
(* waits for the answer to the last thing it has written; a prompt that    *)
(* nobody waits for stands before that answer, and is read away with it.   *)

Sure == late + faults = 0

Silent   == ~HasEnd
Answered == Len(wire) > 0 /\ EndAt(Len(wire))

AnswerDue ==
  \/ mode = "command" /\ Silent /\ \E c \in Commands \ {Esc} : todo = <<c>>
  \/ job = None /\ Silent /\ todo = <<Esc>> /\ mode # "busy"
  \/ /\ job = None /\ Silent /\ mode = "command"
     /\ \E c \in Items : c.op = "cmgs" /\ todo = <<c, Esc>>
  \/ todo = <<>> /\ mode = "command" /\ (Answered \/ (job = None /\ Silent))
PromptDue ==
  \/ todo = <<Header(job, part)>> /\ mode = "command" /\ wire = <<>>
  \/ todo = <<>> /\ mode = "text" /\ draft = Own /\ Silent
ResultDue ==
  \/ todo = <<Header(job, part), Text(job, part)>> /\ mode = "command" /\ Silent
  \/ todo = <<Text(job, part)>> /\ mode = "text" /\ draft = Own /\ Silent
  \/ todo = <<>> /\ mode = "busy" /\ draft = Own /\ Silent
  \/ /\ todo = <<>> /\ mode = "command" /\ Answered
     /\ wire[Len(wire)] = "sent" => part \in taken[job]

InStep ==
  /\ wait = "none" => /\ todo = <<>> /\ mode = "command" /\ Silent
                      /\ job # None /\ plan = <<>> => wire = <<>>
  /\ wait = "answer" => AnswerDue
  /\ wait = "prompt" => PromptDue
  /\ wait = "result" => ResultDue

\* What the modem adds to a line without an answer.
LEMMA SilentThen ==
  ASSUME wire \in Seq(Wires), Silent, NEW e \in Wires, wire' = Append(wire, e)
  PROVE  /\ e = "prompt" => Silent'
         /\ e # "prompt" => Answered' /\ wire'[Len(wire')] = e
<1>1. /\ Len(wire') = Len(wire) + 1 /\ Len(wire) \in Nat /\ wire'[Len(wire) + 1] = e
      /\ \A q \in 1..Len(wire) : wire'[q] = wire[q]
      /\ \A q \in 1..(Len(wire) + 1) : q \in 1..Len(wire) \/ q = Len(wire) + 1
  BY Extended
<1>2. \A q \in 1..Len(wire) : wire'[q] = "prompt"
  BY <1>1 DEF Silent, HasEnd
<1>3. e = "prompt" => Silent'
  BY <1>1, <1>2 DEF Silent, HasEnd
<1>4. e # "prompt" => Answered' /\ wire'[Len(wire')] = e
  <2>1. (Len(wire) + 1) - 1 = Len(wire) /\ Len(wire) + 1 > 0
    BY <1>1
  <2> QED BY <1>1, <1>2, <2>1 DEF Answered, EndAt
<1> QED BY <1>3, <1>4

\* The answer that was awaited is the last thing on the line.
LEMMA AnswerTaken ==
  ASSUME wire \in Seq(Wires), Answered, NEW r \in Results, Collect(r)
  PROVE  wire' = <<>> /\ r = wire[Len(wire)]
<1>1. Len(wire) \in Nat
  OBVIOUS
<1>2. PICK i \in 1..Len(wire) :
        EndAt(i) /\ r = wire[i] /\ wire' = SubSeq(wire, i + 1, Len(wire))
  BY DEF Collect
<1>3. i = Len(wire)
  <2>1. i < Len(wire) => i \in 1..(Len(wire) - 1)
    BY <1>1
  <2>2. i < Len(wire) => wire[i] = "prompt"
    BY <2>1 DEF Answered, EndAt
  <2> QED BY <1>1, <1>2, <2>2 DEF EndAt
<1>4. SubSeq(wire, Len(wire) + 1, Len(wire)) = <<>>
  BY <1>1
<1> QED BY <1>2, <1>3, <1>4

LEMMA SilentHasNone ==
  ASSUME wire \in Seq(Wires), Silent
  PROVE  ~Answered /\ \A r \in Results : ~Collect(r)
<1>1. Len(wire) \in Nat
  OBVIOUS
<1>2. Answered => Len(wire) \in 1..Len(wire) /\ wire[Len(wire)] # "prompt"
  BY <1>1 DEF Answered, EndAt
<1> QED BY <1>2 DEF Silent, HasEnd, Collect, EndAt

LEMMA OneItem ==
  ASSUME NEW c
  PROVE  <<c>> # <<>> /\ Head(<<c>>) = c /\ Tail(<<c>>) = <<>>
OBVIOUS

LEMMA TwoItems ==
  ASSUME NEW c, NEW d
  PROVE  <<c, d>> # <<>> /\ Head(<<c, d>>) = c /\ Tail(<<c, d>>) = <<d>>
OBVIOUS

LEMMA SecondItem ==
  ASSUME NEW c, NEW d, NEW h, h = <<c>>
  PROVE  Append(h, d) = <<c, d>>
<1> DEFINE S == {c, d}
<1>1. h \in Seq(S) /\ Len(h) = 1 /\ h[1] = c /\ d \in S
  OBVIOUS
<1>2. /\ Append(h, d) \in Seq(S) /\ Len(Append(h, d)) = 2
      /\ Append(h, d)[1] = c /\ Append(h, d)[2] = d
  BY <1>1
<1>3. <<c, d>> \in Seq(S) /\ Len(<<c, d>>) = 2 /\ <<c, d>>[1] = c /\ <<c, d>>[2] = d
  OBVIOUS
<1> HIDE DEF S
<1>4. \A n \in 1..2 : Append(h, d)[n] = <<c, d>>[n]
  <2>1. \A n \in 1..2 : n = 1 \/ n = 2
    OBVIOUS
  <2> QED BY <1>2, <1>3, <2>1, Zenon
<1> QED BY <1>2, <1>3, <1>4, SeqEqual

\* The steps of a modem that answers, by what it deals with.
LEMMA ModemAnswers ==
  ASSUME TypeOK, Down, up, UNCHANGED faults, ModemStep
  PROVE  /\ UNCHANGED session
         /\ \/ /\ mode = "command" /\ UNCHANGED mode /\ todo # <<>>
               /\ Head(todo).op \in {"at", "set"} /\ todo' = Tail(todo)
               /\ wire' = Append(wire, "end")
            \/ /\ mode = "command" /\ mode' = "text" /\ todo # <<>>
               /\ Head(todo).op = "cmgs" /\ todo' = Tail(todo)
               /\ draft' = [msg |-> Head(todo).msg, part |-> Head(todo).part]
               /\ wire' = Append(wire, "prompt")
            \/ /\ mode = "text" /\ todo # <<>> /\ UNCHANGED <<draft, wire>>
               /\ Head(todo).op = "text" /\ todo' = Tail(todo) /\ mode' = "busy"
            \/ /\ todo # <<>> /\ Head(todo).op = "cut"
            \/ /\ mode = "command" /\ todo # <<>> /\ Head(todo).op = "text"
            \/ /\ mode \in {"command", "text"} /\ mode' = "command" /\ todo # <<>>
               /\ Head(todo).op = "esc" /\ todo' = Tail(todo)
               /\ wire' \in {wire, Append(wire, "end")}
            \/ /\ mode = "busy" /\ mode' = "command" /\ UNCHANGED todo
               /\ \/ wire' = Append(wire, "end")
                  \/ /\ wire' = Append(wire, "sent")
                     /\ taken' = [taken EXCEPT ![draft.msg] = @ \union {draft.part}]
<1>1. faults \in Nat /\ ~Fault
  BY DEF TypeOK, ModemOK, Fault
<1>2. UNCHANGED session
  BY ModemDeals
<1>3. CASE ModemCommand
  BY <1>1, <1>2, <1>3 DEF ModemCommand, Next1, Emit
<1>4. CASE ModemHeader
  BY <1>1, <1>2, <1>4 DEF ModemHeader, OpensDraft, Next1, Emit
<1>5. CASE ModemText
  BY <1>2, <1>5 DEF ModemText, Next1
<1>6. CASE ModemTyped
  BY <1>2, <1>6 DEF ModemTyped, Next1
<1>7. CASE ModemEsc
  BY <1>2, <1>7 DEF ModemEsc, Next1, Emit
<1>8. CASE NetworkAnswers
  BY <1>1, <1>2, <1>8 DEF NetworkAnswers, Emit
<1> QED BY <1>3, <1>4, <1>5, <1>6, <1>7, <1>8 DEF ModemStep

LEMMA ItemKinds ==
  /\ \A m, i : Header(m, i).op = "cmgs" /\ Text(m, i).op = "text"
  /\ \A m, i : [msg |-> Header(m, i).msg, part |-> Header(m, i).part] = [msg |-> m, part |-> i]
  /\ Esc.op = "esc" /\ \A c \in Commands \ {Esc} : c.op \in {"at", "set"}
BY DEF Header, Text, Esc, At, Commands

LEMMA WireNext ==
  ASSUME TypeOK, Silent
  PROVE  /\ wire' = Append(wire, "end") => Answered' /\ wire'[Len(wire')] = "end"
         /\ wire' = Append(wire, "sent") => Answered'
         /\ wire' = Append(wire, "prompt") => Silent'
         /\ wire' = wire => Silent'
<1>1. wire \in Seq(Wires) /\ "end" \in Wires /\ "sent" \in Wires /\ "prompt" \in Wires
  BY DEF TypeOK, LineOK, Wires
<1>2. wire' = wire => Silent'
  BY DEF Silent, HasEnd
<1> QED BY <1>1, <1>2, SilentThen

LEMMA HeaderDealt ==
  ASSUME TypeOK, Down, up, UNCHANGED faults, ModemStep,
         mode = "command", todo # <<>>, Head(todo) = Header(job, part)
  PROVE  /\ mode' = "text" /\ todo' = Tail(todo) /\ wire' = Append(wire, "prompt")
         /\ draft' = Own
<1>1. Head(todo).op = "cmgs"
  BY ItemKinds
<1>2. /\ mode' = "text" /\ todo' = Tail(todo) /\ wire' = Append(wire, "prompt")
      /\ draft' = [msg |-> Head(todo).msg, part |-> Head(todo).part]
  BY <1>1, ModemAnswers
<1>3. Head(todo).msg = job /\ Head(todo).part = part
  BY DEF Header
<1> QED BY <1>2, <1>3 DEF Own

LEMMA ModemInStep ==
  ASSUME TypeOK, Charset, Down, InStep, UNCHANGED faults, ModemStep PROVE InStep'
<1>1. wait # "none"
  BY DEF InStep, ModemStep, ModemCommand, ModemHeader, ModemText, ModemTyped, ModemEsc,
         NetworkAnswers, Next1
<1>2. up /\ UNCHANGED session
  <2>1. up
    BY <1>1 DEF Down
  <2> QED BY <2>1, ModemAnswers
<1>3. wait \in {"answer", "prompt", "result"} /\ UNCHANGED <<wait, job, part>>
  BY <1>1, <1>2 DEF TypeOK, SessionOK, Waits
<1>4. ASSUME wait = "answer" PROVE AnswerDue'
  <2>0. AnswerDue
    BY <1>4 DEF InStep
  <2>1. ASSUME mode = "command", Silent, NEW c \in Commands \ {Esc}, todo = <<c>>
        PROVE  AnswerDue'
    <3>1. todo # <<>> /\ Head(todo) = c /\ Tail(todo) = <<>> /\ c.op \in {"at", "set"}
      BY <2>1, OneItem, ItemKinds
    <3>2. mode' = "command" /\ todo' = <<>> /\ wire' = Append(wire, "end")
      BY <1>2, <2>1, <3>1, ModemAnswers
    <3> QED BY <2>1, <3>2, WireNext DEF AnswerDue
  <2>2. CASE job = None /\ Silent /\ todo = <<Esc>> /\ mode # "busy"
    <3>1. todo # <<>> /\ Head(todo).op = "esc" /\ Tail(todo) = <<>>
      BY <2>2, OneItem, ItemKinds
    <3>2. mode' = "command" /\ todo' = <<>> /\ wire' \in {wire, Append(wire, "end")}
      BY <1>2, <2>2, <3>1, ModemAnswers
    <3> QED BY <1>3, <2>2, <3>2, WireNext DEF AnswerDue
  <2>3. ASSUME job = None, Silent, mode = "command",
               NEW c \in Items, c.op = "cmgs", todo = <<c, Esc>>
        PROVE  AnswerDue'
    <3>1. todo # <<>> /\ Head(todo).op = "cmgs" /\ Tail(todo) = <<Esc>>
      BY <2>3, TwoItems
    <3>2. mode' = "text" /\ todo' = <<Esc>> /\ wire' = Append(wire, "prompt")
      BY <1>2, <2>3, <3>1, ModemAnswers
    <3> QED BY <1>3, <2>3, <3>2, WireNext DEF AnswerDue
  <2>4. ~(todo = <<>> /\ mode = "command")
    BY <1>2, ModemAnswers
  <2> QED BY <2>0, <2>1, <2>2, <2>3, <2>4 DEF AnswerDue
<1>5. ASSUME wait = "prompt" PROVE PromptDue'
  <2>0. PromptDue
    BY <1>5 DEF InStep
  <2>1. CASE todo = <<Header(job, part)>> /\ mode = "command" /\ wire = <<>>
    <3>1. todo # <<>> /\ Head(todo) = Header(job, part) /\ Tail(todo) = <<>>
      BY <2>1, OneItem
    <3>2. /\ mode' = "text" /\ todo' = <<>> /\ wire' = Append(wire, "prompt")
          /\ draft' = Own
      BY <1>2, <2>1, <3>1, HeaderDealt
    <3>3. Silent
      BY <2>1 DEF Silent, HasEnd
    <3> QED BY <1>3, <3>2, <3>3, WireNext DEF PromptDue, Own
  <2>2. ~(todo = <<>> /\ mode = "text")
    BY <1>2, ModemAnswers
  <2> QED BY <2>0, <2>1, <2>2 DEF PromptDue
<1>6. ASSUME wait = "result" PROVE ResultDue'
  <2>0. ResultDue
    BY <1>6 DEF InStep
  <2>1. CASE /\ todo = <<Header(job, part), Text(job, part)>> /\ mode = "command"
             /\ Silent
    <3>1. todo # <<>> /\ Head(todo) = Header(job, part) /\ Tail(todo) = <<Text(job, part)>>
      BY <2>1, TwoItems
    <3>2. /\ mode' = "text" /\ todo' = <<Text(job, part)>>
          /\ wire' = Append(wire, "prompt") /\ draft' = Own
      BY <1>2, <2>1, <3>1, HeaderDealt
    <3> QED BY <1>3, <2>1, <3>2, WireNext DEF ResultDue, Own
  <2>2. CASE todo = <<Text(job, part)>> /\ mode = "text" /\ draft = Own /\ Silent
    <3>1. todo # <<>> /\ Head(todo) = Text(job, part) /\ Tail(todo) = <<>>
      BY <2>2, OneItem
    <3>2. mode' = "busy" /\ todo' = <<>> /\ UNCHANGED <<draft, wire>>
      BY <1>2, <2>2, <3>1, ModemAnswers, ItemKinds
    <3> QED BY <1>3, <2>2, <3>2, WireNext DEF ResultDue, Own
  <2>3. CASE todo = <<>> /\ mode = "busy" /\ draft = Own /\ Silent
    <3>1. /\ mode' = "command" /\ todo' = <<>>
          /\ \/ wire' = Append(wire, "end")
             \/ /\ wire' = Append(wire, "sent")
                /\ taken' = [taken EXCEPT ![draft.msg] = @ \union {draft.part}]
      BY <1>2, <2>3, ModemAnswers
    <3>2. wire' = Append(wire, "sent") => part \in taken'[job]
      <4>1. job \in Msgs
        BY <1>6 DEF TypeOK, SessionOK
      <4>2. wire' = Append(wire, "end") => wire'[Len(wire')] = "end"
        BY <2>3, WireNext
      <4>3. wire' = Append(wire, "sent") => wire'[Len(wire')] = "sent"
        BY DEF TypeOK, LineOK
      <4>4. wire' = Append(wire, "sent") =>
              taken' = [taken EXCEPT ![job] = @ \union {part}]
        BY <2>3, <3>1, <4>2, <4>3 DEF Own
      <4> QED BY <4>1, <4>4 DEF TypeOK, ModemOK
    <3>3. Answered' /\ (wire'[Len(wire')] = "sent" => part' \in taken'[job'])
      BY <1>3, <2>3, <3>1, <3>2, WireNext
    <3> QED BY <3>1, <3>3 DEF ResultDue
  <2>4. ~(todo = <<>> /\ mode = "command")
    BY <1>2, ModemAnswers
  <2> QED BY <2>0, <2>1, <2>2, <2>3, <2>4 DEF ResultDue
<1> QED BY <1>3, <1>4, <1>5, <1>6 DEF InStep

LEMMA SessionInStep ==
  ASSUME TypeOK, Charset, Down, Shape, InStep, UNCHANGED late, Sure, Session
  PROVE  InStep'
<1>1. late = 0 /\ faults = 0 /\ wire \in Seq(Wires)
  BY DEF Sure, TypeOK, ModemOK, LineOK, Wires
<1>2. wire = <<>> => Silent
  BY DEF Silent, HasEnd
<1>3. UNCHANGED wire /\ Silent => Silent'
  BY DEF Silent, HasEnd
<1>4. TimesOut => Quiet /\ Silent /\ UNCHANGED wire
  BY <1>1 DEF TimesOut, Silent
<1>5. CASE OpenSession
  BY <1>3, <1>5 DEF OpenSession, InStep, Down
<1>6. CASE StartExchange
  BY <1>3, <1>6 DEF StartExchange, Idle, InStep
<1>7. CASE WriteCommand
  <2>1. /\ wait = "none" /\ wait' = "answer" /\ UNCHANGED <<job, wire, mode>>
        /\ plan # <<>> /\ todo' = Append(todo, Head(plan))
    BY <1>7 DEF WriteCommand
  <2>2. todo = <<>> /\ mode = "command" /\ Silent
    BY <2>1 DEF InStep
  <2>3. Head(plan) = plan[1] /\ 1 \in 1..Len(plan) /\ Head(plan) \in Commands
    BY <2>1, TailType DEF TypeOK, SessionOK
  <2>4. Head(plan) = Esc => job = None
    BY <2>3, ItemKinds DEF Shape
  <2>5. todo' = <<Head(plan)>>
    BY <2>1, <2>2
  <2>6. AnswerDue'
    BY <1>3, <2>1, <2>2, <2>3, <2>4, <2>5 DEF AnswerDue
  <2> QED BY <2>1, <2>6 DEF InStep
<1>8. CASE EndExchange
  <2>1. /\ wait = "answer" /\ wait' = "none" /\ UNCHANGED <<job, plan, todo, mode>>
        /\ (\E r \in Results : Collect(r)) \/ TimesOut
    BY <1>8 DEF EndExchange
  <2>2. AnswerDue
    BY <2>1 DEF InStep
  <2>3. CASE \E r \in Results : Collect(r)
    <3>1. ~Silent
      BY <1>1, <2>3, SilentHasNone
    <3>2. todo = <<>> /\ mode = "command" /\ Answered
      BY <2>2, <3>1 DEF AnswerDue
    <3>3. wire' = <<>>
      BY <1>1, <2>3, <3>2, AnswerTaken
    <3>4. Silent'
      BY <3>3 DEF Silent, HasEnd
    <3> QED BY <2>1, <3>2, <3>3, <3>4 DEF InStep
  <2>4. CASE TimesOut
    <3>1. todo = <<>> /\ mode # "busy" /\ Silent /\ Silent' /\ ~Answered
      BY <1>1, <1>3, <1>4, <2>4, SilentHasNone DEF Quiet
    <3>2. mode = "command" /\ job = None
      BY <2>2, <3>1, OneItem, TwoItems DEF AnswerDue
    <3> QED BY <2>1, <3>1, <3>2 DEF InStep
  <2> QED BY <2>1, <2>3, <2>4
<1>9. CASE WriteHeader
  <2>1. /\ wait = "none" /\ wait' = "prompt" /\ UNCHANGED <<job, part, mode, wire>>
        /\ plan = <<>> /\ job # None /\ todo' = Append(todo, Header(job, part))
    BY <1>9 DEF WriteHeader
  <2>2. todo = <<>> /\ mode = "command" /\ wire = <<>>
    BY <2>1 DEF InStep
  <2>3. todo' = <<Header(job, part)>>
    BY <2>1, <2>2
  <2>4. PromptDue'
    BY <2>1, <2>2, <2>3 DEF PromptDue, Header
  <2> QED BY <2>1, <2>4 DEF InStep
<1>10. CASE Prompted \/ Misprompted
  <2>1. /\ wait = "prompt" /\ wait' = "result" /\ UNCHANGED <<job, part, mode, draft>>
        /\ todo' = Append(todo, Text(job, part))
        /\ \E i \in 0..Len(wire) : wire' = SubSeq(wire, i + 1, Len(wire))
        /\ Prompted => wire # <<>>
    BY <1>1, <1>10 DEF Prompted, Misprompted
  <2>2. PromptDue
    BY <2>1 DEF InStep
  <2>3. Silent => Silent'
    <3> SUFFICES ASSUME Silent PROVE Silent'
      OBVIOUS
    <3>1. PICK i \in 0..Len(wire) : wire' = SubSeq(wire, i + 1, Len(wire))
      BY <2>1
    <3>2. \A q \in 1..Len(wire') : q + i \in 1..Len(wire) /\ wire'[q] = wire[q + i]
      BY <1>1, <3>1
    <3> QED BY <3>2 DEF Silent, HasEnd
  <2>4. CASE todo = <<Header(job, part)>> /\ mode = "command" /\ wire = <<>>
    <3>1. todo' = <<Header(job, part), Text(job, part)>>
      BY <2>1, <2>4, SecondItem
    <3>2. ResultDue'
      BY <1>2, <2>1, <2>3, <2>4, <3>1 DEF ResultDue, Header, Text
    <3> QED BY <2>1, <3>2 DEF InStep
  <2>5. CASE todo = <<>> /\ mode = "text" /\ draft = Own /\ Silent
    <3>1. todo' = <<Text(job, part)>>
      BY <2>1, <2>5
    <3>2. ResultDue'
      BY <2>1, <2>3, <2>5, <3>1 DEF ResultDue, Own, Text
    <3> QED BY <2>1, <3>2 DEF InStep
  <2> QED BY <2>2, <2>4, <2>5 DEF PromptDue
<1>11. CASE NoPrompt
  <2>1. /\ wait = "prompt" /\ wait' = "answer" /\ job' = None /\ UNCHANGED <<mode, wire>>
        /\ todo' = Append(todo, Esc)
    BY <1>11 DEF NoPrompt, Abort, EndSend
  <2>2. PromptDue
    BY <2>1 DEF InStep
  <2>3. CASE todo = <<Header(job, part)>> /\ mode = "command" /\ wire = <<>>
    <3>1. todo' = <<Header(job, part), Esc>>
      BY <2>1, <2>3, SecondItem
    <3>2. Header(job, part) \in Items /\ Header(job, part).op = "cmgs"
      BY <2>1, SegmentItems, ItemKinds DEF TypeOK, SessionOK
    <3>3. AnswerDue'
      BY <1>2, <1>3, <2>1, <2>3, <3>1, <3>2 DEF AnswerDue
    <3> QED BY <2>1, <3>3 DEF InStep
  <2>4. CASE todo = <<>> /\ mode = "text" /\ draft = Own /\ Silent
    <3>1. todo' = <<Esc>>
      BY <2>1, <2>4
    <3>2. AnswerDue'
      BY <1>3, <2>1, <2>4, <3>1 DEF AnswerDue
    <3> QED BY <2>1, <3>2 DEF InStep
  <2> QED BY <2>2, <2>3, <2>4 DEF PromptDue
<1>12. ~NoResult
  <2> SUFFICES ASSUME NoResult PROVE FALSE
    OBVIOUS
  <2>1. ResultDue /\ todo = <<>> /\ mode # "busy" /\ Silent
    BY <1>4 DEF NoResult, Quiet, InStep
  <2>2. ~Answered
    BY <1>1, <2>1, SilentHasNone
  <2> QED BY <2>1, <2>2, OneItem, TwoItems DEF ResultDue
<1>13. CASE SegmentSent \/ SegmentFailed
  <2>1. /\ wait = "result" /\ wait' = "none" /\ UNCHANGED <<todo, mode>>
        /\ \E r \in Results : Collect(r)
    BY <1>13 DEF SegmentSent, SegmentFailed, Results
  <2>2. ResultDue /\ ~Silent
    BY <1>1, <2>1, SilentHasNone DEF InStep
  <2>3. todo = <<>> /\ mode = "command" /\ Answered
    BY <2>2 DEF ResultDue
  <2>4. wire' = <<>> /\ Silent'
    <3>1. wire' = <<>>
      BY <1>1, <2>1, <2>3, AnswerTaken
    <3> QED BY <3>1 DEF Silent, HasEnd
  <2> QED BY <2>1, <2>3, <2>4 DEF InStep
<1>14. ~ReadLine
  BY DEF ReadLine, Idle, InStep, Silent
<1> QED BY <1>5, <1>6, <1>7, <1>8, <1>9, <1>10, <1>11, <1>12, <1>13, <1>14 DEF Session

\* With no answer lost or late and no port lost, everything stays in step.
LEMMA SureBefore == ASSUME TypeOK, Sure', [Next]_vars PROVE Sure /\ UNCHANGED <<late, faults>>
<1>1. /\ \/ UNCHANGED <<late, faults>>
         \/ UNCHANGED late /\ faults' = faults + 1
         \/ UNCHANGED faults /\ late' = late + 1
      /\ late \in Nat /\ faults \in Nat
  BY Counts
<1>2. late' + faults' = 0
  BY DEF Sure
<1> QED BY <1>1, <1>2 DEF Sure

LEMMA InStepStep ==
  ASSUME TypeOK, Charset, Down, Shape, Sure => InStep, [Next]_vars
  PROVE  (Sure => InStep)'
<1> SUFFICES ASSUME Sure' PROVE InStep'
  OBVIOUS
<1>1. Sure /\ InStep /\ UNCHANGED <<late, faults>>
  BY SureBefore
<1>2. CASE ModemStep
  BY <1>1, <1>2, ModemInStep
<1>3. CASE Session
  BY <1>1, <1>3, SessionInStep
<1>4. ASSUME NEW m \in Msgs, StartSend(m) PROVE InStep'
  <2>1. /\ wait = "none" /\ wait' = "none" /\ UNCHANGED <<todo, wire, mode>>
        /\ plan' # <<>>
    <3>1. plan' = <<At>> \o SetCharset("UCS2") \/ plan' = <<At>> \o <<>>
      BY <1>4 DEF StartSend
    <3>2. Len(plan') \in {1, 3}
      <4>1. Len(<<At>> \o <<>>) = 1
        OBVIOUS
      <4> QED BY <3>1, <4>1, Plans DEF Sets
    <3>3. plan' = <<>> => Len(plan') = 0
      OBVIOUS
    <3>4. plan' # <<>>
      <4>1. \A n \in {1, 3} : n # 0
        OBVIOUS
      <4> QED BY <3>2, <3>3, <4>1, Zenon
    <3> QED BY <1>4, <3>4 DEF StartSend, Idle
  <2>2. Silent => Silent'
    BY <2>1 DEF Silent, HasEnd
  <2> QED BY <1>1, <2>1, <2>2 DEF InStep
<1>5. ~LosePort
  BY <1>1 DEF LosePort, Fault, TypeOK, ModemOK
<1>6. CASE UNCHANGED vars
  BY <1>1, <1>6 DEF vars, InStep, AnswerDue, PromptDue, ResultDue, Silent, Answered,
                    HasEnd, EndAt, Own, Header, Text
<1> QED BY <1>2, <1>3, <1>4, <1>5, <1>6 DEF Next

\* What is in step is no text at the command line, and no prompt but the own.
LEMMA InStepShows == TypeOK /\ InStep => PromptIsOwn /\ NoTextExecuted
<1> SUFFICES ASSUME TypeOK, InStep PROVE PromptIsOwn /\ NoTextExecuted
  OBVIOUS
<1>1. PromptIsOwn
  <2> SUFFICES ASSUME wait = "prompt", NEW i \in 1..Len(wire)
               PROVE  todo = <<>> /\ mode = "text" /\ draft = Own
    BY DEF PromptIsOwn, Own
  <2>1. wire # <<>>
    OBVIOUS
  <2> QED BY <2>1 DEF InStep, PromptDue
<1>2. NoTextExecuted
  <2> SUFFICES ASSUME mode = "command", todo # <<>> PROVE Head(todo).op \notin {"text", "cut"}
    BY DEF NoTextExecuted
  <2>1. \/ \E c \in Commands : todo = <<c>>
        \/ \E c \in Items : c.op = "cmgs" /\ todo = <<c, Esc>>
        \/ todo = <<Header(job, part)>>
        \/ todo = <<Header(job, part), Text(job, part)>>
    BY DEF InStep, AnswerDue, PromptDue, ResultDue, TypeOK, SessionOK, Waits, Commands
  <2>2. \A c \in Commands : c.op \notin {"text", "cut"}
    BY DEF Commands, Esc, At
  <2> QED BY <2>1, <2>2, OneItem, TwoItems, ItemKinds
<1> QED BY <1>1, <1>2

\* A segment whose result is read as +CMGS was taken.
LEMMA SureSoFar ==
  ASSUME TypeOK, InStep, PartsExist, SoFar, [Next]_vars
  PROVE  SoFar'
<1>1. SegmentSent => part \in taken[job]
  <2> SUFFICES ASSUME SegmentSent PROVE part \in taken[job]
    OBVIOUS
  <2>1. wire \in Seq(Wires) /\ ResultDue /\ Collect("sent") /\ "sent" \in Results
    BY DEF SegmentSent, InStep, TypeOK, LineOK, Wires, Results
  <2>2. ~Silent
    BY <2>1, SilentHasNone
  <2>3. Answered /\ (wire[Len(wire)] = "sent" => part \in taken[job])
    BY <2>1, <2>2 DEF ResultDue
  <2> QED BY <2>1, <2>3, AnswerTaken
<1> QED BY <1>1, SoFarStep

\* Either everything but prompts has come in time, or no prompt was late and few
\* other things were.
LEMMA TolerableIs == Tolerable <=> Sure \/ Few
BY DEF Tolerable, Sure, Few, Timely

Kept == InCount /\ (Sure => InStep)

LEMMA KeptHolds == Spec => []Kept
<1>1. Init => (Sure => InStep)
  BY DEF Init, InStep, Silent, HasEnd
<1>2. TypeOK /\ InCount /\ (Sure => InStep) /\ [Next]_vars => (Sure => InStep)'
  BY InStepStep DEF InCount
<1> QED BY <1>1, <1>2, Typed, InCountHolds, PTL DEF Spec, Kept

LEMMA KeptShows == TypeOK /\ Kept /\ Tolerable => PromptIsOwn
BY TolerableIs, CountedShows, InStepShows DEF Kept, InCount

\* Ports may be lost, and the modem or the process restart, at any point, answers
\* be refused, lost or late: as long as there were four of these at most, no
\* prompt came later than the session waits for it and no other ">" was taken for
\* one, a prompt that a session finds is that of the header it has written. It is
\* so too, however many prompts come late and bytes are taken for them, as long as
\* there was none of the others. The fifth of the ones, or one of each, can mislead
\* it (recover_command_mode, initialize, wait_for_prompt).
THEOREM PromptsAreOwnWithin == Spec => []PromptIsOwnWithin
<1>1. TypeOK /\ Kept => PromptIsOwnWithin
  BY KeptShows DEF PromptIsOwnWithin
<1> QED BY <1>1, Typed, KeptHolds, PTL

\* So, as long, no text is typed at the command line (send_sms_part).
THEOREM TextsAreReadWithin == Spec => []NoTextExecutedWithin
<1>1. Init => (Few => TextFirst)
  BY DEF Init, TextFirst
<1>2. TypeOK /\ InCount /\ (Few => TextFirst) /\ [Next]_vars => (Few => TextFirst)'
  <2> SUFFICES ASSUME TypeOK, InCount, Few => TextFirst, [Next]_vars, Few' PROVE TextFirst'
    OBVIOUS
  <2>1. Few /\ NoStray'
    BY FewBefore DEF Few, Timely, NoStray
  <2>2. PromptIsOwn
    BY <2>1, CountedShows DEF InCount
  <2> QED BY <2>1, <2>2, TextFirstStep
<1>3. TypeOK /\ Kept /\ (Few => TextFirst) => NoTextExecutedWithin
  BY TextFirstShows, InStepShows, TolerableIs DEF Kept, NoTextExecutedWithin
<1> QED BY <1>1, <1>2, <1>3, Typed, InCountHolds, KeptHolds, PTL DEF Spec

\* And, as long, a message is called sent only when the network took every
\* segment of it (send_sms_part, collect_until_terminator).
THEOREM SentWasTakenWithin == Spec => []SentIsTakenWithin
<1> DEFINE Sends == PartsExist /\ (Tolerable => SoFar) /\ (Few => InDialogue)
<1>1. Init => Sends
  BY InitSends
<1>2. TypeOK /\ Kept /\ TypeOK' /\ Kept' /\ Sends /\ [Next]_vars => Sends'
  <2> SUFFICES ASSUME TypeOK, Kept, TypeOK', Kept', Sends, [Next]_vars PROVE Sends'
    OBVIOUS
  <2>1. PartsExist'
    BY PartsExistStep
  <2>2. ASSUME Few' PROVE SoFar' /\ InDialogue'
    <3>1. Few /\ NoStray' /\ SoFar /\ InDialogue
      BY <2>2, FewBefore, TolerableIs DEF Few, Timely, NoStray
    <3>2. PromptIsOwn
      BY <3>1, CountedShows DEF Kept, InCount
    <3>3. PromptIsOwn'
      <4>1. Charset' /\ Counted'
        BY DEF Kept, InCount
      <4> QED BY <2>2, <4>1, CountedShows, PTL
    <3> QED BY <3>1, <3>2, <3>3, SentStep DEF Kept, InCount
  <2>3. ASSUME Sure' PROVE SoFar'
    <3>1. Sure /\ InStep /\ SoFar
      BY <2>3, SureBefore, TolerableIs DEF Kept
    <3> QED BY <3>1, SureSoFar
  <2>4. Tolerable' => Sure' \/ Few'
    BY TolerableIs, PTL
  <2> QED BY <2>1, <2>2, <2>3, <2>4
<1>3. Sends => SentIsTakenWithin
  BY DEF PartsExist, SoFar, SentIsTaken, SentIsTakenWithin
<1> QED BY <1>1, <1>2, <1>3, Typed, KeptHolds, PTL DEF Spec
=============================================================================
