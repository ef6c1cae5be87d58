--------------------------- MODULE InboundProofs ----------------------------
(***************************************************************************)
(* Proofs about Inbound, for every set of messages, every storage, every   *)
(* number of attempts and every bound: the state is well typed; and when   *)
(* no answer comes after its exchange timed out, whatever else fails, no   *)
(* message is removed from the modem before it is recorded, and none is    *)
(* recorded twice, so that Inbound implements Inbox.                       *)
(***************************************************************************)
EXTENDS Inbound, TLAPS

USE InboundAssumption DEF modem, line, session, records

-----------------------------------------------------------------------------
(* Type correctness.                                                       *)

LEMMA InitType == Init => TypeOK
BY DEF Init, TypeOK, ModemOK, LineOK, SessionOK, RecordsOK, Places

\* Writing a command leaves the session in an exchange, the line well typed.
LEMMA WriteOK ==
  ASSUME LineOK, NEW p \in Exchanges, NEW c \in Commands, Write(p, c)
  PROVE  pc' \in Places /\ todo' \in Seq(Commands)
BY DEF LineOK, Write, Places

LEMMA StorageOK ==
  ASSUME ModemOK, NEW c \in Commands
  PROVE  StorageAfter(c) \in [Slots -> Msgs \union {None}]
BY DEF ModemOK, StorageAfter, Commands

LEMMA AnswerOK ==
  ASSUME ModemOK, NEW c \in Commands
  PROVE  AnswerTo(c) \in Items
<1>1. CASE c.op # "CMGR"
  BY <1>1 DEF AnswerTo, Items
<1>2. CASE c.op = "CMGR"
  BY <1>2 DEF AnswerTo, Items, ModemOK, Commands
<1> QED BY <1>1, <1>2

LEMMA ModemType == ASSUME TypeOK, Modem PROVE TypeOK'
<1> USE DEF TypeOK
<1>1. todo # <<>>
  BY DEF Modem, ModemAnswers, ModemFails
<1>2. Head(todo) \in Commands /\ Tail(todo) \in Seq(Commands)
  BY <1>1 DEF LineOK
<1>3. StorageAfter(Head(todo)) \in [Slots -> Msgs \union {None}]
  BY <1>2, StorageOK
<1>4. AnswerTo(Head(todo)) \in Items /\ [kind |-> "ERROR"] \in Items
  BY <1>2, AnswerOK DEF Items
<1>5. ModemOK'
  BY <1>3 DEF Modem, ModemAnswers, ModemFails, ModemOK
<1>6. todo' = Tail(todo)
  BY DEF Modem, ModemAnswers, ModemFails
<1>7. wire' \in Seq(Items)
  <2>1. \/ wire' = Append(wire, AnswerTo(Head(todo)))
        \/ wire' = Append(wire, [kind |-> "ERROR"])
        \/ wire' = wire
    BY DEF Modem, ModemAnswers, ModemFails
  <2>2. ASSUME NEW item \in Items PROVE Append(wire, item) \in Seq(Items)
    BY DEF LineOK
  <2> HIDE DEF TypeOK
  <2> QED BY <1>4, <2>1, <2>2 DEF LineOK, TypeOK
<1>8. SessionOK'
  BY DEF Modem, ModemAnswers, ModemFails, SessionOK
<1>9. RecordsOK'
  BY DEF Modem, ModemAnswers, ModemFails, Fault, RecordsOK
<1> QED BY <1>2, <1>5, <1>6, <1>7, <1>8, <1>9 DEF LineOK

LEMMA ArriveType ==
  ASSUME TypeOK, NEW m \in Msgs, NEW i \in Slots, Arrive(m, i) PROVE TypeOK'
<1> USE DEF TypeOK
<1>1. ModemOK'
  BY DEF Arrive, ModemOK
<1>2. [kind |-> "CMTI", slot |-> i] \in Items
  BY DEF Items
<1>3. LineOK'
  BY <1>2 DEF Arrive, LineOK
<1>4. SessionOK' /\ RecordsOK'
  BY DEF Arrive, SessionOK, RecordsOK
<1> QED BY <1>1, <1>3, <1>4

\* Between two exchanges.
LEMMA BetweenType ==
  ASSUME TypeOK,
         \/ Connect \/ StartRead \/ PollLine
         \/ \E place \in {"refresh", "send", "raw"} : StartOther(place)
  PROVE  TypeOK'
<1> USE DEF TypeOK
<1>1. {"setup", "refresh", "send", "raw", "read"} \subseteq Exchanges
  BY DEF Exchanges, Scanned, Unscanned
<1>2. [op |-> "other"] \in Commands
  BY DEF Commands
<1>3. CASE Connect
  BY <1>1, <1>2, <1>3, WriteOK DEF Connect, ModemOK, LineOK, SessionOK, RecordsOK
<1>4. CASE StartRead
  <2>1. Head(pending) \in Slots /\ Tail(pending) \in Seq(Slots)
    BY <1>4 DEF StartRead, SessionOK
  <2>2. [op |-> "CMGR", slot |-> Head(pending)] \in Commands
    BY <2>1 DEF Commands
  <2>3. pc' \in Places /\ todo' \in Seq(Commands)
    BY <1>1, <1>4, <2>2, WriteOK DEF StartRead
  <2> QED
    BY <1>4, <2>1, <2>3 DEF StartRead, ModemOK, LineOK, SessionOK, RecordsOK
<1>5. ASSUME NEW place \in {"refresh", "send", "raw"}, StartOther(place)
      PROVE  TypeOK'
  BY <1>1, <1>2, <1>5, WriteOK DEF StartOther, ModemOK, LineOK, SessionOK, RecordsOK
<1>6. CASE PollLine
  <2>1. Head(wire) \in Items /\ Tail(wire) \in Seq(Items)
    BY <1>6 DEF PollLine, LineOK
  <2>2. Head(wire).kind = "CMTI" => Head(wire).slot \in Slots
    BY <2>1 DEF Items
  <2>3. pending' \in Seq(Slots)
    BY <1>6, <2>2 DEF PollLine
  <2> QED
    BY <1>6, <2>1, <2>3 DEF PollLine, ModemOK, LineOK, SessionOK, RecordsOK
<1> QED BY <1>3, <1>4, <1>5, <1>6

\* What ending an exchange leaves of the session, the line and the records.
LEMMA ConcludeType ==
  ASSUME TypeOK, NEW kind, NEW msg \in Msgs \union {None}, Conclude(kind, msg),
         idx' = idx
  PROVE  SessionOK' /\ todo' \in Seq(Commands)
<1> USE DEF TypeOK
<1>1. "read" \in Exchanges /\ "refresh" \in Exchanges
  BY DEF Exchanges, Scanned, Unscanned
<1>2. [op |-> "other"] \in Commands /\ [op |-> "CMGR", slot |-> idx] \in Commands
  BY DEF Commands, SessionOK
<1>4. ASSUME RetryRead
      PROVE  pc' \in Places /\ tries' \in 1..MaxReads /\ todo' \in Seq(Commands)
  <2>1. CASE tries < MaxReads
    <3>1. pc' \in Places /\ todo' \in Seq(Commands)
      BY <1>1, <1>2, <1>4, <2>1, WriteOK DEF RetryRead
    <3>2. tries' = tries + 1
      BY <1>4, <2>1 DEF RetryRead
    <3> QED BY <2>1, <3>1, <3>2 DEF SessionOK
  <2>2. CASE ~(tries < MaxReads)
    BY <1>4, <2>2 DEF RetryRead, Places, SessionOK, LineOK
  <2> QED BY <2>1, <2>2
<1>5. CASE pc = "read" /\ kind = "CMGR"
  BY <1>5 DEF Conclude, Places, SessionOK, LineOK
<1>6. CASE pc = "read" /\ kind # "CMGR"
  <2>1. RetryRead /\ got' = got /\ pending' = pending
    BY <1>6 DEF Conclude
  <2> QED BY <1>4, <2>1 DEF SessionOK
<1>7. CASE pc = "setup"
  <2>1. /\ Write("refresh", [op |-> "other"])
        /\ UNCHANGED <<got, tries, pending>>
    BY <1>7 DEF Conclude
  <2>2. pc' \in Places /\ todo' \in Seq(Commands)
    BY <1>1, <1>2, <2>1, WriteOK
  <2> QED BY <2>1, <2>2 DEF SessionOK
<1>8. CASE pc = "delete"
  BY <1>8 DEF Conclude, DeleteAnswered, Places, SessionOK, LineOK
<1>9. CASE pc \in {"refresh", "send", "raw"}
  BY <1>9 DEF Conclude, Places, SessionOK, LineOK
<1> QED BY <1>5, <1>6, <1>7, <1>8, <1>9 DEF Conclude

LEMMA ExchangeType ==
  ASSUME TypeOK, CollectNotice \/ CollectAnswer \/ ExchangeTimeout PROVE TypeOK'
<1> USE DEF TypeOK
<1>1. wire # <<>> => Head(wire) \in Items /\ Tail(wire) \in Seq(Items)
  BY DEF LineOK
<1>2. CASE CollectNotice
  <2>1. Head(wire).slot \in Slots
    BY <1>1, <1>2 DEF CollectNotice, Items
  <2>2. pending' \in Seq(Slots)
    BY <1>2, <2>1 DEF CollectNotice, SessionOK
  <2> QED
    BY <1>1, <1>2, <2>2 DEF CollectNotice, ModemOK, LineOK, SessionOK, RecordsOK
<1>3. CASE CollectAnswer
  <2> DEFINE msg == IF Head(wire).kind = "CMGR" THEN Head(wire).msg ELSE None
  <2>1. msg \in Msgs \union {None}
    BY <1>1, <1>3 DEF CollectAnswer, Items
  <2>2. Conclude(Head(wire).kind, msg) /\ idx' = idx
    BY <1>3 DEF CollectAnswer
  <2>3. SessionOK' /\ todo' \in Seq(Commands)
    BY <2>1, <2>2, ConcludeType
  <2> QED BY <1>1, <1>3, <2>3 DEF CollectAnswer, ModemOK, LineOK, RecordsOK
<1>4. CASE ExchangeTimeout
  <2>1. SessionOK' /\ todo' \in Seq(Commands)
    BY <1>4, ConcludeType DEF ExchangeTimeout
  <2>2. late' \in 0..MaxLate
    BY <1>4 DEF ExchangeTimeout, RecordsOK
  <2> QED BY <1>4, <2>1, <2>2 DEF ExchangeTimeout, ModemOK, LineOK, RecordsOK
<1> QED BY <1>2, <1>3, <1>4

LEMMA EndType == ASSUME TypeOK, Persist \/ Audit \/ Disconnect PROVE TypeOK'
<1> USE DEF TypeOK
<1>1. Fault => faults' \in 0..MaxFaults
  BY DEF Fault, RecordsOK
<1>2. CASE Persist
  <2>1. "delete" \in Exchanges /\ [op |-> "CMGD", slot |-> idx] \in Commands
    BY DEF Exchanges, Scanned, Commands, SessionOK
  <2>2. pc' \in Places /\ todo' \in Seq(Commands)
    BY <1>2, <2>1, WriteOK DEF Persist, Places, LineOK
  <2>3. saved' \in [Msgs -> Nat]
    BY <1>2 DEF Persist, RecordsOK
  <2>4. faults' \in 0..MaxFaults
    BY <1>1, <1>2 DEF Persist, RecordsOK
  <2> QED
    BY <1>2, <2>2, <2>3, <2>4
    DEF Persist, ModemOK, LineOK, SessionOK, RecordsOK
<1>3. CASE Disconnect
  <2>1. \A n \in 1..Len(todo) : todo[n] \in Commands
    BY DEF LineOK
  <2>2. stored' \in [Slots -> Msgs \union {None}]
    BY <1>3, <2>1, StorageOK DEF Disconnect, ModemOK
  <2> QED
    BY <1>1, <1>3, <2>2 DEF Disconnect, ModemOK, LineOK, SessionOK, RecordsOK, Places
<1>4. CASE Audit
  <2>1. /\ reported' \subseteq Msgs \union {None}
        /\ unaudited' \subseteq Msgs \union {None}
    BY <1>4 DEF Audit, RecordsOK, ModemOK, SessionOK
  <2>2. faults' \in 0..MaxFaults
    BY <1>1, <1>4 DEF Audit, RecordsOK
  <2> QED
    BY <1>4, <2>1, <2>2 DEF Audit, ModemOK, LineOK, SessionOK, RecordsOK, Places
<1> QED BY <1>2, <1>3, <1>4

LEMMA StutterType == ASSUME TypeOK, UNCHANGED vars PROVE TypeOK'
BY DEF vars, TypeOK, ModemOK, LineOK, SessionOK, RecordsOK

LEMMA NextType == TypeOK /\ [Next]_vars => TypeOK'
BY ModemType, ArriveType, BetweenType, ExchangeType, EndType, StutterType
   DEF Next, Session

\* The types of the inbound path hold throughout: the session never tries an
\* index more than MaxReads times, and never handles one that does not exist.
THEOREM TypeCorrect == Spec => []TypeOK
BY InitType, NextType, PTL DEF Spec

-----------------------------------------------------------------------------
(* Nothing is lost when the answers are in time.                           *)

Safe == TypeOK /\ MaxLate = 0 /\ InTime /\ NothingLost

\* The lists of items the steps make.
LEMMA AppendItem ==
  ASSUME wire \in Seq(Items), NEW item \in Items
  PROVE  /\ Len(Append(wire, item)) = Len(wire) + 1
         /\ Append(wire, item)[Len(wire) + 1] = item
         /\ \A n \in 1..Len(wire) : Append(wire, item)[n] = wire[n]
OBVIOUS

LEMMA TailItem ==
  ASSUME wire \in Seq(Items), wire # <<>>
  PROVE  /\ Len(Tail(wire)) = Len(wire) - 1 /\ Len(wire) > 0
         /\ Head(wire) = wire[1]
         /\ \A n \in 1..Len(Tail(wire)) :
              Tail(wire)[n] = wire[n + 1] /\ n + 1 \in 1..Len(wire)
OBVIOUS

\* A record more never takes a message from those that are kept.
LEMMA RecordKeeps ==
  ASSUME TypeOK, NothingLost, arrived' = arrived, stored' = stored,
         \/ saved' = saved
         \/ \E m \in Msgs : saved' = [saved EXCEPT ![m] = @ + 1]
  PROVE  NothingLost'
<1>1. \A m \in Msgs : saved[m] > 0 => saved'[m] > 0
  BY DEF TypeOK, RecordsOK
<1> QED BY <1>1 DEF NothingLost, TypeOK, ModemOK

\* The only command that changes the storage removes a recorded message.
LEMMA StorageKeeps ==
  ASSUME Safe, NEW c \in Commands, Expected(c), saved' = saved, arrived' = arrived,
         stored' \in {stored, StorageAfter(c)}
  PROVE  NothingLost'
<1>1. CASE stored' = stored
  BY <1>1 DEF Safe, NothingLost
<1>2. CASE stored' # stored
  <2>1. c.op = "CMGD" /\ stored' = [stored EXCEPT ![idx] = None]
    BY <1>2 DEF StorageAfter, Expected
  <2>2. saved[stored[idx]] > 0
    BY <2>1 DEF Expected
  <2>3. \A i \in Slots : i # idx => stored'[i] = stored[i]
    BY <2>1 DEF Safe, TypeOK, ModemOK
  <2> QED BY <2>2, <2>3 DEF Safe, NothingLost
<1> QED BY <1>1, <1>2

LEMMA InitSafe == MaxLate = 0 /\ Init => Safe
<1> SUFFICES ASSUME MaxLate = 0, Init PROVE Safe
  OBVIOUS
<1>1. OneInFlight /\ OneAnswer /\ AnswersFit
  BY DEF Init, OneInFlight, OneAnswer, AnswersFit
<1>2. ReadIsStored /\ NothingLost
  BY DEF Init, ReadIsStored, NothingLost
<1> QED BY <1>1, <1>2, InitType DEF Safe, InTime

LEMMA ModemSafe == ASSUME Safe, Modem PROVE InTime' /\ NothingLost'
<1>1. PICK c \in Commands : todo = <<c>> /\ Expected(c) /\ OnlyNotices(wire)
  BY DEF Safe, InTime, OneInFlight, Modem, ModemAnswers, ModemFails
<1>2. Head(todo) = c /\ Tail(todo) = <<>>
  BY <1>1
<1>3. /\ stored' \in {stored, StorageAfter(c)} /\ todo' = <<>>
      /\ \/ wire' = Append(wire, AnswerTo(c))
         \/ wire' = Append(wire, [kind |-> "ERROR"])
         \/ wire' = wire
      /\ UNCHANGED <<arrived, session, saved>>
  BY <1>2 DEF Modem, ModemAnswers, ModemFails
<1>4. NothingLost'
  BY <1>1, <1>3, StorageKeeps
<1>5. wire \in Seq(Items) /\ AnswerTo(c) \in Items /\ [kind |-> "ERROR"] \in Items
  BY AnswerOK DEF Safe, TypeOK, LineOK, Items
<1>6. PICK item \in Items : /\ wire' = wire \/ wire' = Append(wire, item)
                            /\ item = AnswerTo(c) \/ item = [kind |-> "ERROR"]
  BY <1>3, <1>5
<1>7. OneInFlight'
  BY <1>3 DEF OneInFlight
<1>8. OneAnswer'
  BY <1>1, <1>5, <1>6, AppendItem DEF OneAnswer, OnlyNotices
<1>9. item.kind = "CMGR" =>
        pc' = "read" /\ item.msg = stored'[idx']
  BY <1>1, <1>3, <1>6 DEF AnswerTo, Expected, StorageAfter
<1>10. AnswersFit'
  <2>1. ASSUME NEW n \in 1..Len(wire')
        PROVE  IsNotice(wire'[n]) \/ wire'[n] = item
    BY <1>1, <1>5, <1>6, AppendItem DEF OnlyNotices
  <2>2. \A i : IsNotice(i) => i.kind # "CMGR"
    BY DEF IsNotice
  <2>3. pc' \in Exchanges
    BY <1>1, <1>3 DEF Expected
  <2> QED BY <1>9, <2>1, <2>2, <2>3 DEF AnswersFit, IsNotice
<1>11. ReadIsStored'
  BY <1>1, <1>3 DEF ReadIsStored, Expected, Exchanges, Scanned, Unscanned
<1> QED BY <1>4, <1>7, <1>8, <1>10, <1>11 DEF InTime

\* A message that arrives is in the modem, in a place the session is not
\* waiting on.
LEMMA ArriveSafe ==
  ASSUME Safe, NEW m \in Msgs, NEW i \in Slots, Arrive(m, i)
  PROVE  InTime' /\ NothingLost'
<1> DEFINE notice == [kind |-> "CMTI", slot |-> i]
<1>1. /\ notice \in Items /\ IsNotice(notice) /\ wire \in Seq(Items)
      /\ notice.kind # "CMGR"
  BY DEF Items, IsNotice, Safe, TypeOK, LineOK
<1>2. wire' = wire \/ wire' = Append(wire, notice)
  BY DEF Arrive
<1>3. \A n \in 1..Len(wire') :
        wire'[n] = notice \/ (n \in 1..Len(wire) /\ wire'[n] = wire[n])
  BY <1>1, <1>2, AppendItem
<1>4. UNCHANGED <<todo, pc, idx, got, saved>>
  BY DEF Arrive
<1>5. stored[idx] \in Msgs => stored'[idx'] = stored[idx]
  BY DEF Arrive, Safe, TypeOK, ModemOK, SessionOK
<1> HIDE DEF notice
<1>6. OneInFlight'
  <2>1. OnlyNotices(wire) => OnlyNotices(wire)'
    BY <1>1, <1>3 DEF OnlyNotices
  <2>2. \A c \in Commands : Expected(c) => Expected(c)'
    BY <1>4, <1>5 DEF Expected
  <2> QED BY <1>4, <2>1, <2>2 DEF Safe, InTime, OneInFlight
<1>7. OneAnswer'
  BY <1>1, <1>3 DEF Safe, InTime, OneAnswer
<1>8. AnswersFit'
  <2> SUFFICES ASSUME NEW n \in 1..Len(wire')
               PROVE  /\ ~IsNotice(wire'[n]) => pc' \in Exchanges
                      /\ wire'[n].kind = "CMGR" =>
                           pc' = "read" /\ wire'[n].msg = stored'[idx']
    BY DEF AnswersFit, IsNotice
  <2>1. CASE wire'[n] = notice
    BY <1>1, <2>1
  <2>2. CASE n \in 1..Len(wire) /\ wire'[n] = wire[n]
    <3>1. wire[n].kind = "CMGR" => wire[n].msg \in Msgs
      BY <1>1, <2>2 DEF Items
    <3> QED BY <1>4, <1>5, <2>2, <3>1 DEF Safe, InTime, AnswersFit
  <2> QED BY <1>3, <2>1, <2>2
<1>9. ReadIsStored'
  BY <1>4, <1>5 DEF Safe, InTime, ReadIsStored
<1>10. NothingLost'
  <2>1. stored'[i] = m /\ \A j \in Slots : stored[j] \in Msgs => stored'[j] = stored[j]
    BY DEF Arrive, Safe, TypeOK, ModemOK
  <2>2. arrived' = arrived \union {m} /\ saved' = saved /\ arrived \subseteq Msgs
    BY DEF Arrive, Safe, TypeOK, ModemOK
  <2> QED BY <2>1, <2>2 DEF Safe, NothingLost
<1> QED BY <1>6, <1>7, <1>8, <1>9, <1>10 DEF InTime

-----------------------------------------------------------------------------
(* The session's own steps: they leave no answer unread on the line.       *)

\* With no answer on the line, what counts is the command just written.
LEMMA QuietOK ==
  ASSUME OnlyNotices(wire)', ReadIsStored',
         todo' = <<>> \/ \E c \in Commands : todo' = <<c>> /\ Expected(c)'
  PROVE  InTime'
<1>1. \A i : IsNotice(i) => i.kind # "CMGR"
  BY DEF IsNotice
<1> QED BY <1>1 DEF OnlyNotices, InTime, OneInFlight, OneAnswer, AnswersFit

\* Between two exchanges nothing is in flight.
LEMMA NothingInFlight ==
  ASSUME Safe, pc \notin Exchanges PROVE todo = <<>> /\ OnlyNotices(wire)
BY DEF Safe, InTime, OneInFlight, AnswersFit, OnlyNotices, Expected

\* A command other than AT+CMGD is written for the index being read, or for
\* none.
LEMMA Written ==
  ASSUME todo = <<>>, NEW p \in Exchanges, NEW c \in Commands, Write(p, c),
         \/ c.op = "other"
         \/ c.op = "CMGR" /\ p = "read" /\ c.slot = idx'
  PROVE  todo' = <<c>> /\ Expected(c)'
<1>1. todo' = <<c>> /\ pc' = p
  BY DEF Write
<1> QED BY <1>1 DEF Expected

LEMMA ExchangeNames ==
  /\ Exchanges = {"setup", "refresh", "send", "raw", "read", "delete"}
  /\ "persist" \notin Exchanges /\ "poll" \notin Exchanges
  /\ "offline" \notin Exchanges
BY DEF Exchanges, Scanned, Unscanned

LEMMA BetweenSafe ==
  ASSUME Safe,
         \/ Connect \/ StartRead \/ PollLine
         \/ \E place \in {"refresh", "send", "raw"} : StartOther(place)
  PROVE  InTime' /\ NothingLost'
<1>1. pc \notin Exchanges
  BY ExchangeNames DEF Connect, StartRead, PollLine, StartOther
<1>2. todo = <<>> /\ OnlyNotices(wire)
  BY <1>1, NothingInFlight
<1>3. UNCHANGED <<arrived, stored, saved>>
  BY DEF Connect, StartRead, PollLine, StartOther
<1>4. NothingLost'
  BY <1>3, RecordKeeps DEF Safe
<1>5. [op |-> "other"] \in Commands
  BY DEF Commands
<1>6. CASE PollLine
  <2>1. wire' = Tail(wire) /\ wire \in Seq(Items) /\ wire # <<>>
    BY <1>6 DEF PollLine, Safe, TypeOK, LineOK
  <2>2. OnlyNotices(wire)'
    BY <1>2, <2>1, TailItem DEF OnlyNotices
  <2>3. ReadIsStored' /\ todo' = <<>>
    BY <1>2, <1>6 DEF PollLine, ReadIsStored
  <2> QED BY <1>4, <2>2, <2>3, QuietOK
<1>7. CASE StartRead
  <2>1. PICK c \in Commands : c = [op |-> "CMGR", slot |-> Head(pending)]
    BY <1>7 DEF StartRead, Commands, Safe, TypeOK, SessionOK
  <2>2. Write("read", c) /\ c.op = "CMGR" /\ c.slot = idx'
    BY <1>7, <2>1 DEF StartRead
  <2>3. todo' = <<c>> /\ Expected(c)'
    BY <1>2, <2>2, Written, ExchangeNames
  <2>4. OnlyNotices(wire)' /\ ReadIsStored'
    BY <1>2, <1>7 DEF StartRead, Write, OnlyNotices, ReadIsStored
  <2> QED BY <1>4, <2>3, <2>4, QuietOK
<1>8. ASSUME NEW p \in {"setup", "refresh", "send", "raw"},
             Write(p, [op |-> "other"]), UNCHANGED wire
      PROVE  InTime'
  <2>1. /\ todo' = <<[op |-> "other"]>>
        /\ Expected([op |-> "other"])'
    BY <1>2, <1>5, <1>8, Written, ExchangeNames
  <2>2. OnlyNotices(wire)' /\ ReadIsStored'
    BY <1>2, <1>8 DEF Write, OnlyNotices, ReadIsStored
  <2> QED BY <1>5, <2>1, <2>2, QuietOK
<1>9. CASE Connect
  BY <1>4, <1>8, <1>9 DEF Connect
<1>10. CASE \E place \in {"refresh", "send", "raw"} : StartOther(place)
  BY <1>4, <1>8, <1>10 DEF StartOther
<1> QED BY <1>6, <1>7, <1>9, <1>10

\* The end of an exchange, once its answer is off the line.
LEMMA ConcludeSafe ==
  ASSUME Safe, todo = <<>>, OnlyNotices(wire)',
         UNCHANGED <<idx, arrived, stored, saved>>,
         NEW kind, NEW msg, Conclude(kind, msg),
         pc = "read" /\ kind = "CMGR" => msg \in Msgs /\ msg = stored[idx]
  PROVE  InTime' /\ NothingLost'
<1>1. NothingLost'
  BY RecordKeeps DEF Safe
<1>2. /\ [op |-> "other"] \in Commands
      /\ [op |-> "CMGR", slot |-> idx] \in Commands
  BY DEF Commands, Safe, TypeOK, SessionOK
<1>3. ASSUME NEW p \in {"read", "refresh"}, NEW c \in Commands, Write(p, c),
             \/ c.op = "other"
             \/ c.op = "CMGR" /\ p = "read" /\ c.slot = idx'
      PROVE  InTime'
  <2>1. todo' = <<c>> /\ Expected(c)'
    BY <1>3, Written, ExchangeNames
  <2>2. ReadIsStored'
    BY <1>3 DEF Write, ReadIsStored
  <2> QED BY <2>1, <2>2, QuietOK
<1>4. CASE pc = "read" /\ kind = "CMGR"
  BY <1>1, <1>4, QuietOK DEF Conclude, ReadIsStored
<1>5. CASE pc = "read" /\ kind # "CMGR"
  <2>1. RetryRead
    BY <1>5 DEF Conclude
  <2>2. CASE tries < MaxReads
    BY <1>1, <1>2, <1>3, <2>1, <2>2 DEF RetryRead
  <2>3. CASE ~(tries < MaxReads)
    BY <1>1, <2>1, <2>3, QuietOK DEF RetryRead, ReadIsStored
  <2> QED BY <2>2, <2>3
<1>6. CASE pc = "setup"
  BY <1>1, <1>2, <1>3, <1>6 DEF Conclude
<1>7. CASE pc = "delete" \/ pc \in {"refresh", "send", "raw"}
  BY <1>1, <1>7, QuietOK DEF Conclude, DeleteAnswered, ReadIsStored
<1> QED BY <1>4, <1>5, <1>6, <1>7 DEF Conclude

LEMMA CollectNoticeSafe == ASSUME Safe, CollectNotice PROVE InTime' /\ NothingLost'
<1>1. wire' = Tail(wire) /\ wire \in Seq(Items) /\ wire # <<>>
  BY DEF CollectNotice, Safe, TypeOK, LineOK
<1>2. UNCHANGED <<todo, pc, idx, got, arrived, stored, saved>>
  BY DEF CollectNotice
<1>3. NothingLost'
  BY <1>2, RecordKeeps DEF Safe
<1>4. OneInFlight'
  <2>1. OnlyNotices(wire) => OnlyNotices(wire)'
    BY <1>1, TailItem DEF OnlyNotices
  <2>2. \A c \in Commands : Expected(c) => Expected(c)'
    BY <1>2 DEF Expected
  <2> QED BY <1>2, <2>1, <2>2 DEF Safe, InTime, OneInFlight
<1>5. OneAnswer'
  <2>1. ASSUME NEW n \in 1..Len(wire'), NEW k \in 1..Len(wire')
        PROVE  IsNotice(wire'[n]) \/ IsNotice(wire'[k]) \/ n = k
    <3>1. /\ n + 1 \in 1..Len(wire) /\ k + 1 \in 1..Len(wire)
          /\ wire'[n] = wire[n + 1] /\ wire'[k] = wire[k + 1]
      BY <1>1, TailItem
    <3>2. n + 1 = k + 1 => n = k
      OBVIOUS
    <3> QED BY <3>1, <3>2 DEF Safe, InTime, OneAnswer
  <2> QED BY <2>1 DEF OneAnswer, IsNotice
<1>6. AnswersFit'
  BY <1>1, <1>2, TailItem DEF Safe, InTime, AnswersFit, IsNotice
<1>7. ReadIsStored'
  BY <1>2 DEF Safe, InTime, ReadIsStored
<1> QED BY <1>3, <1>4, <1>5, <1>6, <1>7 DEF InTime

LEMMA CollectAnswerSafe == ASSUME Safe, CollectAnswer PROVE InTime' /\ NothingLost'
<1>1. wire' = Tail(wire) /\ wire \in Seq(Items) /\ wire # <<>>
  BY DEF CollectAnswer, Safe, TypeOK, LineOK
<1>2. /\ 1 \in 1..Len(wire) /\ Head(wire) = wire[1] /\ ~IsNotice(wire[1])
      /\ wire[1] \in Items
  BY <1>1, TailItem DEF CollectAnswer, IsNotice
<1>3. todo = <<>>
  BY <1>2 DEF Safe, InTime, OneInFlight, OnlyNotices
<1>4. OnlyNotices(wire)'
  <2>1. ASSUME NEW n \in 1..Len(wire') PROVE IsNotice(wire'[n])
    <3>1. n + 1 \in 1..Len(wire) /\ wire'[n] = wire[n + 1] /\ n + 1 # 1
      BY <1>1, TailItem
    <3> QED BY <1>2, <3>1 DEF Safe, InTime, OneAnswer
  <2> QED BY <2>1 DEF OnlyNotices, IsNotice
<1> DEFINE msg == IF Head(wire).kind = "CMGR" THEN Head(wire).msg ELSE None
<1>5. Conclude(Head(wire).kind, msg) /\ UNCHANGED <<idx, arrived, stored, saved>>
  BY DEF CollectAnswer
<1>6. Head(wire).kind = "CMGR" => msg \in Msgs /\ msg = stored[idx]
  BY <1>2 DEF Items, Safe, InTime, AnswersFit
<1> QED BY <1>3, <1>4, <1>5, <1>6, ConcludeSafe

LEMMA TimeoutSafe == ASSUME Safe, ExchangeTimeout PROVE InTime' /\ NothingLost'
<1>1. todo = <<>>
  BY DEF Safe, TypeOK, RecordsOK, ExchangeTimeout
<1>2. OnlyNotices(wire)'
  BY DEF ExchangeTimeout, OnlyNotices
<1>3. Conclude("Timeout", None) /\ UNCHANGED <<idx, arrived, stored, saved>>
  BY DEF ExchangeTimeout
<1> QED BY <1>1, <1>2, <1>3, ConcludeSafe

\* AT+CMGD is written once the insert has succeeded.
LEMMA PersistSafe == ASSUME Safe, Persist PROVE InTime' /\ NothingLost'
<1>1. todo = <<>> /\ OnlyNotices(wire) /\ got \in Msgs /\ got = stored[idx]
  BY NothingInFlight, ExchangeNames DEF Persist, Safe, InTime, ReadIsStored
<1>2. UNCHANGED <<arrived, stored, wire, idx>>
  BY DEF Persist
<1>3. OnlyNotices(wire)' /\ ReadIsStored'
  BY <1>1, <1>2 DEF Persist, Write, OnlyNotices, ReadIsStored
<1>4. \/ /\ saved' = [saved EXCEPT ![got] = @ + 1]
         /\ Write("delete", [op |-> "CMGD", slot |-> idx])
      \/ UNCHANGED <<saved, todo>>
  BY DEF Persist
<1>5. NothingLost'
  BY <1>1, <1>2, <1>4, RecordKeeps DEF Safe
<1>6. CASE UNCHANGED <<saved, todo>>
  BY <1>1, <1>3, <1>5, <1>6, QuietOK
<1>7. CASE /\ saved' = [saved EXCEPT ![got] = @ + 1]
           /\ Write("delete", [op |-> "CMGD", slot |-> idx])
  <2>1. PICK c \in Commands : c = [op |-> "CMGD", slot |-> idx]
    BY DEF Commands, Safe, TypeOK, SessionOK
  <2>2. saved'[got] > 0
    BY <1>1, <1>7 DEF Safe, TypeOK, RecordsOK
  <2>3. todo' = <<c>> /\ Expected(c)'
    BY <1>1, <1>2, <1>7, <2>1, <2>2, ExchangeNames DEF Write, Expected
  <2> QED BY <1>3, <1>5, <2>3, QuietOK
<1> QED BY <1>4, <1>6, <1>7

\* Writing an audit record, or failing to, touches neither line nor messages.
LEMMA AuditSafe == ASSUME Safe, Audit PROVE InTime' /\ NothingLost'
<1>1. todo = <<>> /\ OnlyNotices(wire)
  BY NothingInFlight DEF Audit, Exchanges, Scanned, Unscanned
<1>2. UNCHANGED <<todo, wire, arrived, stored, saved>> /\ pc' = "poll"
  BY DEF Audit
<1>3. OnlyNotices(wire)' /\ ReadIsStored'
  BY <1>1, <1>2 DEF OnlyNotices, ReadIsStored
<1> QED BY <1>1, <1>2, <1>3, QuietOK, RecordKeeps DEF Safe

LEMMA DisconnectSafe == ASSUME Safe, Disconnect PROVE InTime' /\ NothingLost'
<1>1. InTime'
  BY QuietOK DEF Disconnect, OnlyNotices, ReadIsStored
<1>2. UNCHANGED <<saved, arrived>>
  BY DEF Disconnect
<1>3. CASE stored' = stored
  BY <1>1, <1>2, <1>3, RecordKeeps DEF Safe
<1>4. CASE stored' # stored
  <2>1. PICK n \in 1..Len(todo) : stored' = StorageAfter(todo[n])
    BY <1>4 DEF Disconnect
  <2>2. PICK c \in Commands : todo = <<c>> /\ Expected(c)
    BY <2>1 DEF Safe, InTime, OneInFlight
  <2>3. stored' = StorageAfter(c)
    BY <2>1, <2>2
  <2> QED BY <1>1, <1>2, <2>2, <2>3, StorageKeeps
<1> QED BY <1>3, <1>4

LEMMA StutterSafe == ASSUME Safe, UNCHANGED vars PROVE InTime' /\ NothingLost'
BY DEF Safe, vars, InTime, OneInFlight, OnlyNotices, OneAnswer, AnswersFit, Expected,
       ReadIsStored, NothingLost

LEMMA NextSafe == Safe /\ [Next]_vars => Safe'
<1> SUFFICES ASSUME Safe, [Next]_vars PROVE Safe'
  OBVIOUS
<1>1. TypeOK'
  BY NextType DEF Safe
<1>2. InTime' /\ NothingLost'
  BY ModemSafe, ArriveSafe, BetweenSafe, CollectNoticeSafe, CollectAnswerSafe,
     TimeoutSafe, PersistSafe, AuditSafe, DisconnectSafe, StutterSafe
     DEF Next, Session
<1> QED BY <1>1, <1>2 DEF Safe

LEMMA SafeAlways == MaxLate = 0 /\ Spec => []Safe
BY InitSafe, NextSafe, PTL DEF Spec

\* When no answer comes after its exchange timed out, no failure of the modem,
\* the database, the port or the process makes handle_inbound remove a message
\* from the modem that is not in the database.
THEOREM KeptUntilSaved == MaxLate = 0 /\ Spec => []NothingLost
<1>1. Safe => NothingLost
  BY DEF Safe
<1> QED BY <1>1, SafeAlways, PTL

-----------------------------------------------------------------------------
(* The inbound path implements Inbox. What remains to be shown is that no  *)
(* message is recorded twice: although a failed AT+CMGD leaves a recorded  *)
(* message where it was, no notice of it is left, on the line, in the list *)
(* of the session or in its hands.                                         *)

InHand(i)      == pc \in {"read", "persist"} /\ idx = i
Queued(n, i)   == n \in 1..Len(pending) /\ pending[n] = i
NoticeAt(n, i) == n \in 1..Len(wire) /\ wire[n].kind = "CMTI" /\ wire[n].slot = i
Unsaved(i)     == stored[i] \in Msgs /\ saved[stored[i]] = 0

\* What an index is known by is the notice of a message not recorded yet.
OfUnsaved(i) ==
  /\ InHand(i) => Unsaved(i)
  /\ \A n \in Nat : Queued(n, i) \/ NoticeAt(n, i) => Unsaved(i)

\* And there is one such notice at most.
OneNotice(i) ==
  /\ \A n, k \in Nat : Queued(n, i) /\ Queued(k, i) => n = k
  /\ \A n, k \in Nat : NoticeAt(n, i) /\ NoticeAt(k, i) => n = k
  /\ \A n, k \in Nat : ~(Queued(n, i) /\ NoticeAt(k, i))
  /\ \A n \in Nat : InHand(i) => ~Queued(n, i) /\ ~NoticeAt(n, i)

Fresh == \A i \in Slots : OfUnsaved(i) /\ OneNotice(i)

\* Each message is at one index, and recorded once, after it arrived.
OnePlace == \A i, j \in Slots : stored[i] \in Msgs /\ stored[i] = stored[j] => i = j
Arrived  == \A i \in Slots : stored[i] \in Msgs => stored[i] \in arrived
OneRow   == \A m \in Msgs : saved[m] \in {0, 1} /\ (m \notin arrived => saved[m] = 0)

Single == OnePlace /\ Arrived /\ OneRow

LEMMA InitFresh == Init => Single /\ Fresh
BY DEF Init, Single, OnePlace, Arrived, OneRow, Fresh, OfUnsaved, OneNotice, InHand,
       Queued, NoticeAt

\* A step that makes no notice, moves none and records nothing.
LEMMA FreshKept ==
  ASSUME Fresh,
         \A i \in Slots : Unsaved(i) => Unsaved(i)',
         \A i \in Slots : InHand(i)' => InHand(i),
         \A i \in Slots, n \in Nat : Queued(n, i)' => Queued(n, i),
         \A i \in Slots, n \in Nat : NoticeAt(n, i)' => NoticeAt(n, i)
  PROVE  Fresh'
<1> SUFFICES ASSUME NEW i \in Slots PROVE OfUnsaved(i)' /\ OneNotice(i)'
  BY DEF Fresh
<1>1. OfUnsaved(i) /\ OneNotice(i)
  BY DEF Fresh
<1>2. OfUnsaved(i)'
  BY <1>1 DEF OfUnsaved
<1>3. OneNotice(i)'
  BY <1>1 DEF OneNotice
<1> QED BY <1>2, <1>3

\* When the first item leaves the line, the notices behind it move up by one.
LEMMA LineMoves ==
  ASSUME TypeOK, wire # <<>>, wire' = Tail(wire), NEW i \in Slots, NEW n \in Nat
  PROVE  NoticeAt(n, i)' => n + 1 \in Nat /\ NoticeAt(n + 1, i) /\ n + 1 # 1
<1>1. wire \in Seq(Items)
  BY DEF TypeOK, LineOK
<1> QED BY <1>1, TailItem DEF NoticeAt

\* What a command in flight does to the storage: it removes a recorded message
\* or nothing.
LEMMA Removes ==
  ASSUME Safe, Single, NEW c \in Commands, Expected(c), UNCHANGED <<saved, arrived>>,
         stored' \in {stored, StorageAfter(c)}
  PROVE  /\ Single'
         /\ \A i \in Slots : Unsaved(i) => Unsaved(i)'
         /\ \/ stored' = stored
            \/ /\ stored' = [stored EXCEPT ![idx] = None]
               /\ stored[idx] \in Msgs /\ saved[stored[idx]] = 1
<1>1. \/ stored' = stored
      \/ /\ stored' = [stored EXCEPT ![idx] = None]
         /\ stored[idx] \in Msgs /\ saved[stored[idx]] > 0
  BY DEF StorageAfter, Expected
<1>2. stored[idx] \in Msgs /\ saved[stored[idx]] > 0 => saved[stored[idx]] = 1
  BY DEF Single, OneRow
<1>3. \A i \in Slots : stored'[i] = stored[i] \/ stored'[i] = None
  BY <1>1 DEF Safe, TypeOK, ModemOK, SessionOK
<1>4. Single'
  BY <1>3 DEF Single, OnePlace, Arrived, OneRow
<1>5. ASSUME NEW i \in Slots, Unsaved(i) PROVE Unsaved(i)'
  <2>1. stored'[i] = stored[i]
    <3>1. CASE stored' = stored
      BY <3>1
    <3>2. CASE /\ stored' = [stored EXCEPT ![idx] = None]
               /\ stored[idx] \in Msgs /\ saved[stored[idx]] > 0
      BY <1>5, <3>2 DEF Unsaved, Safe, TypeOK, ModemOK, SessionOK
    <3> QED BY <1>1, <3>1, <3>2
  <2> QED BY <1>5, <2>1 DEF Unsaved
<1> QED BY <1>1, <1>2, <1>4, <1>5

\* Nothing but the notices changes, or the place of the session.
LEMMA SingleKept ==
  ASSUME Single, UNCHANGED <<stored, arrived, saved>>
  PROVE  Single' /\ \A i \in Slots : Unsaved(i) => Unsaved(i)'
BY DEF Single, OnePlace, Arrived, OneRow, Unsaved

Known == Safe /\ Single /\ Fresh

\* The modem puts answers on the line, and no notice.
LEMMA ModemFresh == ASSUME Known, Modem PROVE Single' /\ Fresh'
<1> USE DEF Known
<1>1. PICK c \in Commands : todo = <<c>> /\ Expected(c)
  BY DEF Safe, InTime, OneInFlight, Modem, ModemAnswers, ModemFails
<1>2. Head(todo) = c
  BY <1>1
<1>3. /\ stored' \in {stored, StorageAfter(c)}
      /\ \/ wire' = Append(wire, AnswerTo(c))
         \/ wire' = Append(wire, [kind |-> "ERROR"])
         \/ wire' = wire
      /\ UNCHANGED <<arrived, session, saved>>
  BY <1>2 DEF Modem, ModemAnswers, ModemFails
<1>4. Single' /\ \A i \in Slots : Unsaved(i) => Unsaved(i)'
  BY <1>1, <1>3, Removes
<1>5. wire \in Seq(Items) /\ AnswerTo(c) \in Items /\ [kind |-> "ERROR"] \in Items
  BY AnswerOK DEF Safe, TypeOK, LineOK, Items
<1>6. AnswerTo(c).kind # "CMTI"
  BY DEF AnswerTo
<1>7. ASSUME NEW i \in Slots, NEW n \in Nat PROVE NoticeAt(n, i)' => NoticeAt(n, i)
  <2>1. PICK item \in Items : /\ wire' = wire \/ wire' = Append(wire, item)
                              /\ item.kind # "CMTI"
    BY <1>3, <1>5, <1>6
  <2> QED BY SMTT(20), <1>5, <2>1, AppendItem DEF NoticeAt
<1>8. \A i \in Slots, n \in Nat : InHand(i)' = InHand(i) /\ Queued(n, i)' = Queued(n, i)
  BY <1>3 DEF InHand, Queued
<1> QED BY <1>4, <1>7, <1>8, FreshKept

\* A message that arrives is new, at an index of which there was no notice.
LEMMA ArriveFresh ==
  ASSUME Known, NEW m \in Msgs, NEW i \in Slots, Arrive(m, i)
  PROVE  Single' /\ Fresh'
<1> USE DEF Known
<1> DEFINE notice == [kind |-> "CMTI", slot |-> i]
<1>1. /\ stored[i] = None /\ m \notin arrived /\ stored'[i] = m
      /\ \A j \in Slots : j # i => stored'[j] = stored[j]
      /\ arrived' = arrived \union {m} /\ UNCHANGED <<pc, idx, pending, saved>>
  BY DEF Arrive, Safe, TypeOK, ModemOK
<1>2. Single'
  BY <1>1 DEF Single, OnePlace, Arrived, OneRow
<1>3. ~Unsaved(i) /\ Unsaved(i)'
  BY <1>1 DEF Unsaved, Single, OneRow
<1>4. ~InHand(i) /\ \A n \in Nat : ~Queued(n, i) /\ ~NoticeAt(n, i)
  BY <1>3 DEF Fresh, OfUnsaved
<1>5. \A j \in Slots : Unsaved(j) => Unsaved(j)'
  BY <1>1, <1>3 DEF Unsaved
<1>6. /\ notice \in Items /\ wire \in Seq(Items) /\ notice.kind = "CMTI"
      /\ notice.slot = i /\ (wire' = wire \/ wire' = Append(wire, notice))
  BY DEF Arrive, Items, Safe, TypeOK, LineOK
<1> HIDE DEF notice
<1>7. ASSUME NEW j \in Slots, NEW n \in Nat, NoticeAt(n, j)'
      PROVE  NoticeAt(n, j) \/ (j = i /\ n = Len(wire) + 1)
  BY <1>6, <1>7, AppendItem DEF NoticeAt
<1>8. \A j \in Slots, n \in Nat : InHand(j)' = InHand(j) /\ Queued(n, j)' = Queued(n, j)
  BY <1>1 DEF InHand, Queued
<1>9. ASSUME NEW j \in Slots PROVE OfUnsaved(j)' /\ OneNotice(j)'
  <2>1. OfUnsaved(j) /\ OneNotice(j)
    BY DEF Fresh
  <2>2. OfUnsaved(j)'
    BY <1>3, <1>5, <1>7, <1>8, <2>1 DEF OfUnsaved
  <2>3. OneNotice(j)'
    BY <1>4, <1>7, <1>8, <2>1 DEF OneNotice
  <2> QED BY <2>2, <2>3
<1> QED BY <1>2, <1>9 DEF Fresh

\* The oldest index of the list goes into the session's hands.
LEMMA StartReadFresh == ASSUME Known, StartRead PROVE Single' /\ Fresh'
<1> USE DEF Known
<1>1. /\ pc = "poll" /\ pending # <<>> /\ idx' = Head(pending)
      /\ pending' = Tail(pending) /\ pending \in Seq(Slots)
      /\ UNCHANGED <<stored, arrived, wire, saved>>
  BY DEF StartRead, Safe, TypeOK, SessionOK
<1>2. Single' /\ \A j \in Slots : Unsaved(j) => Unsaved(j)'
  BY <1>1, SingleKept
<1>3. ASSUME NEW j \in Slots, NEW n \in Nat, Queued(n, j)'
      PROVE  n + 1 \in Nat /\ Queued(n + 1, j) /\ n + 1 # 1
  BY <1>1, <1>3 DEF Queued
<1>4. ASSUME NEW j \in Slots, InHand(j)' PROVE Queued(1, j)
  BY <1>1, <1>4 DEF InHand, Queued
<1>5. \A j \in Slots, n \in Nat : NoticeAt(n, j)' = NoticeAt(n, j)
  BY <1>1 DEF NoticeAt
<1>6. ASSUME NEW j \in Slots PROVE OfUnsaved(j)' /\ OneNotice(j)'
  <2>1. OfUnsaved(j) /\ OneNotice(j) /\ 1 \in Nat
    BY DEF Fresh
  <2>2. OfUnsaved(j)'
    BY <1>2, <1>3, <1>4, <1>5, <2>1 DEF OfUnsaved
  <2>3. \A n, k \in Nat : n + 1 = k + 1 => n = k
    OBVIOUS
  <2>4. OneNotice(j)'
    BY <1>3, <1>4, <1>5, <2>1, <2>3 DEF OneNotice
  <2> QED BY <2>2, <2>4
<1> QED BY <1>2, <1>6 DEF Fresh

\* A notice is read between two exchanges, with an empty list.
LEMMA PollLineFresh == ASSUME Known, PollLine PROVE Single' /\ Fresh'
<1> USE DEF Known
<1>1. /\ pc = "poll" /\ wire # <<>> /\ wire' = Tail(wire) /\ wire \in Seq(Items)
      /\ UNCHANGED <<stored, arrived, saved, pc, idx>>
  BY DEF PollLine, Safe, TypeOK, LineOK
<1>2. Single' /\ \A j \in Slots : Unsaved(j) => Unsaved(j)'
  BY <1>1, SingleKept
<1>3. ASSUME NEW j \in Slots, NEW n \in Nat
      PROVE  NoticeAt(n, j)' => n + 1 \in Nat /\ NoticeAt(n + 1, j) /\ n + 1 # 1
  BY <1>1, LineMoves DEF Safe
<1>4. ASSUME NEW j \in Slots, NEW n \in Nat, Queued(n, j)'
      PROVE  n = 1 /\ NoticeAt(1, j)
  BY <1>1, <1>4, TailItem DEF PollLine, Queued, NoticeAt
<1>5. \A j \in Slots : ~InHand(j)'
  BY <1>1 DEF InHand
<1>6. ASSUME NEW j \in Slots PROVE OfUnsaved(j)' /\ OneNotice(j)'
  <2>1. OfUnsaved(j) /\ OneNotice(j) /\ 1 \in Nat
    BY DEF Fresh
  <2>2. OfUnsaved(j)'
    BY <1>2, <1>3, <1>4, <1>5, <2>1 DEF OfUnsaved
  <2>3. \A n, k \in Nat : n + 1 = k + 1 => n = k
    OBVIOUS
  <2>4. OneNotice(j)'
    BY <1>3, <1>4, <1>5, <2>1, <2>3 DEF OneNotice
  <2> QED BY <2>2, <2>4
<1> QED BY <1>2, <1>6 DEF Fresh

\* A notice is read during an exchange, and kept behind the others or dropped.
LEMMA CollectNoticeFresh == ASSUME Known, CollectNotice PROVE Single' /\ Fresh'
<1> USE DEF Known
<1>1. /\ wire # <<>> /\ wire' = Tail(wire) /\ wire \in Seq(Items)
      /\ Head(wire).kind = "CMTI"
      /\ UNCHANGED <<stored, arrived, saved, pc, idx>>
  BY DEF CollectNotice, Safe, TypeOK, LineOK
<1>2. Single' /\ \A j \in Slots : Unsaved(j) => Unsaved(j)'
  BY <1>1, SingleKept
<1>3. ASSUME NEW j \in Slots, NEW n \in Nat
      PROVE  NoticeAt(n, j)' => n + 1 \in Nat /\ NoticeAt(n + 1, j) /\ n + 1 # 1
  BY <1>1, LineMoves DEF Safe
<1>4. ASSUME NEW j \in Slots, NEW n \in Nat, Queued(n, j)'
      PROVE  Queued(n, j) \/ (n = Len(pending) + 1 /\ NoticeAt(1, j))
  <2>1. PICK slot \in Slots : slot = Head(wire).slot
    BY <1>1 DEF Items
  <2>2. pending \in Seq(Slots)
    BY DEF Safe, TypeOK, SessionOK
  <2>3. pending' = pending \/ pending' = Append(pending, slot)
    BY <2>1 DEF CollectNotice
  <2>4. NoticeAt(1, slot)
    BY <1>1, <2>1, TailItem DEF NoticeAt
  <2>5. CASE pending' = pending
    BY <1>4, <2>5 DEF Queued
  <2>6. CASE pending' = Append(pending, slot)
    <3>1. n \in 1..(Len(pending) + 1) /\ pending'[n] = j
      BY <1>4, <2>2, <2>6 DEF Queued
    <3>2. CASE n \in 1..Len(pending)
      BY <2>2, <2>6, <3>1, <3>2 DEF Queued
    <3>3. CASE n = Len(pending) + 1
      BY <2>2, <2>4, <2>6, <3>1, <3>3
    <3> QED BY <2>2, <3>1, <3>2, <3>3
  <2> QED BY <2>3, <2>5, <2>6
<1>5. \A j \in Slots : InHand(j)' = InHand(j)
  BY <1>1 DEF InHand
<1>6. ASSUME NEW j \in Slots PROVE OfUnsaved(j)' /\ OneNotice(j)'
  <2>1. OfUnsaved(j) /\ OneNotice(j) /\ 1 \in Nat
    BY DEF Fresh
  <2>2. OfUnsaved(j)'
    BY <1>2, <1>3, <1>4, <1>5, <2>1 DEF OfUnsaved
  <2>3. \A n, k \in Nat : n + 1 = k + 1 => n = k
    OBVIOUS
  <2>4. OneNotice(j)'
    BY <1>3, <1>4, <1>5, <2>1, <2>3 DEF OneNotice
  <2> QED BY <2>2, <2>4
<1> QED BY <1>2, <1>6 DEF Fresh

\* An exchange ends, answered or not: its index stays in hand or is let go.
LEMMA ConcludeFresh ==
  ASSUME Known, CollectAnswer \/ ExchangeTimeout PROVE Single' /\ Fresh'
<1> USE DEF Known
<1>1. UNCHANGED <<stored, arrived, saved, idx>>
  BY DEF CollectAnswer, ExchangeTimeout
<1>2. Single' /\ \A j \in Slots : Unsaved(j) => Unsaved(j)'
  BY <1>1, SingleKept
<1>3. \/ wire # <<>> /\ wire' = Tail(wire) /\ Head(wire).kind # "CMTI"
      \/ wire' = wire
  BY DEF CollectAnswer, ExchangeTimeout
<1>4. pending' = pending /\ (pc' \in {"read", "persist"} => pc = "read")
  BY DEF CollectAnswer, ExchangeTimeout, Conclude, RetryRead, Write, DeleteAnswered
<1>5. \A j \in Slots, n \in Nat : /\ InHand(j)' => InHand(j)
                                  /\ Queued(n, j)' => Queued(n, j)
  BY <1>1, <1>4 DEF InHand, Queued
<1>6. CASE wire' = wire
  <2>1. \A j \in Slots, n \in Nat : NoticeAt(n, j)' => NoticeAt(n, j)
    BY <1>6 DEF NoticeAt
  <2> QED BY <1>2, <1>5, <2>1, FreshKept
<1>7. CASE wire # <<>> /\ wire' = Tail(wire)
  <2>1. ASSUME NEW j \in Slots, NEW n \in Nat
        PROVE  NoticeAt(n, j)' => n + 1 \in Nat /\ NoticeAt(n + 1, j)
    BY <1>7, LineMoves DEF Safe
  <2>2. ASSUME NEW j \in Slots PROVE OfUnsaved(j)' /\ OneNotice(j)'
    <3>1. OfUnsaved(j) /\ OneNotice(j)
      BY DEF Fresh
    <3>2. OfUnsaved(j)'
      BY <1>2, <1>5, <2>1, <3>1 DEF OfUnsaved
    <3>3. \A n, k \in Nat : n + 1 = k + 1 => n = k
      OBVIOUS
    <3>4. OneNotice(j)'
      BY <1>5, <2>1, <3>1, <3>3 DEF OneNotice
    <3> QED BY <3>2, <3>4
  <2> QED BY <1>2, <2>2 DEF Fresh
<1> QED BY <1>3, <1>6, <1>7

\* What the session read, it lets go of when it has recorded it, and that was
\* the only notice of it.
LEMMA PersistFresh == ASSUME Known, Persist PROVE Single' /\ Fresh'
<1> USE DEF Known
<1>1. /\ pc = "persist" /\ pc' \in {"audit", "delete"}
      /\ UNCHANGED <<stored, arrived, wire, idx, pending>>
      /\ saved' = saved \/ saved' = [saved EXCEPT ![got] = @ + 1]
  BY DEF Persist, Write
<1>2. /\ InHand(idx) /\ idx \in Slots /\ got \in Msgs /\ got = stored[idx]
      /\ saved[got] = 0 /\ got \in arrived
  <2>1. InHand(idx) /\ idx \in Slots /\ got \in Msgs /\ got = stored[idx]
    BY <1>1 DEF InHand, Safe, InTime, ReadIsStored, TypeOK, SessionOK
  <2>2. Unsaved(idx)
    BY <2>1 DEF Fresh, OfUnsaved
  <2> QED BY <2>1, <2>2 DEF Unsaved, Single, Arrived
<1>3. \A m \in Msgs : saved'[m] = saved[m] \/ (m = got /\ saved'[m] = 1)
  BY <1>1, <1>2 DEF Safe, TypeOK, RecordsOK
<1>4. Single'
  BY <1>1, <1>2, <1>3 DEF Single, OnePlace, Arrived, OneRow
<1>5. ASSUME NEW j \in Slots, Unsaved(j), j # idx PROVE Unsaved(j)'
  BY <1>1, <1>2, <1>3, <1>5 DEF Unsaved, Single, OnePlace
<1>6. \A j \in Slots, n \in Nat : /\ ~InHand(j)'
                                  /\ Queued(n, j)' = Queued(n, j)
                                  /\ NoticeAt(n, j)' = NoticeAt(n, j)
  BY <1>1 DEF InHand, Queued, NoticeAt
<1>7. ASSUME NEW j \in Slots PROVE OfUnsaved(j)' /\ OneNotice(j)'
  <2>1. OfUnsaved(j) /\ OneNotice(j)
    BY DEF Fresh
  <2>2. OneNotice(j)'
    BY <1>6, <2>1 DEF OneNotice
  <2>3. CASE j = idx
    BY <1>2, <1>6, <2>1, <2>3 DEF OneNotice, OfUnsaved
  <2>4. CASE j # idx
    <3>1. Unsaved(j) => Unsaved(j)'
      BY <1>5, <2>4
    <3>2. OfUnsaved(j)'
      BY <1>6, <2>1, <3>1 DEF OfUnsaved
    <3> QED BY <2>2, <3>2
  <2> QED BY <2>2, <2>3, <2>4
<1> QED BY <1>4, <1>7 DEF Fresh

\* With the port all notices are gone.
LEMMA DisconnectFresh == ASSUME Known, Disconnect PROVE Single' /\ Fresh'
<1> USE DEF Known
<1>1. /\ UNCHANGED <<saved, arrived>>
      /\ pc' = "offline" /\ pending' = <<>> /\ wire' = <<>>
  BY DEF Disconnect
<1>2. Single'
  <2>1. CASE stored' = stored
    BY <1>1, <2>1, SingleKept
  <2>2. CASE stored' # stored
    <3>1. PICK n \in 1..Len(todo) : stored' = StorageAfter(todo[n])
      BY <2>2 DEF Disconnect
    <3>2. PICK c \in Commands : todo = <<c>> /\ Expected(c)
      BY <3>1 DEF Safe, InTime, OneInFlight
    <3>3. stored' = StorageAfter(c)
      BY <3>1, <3>2
    <3> QED BY <1>1, <3>2, <3>3, Removes
  <2> QED BY <2>1, <2>2
<1>3. Fresh'
  BY <1>1 DEF Fresh, OfUnsaved, OneNotice, InHand, Queued, NoticeAt
<1> QED BY <1>2, <1>3

LEMMA QuietFresh ==
  ASSUME Known,
         \/ Connect \/ \E place \in {"refresh", "send", "raw"} : StartOther(place)
         \/ Audit \/ UNCHANGED vars
  PROVE  Single' /\ Fresh'
<1>1. /\ UNCHANGED <<stored, arrived, saved, wire, pending, idx>>
      /\ pc' = pc \/ pc' \notin {"read", "persist"}
  BY DEF Connect, StartOther, Audit, Write, vars
<1>2. Single' /\ \A j \in Slots : Unsaved(j) => Unsaved(j)'
  BY <1>1, SingleKept DEF Known
<1>3. \A j \in Slots, n \in Nat : /\ InHand(j)' => InHand(j)
                                  /\ Queued(n, j)' => Queued(n, j)
                                  /\ NoticeAt(n, j)' => NoticeAt(n, j)
  BY <1>1 DEF InHand, Queued, NoticeAt
<1> QED BY <1>2, <1>3, FreshKept DEF Known

LEMMA NextFresh == Known /\ [Next]_vars => Single' /\ Fresh'
BY ModemFresh, ArriveFresh, StartReadFresh, PollLineFresh, CollectNoticeFresh,
   ConcludeFresh, PersistFresh, DisconnectFresh, QuietFresh DEF Next, Session

-----------------------------------------------------------------------------
(* The steps of Inbound are steps of Inbox.                                *)

InModem == {stored[i] : i \in Slots} \ {None}

LEMMA AbstractArrive ==
  ASSUME Known, NEW m \in Msgs, NEW i \in Slots, Arrive(m, i) PROVE Abstract!Store(m)
<1>1. /\ stored[i] = None /\ stored' = [stored EXCEPT ![i] = m] /\ m \notin arrived
      /\ stored \in [Slots -> Msgs \union {None}] /\ saved' = saved
  BY DEF Arrive, Known, Safe, TypeOK, ModemOK
<1>2. m \notin InModem /\ saved[m] = 0
  BY <1>1 DEF InModem, Known, Single, Arrived, OneRow
<1>3. InModem' = InModem \union {m}
  <2>1. \A j \in Slots : stored'[j] = IF j = i THEN m ELSE stored[j]
    BY <1>1
  <2> QED BY <1>1, <2>1 DEF InModem
<1> QED BY <1>1, <1>2, <1>3 DEF Abstract!Store, InModem

LEMMA AbstractRemove ==
  ASSUME Known, NEW c \in Commands, Expected(c), UNCHANGED <<saved, arrived>>,
         stored' \in {stored, StorageAfter(c)}
  PROVE  [Abstract!Next]_(Abstract!vars)
<1> USE DEF Known
<1>1. CASE stored' = stored
  BY <1>1 DEF Abstract!vars
<1>2. CASE /\ stored' = [stored EXCEPT ![idx] = None]
           /\ stored[idx] \in Msgs /\ saved[stored[idx]] = 1
  <2>1. PICK m \in Msgs : m = stored[idx]
    BY <1>2
  <2>2. idx \in Slots /\ stored \in [Slots -> Msgs \union {None}]
    BY DEF Safe, TypeOK, ModemOK, SessionOK
  <2>3. m \in InModem /\ saved[m] = 1
    BY <1>2, <2>1, <2>2 DEF InModem
  <2>4. InModem' = InModem \ {m}
    <3>1. \A j \in Slots : stored'[j] = IF j = idx THEN None ELSE stored[j]
      BY <1>2, <2>2
    <3>2. \A j \in Slots : stored[j] = m => j = idx
      BY <2>1, <2>2 DEF Single, OnePlace
    <3> QED BY <2>1, <2>2, <3>1, <3>2 DEF InModem
  <2>5. Abstract!Remove(m)
    BY <2>3, <2>4 DEF Abstract!Remove, InModem
  <2> QED BY <2>5 DEF Abstract!Next
<1> QED BY <1>1, <1>2, Removes

LEMMA AbstractPersist ==
  ASSUME Known, Persist PROVE [Abstract!Next]_(Abstract!vars)
<1> USE DEF Known
<1>1. /\ stored' = stored
      /\ saved' = saved \/ saved' = [saved EXCEPT ![got] = @ + 1]
  BY DEF Persist
<1>2. CASE saved' = saved
  BY <1>1, <1>2 DEF Abstract!vars
<1>3. CASE saved' = [saved EXCEPT ![got] = @ + 1]
  <2>1. PICK m \in Msgs : m = got /\ got = stored[idx] /\ idx \in Slots /\ InHand(idx)
    BY DEF Persist, InHand, Safe, InTime, ReadIsStored, TypeOK, SessionOK
  <2>2. saved[m] = 0
    BY <2>1 DEF Fresh, OfUnsaved, Unsaved
  <2>3. saved' = [saved EXCEPT ![m] = 1]
    <3>1. saved[m] + 1 = 1
      BY <2>2
    <3> QED BY <1>3, <2>1, <3>1
  <2>4. m \in InModem
    BY <2>1 DEF InModem
  <2>5. Abstract!Save(m)
    BY <1>1, <2>2, <2>3, <2>4 DEF Abstract!Save, InModem
  <2> QED BY <2>5 DEF Abstract!Next
<1> QED BY <1>1, <1>2, <1>3

LEMMA StepIsInbox == Known /\ [Next]_vars => [Abstract!Next]_(Abstract!vars)
<1> SUFFICES ASSUME Known, [Next]_vars PROVE [Abstract!Next]_(Abstract!vars)
  OBVIOUS
<1>1. CASE Modem
  <2>1. PICK c \in Commands : todo = <<c>> /\ Expected(c)
    BY <1>1 DEF Known, Safe, InTime, OneInFlight, Modem, ModemAnswers, ModemFails
  <2>2. Head(todo) = c
    BY <2>1
  <2>3. stored' \in {stored, StorageAfter(c)} /\ UNCHANGED <<arrived, saved>>
    BY <1>1, <2>2 DEF Modem, ModemAnswers, ModemFails
  <2> QED BY <2>1, <2>3, AbstractRemove
<1>2. CASE Disconnect
  <2>1. UNCHANGED <<arrived, saved>>
    BY <1>2 DEF Disconnect
  <2>2. CASE stored' = stored
    BY <2>1, <2>2 DEF Abstract!vars
  <2>3. CASE stored' # stored
    <3>1. PICK n \in 1..Len(todo) : stored' = StorageAfter(todo[n])
      BY <1>2, <2>3 DEF Disconnect
    <3>2. PICK c \in Commands : todo = <<c>> /\ Expected(c)
      BY <3>1 DEF Known, Safe, InTime, OneInFlight
    <3>3. stored' = StorageAfter(c)
      BY <3>1, <3>2
    <3> QED BY <2>1, <3>2, <3>3, AbstractRemove
  <2> QED BY <2>2, <2>3
<1>3. CASE \E m \in Msgs, i \in Slots : Arrive(m, i)
  BY <1>3, AbstractArrive DEF Abstract!Next
<1>4. CASE Persist
  BY <1>4, AbstractPersist
<1>5. CASE \/ Connect \/ StartRead \/ CollectNotice \/ CollectAnswer \/ ExchangeTimeout
           \/ PollLine \/ Audit \/ UNCHANGED vars
           \/ \E place \in {"refresh", "send", "raw"} : StartOther(place)
  <2>1. UNCHANGED <<stored, saved>>
    BY <1>5 DEF Connect, StartRead, CollectNotice, CollectAnswer, ExchangeTimeout,
                PollLine, StartOther, Audit, vars
  <2> QED BY <2>1 DEF Abstract!vars
<1> QED BY <1>1, <1>2, <1>3, <1>4, <1>5 DEF Next, Session

\* As long as no answer comes after its exchange timed out, handle_inbound
\* records each message of the modem at most once and removes it only after
\* that, whatever else fails: a command, an insert, the port or the process.
THEOREM InboundIsInbox == MaxLate = 0 => (Spec => InboxSpec)
<1> SUFFICES ASSUME MaxLate = 0 PROVE Spec => InboxSpec
  OBVIOUS
<1>1. Init => Abstract!Init
  BY DEF Init, Abstract!Init
<1>2. Safe /\ Single /\ Fresh /\ [Next]_vars => Single' /\ Fresh'
  BY NextFresh DEF Known
<1>3. Safe /\ Single /\ Fresh /\ [Next]_vars => [Abstract!Next]_(Abstract!vars)
  BY StepIsInbox DEF Known
<1>4. Spec => []Safe
  BY SafeAlways
<1> QED BY <1>1, <1>2, <1>3, <1>4, InitFresh, PTL DEF Spec, InboxSpec, Abstract!Spec
=============================================================================
