--------------------------- MODULE DeliveryProofs ---------------------------
(***************************************************************************)
(* Proofs about Delivery, for every set of messages, every number of       *)
(* segments and every bound: the state is well typed; nobody is ever told  *)
(* "sent" of a message that did not go out completely; who waits for the   *)
(* manager is known to it, and nobody else is; an SMS is duplicated only   *)
(* where the bookkeeping slipped; the places that tell an outcome agree;   *)
(* and while nothing slips, the outbound path is an Outbox.                *)
(***************************************************************************)
EXTENDS Delivery, FiniteSetTheorems, SequenceTheorems, TLAPS

USE DeliveryAssumption DEF Sources, Resolved, rows, calls, manager, env

-----------------------------------------------------------------------------
(* Type correctness, one part of the state at a time.                      *)

\* What a step leaves alone stays well typed.
LEMMA Frame ==
  ASSUME TypeOK
  PROVE  /\ UNCHANGED rows => RowsOK'
         /\ UNCHANGED <<at, res>> => CallsOK'
         /\ UNCHANGED <<client, lastEvent>> => ToldOK'
         /\ UNCHANGED cur => CurOK'
         /\ UNCHANGED <<chan, mgr, attempt, snap>> => ManagerOK'
         /\ UNCHANGED aired => AiredOK'
         /\ UNCHANGED env => EnvOK'
         /\ UNCHANGED <<batch, phase, slips>> => LifeOK'
BY DEF TypeOK, RowsOK, CallsOK, ToldOK, CurOK, ManagerOK, AiredOK, EnvOK, LifeOK,
       Busy, Segments

\* The manager with no request in hand.
LEMMA IdleOK == ASSUME cur' = Idle PROVE CurOK'
BY DEF Idle, CurOK, Busy

\* The manager at another attempt or segment of the same message.
LEMMA CurStepOK ==
  ASSUME CurOK, Busy, NEW p \in Segments(cur.msg), NEW t \in 1..MaxAttempts,
         NEW o \in BOOLEAN,
         \/ cur' = [cur EXCEPT !.part = p, !.tries = t, !.onair = o]
         \/ cur' = [cur EXCEPT !.tries = t, !.onair = o] /\ p = cur.part
  PROVE  CurOK'
<1>1. cur.msg \in Msgs /\ p \in Nat
  BY DEF CurOK, Busy, Segments
<1>2. cur'.msg = cur.msg /\ cur'.part = p
  BY DEF CurOK
<1>3. cur' \in [msg : Msgs \union {None}, src : Sources, part : Nat,
                tries : 1..MaxAttempts, onair : BOOLEAN]
  BY <1>1 DEF CurOK
<1> QED BY <1>2, <1>3 DEF CurOK

\* A step of one call to another place; and one that changes its result too.
LEMMA PlaceOK ==
  ASSUME CallsOK, NEW m \in Msgs, NEW s \in Sources, NEW p \in Place,
         p = "publish" => res[m][s] \in Resolved,
         at' = [at EXCEPT ![m][s] = p], UNCHANGED res
  PROVE  CallsOK'
<1>1. at' \in [Msgs -> [Sources -> Place]]
  BY DEF CallsOK
<1>2. \A n \in Msgs, t \in Sources :
        at'[n][t] = IF n = m /\ t = s THEN p ELSE at[n][t]
  BY DEF CallsOK
<1> QED BY <1>1, <1>2 DEF CallsOK

LEMMA MoveOK ==
  ASSUME CallsOK, NEW m \in Msgs, NEW s \in Sources, NEW p \in Place,
         NEW r \in Result, p = "publish" => r \in Resolved,
         at' = [at EXCEPT ![m][s] = p], res' = [res EXCEPT ![m][s] = r]
  PROVE  CallsOK'
<1>1. /\ at' \in [Msgs -> [Sources -> Place]]
      /\ res' \in [Msgs -> [Sources -> Result]]
  BY DEF CallsOK
<1>2. \A n \in Msgs, t \in Sources :
        at'[n][t] = IF n = m /\ t = s THEN p ELSE at[n][t]
  BY DEF CallsOK
<1>3. \A n \in Msgs, t \in Sources :
        res'[n][t] = IF n = m /\ t = s THEN r ELSE res[n][t]
  BY DEF CallsOK
<1> QED BY <1>1, <1>2, <1>3 DEF CallsOK

\* A reply moves at most the call it is for.
LEMMA ReplyOK ==
  ASSUME CallsOK, NEW m \in Msgs, NEW s \in Sources, NEW r \in Result,
         Reply(m, s, r)
  PROVE  CallsOK'
<1>1. "record" \in Place
  BY DEF Place
<1>2. CASE at[m][s] = "await"
  BY <1>1, <1>2, MoveOK DEF Reply
<1>3. CASE at[m][s] # "await"
  BY <1>3 DEF Reply, CallsOK
<1> QED BY <1>2, <1>3

LEMMA EveryCallOK ==
  ASSUME at' = EveryCall("idle"), res' = EveryCall("none") PROVE CallsOK'
BY DEF EveryCall, CallsOK, Place, Result

LEMMA InitType == Init => TypeOK
<1> SUFFICES ASSUME Init PROVE TypeOK
  OBVIOUS
<1>1. CallsOK
  BY DEF Init, CallsOK, EveryCall, Place, Result
<1>2. CurOK
  BY DEF Init, CurOK, Busy, Idle
<1>3. AiredOK
  BY DEF Init, AiredOK, Segments
<1>4. RowsOK /\ ToldOK /\ ManagerOK /\ EnvOK /\ LifeOK
  BY DEF Init, RowsOK, ToldOK, ManagerOK, EnvOK, LifeOK
<1> QED BY <1>1, <1>2, <1>3, <1>4 DEF TypeOK

LEMMA HandlerType ==
  ASSUME TypeOK, NEW m \in Msgs, Handler(m) PROVE TypeOK'
<1> USE DEF TypeOK
<1>1. ASSUME InsertQueued(m) PROVE RowsOK'
  <2>1. Cardinality({k \in Msgs : row[k] # "none"}) \in Nat
    BY FS_Subset, FS_CardinalityType
  <2> QED BY <1>1, <2>1 DEF InsertQueued, RowsOK
<1>2. CASE PrepareSend(m)
  <2>1. CallsOK'
    BY <1>2, PlaceOK DEF PrepareSend, Place
  <2> QED BY <1>2, <2>1, Frame DEF PrepareSend
<1>3. CASE AcceptMessage(m)
  <2>1. CallsOK'
    BY <1>3, PlaceOK DEF AcceptMessage, Place
  <2>2. ToldOK'
    BY <1>3 DEF AcceptMessage, ToldOK
  <2> QED BY <1>1, <1>3, <2>1, <2>2, Frame DEF AcceptMessage
<1>4. CASE AbandonInsert(m)
  <2>1. CallsOK'
    BY <1>4, PlaceOK DEF AbandonInsert, Place
  <2>2. ToldOK'
    BY <1>4 DEF AbandonInsert, ToldOK
  <2>3. RowsOK'
    BY <1>1, <1>4, Frame DEF AbandonInsert
  <2> QED BY <1>4, <2>1, <2>2, <2>3, Frame DEF AbandonInsert
<1>5. CASE SyncTimeout(m)
  <2>1. ToldOK'
    BY <1>5 DEF SyncTimeout, ToldOK
  <2> QED BY <1>5, <2>1, Frame DEF SyncTimeout
<1> QED BY <1>2, <1>3, <1>4, <1>5 DEF Handler

LEMMA CallType ==
  ASSUME TypeOK, NEW m \in Msgs, NEW s \in Sources, Call(m, s) PROVE TypeOK'
<1> USE DEF TypeOK
<1>1. CASE SubmitRequest(m, s)
  <2>1. CallsOK'
    BY <1>1, PlaceOK DEF SubmitRequest, Place
  <2>2. ManagerOK'
    BY <1>1 DEF SubmitRequest, ManagerOK, Request
  <2> QED BY <1>1, <2>1, <2>2, Frame DEF SubmitRequest
<1>2. CASE SubmitRefused(m, s)
  <2>1. CallsOK'
    BY <1>2, MoveOK DEF SubmitRefused, Place, Result
  <2> QED BY <1>2, <2>1, Frame DEF SubmitRefused
<1>3. CASE WriteStatus(m, s)
  <2>1. CallsOK'
    BY <1>3, PlaceOK DEF WriteStatus, Place
  <2>2. RowsOK'
    BY <1>3 DEF WriteStatus, RowsOK
  <2>3. EnvOK'
    BY <1>3 DEF WriteStatus, EnvOK
  <2>4. LifeOK'
    BY <1>3 DEF WriteStatus, LifeOK
  <2> QED BY <1>3, <2>1, <2>2, <2>3, <2>4, Frame DEF WriteStatus
<1>4. CASE LeaveQueued(m, s)
  <2>1. CallsOK'
    BY <1>4, MoveOK DEF LeaveQueued, Place, Result
  <2>2. ToldOK'
    BY <1>4 DEF LeaveQueued, AnswerClient, ToldOK
  <2> QED BY <1>4, <2>1, <2>2, Frame DEF LeaveQueued
<1>5. CASE Publish(m, s)
  <2>1. CallsOK'
    BY <1>5, MoveOK DEF Publish, Place, Result
  <2>2. ToldOK'
    <3>1. res[m][s] \in Resolved
      BY <1>5 DEF Publish, CallsOK
    <3>2. client' \in [Msgs -> {"none", "waiting", "accepted", "gone"}
                               \union Resolved]
      BY <1>5, <3>1 DEF Publish, AnswerClient, ToldOK
    <3>3. lastEvent' \in [Msgs -> {"none"} \union Resolved]
      BY <1>5, <3>1 DEF Publish, ToldOK
    <3> QED BY <3>2, <3>3 DEF ToldOK
  <2> QED BY <1>5, <2>1, <2>2, Frame DEF Publish
<1> QED BY <1>1, <1>2, <1>3, <1>4, <1>5 DEF Call

\* Failed attempts to reach the modem: what giving up does to the calls.
LEMMA GiveUpOK ==
  ASSUME TypeOK, mgr \in {"offline", "init", "session"}, BackoffOrGiveUp
  PROVE  CallsOK' /\ CurOK' /\ ManagerOK'
<1> USE DEF TypeOK
<1>1. CurOK'
  BY IdleOK DEF BackoffOrGiveUp
<1>2. ManagerOK'
  <2>0. <<>> \in Seq(Request)
    OBVIOUS
  <2>1. chan' = <<>> \/ UNCHANGED chan
    BY DEF BackoffOrGiveUp
  <2>2. snap' \in [connected : BOOLEAN, ready : BOOLEAN]
    BY DEF BackoffOrGiveUp, ManagerOK
  <2>3. attempt' \in Nat
    BY DEF BackoffOrGiveUp, ManagerOK
  <2>4. \/ mgr' = "stopped"
        \/ mgr' = "offline" /\ attempt' <= MaxReopen
    BY <2>3 DEF BackoffOrGiveUp
  <2>5. chan' \in Seq(Request)
    BY <2>0, <2>1 DEF ManagerOK
  <2> QED BY <2>2, <2>3, <2>4, <2>5 DEF ManagerOK
<1>3. CASE attempt' > MaxReopen
  <2>1. /\ at' = [m \in Msgs |-> [s \in Sources |->
                   IF at[m][s] = "await" THEN "record" ELSE at[m][s]]]
        /\ res' = [m \in Msgs |-> [s \in Sources |->
                    IF at[m][s] = "await" THEN "failed" ELSE res[m][s]]]
    BY <1>3 DEF BackoffOrGiveUp
  <2>2. CallsOK'
    <3>1. /\ at' \in [Msgs -> [Sources -> Place]]
          /\ res' \in [Msgs -> [Sources -> Result]]
      BY <2>1 DEF CallsOK, Place, Result
    <3>2. \A m \in Msgs, s \in Sources :
            at'[m][s] = "publish" => at[m][s] = "publish" /\ res'[m][s] = res[m][s]
      BY <2>1
    <3> QED BY <3>1, <3>2 DEF CallsOK
  <2> QED BY <1>1, <1>2, <2>2
<1>4. CASE ~(attempt' > MaxReopen)
  <2>1. CASE Busy
    <3>1. cur.msg \in Msgs /\ cur.src \in Sources
      BY <2>1 DEF Busy, CurOK
    <3>2. Reply(cur.msg, cur.src, "failed")
      BY <1>4, <2>1 DEF BackoffOrGiveUp
    <3>3. CallsOK'
      BY <3>1, <3>2, ReplyOK DEF Result
    <3> QED BY <1>1, <1>2, <3>3
  <2>2. CASE ~Busy
    <3>1. UNCHANGED <<at, res>>
      BY <1>4, <2>2 DEF BackoffOrGiveUp
    <3> QED BY <1>1, <1>2, <3>1, Frame
  <2> QED BY <2>1, <2>2
<1> QED BY <1>3, <1>4

\* A final answer to the request in hand.
LEMMA FinishOK ==
  ASSUME TypeOK, Busy, cur' = Idle, NEW r \in Result,
         Reply(cur.msg, cur.src, r)
  PROVE  CallsOK' /\ CurOK'
<1>1. cur.msg \in Msgs /\ cur.src \in Sources
  BY DEF TypeOK, Busy, CurOK
<1> QED BY <1>1, ReplyOK, IdleOK DEF TypeOK

LEMMA ManagerType == ASSUME TypeOK, Manager PROVE TypeOK'
<1> USE DEF TypeOK
<1>1. CASE OpenPort
  <2>1. ManagerOK'
    <3>1. snap' \in [connected : BOOLEAN, ready : BOOLEAN]
      BY <1>1 DEF OpenPort, ManagerOK
    <3> QED BY <1>1, <3>1 DEF OpenPort, ManagerOK
  <2> QED BY <1>1, <2>1, Frame DEF OpenPort
<1>2. CASE OpenFails
  <2>1. CallsOK' /\ CurOK' /\ ManagerOK'
    BY <1>2, GiveUpOK DEF OpenFails
  <2>2. EnvOK'
    BY <1>2 DEF OpenFails, EnvOK
  <2> QED BY <1>2, <2>1, <2>2, Frame DEF OpenFails
<1>3. CASE Initialize
  <2>1. ManagerOK'
    BY <1>3 DEF Initialize, ManagerOK, EnvOK
  <2> QED BY <1>3, <2>1, Frame DEF Initialize
<1>4. CASE LosePort
  <2>1. CallsOK' /\ CurOK' /\ ManagerOK'
    BY <1>4, GiveUpOK DEF LosePort
  <2>2. EnvOK'
    BY <1>4 DEF LosePort, EnvOK
  <2> QED BY <1>4, <2>1, <2>2, Frame DEF LosePort
<1>5. CASE RefreshStatus
  <2>1. ManagerOK'
    BY <1>5 DEF RefreshStatus, ManagerOK, EnvOK
  <2> QED BY <1>5, <2>1, Frame DEF RefreshStatus
<1>6. CASE TakeRequest
  <2>1. Head(chan) \in Request /\ Tail(chan) \in Seq(Request)
    BY <1>6 DEF TakeRequest, ManagerOK
  <2>2. ManagerOK'
    BY <1>6, <2>1 DEF TakeRequest, ManagerOK
  <2>3. CASE snap.ready
    <3>1. cur' = [Idle EXCEPT !.msg = Head(chan).msg, !.src = Head(chan).src]
          /\ UNCHANGED <<at, res>>
      BY <1>6, <2>3 DEF TakeRequest
    <3>2. cur' = [msg |-> Head(chan).msg, src |-> Head(chan).src, part |-> 1,
                  tries |-> 1, onair |-> FALSE]
      BY <3>1 DEF Idle
    <3>3. CurOK'
      BY <2>1, <3>2 DEF CurOK, Request, Busy, Segments
    <3> QED BY <1>6, <2>2, <3>1, <3>3, Frame DEF TakeRequest
  <2>4. CASE ~snap.ready
    <3>1. UNCHANGED cur /\ Reply(Head(chan).msg, Head(chan).src, "queued")
      BY <1>6, <2>4 DEF TakeRequest
    <3>2. CallsOK'
      BY <2>1, <3>1, ReplyOK DEF Request, Result
    <3> QED BY <1>6, <2>2, <3>1, <3>2, Frame DEF TakeRequest
  <2> QED BY <2>3, <2>4
<1>7. CASE SegmentOnAir
  <2>1. cur.msg \in Msgs /\ cur.part \in Segments(cur.msg)
    BY <1>7 DEF SegmentOnAir, Busy, CurOK
  <2>2. CurOK'
    BY <1>7 DEF SegmentOnAir, Busy, CurOK, Segments
  <2>3. AiredOK'
    BY <1>7, <2>1 DEF SegmentOnAir, AiredOK
  <2> QED BY <1>7, <2>2, <2>3, Frame DEF SegmentOnAir
<1>8. CASE AnswerOk
  <2>1. CASE cur.part < Parts[cur.msg]
    <3>1. cur' = [cur EXCEPT !.part = @ + 1, !.tries = 1, !.onair = FALSE]
          /\ UNCHANGED <<at, res>>
      BY <1>8, <2>1 DEF AnswerOk
    <3>2. CurOK'
      <4>1. Busy /\ cur.part + 1 \in Segments(cur.msg) /\ 1 \in 1..MaxAttempts
        BY <1>8, <2>1 DEF AnswerOk, Busy, CurOK, Segments
      <4> QED BY <3>1, <4>1, CurStepOK
    <3> QED BY <1>8, <3>1, <3>2, Frame DEF AnswerOk
  <2>2. CASE ~(cur.part < Parts[cur.msg])
    <3>1. CallsOK' /\ CurOK'
      BY <1>8, <2>2, FinishOK DEF AnswerOk, Result
    <3> QED BY <1>8, <3>1, Frame DEF AnswerOk
  <2> QED BY <2>1, <2>2
<1>9. CASE AnswerErrorRetry
  <2>1. CurOK'
    <3>1. /\ Busy /\ cur.part \in Segments(cur.msg)
          /\ cur.tries + 1 \in 1..MaxAttempts
      BY <1>9 DEF AnswerErrorRetry, CurOK
    <3>2. cur' = [cur EXCEPT !.tries = cur.tries + 1, !.onair = FALSE]
      BY <1>9 DEF AnswerErrorRetry
    <3> QED BY <3>1, <3>2, CurStepOK
  <2>2. EnvOK'
    BY <1>9 DEF AnswerErrorRetry, EnvOK
  <2>3. LifeOK'
    BY <1>9 DEF AnswerErrorRetry, LifeOK
  <2> QED BY <1>9, <2>1, <2>2, <2>3, Frame DEF AnswerErrorRetry
<1>10. CASE AnswerGiveUp
  <2>1. CallsOK' /\ CurOK'
    BY <1>10, FinishOK DEF AnswerGiveUp, Result
  <2> QED BY <1>10, <2>1, Frame DEF AnswerGiveUp
<1> QED BY <1>1, <1>2, <1>3, <1>4, <1>5, <1>6, <1>7, <1>8, <1>9, <1>10
        DEF Manager

LEMMA ReaperType ==
  ASSUME TypeOK,
         ReaperTick \/ \E m \in Msgs : GrowOld(m) \/ ReaperSend(m)
  PROVE  TypeOK'
<1> USE DEF TypeOK
<1>1. ASSUME NEW m \in Msgs, GrowOld(m) PROVE TypeOK'
  <2>1. RowsOK'
    BY <1>1 DEF GrowOld, RowsOK
  <2> QED BY <1>1, <2>1, Frame DEF GrowOld
<1>2. ASSUME NEW m \in Msgs, ReaperSend(m) PROVE TypeOK'
  <2>1. CallsOK'
    BY <1>2, PlaceOK DEF ReaperSend, Place
  <2>2. slips' \in [Msgs -> Nat]
    BY <1>2 DEF ReaperSend, LifeOK
  <2>3. LifeOK'
    BY <1>2, <2>2 DEF ReaperSend, LifeOK
  <2> QED BY <1>2, <2>1, <2>3, Frame DEF ReaperSend
<1>3. CASE ReaperTick
  <2>1. LifeOK'
    BY <1>3 DEF ReaperTick, LifeOK, RowsOK
  <2> QED BY <1>3, <2>1, Frame DEF ReaperTick
<1> QED BY <1>1, <1>2, <1>3

LEMMA DieOK ==
  ASSUME TypeOK, Die, UNCHANGED faults \/ faults' \in 0..MaxFaults
  PROVE  TypeOK'
<1> USE DEF TypeOK
<1>1. CallsOK' /\ CurOK'
  BY EveryCallOK, IdleOK DEF Die
<1>2. ToldOK'
  BY DEF Die, ToldOK
<1>3. ManagerOK'
  BY DEF Die, ManagerOK
<1>4. EnvOK'
  BY DEF Die, EnvOK
<1>5. slips' \in [Msgs -> Nat]
  BY DEF Die, LifeOK
<1>6. LifeOK'
  BY <1>5 DEF Die, LifeOK
<1> QED BY <1>1, <1>2, <1>3, <1>4, <1>6, Frame DEF Die

LEMMA LifecycleType == ASSUME TypeOK, Lifecycle PROVE TypeOK'
<1> USE DEF TypeOK
<1>1. CASE Terminate
  <2>1. EnvOK' /\ LifeOK'
    BY <1>1 DEF Terminate, EnvOK, LifeOK
  <2> QED BY <1>1, <2>1, Frame DEF Terminate
<1>2. CASE CloseServer
  <2>1. CallsOK'
    <3>1. /\ at' \in [Msgs -> [Sources -> Place]]
          /\ res' \in [Msgs -> [Sources -> Result]]
      BY <1>2 DEF CloseServer, CallsOK, Place, Result
    <3>2. \A m \in Msgs, s \in Sources :
            at'[m][s] = "publish" => at[m][s] = "publish" /\ res'[m][s] = res[m][s]
      BY <1>2 DEF CloseServer, CallsOK
    <3> QED BY <3>1, <3>2 DEF CallsOK
  <2>2. WithoutWaitingReaper \in Seq(Request)
    <3>1. ASSUME NEW i \in 1..Len(chan)
          PROVE  SubSeq(chan, 1, i - 1) \o SubSeq(chan, i + 1, Len(chan))
                   \in Seq(Request)
      BY DEF ManagerOK
    <3> QED BY <3>1 DEF WithoutWaitingReaper, ManagerOK
  <2>3. ManagerOK'
    BY <1>2, <2>2 DEF CloseServer, ManagerOK
  <2>4. slips' \in [Msgs -> Nat]
    BY <1>2 DEF CloseServer, LifeOK
  <2>5. LifeOK'
    BY <1>2, <2>4 DEF CloseServer, LifeOK
  <2> QED BY <1>2, <2>1, <2>3, <2>5, Frame DEF CloseServer
<1>3. CASE CloseChannel
  <2>1. snap' \in [connected : BOOLEAN, ready : BOOLEAN]
    BY <1>3 DEF CloseChannel, ManagerOK
  <2>2. ManagerOK'
    BY <1>3, <2>1 DEF CloseChannel, ManagerOK
  <2> QED BY <1>3, <2>2, Frame DEF CloseChannel
<1>4. CASE Exit \/ ForceExit
  BY <1>4, DieOK DEF Exit, ForceExit
<1>5. CASE Crash
  <2>1. faults' \in 0..MaxFaults
    BY <1>5 DEF Crash, EnvOK
  <2> QED BY <1>5, <2>1, DieOK DEF Crash
<1>6. CASE Restart
  <2>1. LifeOK'
    BY <1>6 DEF Restart, LifeOK
  <2>2. attempt' <= MaxReopen
    BY <1>6 DEF Restart
  <2>3. ManagerOK'
    BY <1>6, <2>2 DEF Restart, ManagerOK
  <2> QED BY <1>6, <2>1, <2>3, Frame DEF Restart
<1> QED BY <1>1, <1>2, <1>3, <1>4, <1>5, <1>6 DEF Lifecycle

LEMMA EnvType ==
  ASSUME TypeOK, LoseNetwork \/ GainNetwork PROVE TypeOK'
<1> USE DEF TypeOK
<1>1. CASE LoseNetwork
  <2>1. net' \in BOOLEAN
    BY <1>1 DEF LoseNetwork
  <2>2. faults' \in 0..MaxFaults /\ glitches' \in 0..MaxGlitches
    BY <1>1 DEF LoseNetwork, EnvOK
  <2>3. EnvOK'
    BY <2>1, <2>2 DEF EnvOK
  <2> QED BY <1>1, <2>3, Frame DEF LoseNetwork
<1>2. CASE GainNetwork
  <2>1. EnvOK'
    BY <1>2 DEF GainNetwork, EnvOK
  <2> QED BY <1>2, <2>1, Frame DEF GainNetwork
<1> QED BY <1>1, <1>2

LEMMA NextType == ASSUME TypeOK, [Next]_vars PROVE TypeOK'
<1>1. CASE UNCHANGED vars
  BY <1>1, Frame DEF vars, TypeOK
<1>2. CASE Next
  BY <1>2, HandlerType, CallType, ManagerType, ReaperType, LifecycleType,
     EnvType DEF Next
<1> QED BY <1>1, <1>2

\* The state is well typed, whatever is lost, aborted or restarted: the
\* manager never works past the last segment or the last attempt
\* (send_all_segments, send_part_with_retries), and no call publishes an
\* outcome it does not have (dispatch_send).
THEOREM TypeCorrect == Spec => []TypeOK
<1>1. Init => TypeOK
  BY InitType
<1>2. TypeOK /\ [Next]_vars => TypeOK'
  BY NextType
<1> QED BY <1>1, <1>2, PTL DEF Spec

-----------------------------------------------------------------------------
(* "sent" is the truth.                                                    *)

LEMMA OnlyOnAir == ASSUME [Next]_vars PROVE SegmentOnAir \/ UNCHANGED aired
<1>1. ASSUME NEW m \in Msgs, Handler(m) \/ GrowOld(m) \/ ReaperSend(m)
      PROVE  UNCHANGED aired
  BY <1>1 DEF Handler, PrepareSend, AcceptMessage, AbandonInsert, SyncTimeout,
              GrowOld, ReaperSend
<1>2. ASSUME NEW m \in Msgs, NEW s \in Sources, Call(m, s)
      PROVE  UNCHANGED aired
  BY <1>2 DEF Call, SubmitRequest, SubmitRefused, WriteStatus, LeaveQueued,
              Publish
<1>3. CASE Manager
  BY <1>3 DEF Manager, OpenPort, OpenFails, Initialize, LosePort, RefreshStatus,
              TakeRequest, AnswerOk, AnswerErrorRetry, AnswerGiveUp
<1>4. ASSUME Lifecycle \/ LoseNetwork \/ GainNetwork \/ ReaperTick
      PROVE  UNCHANGED aired
  BY <1>4 DEF Lifecycle, Terminate, CloseServer, CloseChannel, Exit, ForceExit,
              Crash, Restart, Die, LoseNetwork, GainNetwork, ReaperTick
<1>5. CASE UNCHANGED vars
  BY <1>5 DEF vars
<1> QED BY <1>1, <1>2, <1>3, <1>4, <1>5 DEF Next

\* What the network took stays taken.
LEMMA AiredGrows ==
  ASSUME TypeOK, [Next]_vars
  PROVE  \A m \in Msgs : \A p \in Segments(m) : aired'[m][p] >= aired[m][p]
<1> USE DEF TypeOK
<1>1. CASE SegmentOnAir
  <2>1. cur.msg \in Msgs /\ cur.part \in Segments(cur.msg)
    BY <1>1 DEF SegmentOnAir, Busy, CurOK
  <2> SUFFICES ASSUME NEW m \in Msgs, NEW p \in Segments(m)
               PROVE  aired'[m][p] >= aired[m][p]
    OBVIOUS
  <2>2. aired[m] \in [Segments(m) -> Nat]
    BY DEF AiredOK
  <2>3. CASE m = cur.msg
    <3>1. aired'[m] = [aired[m] EXCEPT ![cur.part] = @ + 1]
      BY <1>1, <2>1, <2>3 DEF SegmentOnAir, AiredOK
    <3> QED BY <2>1, <2>2, <2>3, <3>1
  <2>4. CASE m # cur.msg
    <3>1. aired'[m] = aired[m]
      BY <1>1, <2>4 DEF SegmentOnAir, AiredOK
    <3> QED BY <2>2, <3>1
  <2> QED BY <2>3, <2>4
<1>2. CASE UNCHANGED aired
  BY <1>2 DEF AiredOK
<1> QED BY <1>1, <1>2, OnlyOnAir

LEMMA FullyAiredStays ==
  ASSUME TypeOK, [Next]_vars, NEW m \in Msgs, FullyAired(m)
  PROVE  FullyAired(m)'
<1> SUFFICES ASSUME NEW p \in Segments(m) PROVE aired'[m][p] > 0
  BY DEF FullyAired, Segments
<1>1. aired[m][p] > 0 /\ aired[m][p] \in Nat
  BY DEF FullyAired, TypeOK, AiredOK
<1>2. aired'[m][p] >= aired[m][p] /\ aired'[m][p] \in Nat
  BY AiredGrows, NextType DEF TypeOK, AiredOK, Segments
<1> QED BY <1>1, <1>2

Told(m) == {row[m], lastEvent[m], client[m]}

\* Only a call that holds a Sent result tells anybody so.
LEMMA ToldFromResult ==
  ASSUME TypeOK, [Next]_vars, NEW n \in Msgs, "sent" \in Told(n)'
  PROVE  "sent" \in Told(n) \/ \E s \in Sources : res[n][s] = "sent"
<1> USE DEF Told, TypeOK
<1>1. ASSUME NEW m \in Msgs, Handler(m)
      PROVE  "sent" \in Told(n)
  <2>1. row'[n] = "sent" => row[n] = "sent"
    BY <1>1 DEF Handler, PrepareSend, AcceptMessage, AbandonInsert, SyncTimeout,
                InsertQueued, RowsOK
  <2>2. client'[n] = "sent" => client[n] = "sent"
    BY <1>1 DEF Handler, PrepareSend, AcceptMessage, AbandonInsert, SyncTimeout,
                ToldOK
  <2>3. UNCHANGED lastEvent
    BY <1>1 DEF Handler, PrepareSend, AcceptMessage, AbandonInsert, SyncTimeout
  <2> QED BY <2>1, <2>2, <2>3
<1>2. ASSUME NEW m \in Msgs, NEW s \in Sources,
             SubmitRequest(m, s) \/ SubmitRefused(m, s)
      PROVE  "sent" \in Told(n)
  BY <1>2 DEF SubmitRequest, SubmitRefused
<1>3. ASSUME NEW m \in Msgs, NEW s \in Sources, WriteStatus(m, s)
      PROVE  "sent" \in Told(n) \/ res[n][s] = "sent"
  BY <1>3 DEF WriteStatus, RowsOK
<1>4. ASSUME NEW m \in Msgs, NEW s \in Sources, LeaveQueued(m, s)
      PROVE  "sent" \in Told(n)
  BY <1>4 DEF LeaveQueued, AnswerClient, ToldOK
<1>5. ASSUME NEW m \in Msgs, NEW s \in Sources, Publish(m, s)
      PROVE  "sent" \in Told(n) \/ res[n][s] = "sent"
  BY <1>5 DEF Publish, AnswerClient, ToldOK
<1>6. ASSUME NEW m \in Msgs, GrowOld(m) \/ ReaperSend(m)
      PROVE  "sent" \in Told(n)
  BY <1>6 DEF GrowOld, ReaperSend
<1>7. CASE Manager
  BY <1>7 DEF Manager, OpenPort, OpenFails, Initialize, LosePort, RefreshStatus,
              TakeRequest, SegmentOnAir, AnswerOk, AnswerErrorRetry, AnswerGiveUp
<1>8. CASE Lifecycle
  <2>1. CASE Die
    BY <2>1 DEF Die, ToldOK
  <2>2. CASE ~Die
    BY <1>8, <2>2 DEF Lifecycle, Terminate, CloseServer, CloseChannel, Exit,
                      ForceExit, Crash, Restart
  <2> QED BY <2>1, <2>2
<1>9. CASE LoseNetwork \/ GainNetwork \/ ReaperTick \/ UNCHANGED vars
  BY <1>9 DEF LoseNetwork, GainNetwork, ReaperTick, vars
<1> QED BY <1>1, <1>2, <1>3, <1>4, <1>5, <1>6, <1>7, <1>8, <1>9 DEF Next, Call

\* The caller of a reply that is not Sent, and everybody else, learns nothing.
LEMMA ReplyKeepsSent ==
  ASSUME CallsOK, NEW m, NEW s, NEW r, Reply(m, s, r),
         NEW n \in Msgs, NEW t \in Sources, res'[n][t] = "sent"
  PROVE  res[n][t] = "sent" \/ (r = "sent" /\ n = m)
<1>1. CASE n = m /\ at[m][s] = "await"
  <2>1. res'[n] = [res[n] EXCEPT ![s] = r]
    BY <1>1 DEF Reply, CallsOK
  <2> QED BY <1>1, <2>1 DEF CallsOK
<1>2. CASE ~(n = m /\ at[m][s] = "await")
  <2>1. res'[n] = res[n]
    BY <1>2 DEF Reply, CallsOK
  <2> QED BY <2>1
<1> QED BY <1>1, <1>2

\* Only the answer to the last segment makes a Sent result.
LEMMA ResultFromAir ==
  ASSUME TypeOK, [Next]_vars, NEW n \in Msgs, NEW t \in Sources,
         res'[n][t] = "sent"
  PROVE  \/ res[n][t] = "sent"
         \/ Busy /\ cur.onair /\ cur.part = Parts[n] /\ n = cur.msg
<1> USE DEF TypeOK
<1>1. ASSUME BackoffOrGiveUp PROVE res[n][t] = "sent"
  <2>1. CASE attempt' > MaxReopen
    BY <1>1, <2>1 DEF BackoffOrGiveUp
  <2>2. CASE ~(attempt' > MaxReopen)
    BY <1>1, <2>2, ReplyKeepsSent DEF BackoffOrGiveUp
  <2> QED BY <2>1, <2>2
<1>2. ASSUME NEW m \in Msgs, NEW s \in Sources, Call(m, s)
      PROVE  res[n][t] = "sent"
  BY <1>2 DEF Call, SubmitRequest, SubmitRefused, WriteStatus, LeaveQueued,
              Publish, CallsOK
<1>3. CASE TakeRequest
  BY <1>3, ReplyKeepsSent DEF TakeRequest
<1>4. CASE AnswerOk
  <2>1. CASE cur.part < Parts[cur.msg]
    BY <1>4, <2>1 DEF AnswerOk
  <2>2. CASE ~(cur.part < Parts[cur.msg])
    <3>1. Reply(cur.msg, cur.src, "sent") /\ Busy /\ cur.onair
      BY <1>4, <2>2 DEF AnswerOk
    <3>2. cur.msg \in Msgs /\ cur.part = Parts[cur.msg]
      BY <2>2, <3>1 DEF CurOK, Busy, Segments
    <3> QED BY <3>1, <3>2, ReplyKeepsSent
  <2> QED BY <2>1, <2>2
<1>5. CASE AnswerGiveUp
  BY <1>5, ReplyKeepsSent DEF AnswerGiveUp
<1>6. CASE Die
  BY <1>6 DEF Die, EveryCall
<1>7. CASE CloseServer
  BY <1>7 DEF CloseServer, CallsOK
<1>8. ASSUME OpenFails \/ LosePort PROVE BackoffOrGiveUp
  BY <1>8 DEF OpenFails, LosePort
<1>9. ASSUME Exit \/ ForceExit \/ Crash PROVE Die
  BY <1>9 DEF Exit, ForceExit, Crash
<1>10. CASE OpenPort \/ Initialize \/ RefreshStatus \/ SegmentOnAir
            \/ AnswerErrorRetry \/ Terminate \/ CloseChannel \/ Restart
            \/ LoseNetwork \/ GainNetwork \/ ReaperTick \/ UNCHANGED vars
  BY <1>10 DEF OpenPort, Initialize, RefreshStatus, SegmentOnAir,
               AnswerErrorRetry, Terminate, CloseChannel, Restart, LoseNetwork,
               GainNetwork, ReaperTick, vars
<1>11. ASSUME NEW m \in Msgs, Handler(m) \/ GrowOld(m) \/ ReaperSend(m)
       PROVE  UNCHANGED res
  BY <1>11 DEF Handler, PrepareSend, AcceptMessage, AbandonInsert, SyncTimeout,
               GrowOld, ReaperSend
<1> QED BY <1>1, <1>2, <1>3, <1>4, <1>5, <1>6, <1>7, <1>8, <1>9, <1>10, <1>11
        DEF Next, Manager, Lifecycle

\* How far the manager is, and what it is sure of.
LEMMA ProgressStep ==
  ASSUME TypeOK, CurProgress, [Next]_vars
  PROVE  CurProgress'
<1> USE DEF TypeOK
<1>0. TypeOK'
  BY NextType
<1>1. ASSUME Busy' /\ Busy /\ cur'.msg = cur.msg,
             \A p \in Segments(cur.msg) :
               p < cur'.part => p < cur.part \/ (p = cur.part /\ cur.onair),
             cur'.onair => cur.onair /\ cur'.part = cur.part
      PROVE  CurProgress'
  <2>1. cur.msg \in Msgs /\ cur.part \in Segments(cur.msg)
    BY <1>1 DEF Busy, CurOK
  <2>2. \A p \in Segments(cur.msg) :
          aired[cur.msg][p] > 0 => aired'[cur.msg][p] > 0
    <3>1. \A p \in Segments(cur.msg) : /\ aired[cur.msg][p] \in Nat
                                       /\ aired'[cur.msg][p] \in Nat
      BY <1>0, <2>1 DEF AiredOK, Segments
    <3> QED BY <2>1, <3>1, AiredGrows
  <2>3. Segments(cur.msg)' = Segments(cur.msg)
    BY <1>1 DEF Segments
  <2> QED BY <1>1, <2>1, <2>2, <2>3 DEF CurProgress
<1>2. ASSUME cur' = Idle PROVE CurProgress'
  BY <1>2 DEF CurProgress, Busy, Idle
<1>3. CASE UNCHANGED cur
  <2>1. CASE Busy
    BY <1>1, <1>3, <2>1 DEF Busy, CurOK, Segments
  <2>2. CASE ~Busy
    BY <1>3, <2>2 DEF CurProgress, Busy
  <2> QED BY <2>1, <2>2
<1>4. CASE TakeRequest
  <2>1. CASE snap.ready
    <3>1. cur' = [msg |-> Head(chan).msg, src |-> Head(chan).src, part |-> 1,
                  tries |-> 1, onair |-> FALSE]
      BY <1>4, <2>1 DEF TakeRequest, Idle
    <3>2. \A p \in Segments(cur.msg)' : ~(p < cur'.part)
      BY <1>0, <3>1 DEF Segments, CurOK, Busy
    <3> QED BY <3>1, <3>2 DEF CurProgress
  <2>2. CASE ~snap.ready
    BY <1>3, <1>4, <2>2 DEF TakeRequest
  <2> QED BY <2>1, <2>2
<1>5. CASE SegmentOnAir
  <2>1. /\ Busy /\ cur.msg \in Msgs /\ cur.part \in Segments(cur.msg)
        /\ cur'.msg = cur.msg /\ cur'.part = cur.part
    BY <1>5 DEF SegmentOnAir, Busy, CurOK
  <2>2. aired'[cur.msg] = [aired[cur.msg] EXCEPT ![cur.part] = @ + 1]
    BY <1>5, <2>1 DEF SegmentOnAir, AiredOK
  <2>3. aired[cur.msg] \in [Segments(cur.msg) -> Nat]
    BY <2>1 DEF AiredOK
  <2>4. aired'[cur.msg][cur.part] > 0
    BY <2>1, <2>2, <2>3
  <2>5. \A p \in Segments(cur.msg) : p < cur.part => aired'[cur.msg][p] > 0
    BY <2>1, <2>2, <2>3 DEF CurProgress, Segments
  <2>6. Segments(cur.msg)' = Segments(cur.msg)
    BY <2>1 DEF Segments
  <2> QED BY <2>1, <2>4, <2>5, <2>6 DEF CurProgress
<1>6. CASE AnswerOk
  <2>1. CASE cur.part < Parts[cur.msg]
    <3>1. cur' = [cur EXCEPT !.part = @ + 1, !.tries = 1, !.onair = FALSE]
      BY <1>6, <2>1 DEF AnswerOk
    <3>2. Busy /\ cur.onair /\ cur.part \in Nat
      BY <1>6 DEF AnswerOk, CurOK
    <3>3. cur'.msg = cur.msg /\ cur'.part = cur.part + 1 /\ cur'.onair = FALSE
      BY <3>1 DEF CurOK
    <3>4. \A p \in Segments(cur.msg) :
            p < cur'.part => p < cur.part \/ (p = cur.part /\ cur.onair)
      BY <3>2, <3>3 DEF Segments
    <3> QED BY <1>1, <3>2, <3>3, <3>4 DEF Busy
  <2>2. CASE ~(cur.part < Parts[cur.msg])
    BY <1>2, <1>6, <2>2 DEF AnswerOk
  <2> QED BY <2>1, <2>2
<1>7. CASE AnswerErrorRetry
  <2>1. /\ Busy /\ cur'.msg = cur.msg /\ cur'.part = cur.part
        /\ cur'.onair = FALSE
    BY <1>7 DEF AnswerErrorRetry, CurOK
  <2> QED BY <1>1, <2>1 DEF Busy
<1>8. ASSUME AnswerGiveUp \/ OpenFails \/ LosePort \/ Exit \/ ForceExit \/ Crash
      PROVE  CurProgress'
  BY <1>2, <1>8 DEF AnswerGiveUp, OpenFails, LosePort, BackoffOrGiveUp, Exit,
                    ForceExit, Crash, Die
<1>9. ASSUME OpenPort \/ Initialize \/ RefreshStatus \/ Terminate
             \/ CloseServer \/ CloseChannel \/ Restart \/ LoseNetwork
             \/ GainNetwork \/ ReaperTick \/ UNCHANGED vars
      PROVE  UNCHANGED cur
  BY <1>9 DEF OpenPort, Initialize, RefreshStatus, Terminate, CloseServer,
              CloseChannel, Restart, LoseNetwork, GainNetwork, ReaperTick, vars
<1>10. ASSUME NEW m \in Msgs, Handler(m) \/ GrowOld(m) \/ ReaperSend(m)
       PROVE  UNCHANGED cur
  BY <1>10 DEF Handler, PrepareSend, AcceptMessage, AbandonInsert, SyncTimeout,
               GrowOld, ReaperSend
<1>11. ASSUME NEW m \in Msgs, NEW s \in Sources, Call(m, s)
       PROVE  UNCHANGED cur
  BY <1>11 DEF Call, SubmitRequest, SubmitRefused, WriteStatus, LeaveQueued,
               Publish
<1> QED BY <1>3, <1>4, <1>5, <1>6, <1>7, <1>8, <1>9, <1>10, <1>11
        DEF Next, Manager, Lifecycle

LEMMA SentStep == ASSUME SentInv, [Next]_vars PROVE SentInv'
<1> USE DEF SentInv
<1>1. TypeOK' /\ CurProgress'
  BY NextType, ProgressStep
<1>2. SentResult'
  <2> SUFFICES ASSUME NEW m \in Msgs, NEW s \in Sources, res'[m][s] = "sent"
               PROVE  FullyAired(m)'
    BY DEF SentResult
  <2>1. CASE res[m][s] = "sent"
    BY <2>1, FullyAiredStays DEF SentResult
  <2>2. CASE Busy /\ cur.onair /\ cur.part = Parts[m] /\ m = cur.msg
    <3>1. \A p \in Segments(m) : p < Parts[m] \/ p = Parts[m]
      BY DEF Segments
    <3>2. FullyAired(m)
      BY <2>2, <3>1 DEF CurProgress, FullyAired
    <3> QED BY <3>2, FullyAiredStays
  <2> QED BY <2>1, <2>2, ResultFromAir
<1>3. SentMeansAired'
  <2> SUFFICES ASSUME NEW m \in Msgs, "sent" \in Told(m)'
               PROVE  FullyAired(m)'
    BY DEF SentMeansAired, Told
  <2>1. FullyAired(m)
    BY ToldFromResult DEF SentMeansAired, SentResult, Told
  <2> QED BY <2>1, FullyAiredStays
<1> QED BY <1>1, <1>2, <1>3

LEMMA SentInvAlways == Spec => []SentInv
<1>1. Init => SentInv
  BY InitType DEF Init, SentInv, CurProgress, SentResult, SentMeansAired, Busy,
                  Idle, EveryCall
<1>2. SentInv /\ [Next]_vars => SentInv'
  BY SentStep
<1> QED BY <1>1, <1>2, PTL DEF Spec

\* Nobody is told "sent" of a message with a segment that never went out,
\* whatever is retried, aborted, lost or restarted (send_all_segments,
\* dispatch_send, reap_queued_messages, sync_send).
THEOREM SentIsTrue == Spec => []SentMeansAired
<1>1. SentInv => SentMeansAired
  BY DEF SentInv
<1> QED BY <1>1, SentInvAlways, PTL

-----------------------------------------------------------------------------
(* How the steps move the calls.                                           *)

\* A reply reaches only the call it is for, and only while that one waits.
LEMMA ReplyMoves ==
  ASSUME CallsOK, NEW m \in Msgs, NEW s \in Sources, NEW r \in Result,
         Reply(m, s, r)
  PROVE  /\ \A n \in Msgs, t \in Sources :
              at'[n][t] = IF n = m /\ t = s /\ at[n][t] = "await"
                          THEN "record" ELSE at[n][t]
         /\ \A n \in Msgs, t \in Sources :
              res'[n][t] = IF n = m /\ t = s /\ at[n][t] = "await"
                           THEN r ELSE res[n][t]
<1>1. CASE at[m][s] = "await"
  <2>1. at' = [at EXCEPT ![m][s] = "record"] /\ res' = [res EXCEPT ![m][s] = r]
    BY <1>1 DEF Reply
  <2>2. \A n \in Msgs, t \in Sources :
          at'[n][t] = IF n = m /\ t = s THEN "record" ELSE at[n][t]
    BY <2>1 DEF CallsOK
  <2>3. \A n \in Msgs, t \in Sources :
          res'[n][t] = IF n = m /\ t = s THEN r ELSE res[n][t]
    BY <2>1 DEF CallsOK
  <2> QED BY <1>1, <2>2, <2>3
<1>2. CASE at[m][s] # "await"
  BY <1>2 DEF Reply
<1> QED BY <1>1, <1>2

\* A failed attempt to reach the modem ends the calls the manager gives up, and
\* no other: all that wait, or the one it was handling.
LEMMA GiveUpMoves ==
  ASSUME TypeOK, BackoffOrGiveUp
  PROVE  /\ cur' = Idle
         /\ \/ /\ chan' = <<>>
               /\ \A n \in Msgs, t \in Sources :
                    /\ at'[n][t] = IF at[n][t] = "await" THEN "record" ELSE at[n][t]
                    /\ res'[n][t] = IF at[n][t] = "await" THEN "failed" ELSE res[n][t]
            \/ /\ chan' = chan
               /\ \A n \in Msgs, t \in Sources :
                    /\ at'[n][t] = IF n = cur.msg /\ t = cur.src /\ at[n][t] = "await"
                                   THEN "record" ELSE at[n][t]
                    /\ res'[n][t] = IF n = cur.msg /\ t = cur.src /\ at[n][t] = "await"
                                    THEN "failed" ELSE res[n][t]
<1>1. cur' = Idle
  BY DEF BackoffOrGiveUp
<1>2. CASE attempt' > MaxReopen
  BY <1>1, <1>2 DEF BackoffOrGiveUp
<1>3. CASE ~(attempt' > MaxReopen) /\ Busy
  <2>1. PICK m \in Msgs, s \in Sources : m = cur.msg /\ s = cur.src
    BY <1>3 DEF TypeOK, CurOK, Busy
  <2>2. Reply(m, s, "failed") /\ chan' = chan
    BY <1>3, <2>1 DEF BackoffOrGiveUp
  <2> QED BY <1>1, <2>1, <2>2, ReplyMoves DEF TypeOK, Result
<1>4. CASE ~(attempt' > MaxReopen) /\ ~Busy
  <2>1. \A n \in Msgs : n # cur.msg
    BY <1>4 DEF Busy
  <2> QED BY <1>1, <1>4, <2>1 DEF BackoffOrGiveUp
<1> QED BY <1>2, <1>3, <1>4

\* What each step of the handler, of a call and of the reaper does to at.
Moves(m, s, p) == \A n \in Msgs, t \in Sources :
  at'[n][t] = IF n = m /\ t = s THEN p ELSE at[n][t]

LEMMA MovesOne ==
  ASSUME TypeOK, NEW m \in Msgs, NEW s \in Sources
  PROVE  /\ PrepareSend(m) => Moves(m, "api", "insert")
         /\ AcceptMessage(m) => Moves(m, "api", "submit")
         /\ AbandonInsert(m) => Moves(m, "api", "idle")
         /\ SubmitRequest(m, s) => Moves(m, s, "await")
         /\ SubmitRefused(m, s) => Moves(m, s, "record")
         /\ WriteStatus(m, s) => Moves(m, s, "publish")
         /\ LeaveQueued(m, s) => Moves(m, s, "idle")
         /\ Publish(m, s) => Moves(m, s, "idle")
         /\ ReaperSend(m) => Moves(m, "reaper", "submit")
<1>1. ASSUME NEW t \in Sources, NEW p \in Place, at' = [at EXCEPT ![m][t] = p]
      PROVE  Moves(m, t, p)
  <2>1. at \in [Msgs -> [Sources -> Place]]
    BY DEF TypeOK, CallsOK
  <2> QED BY <1>1, <2>1 DEF Moves
<1>2. \A p \in {"insert", "submit", "await", "record", "publish", "idle"} : p \in Place
  BY DEF Place
<1>3. /\ PrepareSend(m) => at' = [at EXCEPT ![m]["api"] = "insert"]
      /\ AcceptMessage(m) => at' = [at EXCEPT ![m]["api"] = "submit"]
      /\ AbandonInsert(m) => at' = [at EXCEPT ![m]["api"] = "idle"]
      /\ ReaperSend(m) => at' = [at EXCEPT ![m]["reaper"] = "submit"]
  BY DEF PrepareSend, AcceptMessage, AbandonInsert, ReaperSend
<1>4. /\ SubmitRequest(m, s) => at' = [at EXCEPT ![m][s] = "await"]
      /\ SubmitRefused(m, s) => at' = [at EXCEPT ![m][s] = "record"]
      /\ WriteStatus(m, s) => at' = [at EXCEPT ![m][s] = "publish"]
      /\ LeaveQueued(m, s) => at' = [at EXCEPT ![m][s] = "idle"]
      /\ Publish(m, s) => at' = [at EXCEPT ![m][s] = "idle"]
  BY DEF SubmitRequest, SubmitRefused, WriteStatus, LeaveQueued, Publish
<1> QED BY <1>1, <1>2, <1>3, <1>4

\* And to res, for those that change it.
Gets(m, s, r) == \A n \in Msgs, t \in Sources :
  res'[n][t] = IF n = m /\ t = s THEN r ELSE res[n][t]

LEMMA GetsOne ==
  ASSUME TypeOK, NEW m \in Msgs, NEW s \in Sources
  PROVE  /\ SubmitRefused(m, s) => Gets(m, s, "failed")
         /\ LeaveQueued(m, s) => Gets(m, s, "none")
         /\ Publish(m, s) => Gets(m, s, "none")
<1>1. ASSUME NEW r \in Result, res' = [res EXCEPT ![m][s] = r] PROVE Gets(m, s, r)
  <2>1. res \in [Msgs -> [Sources -> Result]]
    BY DEF TypeOK, CallsOK
  <2> QED BY <1>1, <2>1 DEF Gets
<1>2. "failed" \in Result /\ "none" \in Result
  BY DEF Result
<1>3. /\ SubmitRefused(m, s) => res' = [res EXCEPT ![m][s] = "failed"]
      /\ LeaveQueued(m, s) => res' = [res EXCEPT ![m][s] = "none"]
      /\ Publish(m, s) => res' = [res EXCEPT ![m][s] = "none"]
  BY DEF SubmitRefused, LeaveQueued, Publish
<1> QED BY <1>1, <1>2, <1>3

-----------------------------------------------------------------------------
(* What the manager holds: the requests in and behind the channel, and the *)
(* one in hand.                                                            *)

InChan(m, s) == \E i \in 1..Len(chan) : chan[i] = [msg |-> m, src |-> s]
InHand(m, s) == cur.msg = m /\ cur.src = s

NoTwins == \A i, j \in 1..Len(chan) : chan[i] = chan[j] => i = j

LEMMA NothingInEmpty == chan = <<>> => NoTwins /\ \A n, t : ~InChan(n, t)
BY DEF NoTwins, InChan

LEMMA NothingInHand == cur = Idle => \A n \in Msgs : \A t : ~InHand(n, t)
BY DEF Idle, InHand

LEMMA SubmittedIn ==
  ASSUME chan \in Seq(Request), NoTwins, NEW m \in Msgs, NEW s \in Sources,
         ~InChan(m, s), chan' = Append(chan, [msg |-> m, src |-> s])
  PROVE  /\ NoTwins'
         /\ \A n, t : InChan(n, t)' <=> InChan(n, t) \/ (n = m /\ t = s)
<1> DEFINE r == [msg |-> m, src |-> s]
<1>1. r \in Request
  BY DEF Request
<1>2. Len(chan') = Len(chan) + 1 /\ Len(chan) \in Nat
  BY <1>1
<1>3. \A i \in 1..Len(chan') : chan'[i] = IF i = Len(chan) + 1 THEN r ELSE chan[i]
  BY <1>1, <1>2
<1>4. \A i \in 1..Len(chan) : chan[i] # r
  BY DEF InChan
<1>5. \A n, t : r = [msg |-> n, src |-> t] <=> n = m /\ t = s
  OBVIOUS
<1> HIDE DEF r
<1>6. NoTwins'
  BY <1>2, <1>3, <1>4 DEF NoTwins
<1>7. ASSUME NEW n, NEW t
      PROVE  InChan(n, t)' <=> InChan(n, t) \/ (n = m /\ t = s)
  BY <1>2, <1>3, <1>5 DEF InChan
<1> QED BY <1>6, <1>7

LEMMA TakenOut ==
  ASSUME chan \in Seq(Request), NoTwins, chan # <<>>, chan' = Tail(chan),
         NEW m \in Msgs, NEW s \in Sources, Head(chan) = [msg |-> m, src |-> s]
  PROVE  /\ NoTwins' /\ InChan(m, s)
         /\ \A n, t : InChan(n, t)' <=> InChan(n, t) /\ ~(n = m /\ t = s)
<1> DEFINE r == [msg |-> m, src |-> s]
<1>1. Len(chan) \in Nat /\ Len(chan) > 0
  OBVIOUS
<1>2. Len(chan') = Len(chan) - 1
  BY <1>1
<1>3. \A i \in 1..Len(chan') : chan'[i] = chan[i + 1]
  BY <1>1, <1>2
<1>4. chan[1] = r
  BY <1>1
<1>5. \A n, t : r = [msg |-> n, src |-> t] <=> n = m /\ t = s
  OBVIOUS
<1> HIDE DEF r
<1>6. NoTwins'
  <2> SUFFICES ASSUME NEW i \in 1..Len(chan'), NEW j \in 1..Len(chan'),
                      chan'[i] = chan'[j]
               PROVE  i = j
    BY DEF NoTwins
  <2>1. i + 1 \in 1..Len(chan) /\ j + 1 \in 1..Len(chan)
    BY <1>1, <1>2
  <2>2. i + 1 = j + 1
    BY <1>3, <2>1 DEF NoTwins
  <2> QED BY <2>2
<1>7. InChan(m, s)
  BY <1>1, <1>4, <1>5 DEF InChan, r
<1>8. ASSUME NEW n, NEW t
      PROVE  InChan(n, t)' <=> InChan(n, t) /\ ~(n = m /\ t = s)
  <2>1. ASSUME NEW i \in 1..Len(chan'), chan'[i] = [msg |-> n, src |-> t]
        PROVE  InChan(n, t) /\ ~(n = m /\ t = s)
    <3>1. i + 1 \in 1..Len(chan) /\ chan[i + 1] = [msg |-> n, src |-> t]
      BY <1>1, <1>2, <1>3, <2>1
    <3>2. chan[i + 1] # chan[1]
      BY <1>1, <3>1 DEF NoTwins
    <3> QED BY <1>4, <1>5, <3>1, <3>2 DEF InChan
  <2>2. ASSUME NEW i \in 1..Len(chan), chan[i] = [msg |-> n, src |-> t],
               ~(n = m /\ t = s)
        PROVE  InChan(n, t)'
    <3>1. i # 1
      BY <1>4, <1>5, <2>2
    <3>2. i - 1 \in 1..Len(chan') /\ chan'[i - 1] = chan[(i - 1) + 1]
      BY <1>1, <1>2, <1>3, <3>1
    <3>3. chan'[i - 1] = [msg |-> n, src |-> t]
      BY <2>2, <3>2
    <3> QED BY <3>2, <3>3 DEF InChan
  <2> QED BY <2>1, <2>2 DEF InChan
<1> QED BY <1>6, <1>7, <1>8

\* Whether or not the aborted reaper was still behind the channel, no request
\* of a dispatch task is lost.
LEMMA AbortedOut ==
  ASSUME chan \in Seq(Request), NoTwins, chan' = WithoutWaitingReaper
  PROVE  /\ NoTwins'
         /\ \A n, t : InChan(n, t)' => InChan(n, t)
         /\ \A n : InChan(n, "api") => InChan(n, "api")'
<1> DEFINE gone == {i \in 1..Len(chan) : ~(i <= Buffer \/ chan[i].src = "api")}
<1>1. CASE gone = {}
  <2>1. chan' = chan
    BY <1>1 DEF WithoutWaitingReaper
  <2> QED BY <2>1 DEF InChan, NoTwins
<1>2. CASE gone # {}
  <2>1. PICK i \in gone :
          chan' = SubSeq(chan, 1, i - 1) \o SubSeq(chan, i + 1, Len(chan))
    BY <1>2 DEF WithoutWaitingReaper
  <2>2. i \in 1..Len(chan) /\ chan[i].src # "api" /\ Len(chan) \in Nat
    OBVIOUS
  <2> HIDE DEF gone
  <2> DEFINE a == SubSeq(chan, 1, i - 1)
             b == SubSeq(chan, i + 1, Len(chan))
  <2>3. /\ a \in Seq(Request) /\ Len(a) = i - 1
        /\ \A k \in 1..(i - 1) : a[k] = chan[k]
    BY <2>2
  <2>4. /\ b \in Seq(Request) /\ Len(b) = Len(chan) - i
        /\ \A k \in 1..(Len(chan) - i) : b[k] = chan[k + i]
    BY <2>2
  <2> HIDE DEF a, b
  <2>5. chan' = a \o b
    BY <2>1 DEF a, b
  <2>6. Len(chan') = Len(chan) - 1
    <3>1. Len(a \o b) = Len(a) + Len(b)
      <4>1. a \in Seq(Request) /\ b \in Seq(Request)
        BY <2>3, <2>4
      <4> QED BY <4>1
    <3>2. Len(chan') = (i - 1) + (Len(chan) - i)
      BY <2>3, <2>4, <2>5, <3>1
    <3>3. Len(chan) \in Nat /\ i \in Nat
      BY <2>2
    <3> QED BY <3>2, <3>3
  <2>7. \A k \in 1..Len(chan') : chan'[k] = IF k < i THEN chan[k] ELSE chan[k + 1]
    <3> SUFFICES ASSUME NEW k \in 1..Len(chan')
                 PROVE  chan'[k] = IF k < i THEN chan[k] ELSE chan[k + 1]
      OBVIOUS
    <3>1. chan'[k] = IF k <= Len(a) THEN a[k] ELSE b[k - Len(a)]
      BY <2>2, <2>3, <2>4, <2>5, <2>6
    <3>2. CASE k < i
      BY <2>2, <2>3, <2>6, <3>1, <3>2
    <3>3. CASE ~(k < i)
      <4>1. k - (i - 1) \in 1..(Len(chan) - i) /\ (k - (i - 1)) + i = k + 1
        BY <2>2, <2>6, <3>3
      <4> QED BY <2>2, <2>3, <2>4, <3>1, <3>3, <4>1
    <3> QED BY <3>2, <3>3
  <2>8. NoTwins'
    <3> SUFFICES ASSUME NEW k \in 1..Len(chan'), NEW l \in 1..Len(chan'),
                        chan'[k] = chan'[l]
                 PROVE  k = l
      BY DEF NoTwins
    <3>1. /\ k \in 1..Len(chan) /\ k + 1 \in 1..Len(chan)
          /\ l \in 1..Len(chan) /\ l + 1 \in 1..Len(chan)
      BY <2>2, <2>6
    <3>2. (IF k < i THEN k ELSE k + 1) = (IF l < i THEN l ELSE l + 1)
      BY <2>7, <3>1 DEF NoTwins
    <3> QED BY <2>2, <3>1, <3>2
  <2>9. ASSUME NEW n, NEW t, InChan(n, t)' PROVE InChan(n, t)
    <3>1. PICK k \in 1..Len(chan') : chan'[k] = [msg |-> n, src |-> t]
      BY <2>9 DEF InChan
    <3>2. k \in 1..Len(chan) /\ k + 1 \in 1..Len(chan)
      BY <2>2, <2>6
    <3> QED BY <2>7, <3>1, <3>2 DEF InChan
  <2>10. ASSUME NEW n, InChan(n, "api") PROVE InChan(n, "api")'
    <3>1. PICK k \in 1..Len(chan) : chan[k] = [msg |-> n, src |-> "api"]
      BY <2>10 DEF InChan
    <3>2. k # i
      BY <2>2, <3>1
    <3>3. CASE k < i
      <4>1. k \in 1..Len(chan') /\ chan'[k] = chan[k]
        BY <2>2, <2>6, <2>7, <3>3
      <4> QED BY <3>1, <4>1 DEF InChan
    <3>4. CASE k > i
      <4>1. k - 1 \in 1..Len(chan') /\ chan'[k - 1] = chan[(k - 1) + 1]
        BY <2>2, <2>6, <2>7, <3>4
      <4>2. chan'[k - 1] = chan[k]
        BY <4>1
      <4> QED BY <3>1, <4>1, <4>2 DEF InChan
    <3> QED BY <2>2, <3>2, <3>3, <3>4
  <2> QED BY <2>8, <2>9, <2>10
<1> QED BY <1>1, <1>2

-----------------------------------------------------------------------------
(* Who waits and who is held. The invariant: the manager holds every call  *)
(* that waits, once; what else it holds is the reaper's, after the reaper  *)
(* is gone; and a dead process holds nothing.                              *)

Kept(m, s) ==
  /\ at[m][s] = "await" => InChan(m, s) \/ InHand(m, s)
  /\ InChan(m, s) \/ InHand(m, s) =>
       at[m][s] = "await" \/ (s = "reaper" /\ ~ReaperAlive)
  /\ ~(InChan(m, s) /\ InHand(m, s))
ReaperGone == ~ReaperAlive =>
  batch = {} /\ \A m \in Msgs : at[m]["reaper"] = "idle"
NothingWhenDown == phase = "down" =>
  chan = <<>> /\ cur = Idle /\ \A m \in Msgs : at[m]["api"] = "idle"
HeldInv ==
  /\ NoTwins /\ \A m \in Msgs, s \in Sources : Kept(m, s)
  /\ ReaperGone /\ NothingWhenDown

LEMMA HoldsSame ==
  ASSUME UNCHANGED <<chan, cur>>
  PROVE  /\ NoTwins' <=> NoTwins
         /\ \A n, t : (InChan(n, t)' <=> InChan(n, t))
                      /\ (InHand(n, t)' <=> InHand(n, t))
BY DEF NoTwins, InChan, InHand

\* Steps at which the manager goes on with what it has, or does nothing, and
\* nobody begins or ends waiting.
LEMMA HeldFrame ==
  ASSUME HeldInv, UNCHANGED chan,
         UNCHANGED cur \/ \A n \in Msgs, t \in Sources : InHand(n, t)' <=> InHand(n, t),
         \A n \in Msgs, t \in Sources : at'[n][t] = "await" <=> at[n][t] = "await",
         UNCHANGED phase,
         ReaperAlive \/ (UNCHANGED batch /\ \A n \in Msgs : at'[n]["reaper"] = at[n]["reaper"]),
         phase = "down" => UNCHANGED cur /\ \A n \in Msgs : at'[n]["api"] = at[n]["api"]
  PROVE  HeldInv'
<1>1. \A n \in Msgs, t \in Sources :
        (InChan(n, t)' <=> InChan(n, t)) /\ (InHand(n, t)' <=> InHand(n, t))
  BY DEF InChan, InHand
<1>2. NoTwins'
  BY DEF NoTwins, HeldInv
<1>3. ReaperAlive' <=> ReaperAlive
  BY DEF ReaperAlive
<1>4. \A n \in Msgs, t \in Sources : Kept(n, t)'
  BY <1>1, <1>3 DEF Kept, HeldInv
<1>5. ReaperGone'
  BY <1>3 DEF ReaperGone, HeldInv
<1>6. NothingWhenDown'
  BY DEF NothingWhenDown, HeldInv
<1> QED BY <1>2, <1>4, <1>5, <1>6 DEF HeldInv

LEMMA HandlerHeld ==
  ASSUME TypeOK, HeldInv, NEW m \in Msgs, Handler(m) \/ GrowOld(m)
  PROVE  HeldInv'
<1>1. CASE PrepareSend(m)
  BY <1>1, MovesOne, HeldFrame DEF PrepareSend, Moves
<1>2. CASE AcceptMessage(m)
  <2>1. phase # "down"
    BY <1>2 DEF AcceptMessage, HeldInv, NothingWhenDown
  <2> QED BY <1>2, <2>1, MovesOne, HeldFrame DEF AcceptMessage, Moves
<1>3. CASE AbandonInsert(m)
  <2>1. phase # "down"
    BY <1>3 DEF AbandonInsert, HeldInv, NothingWhenDown
  <2> QED BY <1>3, <2>1, MovesOne, HeldFrame DEF AbandonInsert, Moves
<1>4. CASE SyncTimeout(m) \/ GrowOld(m)
  BY <1>4, HeldFrame DEF SyncTimeout, GrowOld
<1> QED BY <1>1, <1>2, <1>3, <1>4 DEF Handler

LEMMA CallHeld ==
  ASSUME TypeOK, HeldInv, NEW m \in Msgs, NEW s \in Sources, Call(m, s)
  PROVE  HeldInv'
<1>1. at[m][s] # "idle" => phase # "down" /\ (s = "reaper" => ReaperAlive)
  BY DEF HeldInv, NothingWhenDown, ReaperGone, ReaperAlive
<1>2. ASSUME NEW p, Moves(m, s, p), p # "await",
             at[m][s] \notin {"idle", "await"}, UNCHANGED <<chan, cur, phase, batch>>
      PROVE  HeldInv'
  <2>1. \A n \in Msgs, t \in Sources : at'[n][t] = "await" <=> at[n][t] = "await"
    BY <1>2 DEF Moves
  <2>2. ReaperAlive \/ \A n \in Msgs : at'[n]["reaper"] = at[n]["reaper"]
    BY <1>1, <1>2 DEF Moves
  <2>3. phase # "down"
    BY <1>1, <1>2
  <2> QED BY <1>2, <2>1, <2>2, <2>3, HeldFrame
<1>3. CASE SubmitRequest(m, s)
  <2>1. Moves(m, s, "await")
    BY <1>3, MovesOne
  <2>2. at[m][s] = "submit" /\ phase' = phase /\ phase # "down"
        /\ (s = "reaper" => ReaperAlive)
    BY <1>1, <1>3 DEF SubmitRequest
  <2>3. ~InChan(m, s) /\ ~InHand(m, s)
    BY <2>2 DEF HeldInv, Kept
  <2>4. chan \in Seq(Request) /\ NoTwins
        /\ chan' = Append(chan, [msg |-> m, src |-> s])
    BY <1>3 DEF SubmitRequest, TypeOK, ManagerOK, HeldInv
  <2>5. /\ NoTwins'
        /\ \A n, t : InChan(n, t)' <=> InChan(n, t) \/ (n = m /\ t = s)
    <3>1. ~InChan(m, s)
      BY <2>3
    <3>2. chan \in Seq(Request) /\ NoTwins
      BY <2>4
    <3>3. chan' = Append(chan, [msg |-> m, src |-> s])
      BY <2>4
    <3> HIDE DEF Sources
    <3> QED BY <3>1, <3>2, <3>3, SubmittedIn
  <2>6. \A n, t : InHand(n, t)' <=> InHand(n, t)
    BY <1>3 DEF SubmitRequest, InHand
  <2>7. ReaperAlive' <=> ReaperAlive
    BY <2>2 DEF ReaperAlive
  <2>8. \A n \in Msgs, t \in Sources : Kept(n, t)'
    BY <2>1, <2>2, <2>3, <2>5, <2>6, <2>7 DEF Kept, HeldInv, Moves
  <2>9. ReaperGone'
    BY <1>3, <2>1, <2>2, <2>7 DEF ReaperGone, HeldInv, SubmitRequest, Moves
  <2>10. NothingWhenDown'
    BY <2>2 DEF NothingWhenDown
  <2> QED BY <2>5, <2>8, <2>9, <2>10 DEF HeldInv
<1>4. CASE SubmitRefused(m, s)
  BY <1>2, <1>4, MovesOne DEF SubmitRefused
<1>5. CASE WriteStatus(m, s)
  BY <1>2, <1>5, MovesOne DEF WriteStatus
<1>6. CASE LeaveQueued(m, s)
  BY <1>2, <1>6, MovesOne DEF LeaveQueued
<1>7. CASE Publish(m, s)
  BY <1>2, <1>7, MovesOne DEF Publish
<1> QED BY <1>3, <1>4, <1>5, <1>6, <1>7 DEF Call

LEMMA ReaperHeld ==
  ASSUME TypeOK, HeldInv, ReaperTick \/ \E m \in Msgs : ReaperSend(m)
  PROVE  HeldInv'
<1>1. CASE ReaperTick
  BY <1>1, HeldFrame DEF ReaperTick
<1>2. ASSUME NEW m \in Msgs, ReaperSend(m) PROVE HeldInv'
  <2>1. Moves(m, "reaper", "submit")
    BY <1>2, MovesOne
  <2> QED BY <1>2, <2>1, HeldFrame DEF ReaperSend, ReaperAlive, Moves
<1> QED BY <1>1, <1>2

\* The manager drops everything, or only what it has in hand.
LEMMA GiveUpHeld ==
  ASSUME TypeOK, HeldInv, BackoffOrGiveUp, UNCHANGED <<batch, phase>>
  PROVE  HeldInv'
<1>1. cur' = Idle /\ \A n \in Msgs : \A t : ~InHand(n, t)'
  BY GiveUpMoves, NothingInHand DEF InHand, Idle
<1>2. \A n \in Msgs, t \in Sources :
        at'[n][t] = at[n][t] \/ (at[n][t] = "await" /\ at'[n][t] = "record")
  BY GiveUpMoves
<1>3. ReaperAlive' <=> ReaperAlive
  BY DEF ReaperAlive
<1>4. NoTwins' /\ \A n \in Msgs, t \in Sources : Kept(n, t)'
  <2>1. CASE /\ chan' = <<>>
             /\ \A n \in Msgs, t \in Sources :
                  at'[n][t] = IF at[n][t] = "await" THEN "record" ELSE at[n][t]
    <3>1. NoTwins' /\ \A n, t : ~InChan(n, t)'
      BY <2>1 DEF NoTwins, InChan
    <3> QED BY <1>1, <2>1, <3>1 DEF Kept
  <2>2. CASE /\ chan' = chan
             /\ \A n \in Msgs, t \in Sources :
                  at'[n][t] = IF n = cur.msg /\ t = cur.src /\ at[n][t] = "await"
                              THEN "record" ELSE at[n][t]
    <3>1. (NoTwins' <=> NoTwins) /\ \A n, t : InChan(n, t)' <=> InChan(n, t)
      BY <2>2 DEF NoTwins, InChan
    <3> QED BY <1>1, <1>3, <2>2, <3>1 DEF Kept, HeldInv, InHand
  <2> QED BY <2>1, <2>2, GiveUpMoves
<1>5. ReaperGone'
  BY <1>2, <1>3 DEF ReaperGone, HeldInv
<1>6. NothingWhenDown'
  <2>1. chan' = <<>> \/ chan' = chan
    BY GiveUpMoves
  <2> QED BY <1>1, <1>2, <2>1 DEF NothingWhenDown, HeldInv
<1> QED BY <1>4, <1>5, <1>6 DEF HeldInv

\* The request in hand is answered.
LEMMA FinishHeld ==
  ASSUME TypeOK, HeldInv, Busy, cur' = Idle, NEW r \in Result,
         Reply(cur.msg, cur.src, r), UNCHANGED <<chan, batch, phase>>
  PROVE  HeldInv'
<1>1. PICK m \in Msgs, s \in Sources : m = cur.msg /\ s = cur.src
  BY DEF Busy, TypeOK, CurOK
<1>2. \A n \in Msgs, t \in Sources :
        at'[n][t] = IF n = m /\ t = s /\ at[n][t] = "await"
                    THEN "record" ELSE at[n][t]
  BY <1>1, ReplyMoves DEF TypeOK
<1>3. \A n \in Msgs : \A t : ~InHand(n, t)'
  BY DEF InHand, Idle
<1>4. (NoTwins' <=> NoTwins) /\ \A n, t : InChan(n, t)' <=> InChan(n, t)
  BY DEF NoTwins, InChan
<1>5. ReaperAlive' <=> ReaperAlive
  BY DEF ReaperAlive
<1>6. \A n \in Msgs, t \in Sources : Kept(n, t)'
  BY <1>1, <1>2, <1>3, <1>4, <1>5 DEF Kept, HeldInv, InHand
<1>7. ReaperGone'
  BY <1>2, <1>5 DEF ReaperGone, HeldInv
<1>8. NothingWhenDown'
  BY <1>2 DEF NothingWhenDown, HeldInv
<1> QED BY <1>4, <1>6, <1>7, <1>8 DEF HeldInv

LEMMA TakeHeld == ASSUME TypeOK, HeldInv, TakeRequest PROVE HeldInv'
<1>1. Head(chan) \in Request /\ chan \in Seq(Request) /\ chan # <<>>
      /\ chan' = Tail(chan) /\ ~Busy
  BY DEF TakeRequest, TypeOK, ManagerOK
<1>2. PICK m \in Msgs, s \in Sources : Head(chan) = [msg |-> m, src |-> s]
  BY <1>1 DEF Request
<1>3. /\ NoTwins' /\ InChan(m, s)
      /\ \A n, t : InChan(n, t)' <=> InChan(n, t) /\ ~(n = m /\ t = s)
  BY <1>1, <1>2, TakenOut DEF HeldInv
<1>4. \A n \in Msgs : \A t : ~InHand(n, t)
  BY <1>1 DEF Busy, InHand
<1>5. phase # "down" /\ phase' = phase /\ batch' = batch
  BY <1>1 DEF HeldInv, NothingWhenDown, TakeRequest
<1>6. ReaperAlive' <=> ReaperAlive
  BY <1>5 DEF ReaperAlive
<1>7. NothingWhenDown'
  BY <1>5 DEF NothingWhenDown
<1>8. CASE snap.ready
  <2>1. cur' = [msg |-> m, src |-> s, part |-> 1, tries |-> 1, onair |-> FALSE]
        /\ at' = at
    <3>1. /\ cur' = [Idle EXCEPT !.msg = Head(chan).msg, !.src = Head(chan).src]
          /\ at' = at
      BY <1>8 DEF TakeRequest
    <3>2. Head(chan).msg = m /\ Head(chan).src = s
      BY <1>2
    <3> QED BY <3>1, <3>2 DEF Idle
  <2>2. \A n \in Msgs, t \in Sources : InHand(n, t)' <=> n = m /\ t = s
    BY <2>1 DEF InHand
  <2>3. \A n \in Msgs, t \in Sources : Kept(n, t)'
    BY <1>3, <1>4, <1>6, <2>1, <2>2 DEF Kept, HeldInv
  <2>4. ReaperGone'
    BY <1>5, <1>6, <2>1 DEF ReaperGone, HeldInv
  <2> QED BY <1>3, <1>7, <2>3, <2>4 DEF HeldInv
<1>9. CASE ~snap.ready
  <2>1. cur' = cur /\ Reply(m, s, "queued")
    BY <1>2, <1>9 DEF TakeRequest
  <2>2. \A n \in Msgs, t \in Sources :
          at'[n][t] = IF n = m /\ t = s /\ at[n][t] = "await"
                      THEN "record" ELSE at[n][t]
    BY <2>1, ReplyMoves DEF TypeOK, Result
  <2>3. \A n \in Msgs : \A t : ~InHand(n, t)'
    BY <1>4, <2>1 DEF InHand
  <2>4. \A n \in Msgs, t \in Sources : Kept(n, t)'
    BY <1>3, <1>4, <1>6, <2>2, <2>3 DEF Kept, HeldInv
  <2>5. ReaperGone'
    BY <1>5, <1>6, <2>2 DEF ReaperGone, HeldInv
  <2> QED BY <1>3, <1>7, <2>4, <2>5 DEF HeldInv
<1> QED BY <1>8, <1>9

LEMMA ManagerHeld == ASSUME TypeOK, HeldInv, Manager PROVE HeldInv'
<1>1. CASE OpenPort \/ Initialize \/ RefreshStatus
  BY <1>1, HeldFrame DEF OpenPort, Initialize, RefreshStatus
<1>2. CASE OpenFails \/ LosePort
  BY <1>2, GiveUpHeld DEF OpenFails, LosePort
<1>3. ASSUME cur'.msg = cur.msg, cur'.src = cur.src, Busy,
             UNCHANGED <<at, chan, batch, phase>>
      PROVE  HeldInv'
  <2>1. phase # "down"
    BY <1>3 DEF HeldInv, NothingWhenDown, Busy, Idle
  <2>2. \A n \in Msgs, t \in Sources : InHand(n, t)' <=> InHand(n, t)
    BY <1>3 DEF InHand
  <2> QED BY <1>3, <2>1, <2>2, HeldFrame
<1>4. CASE SegmentOnAir
  BY <1>3, <1>4 DEF SegmentOnAir, TypeOK, CurOK
<1>5. CASE AnswerOk
  <2>1. CASE cur.part < Parts[cur.msg]
    BY <1>3, <1>5, <2>1 DEF AnswerOk, TypeOK, CurOK
  <2>2. CASE ~(cur.part < Parts[cur.msg])
    BY <1>5, <2>2, FinishHeld DEF AnswerOk, Result
  <2> QED BY <2>1, <2>2
<1>6. CASE AnswerErrorRetry
  BY <1>3, <1>6 DEF AnswerErrorRetry, TypeOK, CurOK
<1>7. CASE AnswerGiveUp
  BY <1>7, FinishHeld DEF AnswerGiveUp, Result
<1> QED BY <1>1, <1>2, <1>4, <1>5, <1>6, <1>7, TakeHeld DEF Manager

LEMMA DieHeld == ASSUME TypeOK, Die PROVE HeldInv'
<1>1. NoTwins' /\ \A n, t : ~InChan(n, t)'
  BY DEF Die, NoTwins, InChan
<1>2. \A n \in Msgs, t \in Sources : ~InHand(n, t)' /\ at'[n][t] = "idle"
  BY DEF Die, InHand, Idle, EveryCall
<1>3. \A n \in Msgs, t \in Sources : Kept(n, t)'
  BY <1>1, <1>2 DEF Kept
<1>4. ReaperGone' /\ NothingWhenDown'
  BY <1>2 DEF ReaperGone, NothingWhenDown, Die
<1> QED BY <1>1, <1>3, <1>4 DEF HeldInv

LEMMA CloseServerHeld ==
  ASSUME TypeOK, HeldInv, CloseServer PROVE HeldInv'
<1>1. /\ chan \in Seq(Request) /\ NoTwins /\ chan' = WithoutWaitingReaper
      /\ phase' = "draining" /\ batch' = {} /\ cur' = cur
  BY DEF CloseServer, TypeOK, ManagerOK, HeldInv
<1>2. /\ NoTwins'
      /\ \A n, t : InChan(n, t)' => InChan(n, t)
      /\ \A n : InChan(n, "api") => InChan(n, "api")'
  BY <1>1, AbortedOut
<1>3. \A n, t : InHand(n, t)' <=> InHand(n, t)
  BY <1>1 DEF InHand
<1>4. \A n \in Msgs, t \in Sources :
        at'[n][t] = IF t = "reaper" THEN "idle" ELSE at[n][t]
  BY DEF CloseServer, TypeOK, CallsOK
<1>5. ~ReaperAlive'
  BY <1>1 DEF ReaperAlive
<1>6. \A n \in Msgs, t \in Sources : Kept(n, t)'
  BY <1>2, <1>3, <1>4, <1>5 DEF Kept, HeldInv
<1>7. ReaperGone' /\ NothingWhenDown'
  BY <1>1, <1>4 DEF ReaperGone, NothingWhenDown
<1> QED BY <1>2, <1>6, <1>7 DEF HeldInv

LEMMA LifecycleHeld == ASSUME TypeOK, HeldInv, Lifecycle PROVE HeldInv'
<1>1. ASSUME UNCHANGED <<at, batch, chan, cur>>, ReaperAlive \/ phase = "down",
             phase' \in {"up", "closing"}
      PROVE  HeldInv'
  <2>1. ReaperAlive'
    BY <1>1 DEF ReaperAlive
  <2>2. \A n \in Msgs, t \in Sources : Kept(n, t)'
    <3>1. CASE ReaperAlive
      BY <1>1, <2>1, <3>1, HoldsSame DEF Kept, HeldInv
    <3>2. CASE phase = "down"
      <4>1. \A n \in Msgs, t \in Sources : ~InChan(n, t) /\ ~InHand(n, t)
        BY <3>2, NothingInEmpty, NothingInHand DEF HeldInv, NothingWhenDown
      <4>2. \A n \in Msgs, t \in Sources : at[n][t] # "await"
        BY <4>1 DEF HeldInv, Kept
      <4> QED BY <1>1, <4>1, <4>2, HoldsSame DEF Kept
    <3> QED BY <1>1, <3>1, <3>2
  <2>3. NoTwins' /\ ReaperGone' /\ NothingWhenDown'
    BY <1>1, <2>1, HoldsSame DEF HeldInv, ReaperGone, NothingWhenDown
  <2> QED BY <2>2, <2>3 DEF HeldInv
<1>2. CASE Terminate
  BY <1>1, <1>2 DEF Terminate, ReaperAlive
<1>3. CASE CloseChannel
  BY <1>3, HeldFrame DEF CloseChannel
<1>4. CASE Exit \/ ForceExit \/ Crash
  BY <1>4, DieHeld DEF Exit, ForceExit, Crash
<1>5. CASE Restart
  BY <1>1, <1>5 DEF Restart
<1> QED BY <1>2, <1>3, <1>4, <1>5, CloseServerHeld DEF Lifecycle

LEMMA HeldStep == ASSUME TypeOK, HeldInv, [Next]_vars PROVE HeldInv'
<1>1. CASE LoseNetwork \/ GainNetwork \/ UNCHANGED vars
  BY <1>1, HeldFrame DEF LoseNetwork, GainNetwork, vars
<1> QED BY <1>1, HandlerHeld, CallHeld, ReaperHeld, ManagerHeld, LifecycleHeld
        DEF Next

LEMMA InitHeld == ASSUME Init PROVE HeldInv
<1>1. chan = <<>> /\ cur = Idle /\ batch = {} /\ phase = "up"
      /\ \A m \in Msgs, s \in Sources : at[m][s] = "idle"
  BY DEF Init, EveryCall
<1>2. NoTwins /\ \A m \in Msgs, s \in Sources : ~InChan(m, s) /\ ~InHand(m, s)
  BY <1>1, NothingInEmpty, NothingInHand
<1> QED BY <1>1, <1>2 DEF HeldInv, Kept, ReaperGone, NothingWhenDown

\* A request is in the channel once at most: Held counts it as InChan says.
LEMMA HeldIs ==
  ASSUME TypeOK, HeldInv, NEW m \in Msgs, NEW s \in Sources
  PROVE  Held(m, s) = IF InChan(m, s) \/ InHand(m, s) THEN 1 ELSE 0
<1> DEFINE places == {i \in 1..Len(chan) : chan[i] = [msg |-> m, src |-> s]}
<1>1. CASE InChan(m, s)
  <2>1. PICK i \in 1..Len(chan) : chan[i] = [msg |-> m, src |-> s]
    BY <1>1 DEF InChan
  <2>2. places = {i}
    BY <2>1 DEF HeldInv, NoTwins
  <2>3. Cardinality(places) = 1
    BY <2>2, FS_Singleton
  <2>4. ~InHand(m, s)
    BY <1>1 DEF HeldInv, Kept
  <2> QED BY <1>1, <2>3, <2>4 DEF Held, InHand
<1>2. CASE ~InChan(m, s)
  <2>1. places = {}
    BY <1>2 DEF InChan
  <2>2. Cardinality(places) = 0
    BY <2>1, FS_EmptySet
  <2> QED BY <1>2, <2>2 DEF Held, InHand
<1> QED BY <1>1, <1>2

LEMMA HeldInvAlways == Spec => [](TypeOK /\ HeldInv)
<1>1. Init => TypeOK /\ HeldInv
  BY InitType, InitHeld
<1>2. TypeOK /\ HeldInv /\ [Next]_vars => (TypeOK /\ HeldInv)'
  BY NextType, HeldStep
<1> QED BY <1>1, <1>2, PTL DEF Spec

\* A caller that waits is held by the manager exactly once, and the manager
\* holds no dispatch task that does not wait: nobody is left waiting for ever
\* for want of a reply (ModemHandle::send_sms, run_modem_manager).
THEOREM NobodyForgotten == Spec => []AwaitedIsHeld
<1>1. TypeOK /\ HeldInv => AwaitedIsHeld
  BY HeldIs DEF AwaitedIsHeld, HeldInv, Kept
<1> QED BY <1>1, HeldInvAlways, PTL

-----------------------------------------------------------------------------
(* Before the insert there is nothing of a message but its handler.        *)

Unborn == \A m \in Msgs :
  /\ row[m] = "none" =>
       /\ at[m]["reaper"] = "idle" /\ at[m]["api"] \in {"idle", "insert"}
       /\ m \notin old /\ m \notin batch
  /\ at[m]["api"] = "insert" => row[m] = "none"
  /\ at[m]["reaper"] # "insert"

\* What the handler's insert and a status write do to the rows.
LEMMA Inserted ==
  ASSUME TypeOK, NEW m \in Msgs, InsertQueued(m)
  PROVE  \A n \in Msgs : row'[n] = IF n = m THEN "queued" ELSE row[n]
BY DEF InsertQueued, TypeOK, RowsOK

LEMMA Written ==
  ASSUME TypeOK, NEW m \in Msgs, NEW s \in Sources, WriteStatus(m, s)
  PROVE  \/ UNCHANGED row
         \/ \A n \in Msgs : row'[n] = IF n = m THEN res[m][s] ELSE row[n]
BY DEF WriteStatus, TypeOK, RowsOK

LEMMA UnbornFrame ==
  ASSUME Unborn, UNCHANGED <<row, old>>, batch' \subseteq batch \union old,
         \A n \in Msgs, t \in Sources :
           \/ at'[n][t] \in {at[n][t], "idle"}
           \/ at[n][t] \notin {"idle", "insert"} /\ at'[n][t] # "insert"
  PROVE  Unborn'
BY DEF Unborn

LEMMA UnbornStep ==
  ASSUME TypeOK, Unborn, [Next]_vars PROVE Unborn'
<1>1. ASSUME NEW m \in Msgs, Handler(m) PROVE Unborn'
  <2>1. CASE PrepareSend(m)
    BY <2>1, MovesOne DEF PrepareSend, Moves, Unborn
  <2>2. CASE AcceptMessage(m)
    <3>1. Moves(m, "api", "submit") /\ InsertQueued(m) /\ UNCHANGED <<old, batch>>
      BY <2>2, MovesOne DEF AcceptMessage, InsertQueued
    <3> QED BY <3>1, Inserted DEF Moves, Unborn
  <2>3. CASE AbandonInsert(m)
    <3>1. Moves(m, "api", "idle") /\ UNCHANGED <<old, batch>>
          /\ (UNCHANGED row \/ InsertQueued(m))
      BY <2>3, MovesOne DEF AbandonInsert, InsertQueued
    <3> QED BY <3>1, Inserted DEF Moves, Unborn
  <2>4. CASE SyncTimeout(m)
    BY <2>4, UnbornFrame DEF SyncTimeout
  <2> QED BY <1>1, <2>1, <2>2, <2>3, <2>4 DEF Handler
<1>2. ASSUME NEW m \in Msgs, NEW s \in Sources, Call(m, s) PROVE Unborn'
  <2>1. at[m][s] # "insert"
    BY <1>2 DEF Call, SubmitRequest, SubmitRefused, WriteStatus, LeaveQueued,
                Publish
  <2>2. PICK p \in {"await", "record", "publish", "idle"} : Moves(m, s, p)
    BY <1>2, MovesOne DEF Call
  <2>3. CASE WriteStatus(m, s)
    <3>1. at[m][s] = "record" /\ res[m][s] \in Resolved /\ UNCHANGED <<old, batch>>
      BY <2>3 DEF WriteStatus
    <3>2. row[m] # "none"
      BY <3>1 DEF Unborn
    <3> QED BY <2>2, <2>3, <3>1, <3>2, Written DEF Unborn, Moves
  <2>4. CASE ~WriteStatus(m, s)
    <3>1. UNCHANGED <<row, old, batch>> /\ at[m][s] # "idle"
      BY <1>2, <2>4 DEF Call, SubmitRequest, SubmitRefused, LeaveQueued, Publish
    <3> QED BY <2>1, <2>2, <3>1, UnbornFrame DEF Moves
  <2> QED BY <2>3, <2>4
<1>3. ASSUME NEW m \in Msgs, GrowOld(m) PROVE Unborn'
  BY <1>3 DEF GrowOld, Unborn
<1>4. ASSUME NEW m \in Msgs, ReaperSend(m) PROVE Unborn'
  <2>1. Moves(m, "reaper", "submit") /\ UNCHANGED <<row, old>>
        /\ m \in batch /\ batch' \subseteq batch
    BY <1>4, MovesOne DEF ReaperSend
  <2> QED BY <2>1 DEF Unborn, Moves
<1>5. CASE ReaperTick
  BY <1>5, UnbornFrame DEF ReaperTick
<1>6. ASSUME BackoffOrGiveUp, UNCHANGED <<row, old, batch>> PROVE Unborn'
  BY <1>6, GiveUpMoves, UnbornFrame
<1>7. ASSUME Busy, NEW r \in Result, Reply(cur.msg, cur.src, r),
             UNCHANGED <<row, old, batch>>
      PROVE  Unborn'
  <2>1. PICK m \in Msgs, s \in Sources : m = cur.msg /\ s = cur.src
    BY <1>7 DEF Busy, TypeOK, CurOK
  <2> QED BY <1>7, <2>1, ReplyMoves, UnbornFrame DEF TypeOK
<1>8. CASE TakeRequest
  <2>1. CASE snap.ready
    BY <1>8, <2>1, UnbornFrame DEF TakeRequest
  <2>2. CASE ~snap.ready
    <3>1. PICK m \in Msgs, s \in Sources : m = Head(chan).msg /\ s = Head(chan).src
      <4>1. Head(chan) \in Request
        BY <1>8 DEF TakeRequest, TypeOK, ManagerOK
      <4> QED BY <4>1 DEF Request
    <3>2. Reply(m, s, "queued") /\ UNCHANGED <<row, old, batch>>
      BY <1>8, <2>2, <3>1 DEF TakeRequest
    <3> QED BY <3>2, ReplyMoves, UnbornFrame DEF TypeOK, Result
  <2> QED BY <2>1, <2>2
<1>9. CASE Manager
  BY <1>6, <1>7, <1>8, <1>9, UnbornFrame
     DEF Manager, OpenPort, OpenFails, Initialize, LosePort, RefreshStatus,
         SegmentOnAir, AnswerOk, AnswerErrorRetry, AnswerGiveUp, Result
<1>10. CASE Die
  BY <1>10, UnbornFrame DEF Die, EveryCall
<1>11. CASE CloseServer
  <2>1. UNCHANGED <<row, old>> /\ batch' = {}
        /\ \A n \in Msgs, t \in Sources : at'[n][t] \in {at[n][t], "idle"}
    BY <1>11 DEF CloseServer, TypeOK, CallsOK
  <2> QED BY <2>1, UnbornFrame
<1>12. CASE Terminate \/ CloseChannel \/ Restart \/ LoseNetwork \/ GainNetwork
            \/ UNCHANGED vars
  BY <1>12, UnbornFrame DEF Terminate, CloseChannel, Restart, LoseNetwork,
                            GainNetwork, vars
<1> QED BY <1>1, <1>2, <1>3, <1>4, <1>5, <1>9, <1>10, <1>11, <1>12
        DEF Next, Lifecycle, Exit, ForceExit, Crash

-----------------------------------------------------------------------------
(* How often a segment may still go out. A call that is on its way to the  *)
(* modem, or there and not past the segment, may send it; so may, one day, *)
(* a message that no call has in its care. The copies that are out and the *)
(* copies that may still come are at most one, plus one for every slip.    *)

Ahead(m, s, p) == InHand(m, s) /\ (cur.part < p \/ (cur.part = p /\ ~cur.onair))
Pends(m, s, p) == at[m][s] = "submit" \/ InChan(m, s) \/ Ahead(m, s, p)
Reserved(m) ==
  /\ row[m] \in {"none", "queued"}
  /\ \A s \in Sources : at[m][s] # "submit" /\ ~Unrecorded(m, s)
One(b) == IF b THEN 1 ELSE 0
Charge(m, p) ==
  One(Pends(m, "api", p)) + One(Pends(m, "reaper", p)) + One(Reserved(m))
Budget(m, p) == aired[m][p] + Charge(m, p) <= 1 + slips[m]

LEMMA ChargeType == \A m, p : Charge(m, p) \in 0..3
BY DEF Charge, One

LEMMA Counts ==
  ASSUME TypeOK
  PROVE  \A m \in Msgs : /\ slips[m] \in Nat
                         /\ \A p \in Segments(m) : aired[m][p] \in Nat
BY DEF TypeOK, LifeOK, AiredOK

\* The account of a segment: what an action adds to the copies that may come,
\* it takes from those that were expected, or it is a slip.
LEMMA Account ==
  ASSUME TypeOK, [Next]_vars, NEW n \in Msgs, NEW p \in Segments(n), Budget(n, p),
         aired'[n][p] + Charge(n, p)' + slips[n] <= aired[n][p] + Charge(n, p) + slips'[n]
  PROVE  Budget(n, p)'
<1>1. TypeOK'
  BY NextType
<1>2. /\ slips[n] \in Nat /\ aired[n][p] \in Nat
      /\ slips'[n] \in Nat /\ aired'[n][p] \in Nat
  <2>1. \A q \in Segments(n) : aired'[n][q] \in Nat
    BY <1>1 DEF TypeOK, AiredOK, Segments
  <2>2. slips'[n] \in Nat
    BY <1>1 DEF TypeOK, LifeOK
  <2> QED BY <2>1, <2>2, Counts
<1>3. Charge(n, p) \in 0..3 /\ Charge(n, p)' \in 0..3
  BY ChargeType DEF Charge, One
<1>4. (aired[n][p] + Charge(n, p) <= 1 + slips[n])
  BY DEF Budget
<1> DEFINE a == aired[n][p]
           b == aired'[n][p]
           c == Charge(n, p)
           d == Charge(n, p)'
           e == slips[n]
           f == slips'[n]
<1>5. a \in Nat /\ b \in Nat /\ c \in Int /\ d \in Int /\ e \in Nat /\ f \in Nat
  BY <1>2, <1>3
<1>6. b + d + e <= a + c + f /\ a + c <= 1 + e
  BY <1>4
<1> HIDE DEF a, b, c, d, e, f
<1>7. b + d <= 1 + f
  BY <1>5, <1>6
<1> QED BY <1>7 DEF Budget, b, d, f

\* A step that leaves the message's charge as it was, or lets go of some.
LEMMA ChargeFrame ==
  ASSUME NEW n \in Msgs, NEW p \in Segments(n),
         \A t \in Sources : /\ at'[n][t] = "submit" => at[n][t] = "submit"
                            /\ InChan(n, t)' => InChan(n, t)
                            /\ Ahead(n, t, p)' => Ahead(n, t, p),
         row'[n] \in {"none", "queued"} => row[n] \in {"none", "queued"},
         \A t \in Sources : at[n][t] = "submit" \/ Unrecorded(n, t) =>
                            at'[n][t] = "submit" \/ Unrecorded(n, t)'
  PROVE  Charge(n, p)' <= Charge(n, p)
<1>1. \A t \in Sources : Pends(n, t, p)' => Pends(n, t, p)
  BY DEF Pends
<1>2. Reserved(n)' => Reserved(n)
  BY DEF Reserved
<1> QED BY <1>1, <1>2 DEF Charge, One

LEMMA BudgetFrame ==
  ASSUME TypeOK, [Next]_vars, NEW n \in Msgs, NEW p \in Segments(n), Budget(n, p),
         UNCHANGED aired, slips'[n] >= slips[n], Charge(n, p)' <= Charge(n, p)
  PROVE  Budget(n, p)'
<1>1. TypeOK'
  BY NextType
<1>2. slips[n] \in Nat /\ slips'[n] \in Nat /\ aired[n][p] \in Nat
  BY <1>1, Counts DEF TypeOK, LifeOK
<1>3. Charge(n, p) \in 0..3 /\ Charge(n, p)' \in 0..3
  BY ChargeType DEF Charge, One
<1> DEFINE a == aired[n][p]
           c == Charge(n, p)
           d == Charge(n, p)'
           e == slips[n]
           f == slips'[n]
<1>4. a \in Nat /\ c \in Int /\ d \in Int /\ e \in Nat /\ f \in Nat /\ d <= c /\ e <= f
  BY <1>2, <1>3
<1> HIDE DEF a, c, d, e, f
<1>5. a + d + e <= a + c + f
  BY <1>4
<1>6. aired'[n][p] = a
  BY DEF a
<1> QED BY <1>5, <1>6, Account DEF a, c, d, e, f

LEMMA AheadSame ==
  ASSUME UNCHANGED <<chan, cur>>
  PROVE  \A n, t, p : (InChan(n, t)' <=> InChan(n, t)) /\ (Ahead(n, t, p)' <=> Ahead(n, t, p))
BY DEF InChan, InHand, Ahead

\* Nothing of the call of s for m is with the manager.
LEMMA NotHeld ==
  ASSUME HeldInv, NEW m \in Msgs, NEW s \in Sources, at[m][s] # "await",
         s = "api" \/ ReaperAlive \/ at[m][s] # "idle"
  PROVE  ~InChan(m, s) /\ ~InHand(m, s) /\ \A p : ~Ahead(m, s, p)
BY DEF HeldInv, Kept, ReaperGone, Ahead

LEMMA HandlerBudget ==
  ASSUME TypeOK, HeldInv, Unborn, [Next]_vars, NEW n \in Msgs, NEW p \in Segments(n),
         Budget(n, p), NEW m \in Msgs, Handler(m) \/ GrowOld(m)
  PROVE  Budget(n, p)'
<1> SUFFICES Charge(n, p)' <= Charge(n, p)
  <2>1. UNCHANGED <<aired, slips>> /\ slips[n] \in Nat
    BY Counts DEF Handler, PrepareSend, AcceptMessage, AbandonInsert, SyncTimeout,
                  GrowOld
  <2> QED BY <2>1, BudgetFrame
<1>0. UNCHANGED <<chan, cur, res>>
  BY DEF Handler, PrepareSend, AcceptMessage, AbandonInsert, SyncTimeout, GrowOld
<1>1. CASE PrepareSend(m)
  <2>1. Moves(m, "api", "insert") /\ at[m]["api"] = "idle" /\ UNCHANGED row
    BY <1>1, MovesOne DEF PrepareSend
  <2> QED BY <1>0, <2>1, AheadSame, ChargeFrame DEF Moves, Unrecorded
<1>2. CASE AcceptMessage(m)
  <2>1. /\ Moves(m, "api", "submit") /\ at[m]["api"] = "insert"
        /\ \A k \in Msgs : row'[k] = IF k = m THEN "queued" ELSE row[k]
    BY <1>2, MovesOne, Inserted DEF AcceptMessage
  <2>2. CASE n = m
    <3>1. /\ row[n] = "none" /\ at[n]["reaper"] = "idle" /\ ~Unrecorded(n, "api")
          /\ ~Unrecorded(n, "reaper")
      BY <2>1, <2>2 DEF Unborn, Unrecorded
    <3>2. Reserved(n) /\ ~Reserved(n)'
      BY <2>1, <2>2, <3>1 DEF Reserved, Moves
    <3>3. ~Pends(n, "api", p)
      BY <2>1, <2>2, NotHeld DEF Pends
    <3>4. Pends(n, "reaper", p)' <=> Pends(n, "reaper", p)
      BY <1>0, <2>1, AheadSame DEF Pends, Moves
    <3> QED BY <3>2, <3>3, <3>4 DEF Charge, One
  <2>3. CASE n # m
    BY <1>0, <2>1, <2>3, AheadSame, ChargeFrame DEF Moves, Unrecorded
  <2> QED BY <2>2, <2>3
<1>3. CASE AbandonInsert(m)
  <2>1. /\ Moves(m, "api", "idle") /\ at[m]["api"] = "insert"
        /\ UNCHANGED row \/ InsertQueued(m)
    BY <1>3, MovesOne DEF AbandonInsert
  <2>2. row'[n] \in {"none", "queued"} => row[n] \in {"none", "queued"}
    BY <2>1, Inserted DEF Unborn
  <2> QED BY <1>0, <2>1, <2>2, AheadSame, ChargeFrame DEF Moves, Unrecorded
<1>4. CASE SyncTimeout(m) \/ GrowOld(m)
  BY <1>0, <1>4, AheadSame, ChargeFrame DEF SyncTimeout, GrowOld, Unrecorded
<1> QED BY <1>1, <1>2, <1>3, <1>4 DEF Handler

LEMMA CallBudget ==
  ASSUME TypeOK, HeldInv, Unborn, [Next]_vars, NEW n \in Msgs, NEW p \in Segments(n),
         Budget(n, p), NEW m \in Msgs, NEW s \in Sources, Call(m, s)
  PROVE  Budget(n, p)'
<1>1. UNCHANGED <<aired, cur>> /\ slips'[n] >= slips[n]
  BY Counts DEF Call, SubmitRequest, SubmitRefused, WriteStatus, LeaveQueued,
                Publish, TypeOK, LifeOK
<1> SUFFICES Charge(n, p)' <= Charge(n, p)
               \/ (Charge(n, p)' <= Charge(n, p) + 1 /\ slips'[n] = slips[n] + 1)
  <2>1. CASE Charge(n, p)' <= Charge(n, p)
    BY <1>1, <2>1, BudgetFrame
  <2>2. CASE Charge(n, p)' <= Charge(n, p) + 1 /\ slips'[n] = slips[n] + 1
    <3>1. Charge(n, p) \in 0..3 /\ Charge(n, p)' \in 0..3
      BY ChargeType DEF Charge, One
    <3>2. slips[n] \in Nat /\ aired[n][p] \in Nat /\ aired'[n][p] = aired[n][p]
      BY <1>1, Counts
    <3>3. aired'[n][p] + Charge(n, p)' + slips[n]
            <= aired[n][p] + Charge(n, p) + slips'[n]
      BY <2>2, <3>1, <3>2
    <3> QED BY <3>3, Account
  <2> QED BY <2>1, <2>2
<1>2. CASE SubmitRequest(m, s)
  <2>1. /\ Moves(m, s, "await") /\ at[m][s] = "submit" /\ UNCHANGED <<row, res>>
        /\ chan \in Seq(Request) /\ NoTwins
        /\ chan' = Append(chan, [msg |-> m, src |-> s])
    BY <1>2, MovesOne DEF SubmitRequest, TypeOK, ManagerOK, HeldInv
  <2>2. \A k, t : InChan(k, t)' <=> InChan(k, t) \/ (k = m /\ t = s)
    BY <2>1, NotHeld, SubmittedIn
  <2>3. \A k, t, q : Ahead(k, t, q)' <=> Ahead(k, t, q)
    BY <1>1 DEF Ahead, InHand
  <2>4. \A t \in Sources : Pends(n, t, p)' => Pends(n, t, p)
    BY <2>1, <2>2, <2>3 DEF Pends, Moves
  <2>5. Reserved(n)' => Reserved(n)
    BY <2>1 DEF Reserved, Unrecorded, Moves
  <2> QED BY <2>4, <2>5, ChargeType DEF Charge, One
<1>3. CASE SubmitRefused(m, s)
  <2>1. /\ Moves(m, s, "record") /\ at[m][s] = "submit" /\ UNCHANGED <<chan, row>>
        /\ Gets(m, s, "failed")
    BY <1>3, MovesOne, GetsOne DEF SubmitRefused
  <2>2. \A t \in Sources : Pends(n, t, p)' => Pends(n, t, p)
    BY <1>1, <2>1, AheadSame DEF Pends, Moves
  <2>3. Reserved(n)' => Reserved(n)
    BY <2>1 DEF Reserved, Unrecorded, Moves, Gets
  <2> QED BY <2>2, <2>3 DEF Charge, One
<1>4. CASE WriteStatus(m, s)
  <2>1. /\ Moves(m, s, "publish") /\ at[m][s] = "record" /\ res[m][s] \in Resolved
        /\ UNCHANGED <<chan, res>>
    BY <1>4, MovesOne DEF WriteStatus
  <2>2. \A t \in Sources : Pends(n, t, p)' => Pends(n, t, p)
    BY <1>1, <2>1, AheadSame DEF Pends, Moves
  <2>3. CASE n = m /\ UNCHANGED row
    <3>1. slips'[n] = slips[n] + 1 \/ row[n] \in Resolved
      BY <1>4, <2>3 DEF WriteStatus, TypeOK, LifeOK, RowsOK
    <3>2. row[n] \in Resolved => ~Reserved(n)'
      BY <2>3 DEF Reserved
    <3> QED BY <2>2, <3>1, <3>2 DEF Charge, One
  <2>4. CASE n = m /\ \A k \in Msgs : row'[k] = IF k = m THEN res[m][s] ELSE row[k]
    <3>1. ~Reserved(n)'
      BY <2>1, <2>4 DEF Reserved
    <3> QED BY <2>2, <3>1 DEF Charge, One
  <2>5. CASE n # m
    <3>1. row'[n] = row[n]
      BY <1>4, <2>5, Written
    <3> QED BY <1>1, <2>1, <2>5, <3>1, AheadSame, ChargeFrame DEF Moves, Unrecorded
  <2> QED BY <1>4, <2>3, <2>4, <2>5, Written
<1>5. CASE LeaveQueued(m, s)
  <2>1. /\ Moves(m, s, "idle") /\ at[m][s] = "record" /\ res[m][s] = "queued"
        /\ UNCHANGED <<chan, row>>
        /\ Gets(m, s, "none")
    BY <1>5, MovesOne, GetsOne DEF LeaveQueued
  <2>2. \A t \in Sources : Pends(n, t, p)' => Pends(n, t, p)
    BY <1>1, <2>1, AheadSame DEF Pends, Moves
  <2>3. Reserved(n)' => Reserved(n)
    BY <2>1 DEF Reserved, Unrecorded, Moves, Gets
  <2> QED BY <2>2, <2>3 DEF Charge, One
<1>6. CASE Publish(m, s)
  <2>1. /\ Moves(m, s, "idle") /\ at[m][s] = "publish" /\ UNCHANGED <<chan, row>>
        /\ Gets(m, s, "none")
    BY <1>6, MovesOne, GetsOne DEF Publish
  <2>2. \A t \in Sources : Pends(n, t, p)' => Pends(n, t, p)
    BY <1>1, <2>1, AheadSame DEF Pends, Moves
  <2>3. Reserved(n)' => Reserved(n)
    BY <2>1 DEF Reserved, Unrecorded, Moves, Gets
  <2> QED BY <2>2, <2>3 DEF Charge, One
<1> QED BY <1>2, <1>3, <1>4, <1>5, <1>6 DEF Call

LEMMA ReaperBudget ==
  ASSUME TypeOK, HeldInv, Unborn, [Next]_vars, NEW n \in Msgs, NEW p \in Segments(n),
         Budget(n, p), ReaperTick \/ \E m \in Msgs : ReaperSend(m)
  PROVE  Budget(n, p)'
<1>1. CASE ReaperTick
  <2>1. UNCHANGED <<row, at, res, chan, cur, aired, slips>> /\ slips[n] \in Nat
    BY <1>1, Counts DEF ReaperTick
  <2>2. \A t \in Sources : Unrecorded(n, t)' <=> Unrecorded(n, t)
    BY <2>1 DEF Unrecorded
  <2>3. Charge(n, p)' <= Charge(n, p)
    BY <2>1, <2>2, AheadSame, ChargeFrame
  <2> QED BY <2>1, <2>3, BudgetFrame
<1>2. ASSUME NEW m \in Msgs, ReaperSend(m) PROVE Budget(n, p)'
  <2>1. /\ Moves(m, "reaper", "submit") /\ at[m]["reaper"] = "idle" /\ ReaperAlive
        /\ UNCHANGED <<row, res, chan, cur, aired>>
    BY <1>2, MovesOne DEF ReaperSend
  <2>2. CASE n = m
    <3>1. ~Pends(n, "reaper", p) /\ ~Reserved(n)'
      BY <2>1, <2>2, NotHeld DEF Pends, Reserved, Moves
    <3>2. Pends(n, "api", p)' <=> Pends(n, "api", p)
      BY <2>1, AheadSame DEF Pends, Moves
    <3>3. CASE Overlaps(n)
      <4>1. slips'[n] = slips[n] + 1
        BY <1>2, <2>2, <3>3 DEF ReaperSend, TypeOK, LifeOK
      <4>2. Charge(n, p)' <= Charge(n, p) + 1
        BY <3>1, <3>2 DEF Charge, One
      <4>3. Charge(n, p) \in 0..3 /\ Charge(n, p)' \in 0..3
        BY ChargeType DEF Charge, One
      <4>4. slips[n] \in Nat /\ aired[n][p] \in Nat /\ aired'[n][p] = aired[n][p]
        BY <2>1, Counts
      <4>5. aired'[n][p] + Charge(n, p)' + slips[n]
              <= aired[n][p] + Charge(n, p) + slips'[n]
        BY <4>1, <4>2, <4>3, <4>4
      <4> QED BY <4>5, Account
    <3>4. CASE ~Overlaps(n)
      <4>1. Reserved(n)
        BY <2>1, <2>2, <3>4 DEF Overlaps, Reserved, Unrecorded
      <4>2. Charge(n, p)' <= Charge(n, p)
        BY <3>1, <3>2, <4>1 DEF Charge, One
      <4>3. slips'[n] >= slips[n]
        BY <1>2, <2>2, <3>4 DEF ReaperSend, TypeOK, LifeOK
      <4> QED BY <2>1, <4>2, <4>3, BudgetFrame
    <3> QED BY <3>3, <3>4
  <2>3. CASE n # m
    <3>1. slips'[n] >= slips[n]
      BY <1>2, <2>3 DEF ReaperSend, TypeOK, LifeOK
    <3> QED BY <2>1, <2>3, <3>1, AheadSame, ChargeFrame, BudgetFrame DEF Moves, Unrecorded
  <2> QED BY <2>2, <2>3
<1> QED BY <1>1, <1>2

LEMMA StillBudget ==
  ASSUME TypeOK, [Next]_vars, NEW n \in Msgs, NEW p \in Segments(n), Budget(n, p),
         UNCHANGED <<row, at, res, chan, cur, aired, slips>>
  PROVE  Budget(n, p)'
<1>1. \A t \in Sources : Unrecorded(n, t)' <=> Unrecorded(n, t)
  BY DEF Unrecorded
<1>2. Charge(n, p)' <= Charge(n, p)
  BY <1>1, AheadSame, ChargeFrame
<1>3. slips'[n] >= slips[n]
  BY Counts
<1> QED BY <1>2, <1>3, BudgetFrame

\* The manager lets go of requests: their callers have a result.
LEMMA GiveUpBudget ==
  ASSUME TypeOK, [Next]_vars, NEW n \in Msgs, NEW p \in Segments(n), Budget(n, p),
         BackoffOrGiveUp, UNCHANGED <<row, aired, slips>>
  PROVE  Budget(n, p)'
<1>1. \A t \in Sources : ~Ahead(n, t, p)'
  BY GiveUpMoves DEF Ahead, InHand, Idle
<1>2. \A t \in Sources : InChan(n, t)' => InChan(n, t)
  <2>1. chan' = <<>> \/ chan' = chan
    BY GiveUpMoves
  <2> QED BY <2>1 DEF InChan
<1>3. \A t \in Sources :
        \/ at'[n][t] = at[n][t] /\ res'[n][t] = res[n][t]
        \/ at[n][t] = "await" /\ at'[n][t] = "record" /\ res'[n][t] = "failed"
  BY GiveUpMoves
<1>4. \A t \in Sources : (Unrecorded(n, t)' <=> Unrecorded(n, t))
                         /\ (at'[n][t] = "submit" <=> at[n][t] = "submit")
  BY <1>3 DEF Unrecorded
<1>5. Charge(n, p)' <= Charge(n, p)
  BY <1>1, <1>2, <1>4, ChargeFrame
<1>6. slips'[n] >= slips[n]
  BY Counts
<1> QED BY <1>5, <1>6, BudgetFrame

LEMMA FinishBudget ==
  ASSUME TypeOK, [Next]_vars, NEW n \in Msgs, NEW p \in Segments(n), Budget(n, p),
         Busy, cur' = Idle, NEW r \in Resolved, Reply(cur.msg, cur.src, r),
         UNCHANGED <<row, chan, aired, slips>>
  PROVE  Budget(n, p)'
<1>1. PICK m \in Msgs, s \in Sources : m = cur.msg /\ s = cur.src
  BY DEF Busy, TypeOK, CurOK
<1>2. \A t \in Sources : ~Ahead(n, t, p)'
  BY DEF Ahead, InHand, Idle
<1>3. \A t \in Sources : InChan(n, t)' => InChan(n, t)
  BY DEF InChan
<1>4. r \in Result
  BY DEF Result
<1>5. \A t \in Sources :
        \/ at'[n][t] = at[n][t] /\ res'[n][t] = res[n][t]
        \/ at[n][t] = "await" /\ at'[n][t] = "record" /\ res'[n][t] = r
  BY <1>1, <1>4, ReplyMoves DEF TypeOK
<1>6. \A t \in Sources : (Unrecorded(n, t)' <=> Unrecorded(n, t))
                         /\ (at'[n][t] = "submit" <=> at[n][t] = "submit")
  BY <1>5 DEF Unrecorded
<1>7. Charge(n, p)' <= Charge(n, p)
  BY <1>2, <1>3, <1>6, ChargeFrame
<1>8. slips'[n] >= slips[n]
  BY Counts
<1> QED BY <1>7, <1>8, BudgetFrame

LEMMA TakeBudget ==
  ASSUME TypeOK, HeldInv, [Next]_vars, NEW n \in Msgs, NEW p \in Segments(n),
         Budget(n, p), TakeRequest
  PROVE  Budget(n, p)'
<1>1. /\ chan \in Seq(Request) /\ chan # <<>> /\ Head(chan) \in Request
      /\ chan' = Tail(chan) /\ ~Busy /\ UNCHANGED <<row, aired, slips>>
  BY DEF TakeRequest, TypeOK, ManagerOK
<1>2. PICK m \in Msgs, s \in Sources : Head(chan) = [msg |-> m, src |-> s]
  BY <1>1 DEF Request
<1>3. /\ InChan(m, s)
      /\ \A k, t : InChan(k, t)' <=> InChan(k, t) /\ ~(k = m /\ t = s)
  BY <1>1, <1>2, TakenOut DEF HeldInv
<1>4. slips'[n] >= slips[n]
  BY <1>1, Counts
<1> SUFFICES Charge(n, p)' <= Charge(n, p)
  BY <1>1, <1>4, BudgetFrame
<1>5. CASE snap.ready
  <2>1. cur' = [Idle EXCEPT !.msg = Head(chan).msg, !.src = Head(chan).src]
        /\ UNCHANGED <<at, res>>
    BY <1>5 DEF TakeRequest
  <2>2. cur'.msg = m /\ cur'.src = s
    BY <1>2, <2>1 DEF Idle
  <2>3. \A t \in Sources : Pends(n, t, p)' => Pends(n, t, p)
    BY <1>3, <2>1, <2>2 DEF Pends, Ahead, InHand
  <2>4. Reserved(n)' => Reserved(n)
    BY <1>1, <2>1 DEF Reserved, Unrecorded
  <2> QED BY <2>3, <2>4 DEF Charge, One
<1>6. CASE ~snap.ready
  <2>1. cur' = cur /\ Reply(m, s, "queued")
    BY <1>2, <1>6 DEF TakeRequest
  <2>2. /\ \A k \in Msgs, t \in Sources :
             at'[k][t] = IF k = m /\ t = s /\ at[k][t] = "await"
                         THEN "record" ELSE at[k][t]
        /\ \A k \in Msgs, t \in Sources :
             res'[k][t] = IF k = m /\ t = s /\ at[k][t] = "await"
                          THEN "queued" ELSE res[k][t]
    BY <2>1, ReplyMoves DEF TypeOK, Result
  <2>3. \A k \in Msgs : \A t : ~Ahead(k, t, p) /\ ~Ahead(k, t, p)'
    BY <1>1, <2>1 DEF Ahead, InHand, Busy
  <2>4. \A t \in Sources :
          Pends(n, t, p)' => Pends(n, t, p) /\ ~(n = m /\ t = s /\ at[n][t] = "await")
    BY <1>3, <2>2, <2>3 DEF Pends
  <2>5. CASE n = m /\ at[n][s] = "await"
    <3>1. Pends(n, s, p) /\ ~Pends(n, s, p)'
      BY <1>3, <2>4, <2>5 DEF Pends
    <3> QED BY <2>4, <2>5, <3>1 DEF Charge, One
  <2>6. CASE ~(n = m /\ at[n][s] = "await")
    <3>1. \A t \in Sources : at'[n][t] = at[n][t] /\ res'[n][t] = res[n][t]
      BY <2>2, <2>6
    <3>2. Reserved(n)' => Reserved(n)
      BY <1>1, <3>1 DEF Reserved, Unrecorded
    <3> QED BY <2>4, <3>2 DEF Charge, One
  <2> QED BY <2>5, <2>6
<1> QED BY <1>5, <1>6

\* The segment that goes out is one that was expected.
LEMMA AirBudget ==
  ASSUME TypeOK, HeldInv, [Next]_vars, NEW n \in Msgs, NEW p \in Segments(n),
         Budget(n, p), SegmentOnAir
  PROVE  Budget(n, p)'
<1>1. PICK m \in Msgs, s \in Sources : m = cur.msg /\ s = cur.src
  BY DEF SegmentOnAir, Busy, TypeOK, CurOK
<1>2. /\ ~cur.onair /\ cur.part \in Segments(m)
      /\ cur' = [cur EXCEPT !.onair = TRUE]
      /\ aired' = [aired EXCEPT ![m][cur.part] = @ + 1]
      /\ UNCHANGED <<row, at, res, chan, slips>>
  BY <1>1 DEF SegmentOnAir, Busy, TypeOK, CurOK
<1>3. /\ cur'.msg = cur.msg /\ cur'.src = cur.src /\ cur'.part = cur.part
      /\ cur'.onair
  BY <1>2 DEF TypeOK, CurOK
<1>4. ~InChan(m, s) /\ at[m][s] # "submit"
  BY <1>1 DEF HeldInv, Kept, InHand, ReaperGone
<1>5. \A t \in Sources : Ahead(n, t, p)' <=> Ahead(n, t, p) /\ p # cur.part
  BY <1>2, <1>3 DEF Ahead, InHand, Segments, TypeOK, CurOK
<1>6. \A k, t : InChan(k, t)' <=> InChan(k, t)
  BY <1>2 DEF InChan
<1>7. \A t \in Sources : Pends(n, t, p)' => Pends(n, t, p)
  BY <1>2, <1>5, <1>6 DEF Pends
<1>8. Reserved(n)' <=> Reserved(n)
  BY <1>2 DEF Reserved, Unrecorded
<1>9. Charge(n, p) \in 0..3 /\ Charge(n, p)' \in 0..3
  BY ChargeType DEF Charge, One
<1>10. slips[n] \in Nat /\ aired[n][p] \in Nat
  BY Counts
<1>11. CASE n = m /\ p = cur.part
  <2>1. Ahead(m, s, p)
    BY <1>1, <1>2, <1>11 DEF Ahead, InHand
  <2>2. Pends(n, s, p) /\ ~Pends(n, s, p)'
    BY <1>2, <1>4, <1>5, <1>6, <1>11, <2>1 DEF Pends
  <2>3. Charge(n, p)' <= Charge(n, p) - 1
    BY <1>7, <1>8, <2>2 DEF Charge, One
  <2>4. aired'[n][p] = aired[n][p] + 1
    BY <1>2, <1>11 DEF TypeOK, AiredOK
  <2>5. aired'[n][p] + Charge(n, p)' + slips[n] <= aired[n][p] + Charge(n, p) + slips'[n]
    BY <1>2, <1>9, <1>10, <2>3, <2>4
  <2> QED BY <2>5, Account
<1>12. CASE ~(n = m /\ p = cur.part)
  <2>1. Charge(n, p)' <= Charge(n, p)
    BY <1>7, <1>8 DEF Charge, One
  <2>2. aired'[n][p] = aired[n][p]
    BY <1>2, <1>12 DEF TypeOK, AiredOK
  <2>3. aired'[n][p] + Charge(n, p)' + slips[n] <= aired[n][p] + Charge(n, p) + slips'[n]
    BY <1>2, <1>9, <1>10, <2>1, <2>2
  <2> QED BY <2>3, Account
<1> QED BY <1>11, <1>12

\* On to the next segment.
LEMMA AdvanceBudget ==
  ASSUME TypeOK, [Next]_vars, NEW n \in Msgs, NEW p \in Segments(n), Budget(n, p),
         AnswerOk, cur.part < Parts[cur.msg]
  PROVE  Budget(n, p)'
<1>1. /\ cur' = [cur EXCEPT !.part = @ + 1, !.tries = 1, !.onair = FALSE]
      /\ UNCHANGED <<row, at, res, chan, aired, slips>>
  BY DEF AnswerOk
<1>2. /\ cur'.msg = cur.msg /\ cur'.src = cur.src /\ cur'.part = cur.part + 1
      /\ cur.part \in Nat /\ p \in Nat
  BY <1>1 DEF TypeOK, CurOK, Segments
<1>3. \A t \in Sources : Ahead(n, t, p)' => Ahead(n, t, p)
  <2>1. cur'.part < p \/ cur'.part = p => cur.part < p
    BY <1>2
  <2> QED BY <1>2, <2>1 DEF Ahead, InHand
<1>4. \A t \in Sources : /\ Unrecorded(n, t)' <=> Unrecorded(n, t)
                         /\ InChan(n, t)' <=> InChan(n, t)
  BY <1>1 DEF Unrecorded, InChan
<1>5. Charge(n, p)' <= Charge(n, p)
  BY <1>1, <1>3, <1>4, ChargeFrame
<1>6. slips'[n] >= slips[n]
  BY <1>1, Counts
<1> QED BY <1>1, <1>5, <1>6, BudgetFrame

\* Another attempt may send the segment again; if it was out, that is a slip.
LEMMA RetryBudget ==
  ASSUME TypeOK, HeldInv, [Next]_vars, NEW n \in Msgs, NEW p \in Segments(n),
         Budget(n, p), AnswerErrorRetry
  PROVE  Budget(n, p)'
<1>1. PICK m \in Msgs, s \in Sources : m = cur.msg /\ s = cur.src
  BY DEF AnswerErrorRetry, Busy, TypeOK, CurOK
<1>2. /\ cur' = [cur EXCEPT !.tries = @ + 1, !.onair = FALSE]
      /\ UNCHANGED <<row, at, res, chan, aired>>
  BY DEF AnswerErrorRetry
<1>3. cur'.msg = cur.msg /\ cur'.src = cur.src /\ cur'.part = cur.part
  BY <1>2 DEF TypeOK, CurOK
<1>4. \A t \in Sources : InChan(n, t)' <=> InChan(n, t)
  BY <1>2 DEF InChan
<1>5. Reserved(n)' <=> Reserved(n)
  BY <1>2 DEF Reserved, Unrecorded
<1>6. slips[n] \in Nat /\ aired[n][p] \in Nat /\ aired'[n][p] = aired[n][p]
  BY <1>2, Counts
<1>7. Charge(n, p) \in 0..3 /\ Charge(n, p)' \in 0..3
  BY ChargeType DEF Charge, One
<1>8. CASE n # m \/ cur.onair = FALSE
  <2>1. \A t \in Sources : Ahead(n, t, p)' => Ahead(n, t, p)
    BY <1>1, <1>3, <1>8 DEF Ahead, InHand
  <2>2. \A t \in Sources : Pends(n, t, p)' => Pends(n, t, p)
    BY <1>2, <1>4, <2>1 DEF Pends
  <2>3. Charge(n, p)' <= Charge(n, p)
    BY <1>5, <2>2 DEF Charge, One
  <2>4. slips'[n] = slips[n]
    BY <1>1, <1>8 DEF AnswerErrorRetry, TypeOK, LifeOK
  <2>5. slips'[n] >= slips[n]
    BY <1>6, <2>4
  <2> QED BY <1>2, <2>3, <2>5, BudgetFrame
<1>9. CASE n = m /\ cur.onair # FALSE
  <2>1. slips'[n] = slips[n] + 1
    <3>1. slips' = [slips EXCEPT ![cur.msg] = @ + 1] /\ slips \in [Msgs -> Nat]
      <4>1. cur.onair \in BOOLEAN
        BY DEF TypeOK, CurOK
      <4>2. cur.onair
        BY <1>9, <4>1
      <4>3. slips' = [slips EXCEPT ![cur.msg] = @ + 1]
        BY <4>2 DEF AnswerErrorRetry
      <4>4. slips \in [Msgs -> Nat]
        BY DEF TypeOK, LifeOK
      <4> QED BY <4>3, <4>4
    <3> QED BY <1>1, <1>9, <3>1
  <2>2. \A t \in Sources : t # s => ~Ahead(n, t, p)'
    BY <1>1, <1>3 DEF Ahead, InHand
  <2>3. \A t \in Sources : t # s => (Pends(n, t, p)' => Pends(n, t, p))
    BY <1>2, <1>4, <2>2 DEF Pends
  <2>4. Charge(n, p)' <= Charge(n, p) + 1
    BY <1>5, <2>3 DEF Charge, One
  <2>5. aired'[n][p] + Charge(n, p)' + slips[n] <= aired[n][p] + Charge(n, p) + slips'[n]
    BY <1>6, <1>7, <2>1, <2>4
  <2> QED BY <2>5, Account
<1> QED BY <1>8, <1>9

\* The reaper is aborted: a send of its own that it had handed over is a slip.
LEMMA CloseServerBudget ==
  ASSUME TypeOK, HeldInv, [Next]_vars, NEW n \in Msgs, NEW p \in Segments(n),
         Budget(n, p), CloseServer
  PROVE  Budget(n, p)'
<1>1. /\ chan \in Seq(Request) /\ NoTwins /\ chan' = WithoutWaitingReaper
      /\ UNCHANGED <<row, cur, aired>>
      /\ slips'[n] = IF Unrecorded(n, "reaper") THEN slips[n] + 1 ELSE slips[n]
  BY DEF CloseServer, TypeOK, ManagerOK, HeldInv
<1>2. /\ \A t \in Sources : at'[n][t] = IF t = "reaper" THEN "idle" ELSE at[n][t]
      /\ \A t \in Sources : res'[n][t] = IF t = "reaper" THEN "none" ELSE res[n][t]
  BY DEF CloseServer, TypeOK, CallsOK
<1>3. \A t : InChan(n, t)' => InChan(n, t)
  BY <1>1, AbortedOut
<1>4. \A t : Ahead(n, t, p)' <=> Ahead(n, t, p)
  BY <1>1 DEF Ahead, InHand
<1>5. \A t \in Sources : Pends(n, t, p)' => Pends(n, t, p)
  BY <1>2, <1>3, <1>4 DEF Pends
<1>6. slips[n] \in Nat /\ aired[n][p] \in Nat /\ aired'[n][p] = aired[n][p]
  BY <1>1, Counts
<1>7. Charge(n, p) \in 0..3 /\ Charge(n, p)' \in 0..3
  BY ChargeType DEF Charge, One
<1>8. CASE Unrecorded(n, "reaper")
  <2>1. Charge(n, p)' <= Charge(n, p) + 1
    BY <1>5 DEF Charge, One
  <2>2. slips'[n] = slips[n] + 1
    BY <1>1, <1>8
  <2>3. aired'[n][p] + Charge(n, p)' + slips[n] <= aired[n][p] + Charge(n, p) + slips'[n]
    BY <1>6, <1>7, <2>1, <2>2
  <2> QED BY <2>3, Account
<1>9. CASE ~Unrecorded(n, "reaper") /\ at[n]["reaper"] = "submit"
  <2>1. Pends(n, "reaper", p) /\ ~Pends(n, "reaper", p)'
    <3>1. ~InChan(n, "reaper") /\ ~Ahead(n, "reaper", p)
      BY <1>9, NotHeld
    <3> QED BY <1>2, <1>3, <1>4, <1>9, <3>1 DEF Pends
  <2>2. Charge(n, p)' <= Charge(n, p)
    BY <1>5, <2>1 DEF Charge, One
  <2>3. slips'[n] >= slips[n]
    BY <1>1, <1>6, <1>9
  <2> QED BY <1>1, <2>2, <2>3, BudgetFrame
<1>10. CASE ~Unrecorded(n, "reaper") /\ at[n]["reaper"] # "submit"
  <2>1. Reserved(n)' => Reserved(n)
    BY <1>1, <1>2, <1>10 DEF Reserved, Unrecorded
  <2>2. Charge(n, p)' <= Charge(n, p)
    BY <1>5, <2>1 DEF Charge, One
  <2>3. slips'[n] >= slips[n]
    BY <1>1, <1>6, <1>10
  <2> QED BY <1>1, <2>2, <2>3, BudgetFrame
<1> QED BY <1>8, <1>9, <1>10

LEMMA DieBudget ==
  ASSUME TypeOK, [Next]_vars, NEW n \in Msgs, NEW p \in Segments(n),
         Budget(n, p), Die
  PROVE  Budget(n, p)'
<1>1. /\ UNCHANGED <<row, aired>>
      /\ slips'[n] = IF \E s \in Sources : Unrecorded(n, s) THEN slips[n] + 1 ELSE slips[n]
  BY DEF Die
<1>2. \A t \in Sources : ~Pends(n, t, p)'
  BY DEF Die, Pends, Ahead, InChan, InHand, Idle, EveryCall
<1>3. slips[n] \in Nat /\ aired[n][p] \in Nat /\ aired'[n][p] = aired[n][p]
  BY <1>1, Counts
<1>4. Charge(n, p) \in 0..3 /\ Charge(n, p)' \in 0..3
  BY ChargeType DEF Charge, One
<1>5. CASE \E s \in Sources : Unrecorded(n, s)
  <2>1. Charge(n, p)' <= Charge(n, p) + 1
    BY <1>2 DEF Charge, One
  <2>2. aired'[n][p] + Charge(n, p)' + slips[n] <= aired[n][p] + Charge(n, p) + slips'[n]
    BY <1>1, <1>3, <1>4, <1>5, <2>1
  <2> QED BY <2>2, Account
<1>6. CASE ~ \E s \in Sources : Unrecorded(n, s)
  <2>1. Reserved(n)' => Reserved(n) \/ \E s \in Sources : Pends(n, s, p)
    BY <1>1, <1>6 DEF Reserved, Pends
  <2>2. Charge(n, p)' <= Charge(n, p)
    BY <1>2, <2>1 DEF Charge, One
  <2>3. slips'[n] >= slips[n]
    BY <1>1, <1>3, <1>6
  <2> QED BY <1>1, <2>2, <2>3, BudgetFrame
<1> QED BY <1>5, <1>6

LEMMA BudgetStep ==
  ASSUME TypeOK, HeldInv, Unborn, [Next]_vars, NEW n \in Msgs, NEW p \in Segments(n),
         Budget(n, p)
  PROVE  Budget(n, p)'
<1>1. CASE Manager
  <2>1. CASE OpenPort \/ Initialize \/ RefreshStatus
    BY <2>1, StillBudget DEF OpenPort, Initialize, RefreshStatus
  <2>2. CASE OpenFails \/ LosePort
    BY <2>2, GiveUpBudget DEF OpenFails, LosePort
  <2>3. CASE AnswerOk /\ ~(cur.part < Parts[cur.msg])
    BY <2>3, FinishBudget DEF AnswerOk
  <2>4. CASE AnswerGiveUp
    BY <2>4, FinishBudget DEF AnswerGiveUp
  <2> QED BY <1>1, <2>1, <2>2, <2>3, <2>4, TakeBudget, AirBudget, AdvanceBudget,
             RetryBudget DEF Manager
<1>2. CASE Lifecycle
  <2>1. CASE Terminate \/ CloseChannel \/ Restart
    BY <2>1, StillBudget DEF Terminate, CloseChannel, Restart
  <2>2. CASE Exit \/ ForceExit \/ Crash
    BY <2>2, DieBudget DEF Exit, ForceExit, Crash
  <2> QED BY <1>2, <2>1, <2>2, CloseServerBudget DEF Lifecycle
<1>3. CASE LoseNetwork \/ GainNetwork \/ UNCHANGED vars
  BY <1>3, StillBudget DEF LoseNetwork, GainNetwork, vars
<1> QED BY <1>1, <1>2, <1>3, HandlerBudget, CallBudget, ReaperBudget DEF Next

AllBudgets == \A m \in Msgs : \A p \in Segments(m) : Budget(m, p)
CopiesInv == TypeOK /\ HeldInv /\ Unborn /\ AllBudgets

LEMMA CopiesInvAlways == Spec => []CopiesInv
<1>1. ASSUME Init PROVE CopiesInv
  <2>1. TypeOK /\ HeldInv
    BY <1>1, InitType, InitHeld
  <2>2. Unborn
    BY <1>1 DEF Init, Unborn, EveryCall
  <2>3. ASSUME NEW m \in Msgs, NEW p \in Segments(m) PROVE Budget(m, p)
    <3>1. aired[m][p] = 0 /\ slips[m] = 0
      BY <1>1 DEF Init
    <3>2. \A s \in Sources : ~Pends(m, s, p)
      BY <1>1 DEF Init, Pends, Ahead, InChan, InHand, Idle, EveryCall
    <3>3. Charge(m, p) <= 1
      BY <3>2 DEF Charge, One
    <3>4. Charge(m, p) \in 0..3
      BY ChargeType
    <3> QED BY <3>1, <3>3, <3>4 DEF Budget
  <2> QED BY <2>1, <2>2, <2>3 DEF CopiesInv, AllBudgets
<1>2. ASSUME CopiesInv, [Next]_vars PROVE CopiesInv'
  <2>1. TypeOK' /\ HeldInv' /\ Unborn'
    BY <1>2, NextType, HeldStep, UnbornStep DEF CopiesInv
  <2>2. ASSUME NEW m \in Msgs, NEW p \in Segments(m) PROVE Budget(m, p)'
    BY <1>2, BudgetStep DEF CopiesInv, AllBudgets
  <2>3. AllBudgets'
    BY <2>2 DEF AllBudgets, Segments
  <2> QED BY <2>1, <2>3 DEF CopiesInv
<1> QED BY <1>1, <1>2, PTL DEF Spec

\* A segment goes out once, and once more at most for every time the service
\* lost track of that very message: no disconnect, deferral, retry, orderly
\* restart or interleaving of these duplicates an SMS (send_part_with_retries,
\* dispatch_send, reap_queued_messages).
THEOREM DuplicatesAreSlips == Spec => []CopiesBounded
<1>1. CopiesInv => CopiesBounded
  <2> SUFFICES ASSUME CopiesInv, NEW m \in Msgs, NEW p \in Segments(m)
               PROVE  aired[m][p] <= 1 + slips[m]
    BY DEF CopiesBounded
  <2>1. aired[m][p] + Charge(m, p) <= 1 + slips[m]
    BY DEF CopiesInv, AllBudgets, Budget
  <2>2. Charge(m, p) \in 0..3 /\ slips[m] \in Nat /\ aired[m][p] \in Nat
    BY ChargeType, Counts DEF CopiesInv
  <2> QED BY <2>1, <2>2
<1> QED BY <1>1, CopiesInvAlways, PTL

-----------------------------------------------------------------------------
(* While nothing slipped, one call at a time has the message in its care,  *)
(* from a queued row to the outcome it writes and then publishes; nobody   *)
(* is told an outcome before the row has it.                               *)

Agree(m) ==
  /\ at[m]["reaper"] # "idle" => at[m]["api"] = "idle"
  /\ \A s \in Sources :
       /\ at[m][s] = "publish" => row[m] = res[m][s]
       /\ at[m][s] \in {"submit", "await", "record"} => row[m] = "queued"
  /\ row[m] \in {"none", "queued"} => lastEvent[m] = "none" /\ client[m] \notin Resolved
  /\ row[m] \in Resolved =>
       /\ lastEvent[m] \in {"none", row[m]}
       /\ client[m] \in Resolved => client[m] = row[m] /\ lastEvent[m] = row[m]
AgreeInv == \A m \in Msgs : slips[m] = 0 => Agree(m)

\* A step that only takes calls on, or ends them, and tells nobody an outcome.
LEMMA AgreeFrame ==
  ASSUME NEW n \in Msgs, Agree(n), row'[n] = row[n], lastEvent'[n] = lastEvent[n],
         client'[n] = client[n] \/ client'[n] \notin Resolved,
         \A t \in Sources :
           \/ at'[n][t] = "idle"
           \/ at'[n][t] = at[n][t] /\ res'[n][t] = res[n][t]
           \/ at[n][t] \in {"submit", "await"} /\ at'[n][t] \in {"await", "record"}
  PROVE  Agree(n)'
<1>1. at'[n]["reaper"] # "idle" => at'[n]["api"] = "idle"
  BY DEF Agree
<1>2. \A t \in Sources :
        /\ at'[n][t] = "publish" => row'[n] = res'[n][t]
        /\ at'[n][t] \in {"submit", "await", "record"} => row'[n] = "queued"
  BY DEF Agree
<1>3. /\ row'[n] \in {"none", "queued"} =>
           lastEvent'[n] = "none" /\ client'[n] \notin Resolved
      /\ row'[n] \in Resolved =>
           /\ lastEvent'[n] \in {"none", row'[n]}
           /\ client'[n] \in Resolved => client'[n] = row'[n] /\ lastEvent'[n] = row'[n]
  BY DEF Agree
<1> QED BY <1>1, <1>2, <1>3 DEF Agree

LEMMA HandlerAgree ==
  ASSUME TypeOK, Unborn, NEW n \in Msgs, Agree(n), NEW m \in Msgs,
         Handler(m) \/ GrowOld(m)
  PROVE  Agree(n)'
<1>0. UNCHANGED <<lastEvent, res>>
  BY DEF Handler, PrepareSend, AcceptMessage, AbandonInsert, SyncTimeout, GrowOld
<1>1. CASE PrepareSend(m)
  <2>1. Moves(m, "api", "insert") /\ UNCHANGED <<row, client>> /\ row[m] = "none"
    BY <1>1, MovesOne DEF PrepareSend
  <2>2. CASE n = m
    <3>1. at[n]["reaper"] = "idle"
      BY <2>1, <2>2 DEF Unborn
    <3> QED BY <1>0, <2>1, <2>2, <3>1 DEF Agree, Moves
  <2>3. CASE n # m
    BY <1>0, <2>1, <2>3, AgreeFrame DEF Moves
  <2> QED BY <2>2, <2>3
<1>2. CASE AcceptMessage(m)
  <2>1. /\ Moves(m, "api", "submit") /\ at[m]["api"] = "insert"
        /\ \A k \in Msgs : row'[k] = IF k = m THEN "queued" ELSE row[k]
    BY <1>2, MovesOne, Inserted DEF AcceptMessage
  <2>2. \A k \in Msgs : client'[k] = client[k] \/ (k = m /\ client'[k] \in {"accepted", "waiting"})
    BY <1>2 DEF AcceptMessage, TypeOK, ToldOK
  <2>3. CASE n = m
    <3>1. at[n]["reaper"] = "idle" /\ row[n] = "none"
      BY <2>1, <2>3 DEF Unborn
    <3>2. lastEvent[n] = "none" /\ client'[n] \notin Resolved
      BY <2>2, <2>3, <3>1 DEF Agree
    <3> QED BY <1>0, <2>1, <2>3, <3>1, <3>2 DEF Agree, Moves
  <2>4. CASE n # m
    BY <1>0, <2>1, <2>2, <2>4, AgreeFrame DEF Moves
  <2> QED BY <2>3, <2>4
<1>3. CASE AbandonInsert(m)
  <2>1. /\ Moves(m, "api", "idle") /\ at[m]["api"] = "insert"
        /\ UNCHANGED <<row, client>>
           \/ (InsertQueued(m) /\ client' = [client EXCEPT ![m] = "gone"])
    BY <1>3, MovesOne DEF AbandonInsert
  <2>2. CASE UNCHANGED <<row, client>>
    BY <1>0, <2>1, <2>2, AgreeFrame DEF Moves
  <2>3. CASE InsertQueued(m) /\ client' = [client EXCEPT ![m] = "gone"]
    <3>1. /\ \A k \in Msgs : row'[k] = IF k = m THEN "queued" ELSE row[k]
          /\ \A k \in Msgs : client'[k] = IF k = m THEN "gone" ELSE client[k]
      BY <2>3, Inserted DEF TypeOK, ToldOK
    <3>2. CASE n = m
      <4>1. at[n]["reaper"] = "idle" /\ row[n] = "none"
        BY <2>1, <3>2 DEF Unborn
      <4>2. lastEvent[n] = "none"
        BY <4>1 DEF Agree
      <4> QED BY <1>0, <2>1, <3>1, <3>2, <4>1, <4>2 DEF Agree, Moves
    <3>3. CASE n # m
      BY <1>0, <2>1, <3>1, <3>3, AgreeFrame DEF Moves
    <3> QED BY <3>2, <3>3
  <2> QED BY <2>1, <2>2, <2>3
<1>4. CASE SyncTimeout(m) \/ GrowOld(m)
  <2>1. UNCHANGED <<row, at>> /\ (client'[n] = client[n] \/ client'[n] \notin Resolved)
    BY <1>4 DEF SyncTimeout, GrowOld, TypeOK, ToldOK
  <2> QED BY <1>0, <2>1, AgreeFrame
<1> QED BY <1>1, <1>2, <1>3, <1>4 DEF Handler

LEMMA CallAgree ==
  ASSUME TypeOK, NEW n \in Msgs, Agree(n), slips[n] = 0, slips'[n] = 0, NEW m \in Msgs,
         NEW s \in Sources, Call(m, s)
  PROVE  Agree(n)'
<1>1. CASE SubmitRequest(m, s) \/ SubmitRefused(m, s)
  <2>1. /\ UNCHANGED <<row, lastEvent, client>> /\ at[m][s] = "submit"
        /\ UNCHANGED res \/ Gets(m, s, "failed")
        /\ Moves(m, s, "await") \/ Moves(m, s, "record")
    BY <1>1, MovesOne, GetsOne DEF SubmitRequest, SubmitRefused
  <2>2. \A t \in Sources :
          \/ at'[n][t] = at[n][t] /\ res'[n][t] = res[n][t]
          \/ at[n][t] \in {"submit", "await"} /\ at'[n][t] \in {"await", "record"}
    BY <2>1 DEF Moves, Gets
  <2> QED BY <2>1, <2>2, AgreeFrame
<1>2. CASE WriteStatus(m, s)
  <2>1. /\ Moves(m, s, "publish") /\ at[m][s] = "record" /\ res[m][s] \in Resolved
        /\ UNCHANGED <<res, client, lastEvent>>
    BY <1>2, MovesOne DEF WriteStatus
  <2>2. CASE n = m
    <3>1. row' = [row EXCEPT ![m] = res[m][s]]
      <4>1. slips' # [slips EXCEPT ![m] = @ + 1]
        BY <2>2 DEF TypeOK, LifeOK
      <4> QED BY <1>2, <4>1 DEF WriteStatus
    <3>2. row'[n] = res[n][s]
      BY <2>2, <3>1 DEF TypeOK, RowsOK
    <3>3. \A t \in Sources : t # s => at[n][t] = "idle"
      BY <2>1, <2>2 DEF Agree
    <3>4. row[n] = "queued"
      BY <2>1, <2>2 DEF Agree
    <3>5. lastEvent[n] = "none" /\ client[n] \notin Resolved
      BY <3>4 DEF Agree
    <3> QED BY <2>1, <2>2, <3>2, <3>3, <3>5 DEF Agree, Moves
  <2>3. CASE n # m
    <3>1. row'[n] = row[n]
      BY <1>2, <2>3, Written
    <3> QED BY <2>1, <2>3, <3>1, AgreeFrame DEF Moves
  <2> QED BY <2>2, <2>3
<1>3. CASE LeaveQueued(m, s)
  <2>1. /\ Moves(m, s, "idle") /\ Gets(m, s, "none") /\ UNCHANGED <<row, lastEvent>>
        /\ AnswerClient(m, s, "accepted")
    BY <1>3, MovesOne, GetsOne DEF LeaveQueued
  <2>2. client'[n] = client[n] \/ client'[n] \notin Resolved
    BY <2>1 DEF AnswerClient, TypeOK, ToldOK
  <2> QED BY <2>1, <2>2, AgreeFrame DEF Moves, Gets
<1>4. CASE Publish(m, s)
  <2>1. /\ Moves(m, s, "idle") /\ Gets(m, s, "none") /\ at[m][s] = "publish"
        /\ UNCHANGED row /\ AnswerClient(m, s, res[m][s])
        /\ lastEvent' = [lastEvent EXCEPT ![m] = res[m][s]]
    BY <1>4, MovesOne, GetsOne DEF Publish
  <2>2. CASE n = m
    <3>1. row[n] = res[n][s] /\ row[n] \in Resolved
      BY <2>1, <2>2 DEF Agree, TypeOK, CallsOK
    <3>2. lastEvent'[n] = row[n]
      BY <2>1, <2>2, <3>1 DEF TypeOK, ToldOK
    <3>3. client'[n] \in {client[n], row[n]}
      BY <2>1, <2>2, <3>1 DEF AnswerClient, TypeOK, ToldOK
    <3>4. client'[n] \in Resolved => client'[n] = row[n]
      BY <3>1, <3>3 DEF Agree
    <3>5. \A t \in Sources : at'[n][t] = "idle"
      BY <2>1, <2>2 DEF Agree, Moves
    <3> QED BY <2>1, <3>1, <3>2, <3>4, <3>5 DEF Agree
  <2>3. CASE n # m
    <3>1. lastEvent'[n] = lastEvent[n] /\ client'[n] = client[n]
      BY <2>1, <2>3 DEF AnswerClient, TypeOK, ToldOK
    <3> QED BY <2>1, <2>3, <3>1, AgreeFrame DEF Moves, Gets
  <2> QED BY <2>2, <2>3
<1> QED BY <1>1, <1>2, <1>3, <1>4 DEF Call

LEMMA ReaperAgree ==
  ASSUME TypeOK, NEW n \in Msgs, Agree(n), slips[n] = 0, slips'[n] = 0,
         ReaperTick \/ \E m \in Msgs : ReaperSend(m)
  PROVE  Agree(n)'
<1>1. CASE ReaperTick
  BY <1>1, AgreeFrame DEF ReaperTick
<1>2. ASSUME NEW m \in Msgs, ReaperSend(m) PROVE Agree(n)'
  <2>1. /\ Moves(m, "reaper", "submit") /\ UNCHANGED <<row, res, client, lastEvent>>
        /\ slips' = [slips EXCEPT ![m] = IF Overlaps(m) THEN @ + 1 ELSE @]
    BY <1>2, MovesOne DEF ReaperSend
  <2>2. CASE n = m
    <3>1. ~Overlaps(n)
      BY <2>1, <2>2 DEF TypeOK, LifeOK
    <3>2. at[n]["api"] = "idle" /\ row[n] = "queued"
      BY <3>1 DEF Overlaps
    <3> QED BY <2>1, <2>2, <3>2 DEF Agree, Moves
  <2>3. CASE n # m
    BY <2>1, <2>3, AgreeFrame DEF Moves
  <2> QED BY <2>2, <2>3
<1> QED BY <1>1, <1>2

\* The manager changes nothing but the calls that wait for it.
LEMMA ManagerMoves ==
  ASSUME TypeOK, Manager
  PROVE  /\ UNCHANGED <<row, client, lastEvent, old, batch, phase>>
         /\ \A n \in Msgs, t \in Sources :
              \/ at'[n][t] = at[n][t] /\ res'[n][t] = res[n][t]
              \/ at[n][t] = "await" /\ at'[n][t] = "record"
<1> DEFINE Ends == \A n \in Msgs, t \in Sources :
              \/ at'[n][t] = at[n][t] /\ res'[n][t] = res[n][t]
              \/ at[n][t] = "await" /\ at'[n][t] = "record"
<1>1. UNCHANGED <<row, client, lastEvent, old, batch, phase>>
  BY DEF Manager, OpenPort, OpenFails, Initialize, LosePort, RefreshStatus,
         TakeRequest, SegmentOnAir, AnswerOk, AnswerErrorRetry, AnswerGiveUp
<1>2. CASE OpenFails \/ LosePort
  <2>1. BackoffOrGiveUp
    BY <1>2 DEF OpenFails, LosePort
  <2> QED BY <1>1, <2>1, GiveUpMoves
<1>3. ASSUME NEW m \in Msgs, NEW s \in Sources, NEW r \in Result, Reply(m, s, r)
      PROVE  Ends
  BY <1>3, ReplyMoves DEF TypeOK
<1>4. ASSUME Busy, NEW r \in Result, Reply(cur.msg, cur.src, r) PROVE Ends
  <2>1. PICK m \in Msgs, s \in Sources : m = cur.msg /\ s = cur.src
    BY <1>4 DEF Busy, TypeOK, CurOK
  <2> HIDE DEF Ends
  <2> QED BY <1>3, <1>4, <2>1
<1>5. CASE TakeRequest
  <2>1. CASE snap.ready
    BY <1>1, <1>5, <2>1 DEF TakeRequest
  <2>2. CASE ~snap.ready
    <3>1. Head(chan) \in Request /\ Reply(Head(chan).msg, Head(chan).src, "queued")
      BY <1>5, <2>2 DEF TakeRequest, TypeOK, ManagerOK
    <3>2. PICK m \in Msgs, s \in Sources : m = Head(chan).msg /\ s = Head(chan).src
      BY <3>1 DEF Request
    <3>3. Reply(m, s, "queued") /\ "queued" \in Result
      BY <3>1, <3>2 DEF Result
    <3> HIDE DEF Ends
    <3>4. Ends
      BY <1>3, <3>3
    <3> QED BY <1>1, <3>4 DEF Ends
  <2> QED BY <2>1, <2>2
<1>6. CASE AnswerOk
  <2>1. CASE cur.part < Parts[cur.msg]
    BY <1>1, <1>6, <2>1 DEF AnswerOk
  <2>2. CASE ~(cur.part < Parts[cur.msg])
    <3> HIDE DEF Ends
    <3>1. Ends
      BY <1>4, <1>6, <2>2 DEF AnswerOk, Result
    <3> QED BY <1>1, <3>1 DEF Ends
  <2> QED BY <2>1, <2>2
<1>7. CASE AnswerGiveUp
  <2> HIDE DEF Ends
  <2>1. Ends
    BY <1>4, <1>7 DEF AnswerGiveUp, Result
  <2> QED BY <1>1, <2>1 DEF Ends
<1>8. CASE OpenPort \/ Initialize \/ RefreshStatus \/ SegmentOnAir \/ AnswerErrorRetry
  BY <1>1, <1>8 DEF OpenPort, Initialize, RefreshStatus, SegmentOnAir, AnswerErrorRetry
<1> QED BY <1>2, <1>5, <1>6, <1>7, <1>8 DEF Manager

LEMMA LifecycleAgree ==
  ASSUME TypeOK, NEW n \in Msgs, Agree(n), Lifecycle
  PROVE  Agree(n)'
<1>1. CASE CloseServer
  <2>1. UNCHANGED <<row, client, lastEvent>>
        /\ \A t \in Sources : \/ at'[n][t] = "idle"
                              \/ at'[n][t] = at[n][t] /\ res'[n][t] = res[n][t]
    BY <1>1 DEF CloseServer, TypeOK, CallsOK
  <2> QED BY <2>1, AgreeFrame
<1>2. CASE Exit \/ ForceExit \/ Crash
  <2>1. /\ UNCHANGED <<row, lastEvent>>
        /\ \A t \in Sources : at'[n][t] = "idle"
        /\ client'[n] = client[n] \/ client'[n] = "gone"
    BY <1>2 DEF Exit, ForceExit, Crash, Die, EveryCall
  <2> QED BY <2>1, AgreeFrame
<1>3. CASE Terminate \/ CloseChannel \/ Restart
  BY <1>3, AgreeFrame DEF Terminate, CloseChannel, Restart
<1> QED BY <1>1, <1>2, <1>3 DEF Lifecycle

\* A slip is never taken back.
LEMMA SlipsGrow ==
  ASSUME TypeOK, [Next]_vars, NEW n \in Msgs PROVE slips'[n] >= slips[n]
<1>0. slips \in [Msgs -> Nat] /\ slips[n] \in Nat
  BY DEF TypeOK, LifeOK
<1>1. ASSUME NEW m \in Msgs, slips' = [slips EXCEPT ![m] = @ + 1]
      PROVE  slips'[n] >= slips[n]
  BY <1>0, <1>1
<1>2. ASSUME NEW m \in Msgs, ReaperSend(m) PROVE slips'[n] >= slips[n]
  BY <1>0, <1>2 DEF ReaperSend
<1>3. ASSUME Die \/ CloseServer PROVE slips'[n] >= slips[n]
  <2>1. slips'[n] = slips[n] + 1 \/ slips'[n] = slips[n]
    BY <1>3 DEF Die, CloseServer
  <2> QED BY <1>0, <2>1
<1>4. ASSUME NEW m \in Msgs, NEW s \in Sources, Call(m, s)
      PROVE  UNCHANGED slips \/ slips' = [slips EXCEPT ![m] = @ + 1]
  BY <1>4 DEF Call, SubmitRequest, SubmitRefused, WriteStatus, LeaveQueued, Publish
<1>5. CASE Manager
  <2>1. CASE AnswerErrorRetry
    <3>1. PICK m \in Msgs : m = cur.msg
      BY <2>1 DEF AnswerErrorRetry, Busy, TypeOK, CurOK
    <3>2. UNCHANGED slips \/ slips' = [slips EXCEPT ![m] = @ + 1]
      BY <2>1, <3>1 DEF AnswerErrorRetry
    <3> QED BY <1>0, <1>1, <3>2
  <2>2. CASE ~AnswerErrorRetry
    BY <1>0, <1>5, <2>2 DEF Manager, OpenPort, OpenFails, Initialize, LosePort,
       RefreshStatus, TakeRequest, SegmentOnAir, AnswerOk, AnswerGiveUp
  <2> QED BY <2>1, <2>2
<1>6. ASSUME UNCHANGED slips PROVE slips'[n] >= slips[n]
  BY <1>0, <1>6
<1>7. ASSUME NEW m \in Msgs, Handler(m) \/ GrowOld(m) PROVE UNCHANGED slips
  BY <1>7 DEF Handler, PrepareSend, AcceptMessage, AbandonInsert, SyncTimeout, GrowOld
<1>8. CASE ReaperTick \/ LoseNetwork \/ GainNetwork \/ UNCHANGED vars \/ Terminate
           \/ CloseChannel \/ Restart
  BY <1>6, <1>8 DEF ReaperTick, LoseNetwork, GainNetwork, vars, Terminate,
                    CloseChannel, Restart
<1> QED BY <1>1, <1>2, <1>3, <1>4, <1>5, <1>6, <1>7, <1>8
        DEF Next, Lifecycle, Exit, ForceExit, Crash

LEMMA AgreeStep ==
  ASSUME TypeOK, Unborn, AgreeInv, [Next]_vars PROVE AgreeInv'
<1> SUFFICES ASSUME NEW n \in Msgs, slips'[n] = 0 PROVE Agree(n)'
  BY DEF AgreeInv
<1>1. slips[n] = 0
  <2>1. slips[n] \in Nat /\ slips'[n] >= slips[n]
    BY SlipsGrow DEF TypeOK, LifeOK
  <2> QED BY <2>1
<1>2. Agree(n)
  BY <1>1 DEF AgreeInv
<1>3. CASE Manager
  BY <1>2, <1>3, ManagerMoves, AgreeFrame
<1>4. CASE LoseNetwork \/ GainNetwork \/ UNCHANGED vars
  BY <1>2, <1>4, AgreeFrame DEF LoseNetwork, GainNetwork, vars
<1> QED BY <1>1, <1>2, <1>3, <1>4, HandlerAgree, CallAgree, ReaperAgree, LifecycleAgree
        DEF Next

LEMMA AgreeInvAlways == Spec => [](CopiesInv /\ AgreeInv)
<1>1. Init => AgreeInv
  BY DEF Init, AgreeInv, Agree, EveryCall
<1>2. CopiesInv /\ AgreeInv /\ [Next]_vars => AgreeInv'
  BY AgreeStep DEF CopiesInv
<1> QED BY <1>1, <1>2, CopiesInvAlways, PTL DEF Spec

\* While nothing slipped, the last event published for a message and the
\* answer of a synchronous send are what its row says, as soon as no call has
\* it in its care (dispatch_send, sync_send, reap_queued_messages).
THEOREM OneOutcome == Spec => []OutcomesAgree
<1>1. CopiesInv /\ AgreeInv => OutcomesAgree
  <2> SUFFICES ASSUME CopiesInv, AgreeInv, NEW m \in Msgs, slips[m] = 0
               PROVE  /\ lastEvent[m] \in {"none", row[m]}
                      /\ client[m] \in Resolved => client[m] = row[m] /\ lastEvent[m] = row[m]
    BY DEF OutcomesAgree
  <2>1. Agree(m) /\ row[m] \in {"none", "queued"} \union Resolved
    BY DEF AgreeInv, CopiesInv, TypeOK, RowsOK
  <2> QED BY <2>1 DEF Agree
<1> QED BY <1>1, AgreeInvAlways, PTL

-----------------------------------------------------------------------------
(* Delivery implements Outbox while nothing slips: no crash or stop, no    *)
(* lost write or misleading answer (MaxFaults = 0), and a dispatch that is *)
(* over before its message is old (GraceHolds).                            *)

Calm ==
  /\ phase = "up" /\ \A m \in Msgs : slips[m] = 0
  /\ \A m \in old : row[m] = "queued" => at[m]["api"] = "idle"
  /\ \A m \in batch :
       row[m] = "queued" /\ at[m]["api"] = "idle" /\ at[m]["reaper"] = "idle"

\* Steps that leave the old messages and the batch to the reaper.
LEMMA CalmFrame ==
  ASSUME TypeOK, Calm, UNCHANGED <<phase, slips, row, old, batch>>,
         \A n \in Msgs, t \in Sources : at[n][t] = "idle" => at'[n][t] = "idle"
  PROVE  Calm'
BY DEF Calm, TypeOK, RowsOK, LifeOK

LEMMA CalmStep ==
  ASSUME GraceHolds, MaxFaults = 0, TypeOK, Unborn, Calm, [Next]_vars
  PROVE  Calm'
<1>0. faults = 0 /\ ~(faults < MaxFaults) /\ old \subseteq Msgs /\ batch \subseteq Msgs
  BY DEF TypeOK, EnvOK, RowsOK, LifeOK
<1>1. ASSUME NEW m \in Msgs, Handler(m) PROVE Calm'
  <2>1. CASE PrepareSend(m)
    <3>1. Moves(m, "api", "insert") /\ UNCHANGED <<phase, slips, row, old, batch>>
          /\ row[m] = "none"
      BY <2>1, MovesOne DEF PrepareSend
    <3>2. m \notin old /\ m \notin batch
      BY <3>1 DEF Unborn
    <3> QED BY <1>0, <3>1, <3>2 DEF Calm, Moves
  <2>2. CASE AcceptMessage(m) \/ AbandonInsert(m)
    <3>1. /\ Moves(m, "api", "submit") \/ Moves(m, "api", "idle")
          /\ UNCHANGED <<phase, slips, old, batch>> /\ at[m]["api"] = "insert"
          /\ UNCHANGED row \/ InsertQueued(m)
      BY <2>2, MovesOne DEF AcceptMessage, AbandonInsert, InsertQueued
    <3>2. m \notin old /\ m \notin batch
      BY <3>1 DEF Unborn
    <3>3. \A n \in Msgs : n # m => row'[n] = row[n]
      BY <3>1, Inserted
    <3> QED BY <1>0, <3>1, <3>2, <3>3 DEF Calm, Moves
  <2>3. CASE SyncTimeout(m)
    BY <2>3, CalmFrame DEF SyncTimeout
  <2> QED BY <1>1, <2>1, <2>2, <2>3 DEF Handler
<1>2. ASSUME NEW m \in Msgs, NEW s \in Sources, Call(m, s) PROVE Calm'
  <2>1. at[m][s] # "idle"
    BY <1>2 DEF Call, SubmitRequest, SubmitRefused, WriteStatus, LeaveQueued,
                Publish
  <2>2. PICK p \in {"await", "record", "publish", "idle"} : Moves(m, s, p)
    BY <1>2, MovesOne DEF Call
  <2>3. CASE WriteStatus(m, s)
    <3>1. /\ row' = [row EXCEPT ![m] = res[m][s]] /\ res[m][s] \in Resolved
          /\ UNCHANGED <<phase, slips, old, batch>>
      BY <1>0, <2>3 DEF WriteStatus
    <3>2. \A n \in Msgs : row'[n] = IF n = m THEN res[m][s] ELSE row[n]
      BY <3>1 DEF TypeOK, RowsOK
    <3>3. m \notin batch
      BY <2>1 DEF Calm
    <3> QED BY <1>0, <2>1, <2>2, <3>1, <3>2, <3>3 DEF Calm, Moves
  <2>4. CASE ~WriteStatus(m, s)
    <3>1. UNCHANGED <<phase, slips, row, old, batch>>
      BY <1>2, <2>4 DEF Call, SubmitRequest, SubmitRefused, LeaveQueued, Publish
    <3> QED BY <2>1, <2>2, <3>1, CalmFrame DEF Moves
  <2> QED BY <2>3, <2>4
<1>3. ASSUME NEW m \in Msgs, GrowOld(m) PROVE Calm'
  <2>1. at[m]["api"] = "idle" /\ old' = old \union {m}
        /\ UNCHANGED <<phase, slips, row, at, batch>>
    BY <1>3 DEF GrowOld
  <2> QED BY <1>0, <2>1 DEF Calm
<1>4. ASSUME NEW m \in Msgs, ReaperSend(m) PROVE Calm'
  <2>1. /\ Moves(m, "reaper", "submit") /\ m \in batch /\ batch' = batch \ {m}
        /\ UNCHANGED <<phase, row, old>>
        /\ slips' = [slips EXCEPT ![m] = IF Overlaps(m) THEN @ + 1 ELSE @]
    BY <1>4, MovesOne DEF ReaperSend
  <2>2. ~Overlaps(m)
    BY <2>1 DEF Calm, Overlaps
  <2>3. \A n \in Msgs : slips'[n] = slips[n]
    BY <2>1, <2>2 DEF TypeOK, LifeOK
  <2> QED BY <1>0, <2>1, <2>3 DEF Calm, Moves
<1>5. CASE ReaperTick
  <2>1. UNCHANGED <<phase, slips, row, old, at>> /\ ReaperIdle
        /\ \A m \in batch' : m \in old /\ row[m] = "queued"
    BY <1>5 DEF ReaperTick
  <2> QED BY <1>0, <2>1 DEF Calm, ReaperIdle
<1>6. CASE Manager
  <2>1. UNCHANGED slips
    BY <1>0, <1>6 DEF Manager, OpenPort, OpenFails, Initialize, LosePort,
       RefreshStatus, TakeRequest, SegmentOnAir, AnswerOk, AnswerErrorRetry,
       AnswerGiveUp
  <2> QED BY <1>6, <2>1, ManagerMoves, CalmFrame
<1>7. CASE Lifecycle
  BY <1>0, <1>7, CalmFrame DEF Calm, Lifecycle, Terminate, CloseServer, CloseChannel,
     Exit, ForceExit, Crash, Restart
<1>8. CASE LoseNetwork \/ GainNetwork \/ UNCHANGED vars
  BY <1>8, CalmFrame DEF LoseNetwork, GainNetwork, vars
<1> QED BY <1>1, <1>2, <1>3, <1>4, <1>5, <1>6, <1>7, <1>8 DEF Next

\* Everything known of a state in which nothing slipped.
CalmInv == CopiesInv /\ AgreeInv /\ SentInv /\ Calm

\* A segment is out once at most, and not at all while it may still be sent.
LEMMA OnceAtMost ==
  ASSUME CalmInv, NEW m \in Msgs, NEW p \in Segments(m)
  PROVE  /\ aired[m][p] \in {0, 1}
         /\ \A s \in Sources : Pends(m, s, p) => aired[m][p] = 0
<1>1. aired[m][p] + Charge(m, p) <= 1 /\ aired[m][p] \in Nat
  <2>1. Budget(m, p) /\ slips[m] = 0 /\ aired[m][p] \in Nat
    BY Counts DEF CalmInv, CopiesInv, AllBudgets, Calm
  <2> QED BY <2>1 DEF Budget
<1>2. Charge(m, p) \in 0..3
  BY ChargeType
<1>3. ASSUME NEW s \in Sources, Pends(m, s, p) PROVE Charge(m, p) >= 1
  BY <1>3 DEF Charge, One
<1> QED BY <1>1, <1>2, <1>3

\* The segment that goes out is the next one of a queued message.
LEMMA AirRefines ==
  ASSUME CalmInv, SegmentOnAir
  PROVE  \E m \in Msgs : \E p \in Outbox!Segments(m) : Outbox!Air(m, p)
<1>0. PICK m \in Msgs, s \in Sources : m = cur.msg /\ s = cur.src
  BY DEF SegmentOnAir, Busy, CalmInv, CopiesInv, TypeOK, CurOK
<1>1. PICK p \in Segments(m) : m = cur.msg /\ s = cur.src /\ p = cur.part
  BY <1>0 DEF SegmentOnAir, Busy, CalmInv, CopiesInv, TypeOK, CurOK
<1>2. /\ ~cur.onair /\ aired' = [aired EXCEPT ![m][p] = @ + 1] /\ UNCHANGED row
  BY <1>1 DEF SegmentOnAir
<1>3. row[m] = "queued"
  <2>1. InHand(m, s) /\ ReaperAlive
    BY <1>1 DEF InHand, CalmInv, Calm, ReaperAlive
  <2>2. at[m][s] = "await"
    BY <2>1 DEF CalmInv, CopiesInv, HeldInv, Kept
  <2>3. Agree(m)
    BY DEF CalmInv, AgreeInv, Calm
  <2> QED BY <2>2, <2>3 DEF Agree
<1>4. ASSUME NEW q \in Segments(m)
      PROVE  aired[m][q] = IF q < p THEN 1 ELSE 0
  <2>1. q \in Nat /\ p \in Nat
    BY DEF Segments
  <2>2. CASE q < p
    <3>1. aired[m][q] > 0
      BY <1>1, <2>2 DEF CalmInv, SentInv, CurProgress, SegmentOnAir
    <3> QED BY <2>2, <3>1, OnceAtMost
  <2>3. CASE ~(q < p)
    <3>1. p < q \/ p = q
      BY <2>1, <2>3
    <3>2. Pends(m, s, q)
      BY <1>1, <1>2, <3>1 DEF Pends, Ahead, InHand
    <3>3. aired[m][q] = 0
      BY <3>2, OnceAtMost
    <3> QED BY <2>3, <3>3
  <2> QED BY <2>2, <2>3
<1>5. aired' = [aired EXCEPT ![m][p] = 1]
  <2>1. aired[m][p] = 0
    BY <1>4 DEF Segments
  <2>2. aired[m][p] + 1 = 1
    BY <2>1
  <2> QED BY <1>2, <2>2
<1>6. Segments(m) = Outbox!Segments(m)
  BY DEF Segments, Outbox!Segments
<1>7. Outbox!Air(m, p)
  BY <1>2, <1>3, <1>4, <1>5, <1>6 DEF Outbox!Air
<1> QED BY <1>6, <1>7

\* The outcome that is written is the first of a queued message, and true.
LEMMA WriteRefines ==
  ASSUME MaxFaults = 0, CalmInv, NEW m \in Msgs, NEW s \in Sources, WriteStatus(m, s)
  PROVE  \E status \in Outbox!Resolved : Outbox!Resolve(m, status)
<1>1. /\ at[m][s] = "record" /\ res[m][s] \in Resolved /\ UNCHANGED aired
      /\ row' = [row EXCEPT ![m] = res[m][s]]
  <2>1. ~(faults < MaxFaults)
    BY DEF CalmInv, CopiesInv, TypeOK, EnvOK
  <2> QED BY <2>1 DEF WriteStatus
<1>2. row[m] = "queued"
  BY <1>1 DEF CalmInv, AgreeInv, Calm, Agree
<1>3. ASSUME res[m][s] = "sent", NEW p \in Segments(m) PROVE aired[m][p] = 1
  <2>1. aired[m][p] > 0
    BY <1>3 DEF CalmInv, SentInv, SentResult, FullyAired
  <2> QED BY <2>1, OnceAtMost
<1>4. Outbox!Resolve(m, res[m][s])
  BY <1>1, <1>2, <1>3 DEF Outbox!Resolve, Outbox!Segments, Segments
<1> QED BY <1>1, <1>4 DEF Outbox!Resolved

LEMMA StepRefines ==
  ASSUME MaxFaults = 0, CalmInv, [Next]_vars PROVE [Outbox!Next]_(Outbox!vars)
<1> USE DEF CalmInv, CopiesInv
<1>1. ASSUME UNCHANGED <<row, aired>> PROVE [Outbox!Next]_(Outbox!vars)
  BY <1>1 DEF Outbox!vars
<1>2. ASSUME NEW m \in Msgs, Handler(m) \/ GrowOld(m) \/ ReaperSend(m)
      PROVE  [Outbox!Next]_(Outbox!vars)
  <2>1. UNCHANGED aired
    BY <1>2 DEF Handler, PrepareSend, AcceptMessage, AbandonInsert, SyncTimeout,
                GrowOld, ReaperSend
  <2>2. UNCHANGED row \/ (InsertQueued(m) /\ at[m]["api"] = "insert")
    BY <1>2 DEF Handler, PrepareSend, AcceptMessage, AbandonInsert, SyncTimeout,
                GrowOld, ReaperSend
  <2>3. CASE InsertQueued(m) /\ at[m]["api"] = "insert"
    <3>1. Outbox!Accept(m)
      BY <2>1, <2>3 DEF Unborn, InsertQueued, Outbox!Accept
    <3> QED BY <3>1 DEF Outbox!Next
  <2> QED BY <1>1, <2>1, <2>2, <2>3
<1>3. ASSUME NEW m \in Msgs, NEW s \in Sources, Call(m, s)
      PROVE  [Outbox!Next]_(Outbox!vars)
  <2>1. CASE WriteStatus(m, s)
    BY <2>1, WriteRefines DEF Outbox!Next
  <2>2. CASE ~WriteStatus(m, s)
    BY <1>1, <1>3, <2>2 DEF Call, SubmitRequest, SubmitRefused, LeaveQueued, Publish
  <2> QED BY <2>1, <2>2
<1>4. CASE Manager
  <2>1. CASE SegmentOnAir
    BY <2>1, AirRefines DEF Outbox!Next
  <2>2. CASE ~SegmentOnAir
    BY <1>1, <1>4, <2>2, OnlyOnAir, ManagerMoves
  <2> QED BY <2>1, <2>2
<1>5. CASE Lifecycle \/ LoseNetwork \/ GainNetwork \/ ReaperTick \/ UNCHANGED vars
  <2>1. UNCHANGED <<row, aired>>
    BY <1>5 DEF Lifecycle, Terminate, CloseServer, CloseChannel, Exit, ForceExit,
                Crash, Restart, Die, LoseNetwork, GainNetwork, ReaperTick, vars
  <2> QED BY <1>1, <2>1
<1> QED BY <1>2, <1>3, <1>4, <1>5 DEF Next

\* While nothing slips, the outbound path is an outbox: an accepted message is
\* queued, its segments go out in order and once each, and it is resolved once,
\* as sent only after its last segment (prepare_send, send_all_segments,
\* dispatch_send, reap_queued_messages).
THEOREM CalmIsOutbox == GraceHolds /\ MaxFaults = 0 => (Spec => OutboxSpec)
<1> SUFFICES ASSUME GraceHolds, MaxFaults = 0 PROVE Spec => OutboxSpec
  OBVIOUS
<1>1. Init => Calm /\ Outbox!Init
  BY DEF Init, Calm, Outbox!Init, Outbox!Segments, Segments
<1>2. CopiesInv /\ Calm /\ [Next]_vars => Calm'
  BY CalmStep DEF CopiesInv
<1>3. CopiesInv /\ AgreeInv /\ SentInv /\ Calm /\ [Next]_vars
        => [Outbox!Next]_(Outbox!vars)
  BY StepRefines DEF CalmInv
<1> QED BY <1>1, <1>2, <1>3, AgreeInvAlways, SentInvAlways, PTL
        DEF Spec, OutboxSpec, Outbox!Spec
=============================================================================
