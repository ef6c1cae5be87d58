------------------------------ MODULE Delivery ------------------------------
(***************************************************************************)
(* The outbound path of green_relay: from POST /messages to the radio.     *)
(*                                                                         *)
(* Actors, all tasks of one process that may be killed at any step:        *)
(*   - the HTTP handler, which checks the modem snapshot, inserts the row  *)
(*     as queued and spawns a dispatch task (api/v1.rs);                   *)
(*   - the dispatch task ("api") and the reaper ("reaper"), which send a   *)
(*     request down a bounded channel, await the reply, write the status   *)
(*     and publish the event (api/v1.rs, lib.rs);                          *)
(*   - the modem manager, the single consumer of the channel and the only  *)
(*     owner of the serial port (modem/mod.rs, modem/session.rs);          *)
(*   - shutdown, and the service manager that restarts a dead process.     *)
(* The database rows and what the network accepted survive a crash; the    *)
(* channel, the calls and the modem snapshot do not.                       *)
(***************************************************************************)
EXTENDS Naturals, Sequences, FiniteSets

CONSTANTS
  Msgs,         \* messages clients may submit (each has its own row id)
  Parts,        \* Parts[m]: how many SMS segments message m takes
  Buffer,       \* capacity of the modem channel (MODEM_CHANNEL_BUFFER)
  MaxAttempts,  \* cfg.send_max_attempts, per segment
  MaxReopen,    \* cfg.reopen_max_attempts
  ReapBatch,    \* QUEUED_REAP_BATCH
  GraceHolds,   \* TRUE: a row outlives the reaper's grace period only after
                \* its dispatch is over, as the comment on
                \* QUEUED_REAP_GRACE_SECS says; FALSE: as the code has it
  MaxFaults,    \* bound on crashes, stops, lost writes, misleading answers
  MaxGlitches,  \* bound on lost ports, failed opens, lost registrations
  None          \* stands for "no message"

ASSUME DeliveryAssumption ==
  /\ Parts \in [Msgs -> Nat \ {0}]
  /\ Buffer \in Nat \ {0} /\ MaxAttempts \in Nat \ {0}
  /\ MaxReopen \in Nat \ {0} /\ ReapBatch \in Nat \ {0}
  /\ GraceHolds \in BOOLEAN
  /\ MaxFaults \in Nat /\ MaxGlitches \in Nat
  /\ None \notin Msgs /\ IsFiniteSet(Msgs)

Segments(m) == 1..Parts[m]
Resolved == {"sent", "failed"}
Sources  == {"api", "reaper"}
\* The same value for every call, a call being a message and a source.
EveryCall(v) == [m \in Msgs |-> [s \in Sources |-> v]]

VARIABLES
  row,      \* outbound_messages.status, "none" before the insert
  born,     \* created_at, as the rank of the insert
  old,      \* messages whose created_at is past the reaper's cutoff
  at,       \* at[m][s]: where the call of source s for message m stands
  res,      \* res[m][s]: the SendResult that call has received
  client,   \* client[m]: what the HTTP caller has been told
  lastEvent,\* lastEvent[m]: the last MessageStatusEvent published for m
  chan,     \* the mpsc channel, and behind it the senders it has no room for
  mgr,      \* run_modem_manager: "offline", "init", "session", "stopped"
  attempt,  \* its count of consecutive failed opens
  cur,      \* the request it is handling, and how far it is
  snap,     \* ModemStatusSnapshot: connected, and SIM ready and registered
  net,      \* whether the SIM really is ready and registered
  aired,    \* aired[m][p]: copies of segment p of m the network took
  batch,    \* what is left of the reaper's last query
  phase,    \* "up", "closing" (server), "draining" (manager), "down"
  slips,    \* slips[m]: times the bookkeeping of m lost track of a send
  faults, glitches

rows    == <<row, born, old>>
calls   == <<at, res, client, lastEvent>>
manager == <<chan, mgr, attempt, cur, snap>>
env     == <<net, faults, glitches>>
vars == <<rows, calls, manager, env, aired, batch, phase, slips>>


Request == [msg : Msgs, src : Sources]
Idle == [msg |-> None, src |-> "api", part |-> 1, tries |-> 1, onair |-> FALSE]
Busy == cur.msg # None

Init ==
  /\ row = [m \in Msgs |-> "none"]
  /\ born = [m \in Msgs |-> 0] /\ old = {}
  /\ at = EveryCall("idle") /\ res = EveryCall("none")
  /\ client = [m \in Msgs |-> "none"] /\ lastEvent = [m \in Msgs |-> "none"]
  /\ chan = <<>> /\ mgr = "offline" /\ attempt = 0 /\ cur = Idle
  /\ snap = [connected |-> FALSE, ready |-> FALSE]
  /\ net \in BOOLEAN
  /\ aired = [m \in Msgs |-> [p \in Segments(m) |-> 0]]
  /\ batch = {} /\ phase = "up" /\ slips = [m \in Msgs |-> 0]
  /\ faults = 0 /\ glitches = 0

-----------------------------------------------------------------------------
(* The HTTP handler.                                                       *)

\* prepare_send up to the insert: the deliverability gate reads the modem
\* snapshot, and the insert is awaited after it.
PrepareSend(m) ==
  /\ phase = "up" /\ row[m] = "none" /\ at[m]["api"] = "idle"
  /\ client[m] = "none"
  /\ snap.connected /\ snap.ready
  /\ at' = [at EXCEPT ![m]["api"] = "insert"]
  /\ UNCHANGED <<rows, res, client, lastEvent, manager, env, aired, batch,
                 phase, slips>>

InsertQueued(m) ==
  /\ row' = [row EXCEPT ![m] = "queued"]
  /\ born' = [born EXCEPT ![m] = Cardinality({k \in Msgs : row[k] # "none"})]
  /\ UNCHANGED old

\* The insert returned and the dispatch task is spawned: queue_send answers
\* 202 at once, sync_send waits for the outcome.
AcceptMessage(m) ==
  /\ at[m]["api"] = "insert"
  /\ InsertQueued(m)
  /\ at' = [at EXCEPT ![m]["api"] = "submit"]
  /\ \E answer \in {"accepted", "waiting"} :
       client' = [client EXCEPT ![m] = answer]
  /\ UNCHANGED <<res, lastEvent, manager, env, aired, batch, phase, slips>>

\* The insert failed and the request is refused; or the client went away
\* while the insert was awaited: the handler's future is dropped, and the row
\* may be there without a dispatch task.
AbandonInsert(m) ==
  /\ at[m]["api"] = "insert"
  /\ at' = [at EXCEPT ![m]["api"] = "idle"]
  /\ \/ UNCHANGED <<rows, client>>
     \/ InsertQueued(m) /\ client' = [client EXCEPT ![m] = "gone"]
  /\ UNCHANGED <<res, lastEvent, manager, env, aired, batch, phase, slips>>

\* SYNC_SEND_WAIT_SECS elapses: 202 instead of the outcome.
SyncTimeout(m) ==
  /\ client[m] = "waiting"
  /\ client' = [client EXCEPT ![m] = "accepted"]
  /\ UNCHANGED <<rows, at, res, lastEvent, manager, env, aired, batch, phase,
                 slips>>

-----------------------------------------------------------------------------
(* ModemHandle::send_sms, on behalf of a dispatch task or of the reaper.   *)

\* tx.send: senders that find the channel full are served in turn, so the
\* channel and those waiting for it are one queue, of which the first Buffer
\* entries are in the channel.
SubmitRequest(m, s) ==
  /\ at[m][s] = "submit" /\ mgr # "stopped"
  /\ chan' = Append(chan, [msg |-> m, src |-> s])
  /\ at' = [at EXCEPT ![m][s] = "await"]
  /\ UNCHANGED <<rows, res, client, lastEvent, mgr, attempt, cur, snap, env,
                 aired, batch, phase, slips>>

\* The receiver is gone: "modem manager unavailable" is a Failed result.
SubmitRefused(m, s) ==
  /\ at[m][s] = "submit" /\ mgr = "stopped"
  /\ at' = [at EXCEPT ![m][s] = "record"]
  /\ res' = [res EXCEPT ![m][s] = "failed"]
  /\ UNCHANGED <<rows, client, lastEvent, manager, env, aired, batch, phase,
                 slips>>

\* What the call of s for m gets from the manager. A caller that was aborted
\* no longer awaits anything and the reply is dropped.
Reply(m, s, result) ==
  IF at[m][s] = "await"
  THEN /\ at' = [at EXCEPT ![m][s] = "record"]
       /\ res' = [res EXCEPT ![m][s] = result]
  ELSE UNCHANGED <<at, res>>

-----------------------------------------------------------------------------
(* The modem manager.                                                      *)

OpenPort ==
  /\ mgr = "offline"
  /\ mgr' = "init" /\ attempt' = 0 /\ snap' = [snap EXCEPT !.connected = TRUE]
  /\ UNCHANGED <<rows, calls, chan, cur, env, aired, batch, phase, slips>>

\* Recovery, initialize, and the status refresh a session begins with. Until
\* then the snapshot says connected, with what was known of the SIM before.
Initialize ==
  /\ mgr = "init"
  /\ mgr' = "session" /\ snap' = [connected |-> TRUE, ready |-> net]
  /\ UNCHANGED <<rows, calls, chan, attempt, cur, env, aired, batch, phase,
                 slips>>

\* Mutant: giving up forgets the requests still in the channel.
GiveUpKeepsWaiters ==
  /\ attempt' = attempt + 1 /\ snap' = [snap EXCEPT !.connected = FALSE]
  /\ cur' = Idle /\ chan' = <<>>
  /\ mgr' = IF attempt' > MaxReopen THEN "stopped" ELSE "offline"
  /\ IF Busy THEN Reply(cur.msg, cur.src, "failed") ELSE UNCHANGED <<at, res>>

\* backoff_or_giveup: one more failed attempt. Giving up drops the receiver,
\* and with it the reply channel of every request still in it.
BackoffOrGiveUp ==
  /\ attempt' = attempt + 1
  /\ snap' = [snap EXCEPT !.connected = FALSE]
  /\ cur' = Idle
  /\ IF attempt' > MaxReopen
     THEN /\ mgr' = "stopped" /\ chan' = <<>>
          /\ at' = [m \in Msgs |-> [s \in Sources |->
                      IF at[m][s] = "await" THEN "record" ELSE at[m][s]]]
          /\ res' = [m \in Msgs |-> [s \in Sources |->
                       IF at[m][s] = "await" THEN "failed" ELSE res[m][s]]]
     ELSE /\ mgr' = "offline" /\ UNCHANGED chan
          /\ IF Busy THEN Reply(cur.msg, cur.src, "failed")
                     ELSE UNCHANGED <<at, res>>

OpenFails ==
  /\ mgr = "offline" /\ glitches < MaxGlitches
  /\ glitches' = glitches + 1
  /\ BackoffOrGiveUp
  /\ UNCHANGED <<rows, client, lastEvent, net, faults, aired, batch, phase,
                 slips>>

\* An I/O error anywhere in recovery, initialization or the session: the
\* request being handled loses its reply channel, its caller reads Failed.
LosePort ==
  /\ mgr \in {"init", "session"} /\ glitches < MaxGlitches
  /\ glitches' = glitches + 1
  /\ BackoffOrGiveUp
  /\ UNCHANGED <<rows, client, lastEvent, net, faults, aired, batch, phase,
                 slips>>

\* refresh_status, when it is due between two requests.
RefreshStatus ==
  /\ mgr = "session" /\ ~Busy
  /\ snap' = [connected |-> TRUE, ready |-> net]
  /\ UNCHANGED <<rows, calls, chan, mgr, attempt, cur, env, aired, batch,
                 phase, slips>>

\* handle_request and the start of handle_send: with a snapshot that is not
\* deliverable the message is left for later, with nothing written.
TakeRequest ==
  /\ mgr = "session" /\ ~Busy /\ chan # <<>>
  /\ chan' = Tail(chan)
  /\ LET r == Head(chan) IN
       IF snap.ready
       THEN /\ cur' = [Idle EXCEPT !.msg = r.msg, !.src = r.src]
            /\ UNCHANGED <<at, res>>
       ELSE UNCHANGED cur /\ Reply(r.msg, r.src, "queued")
  /\ UNCHANGED <<rows, client, lastEvent, mgr, attempt, snap, env, aired,
                 batch, phase, slips>>

\* The modem hands the segment to the network.
SegmentOnAir ==
  /\ Busy /\ ~cur.onair
  /\ aired' = [aired EXCEPT ![cur.msg][cur.part] = @ + 1]
  /\ cur' = [cur EXCEPT !.onair = TRUE]
  /\ UNCHANGED <<rows, calls, chan, mgr, attempt, snap, env, batch, phase, slips>>

\* Mutant: a segment past the last one.
AnswerOkPastEnd ==
  /\ Busy /\ cur.onair
  /\ cur' = [cur EXCEPT !.part = @ + 1, !.tries = 1, !.onair = FALSE]
  /\ UNCHANGED <<rows, calls, chan, mgr, attempt, snap, env, aired, batch, phase,
                 slips>>

\* Mutant: an OK counts as a send without its +CMGS line.
AnswerOkWithoutReference ==
  /\ Busy /\ cur' = Idle /\ Reply(cur.msg, cur.src, "sent")
  /\ UNCHANGED <<rows, client, lastEvent, chan, mgr, attempt, snap, env, aired,
                 batch, phase, slips>>

\* "+CMGS: n" and OK: on to the next segment, or the message is Sent.
AnswerOk ==
  /\ Busy /\ cur.onair
  /\ IF cur.part < Parts[cur.msg]
     THEN /\ cur' = [cur EXCEPT !.part = @ + 1, !.tries = 1, !.onair = FALSE]
          /\ UNCHANGED <<at, res>>
     ELSE cur' = Idle /\ Reply(cur.msg, cur.src, "sent")
  /\ UNCHANGED <<rows, client, lastEvent, chan, mgr, attempt, snap, env, aired,
                 batch, phase, slips>>

\* Mutant: a timeout is retried like an error.
RetryWhateverHappened ==
  /\ Busy /\ cur.tries < MaxAttempts
  /\ cur' = [cur EXCEPT !.tries = @ + 1, !.onair = FALSE]
  /\ UNCHANGED <<rows, calls, chan, mgr, attempt, snap, env, aired, batch, phase,
                 slips>>

\* Any other final result: try the segment again, up to the maximum. If the
\* segment did go out (an error reported late, an OK whose +CMGS line was
\* lost) the answer misleads the retry: a fault, and a slip.
AnswerErrorRetry ==
  /\ Busy /\ cur.tries < MaxAttempts
  /\ \/ ~cur.onair /\ UNCHANGED <<faults, slips>>
     \/ /\ cur.onair /\ faults < MaxFaults
        /\ faults' = faults + 1
        /\ slips' = [slips EXCEPT ![cur.msg] = @ + 1]
  /\ cur' = [cur EXCEPT !.tries = @ + 1, !.onair = FALSE]
  /\ UNCHANGED <<rows, calls, chan, mgr, attempt, snap, net, glitches, aired,
                 batch, phase>>

\* The last attempt ended in an error; or, on any attempt, no prompt or no
\* result came in time: Failed, and this request never transmits again,
\* whether or not the segment went out.
AnswerGiveUp ==
  /\ Busy
  /\ cur' = Idle /\ Reply(cur.msg, cur.src, "failed")
  /\ UNCHANGED <<rows, client, lastEvent, chan, mgr, attempt, snap, env, aired,
                 batch, phase, slips>>

-----------------------------------------------------------------------------
(* dispatch_send and the reaper, once the reply is there.                  *)

\* Mutant: only a Sent outcome is written.
WriteOnlySent(m, s) ==
  /\ at[m][s] = "record" /\ res[m][s] \in Resolved
  /\ row' = IF res[m][s] = "sent" THEN [row EXCEPT ![m] = "sent"] ELSE row
  /\ at' = [at EXCEPT ![m][s] = "publish"]
  /\ UNCHANGED <<born, old, res, client, lastEvent, manager, env, aired, batch,
                 phase, slips>>

\* set_outbound_status, an UPDATE by id whatever the row holds; its error is
\* discarded. A Queued result writes nothing and publishes nothing.
WriteStatus(m, s) ==
  /\ at[m][s] = "record" /\ res[m][s] \in Resolved
  /\ \/ /\ row' = [row EXCEPT ![m] = res[m][s]]
        /\ UNCHANGED <<faults, slips>>
     \/ /\ faults < MaxFaults /\ faults' = faults + 1
        /\ slips' = [slips EXCEPT ![m] = @ + 1]
        /\ UNCHANGED row
  /\ at' = [at EXCEPT ![m][s] = "publish"]
  /\ UNCHANGED <<born, old, res, client, lastEvent, manager, net, glitches,
                 aired, batch, phase>>

\* The HTTP caller, if it still waits, gets the dispatch's outcome; a Queued
\* outcome is answered with 202.
AnswerClient(m, s, answer) ==
  client' = [client EXCEPT ![m] =
               IF s = "api" /\ @ = "waiting" THEN answer ELSE @]

LeaveQueued(m, s) ==
  /\ at[m][s] = "record" /\ res[m][s] = "queued"
  /\ at' = [at EXCEPT ![m][s] = "idle"] /\ res' = [res EXCEPT ![m][s] = "none"]
  /\ AnswerClient(m, s, "accepted")
  /\ UNCHANGED <<rows, lastEvent, manager, env, aired, batch, phase, slips>>

Publish(m, s) ==
  /\ at[m][s] = "publish"
  /\ lastEvent' = [lastEvent EXCEPT ![m] = res[m][s]]
  /\ at' = [at EXCEPT ![m][s] = "idle"] /\ res' = [res EXCEPT ![m][s] = "none"]
  /\ AnswerClient(m, s, res[m][s])
  /\ UNCHANGED <<rows, manager, env, aired, batch, phase, slips>>

-----------------------------------------------------------------------------
(* The reaper.                                                             *)

\* The grace period of a queued row is over. A task that can run is polled
\* well within it; a send that waits for the manager may take longer, unless
\* the grace period is what its comment says.
GrowOld(m) ==
  /\ row[m] = "queued" /\ m \notin old
  /\ at[m]["api"] \in {"idle"} \union (IF GraceHolds THEN {} ELSE {"await"})
  /\ old' = old \union {m}
  /\ UNCHANGED <<row, born, calls, manager, env, aired, batch, phase, slips>>

\* A send handed to the manager whose result is not in the database yet.
Unrecorded(m, s) ==
  at[m][s] = "await" \/ (at[m][s] = "record" /\ res[m][s] \in Resolved)

ReaperIdle == batch = {} /\ \A m \in Msgs : at[m]["reaper"] = "idle"
ReaperAlive == phase \in {"up", "closing"}

\* Mutant: the query forgets the status.
ReapAnyStatus ==
  /\ ReaperAlive /\ ReaperIdle
  /\ batch' = old
  /\ UNCHANGED <<rows, calls, manager, env, aired, phase, slips>>

\* Mutant: the batch limit is off by one.
ReapOneLess ==
  /\ ReaperAlive /\ ReaperIdle
  /\ LET stuck == {m \in old : row[m] = "queued"} IN
       batch' = {m \in stuck :
                   Cardinality({k \in stuck : born[k] < born[m]}) < ReapBatch - 1}
  /\ UNCHANGED <<rows, calls, manager, env, aired, phase, slips>>

\* A tick: queued_outbound_messages(cutoff, QUEUED_REAP_BATCH), oldest first.
ReaperTick ==
  /\ ReaperAlive /\ ReaperIdle
  /\ LET stuck == {m \in old : row[m] = "queued"} IN
       batch' = {m \in stuck :
                   Cardinality({k \in stuck : born[k] < born[m]}) < ReapBatch}
  /\ UNCHANGED <<rows, calls, manager, env, aired, phase, slips>>

\* The next message of the batch, as it was when the batch was read. Sending
\* a message that another call still handles, or that was resolved since, is
\* a slip.
Overlaps(m) == at[m]["api"] # "idle" \/ row[m] # "queued"

ReaperSend(m) ==
  /\ ReaperAlive /\ m \in batch
  /\ \A k \in batch : born[m] <= born[k]
  /\ \A k \in Msgs : at[k]["reaper"] = "idle"
  /\ batch' = batch \ {m}
  /\ at' = [at EXCEPT ![m]["reaper"] = "submit"]
  /\ slips' = [slips EXCEPT ![m] = IF Overlaps(m) THEN @ + 1 ELSE @]
  /\ UNCHANGED <<rows, res, client, lastEvent, manager, env, aired, phase>>

-----------------------------------------------------------------------------
(* Shutdown, crash and restart.                                            *)

\* SIGTERM: the server takes no new request.
Terminate ==
  /\ phase = "up" /\ faults < MaxFaults
  /\ faults' = faults + 1
  /\ phase' = "closing"
  /\ UNCHANGED <<rows, calls, manager, net, glitches, aired, batch, slips>>

\* Every handler has answered; run() aborts the reaper wherever it stands. Its
\* request, once in the channel, stays with the manager.
WithoutWaitingReaper ==
  LET stays(i) == i <= Buffer \/ chan[i].src = "api"
      gone == {i \in 1..Len(chan) : ~stays(i)}
  IN IF gone = {} THEN chan
     ELSE LET i == CHOOSE j \in gone : TRUE IN
            SubSeq(chan, 1, i - 1) \o SubSeq(chan, i + 1, Len(chan))

CloseServer ==
  /\ phase = "closing"
  /\ \A m \in Msgs : at[m]["api"] # "insert" /\ client[m] # "waiting"
  /\ phase' = "draining" /\ batch' = {}
  /\ at' = [m \in Msgs |-> [at[m] EXCEPT !["reaper"] = "idle"]]
  /\ res' = [m \in Msgs |-> [res[m] EXCEPT !["reaper"] = "none"]]
  /\ slips' = [m \in Msgs |->
                 IF Unrecorded(m, "reaper") THEN slips[m] + 1 ELSE slips[m]]
  /\ chan' = WithoutWaitingReaper
  /\ UNCHANGED <<rows, client, lastEvent, mgr, attempt, cur, snap, env, aired>>

\* Every handle is dropped, each dispatch task's when it ends: the manager
\* drains the channel and returns.
CloseChannel ==
  /\ phase = "draining" /\ mgr = "session" /\ ~Busy /\ chan = <<>>
  /\ \A m \in Msgs : at[m]["api"] = "idle"
  /\ mgr' = "stopped" /\ snap' = [snap EXCEPT !.connected = FALSE]
  /\ UNCHANGED <<rows, calls, chan, attempt, cur, env, aired, batch, phase,
                 slips>>

\* The process is gone, and with it everything that is not in the database.
\* A send that was handed over and not yet recorded is a slip.
Die ==
  /\ phase' = "down"
  /\ at' = EveryCall("idle") /\ res' = EveryCall("none")
  /\ client' = [m \in Msgs |->
                  IF client[m] = "waiting" THEN "gone" ELSE client[m]]
  /\ slips' = [m \in Msgs |->
                 IF \E s \in Sources : Unrecorded(m, s) THEN slips[m] + 1
                                                        ELSE slips[m]]
  /\ chan' = <<>> /\ mgr' = "stopped" /\ attempt' = 0 /\ cur' = Idle
  /\ snap' = [connected |-> FALSE, ready |-> FALSE]
  /\ batch' = {}
  /\ UNCHANGED <<rows, lastEvent, net, glitches, aired>>

\* modem_task has ended: run() returns and the runtime drops what is left.
Exit == phase = "draining" /\ mgr = "stopped" /\ Die /\ UNCHANGED faults

\* shutdown_watchdog: the grace period is over.
ForceExit == phase \in {"closing", "draining"} /\ Die /\ UNCHANGED faults

Crash ==
  /\ phase # "down" /\ faults < MaxFaults
  /\ faults' = faults + 1
  /\ Die

Restart ==
  /\ phase = "down"
  /\ phase' = "up" /\ mgr' = "offline" /\ attempt' = 0
  /\ UNCHANGED <<rows, calls, chan, cur, snap, env, aired, batch, slips>>

\* The SIM or the registration is lost; and comes back.
LoseNetwork ==
  /\ net /\ glitches < MaxGlitches
  /\ net' = FALSE /\ glitches' = glitches + 1
  /\ UNCHANGED <<rows, calls, manager, faults, aired, batch, phase, slips>>

GainNetwork ==
  /\ ~net
  /\ net' = TRUE
  /\ UNCHANGED <<rows, calls, manager, faults, glitches, aired, batch, phase,
                 slips>>

-----------------------------------------------------------------------------
Handler(m) == PrepareSend(m) \/ AcceptMessage(m) \/ AbandonInsert(m) \/ SyncTimeout(m)

Call(m, s) ==
  \/ SubmitRequest(m, s) \/ SubmitRefused(m, s)
  \/ WriteStatus(m, s) \/ LeaveQueued(m, s) \/ Publish(m, s)

Manager ==
  \/ OpenPort \/ OpenFails \/ Initialize \/ LosePort \/ RefreshStatus
  \/ TakeRequest \/ SegmentOnAir \/ AnswerOk \/ AnswerErrorRetry
  \/ AnswerGiveUp

Lifecycle ==
  \/ Terminate \/ CloseServer \/ CloseChannel \/ Exit \/ ForceExit
  \/ Crash \/ Restart

Next ==
  \/ \E m \in Msgs : Handler(m) \/ GrowOld(m) \/ ReaperSend(m)
  \/ \E m \in Msgs, s \in Sources : Call(m, s)
  \/ ReaperTick \/ Manager \/ Lifecycle \/ LoseNetwork \/ GainNetwork

Spec == Init /\ [][Next]_vars

-----------------------------------------------------------------------------
(* Fairness. The runtime polls every ready task and its timers fire; the   *)
(* modem answers or times out; the service manager restarts the process    *)
(* (Restart=on-failure) and the network comes back. Clients, signals,      *)
(* crashes and glitches are owed nothing.                                  *)

Answer == SegmentOnAir \/ AnswerOk \/ AnswerErrorRetry \/ AnswerGiveUp

Fairness ==
  /\ \A m \in Msgs :
       /\ WF_vars(AcceptMessage(m) \/ AbandonInsert(m))
       /\ WF_vars(SyncTimeout(m))
       /\ WF_vars(GrowOld(m))
       /\ WF_vars(ReaperSend(m))
       /\ \A s \in Sources : WF_vars(Call(m, s))
  /\ WF_vars(ReaperTick)
  /\ WF_vars(OpenPort \/ OpenFails) /\ WF_vars(Initialize)
  /\ WF_vars(RefreshStatus) /\ WF_vars(TakeRequest) /\ WF_vars(Answer)
  /\ WF_vars(CloseServer) /\ WF_vars(CloseChannel)
  /\ WF_vars(Exit \/ ForceExit) /\ WF_vars(Restart) /\ WF_vars(GainNetwork)

FairSpec == Spec /\ Fairness

-----------------------------------------------------------------------------
(* Properties.                                                             *)

Place  == {"idle", "insert", "submit", "await", "record", "publish"}
Result == {"none", "queued"} \union Resolved

RowsOK ==
  /\ row \in [Msgs -> {"none", "queued"} \union Resolved]
  /\ born \in [Msgs -> Nat]
  /\ old \subseteq Msgs
CallsOK ==
  /\ at \in [Msgs -> [Sources -> Place]]
  /\ res \in [Msgs -> [Sources -> Result]]
  /\ \A m \in Msgs, s \in Sources :
       at[m][s] = "publish" => res[m][s] \in Resolved
ToldOK ==
  /\ client \in [Msgs -> {"none", "waiting", "accepted", "gone"} \union Resolved]
  /\ lastEvent \in [Msgs -> {"none"} \union Resolved]
CurOK ==
  /\ cur \in [msg : Msgs \union {None}, src : Sources, part : Nat,
              tries : 1..MaxAttempts, onair : BOOLEAN]
  /\ Busy => cur.part \in Segments(cur.msg)
ManagerOK ==
  /\ chan \in Seq(Request)
  /\ mgr \in {"offline", "init", "session", "stopped"}
  /\ attempt \in Nat
  /\ mgr \in {"offline", "init", "session"} => attempt <= MaxReopen
  /\ snap \in [connected : BOOLEAN, ready : BOOLEAN]
AiredOK ==
  /\ aired = [m \in Msgs |-> aired[m]]
  /\ \A m \in Msgs : aired[m] \in [Segments(m) -> Nat]
EnvOK ==
  /\ net \in BOOLEAN
  /\ faults \in 0..MaxFaults /\ glitches \in 0..MaxGlitches
LifeOK ==
  /\ batch \subseteq Msgs
  /\ phase \in {"up", "closing", "draining", "down"}
  /\ slips \in [Msgs -> Nat]

\* The type invariant.
TypeOK == RowsOK /\ CallsOK /\ ToldOK /\ CurOK /\ ManagerOK /\ AiredOK /\ EnvOK
          /\ LifeOK

FullyAired(m) == \A p \in Segments(m) : aired[m][p] > 0

\* Whoever is told "sent" (the database row, the event stream, the HTTP
\* caller) is told the truth: every segment of the message went out, whatever
\* was retried, aborted, lost or restarted on the way (send_all_segments,
\* dispatch_send, reap_queued_messages).
SentMeansAired == \A m \in Msgs :
  "sent" \in {row[m], lastEvent[m], client[m]} => FullyAired(m)

\* Why it holds: the segments before the current one are out, so is the current
\* one once it is on air, and no call holds a Sent result that is not true.
CurProgress == Busy =>
  /\ \A p \in Segments(cur.msg) : p < cur.part => aired[cur.msg][p] > 0
  /\ cur.onair => aired[cur.msg][cur.part] > 0
SentResult == \A m \in Msgs, s \in Sources :
  res[m][s] = "sent" => FullyAired(m)
SentInv == TypeOK /\ CurProgress /\ SentResult /\ SentMeansAired

\* A segment goes out once, plus at most once for every time the service lost
\* track of that very message: a send that died between the radio and the
\* database, a lost status write, a misleading modem answer, or a reaper that
\* sent what another call still held. Nothing else, in particular no
\* disconnect, give-up, deferral, retry or orderly restart, duplicates an SMS.
CopiesBounded == \A m \in Msgs : \A p \in Segments(m) :
  aired[m][p] <= 1 + slips[m]

\* A caller awaits a reply exactly when the manager still holds its request:
\* no interleaving of full channel, disconnect, give-up, abort and restart
\* leaves a dispatch task, or the reaper, waiting for ever (send_sms,
\* handle_request, run_modem_manager).
Held(m, s) ==
  Cardinality({i \in 1..Len(chan) : chan[i] = [msg |-> m, src |-> s]})
    + (IF cur.msg = m /\ cur.src = s THEN 1 ELSE 0)
AwaitedIsHeld == \A m \in Msgs, s \in Sources :
  /\ at[m][s] = "await" => Held(m, s) = 1
  /\ at[m][s] # "await" /\ s = "api" => Held(m, s) = 0

\* While nothing slipped, the three places an outcome is told in agree once
\* the calls for the message are over: the last event published and the answer
\* of a synchronous send are what the row says (dispatch_send, sync_send).
OutcomesAgree == \A m \in Msgs :
  slips[m] = 0 /\ (\A s \in Sources : at[m][s] = "idle") =>
    /\ lastEvent[m] \in {"none", row[m]}
    /\ client[m] \in Resolved => client[m] = row[m] /\ lastEvent[m] = row[m]

\* Every message that was accepted is resolved in the end, whatever crashed or
\* was disconnected in between: a deferred or orphaned row is the reaper's.
QueuedResolves == \A m \in Msgs : row[m] = "queued" ~> row[m] \in Resolved

\* lib.rs on QUEUED_REAP_GRACE_SECS: the reaper "never double-sends a delivery
\* still in flight".
NeverDoubleSends == \A m \in Msgs : \A p \in Segments(m) : aired[m][p] <= 1

\* Nothing slips: the outbound path is an outbox.
Outbox == INSTANCE Outbox
OutboxSpec == Outbox!Spec
=============================================================================
