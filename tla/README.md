# green_relay in TLA+

green_relay turns an LTE modem on a serial port into an SMS gateway with a REST
interface. This directory holds TLA+ models of the service in
`src/service/src/` (paths below are relative to it), the TLC configurations that
check them on small instances, and proofs about them for every instance.

## Inventory

| Component | State | Operations | Talks to |
|---|---|---|---|
| HTTP handlers of `/messages` (`api/v1.rs`) | none of their own; the future of a request | `prepare_send`, `queue_send`, `sync_send` | read the modem snapshot, insert a row, spawn a dispatch task |
| Dispatch task (`api/v1.rs`) | one awaited reply | `dispatch_send` | modem channel, database, event bus, and the waiting handler |
| Reaper (`lib.rs`) | the batch it has read | `reap_queued_messages` | database, modem channel, event bus |
| Modem manager (`modem/mod.rs`) | the port, the count of failed opens, the status snapshot | open, recover, initialize, session, back off or give up | consumes the channel (32 places), audits |
| Session (`modem/session.rs`) | announced indexes, time of the last refresh | send, read inbound, refresh, raw command | serial line, database, event bus |
| AT exchange (`modem/transport.rs`, `modem/protocol.rs`) | bytes read and not yet split into lines; the prompt state | `exchange`, `collect_until_terminator`, `send_sms_part`, `abort_to_command_mode` | serial line |
| Database (`db.rs`) | messages, keys, admins, audit records, migrations | one statement per operation | everyone |
| Event bus (`events.rs`) | a broadcast buffer | publish, subscribe | subscribers (server-sent events) |
| API keys (`api/mod.rs`, `keycache.rs`, `admin/keys.rs`) | the table, a bounded cache without expiry | create, revoke, resolve, evict | database, auth middleware |
| Lockout (`auth.rs`, `admin/login.rs`) | recent failures per identifier | check, record, forget, prune | auth middleware, login |
| Rate limiter (`ratelimit.rs`) | a window and a count per key | check, expire | rate-limit middleware |
| Admin sessions (`admin/session.rs`, `admin/login.rs`) | token table | create, resolve, end, sweep | login handlers, sweeper task |
| Process lifecycle (`lib.rs`, `main.rs`) | server, tasks, watchdog | start, SIGTERM, drain, forced exit | systemd restarts the process |
| Configuration (`config.rs`) | none after start | `load`, `from_map`, `merge_env_over_file` | `run`, `create_admin` |
| Schema (`db.rs`) | `schema_migrations`, the schema itself, `schema_ready` | `run_migrations`, `ensure_ready` | `run`, `create_admin`, which share the file |
| Message readers (`api/v1.rs`, `admin/dashboard.rs`) | a client's page and stream, the two queries of the dashboard | `list_inbound`, `events_handler`, `recent_activity` | database, event bus |
| Health (`health.rs`, `modem/protocol.rs`) | none, a function of the snapshot | the parsers, `derive_health`, `deliverability_gate`, `reconnect_backoff_secs` | `/health`, `/status`, `prepare_send`, `handle_send`, the manager |
| Segmentation (`sms.rs`) | none | `segment_message`, encoding | `prepare_send`, `handle_send` |

What is hard in each, and what makes it correct:

* **Outbound delivery.** Five actors handle one message: handler, dispatch task,
  reaper, manager, shutdown. A send can be interrupted between the radio and the
  database at any point, its reply channel can be dropped in several places, and
  two calls may handle the same row. Correct means: nobody is told "sent" of a
  message that did not go out; an SMS is duplicated only if the service lost
  track of it; every accepted message is resolved; no caller waits for ever; the
  row, the event stream and the HTTP answer agree.
* **Inbound messages.** The modem announces a message once. The announcement
  shares a line with answers that carry no name, the list of announced indexes
  is in memory only, and reading, recording and deleting can each fail. Correct
  means: nothing is deleted before it is recorded, nothing is recorded twice,
  and what is announced is read, or given up with an audit record.
* **AT exchange.** An answer is matched to a command by order alone, and a prompt
  turns the next command into text. Correct means: after any failure the line is
  in command mode and the next answer belongs to the next command.
* **API keys.** The database read that fills the cache and the revocation that
  empties it are separated by awaits. Correct means: a revoked key is refused.
* **Lockout, rate limiter, sessions.** State that is pruned, capped and expired
  must decide as the full history would, although attempts overlap and are
  recorded out of the order of their times.
* **Configuration and schema.** The service and `create-admin` may read different
  set-ups, migrate one file at the same time and be killed half-way. Correct
  means: nobody works on half a schema, a setting is read as its rule says, and
  the service comes up in the end.
* **Readers.** Pages are cut by offset while rows come in and the clock is set
  back; a stream drops events for the slow. Correct means: a client that
  subscribes before it lists misses nothing without being able to know.
* **Lifecycle.** SIGTERM, a crash and a restart may come at any step of the above.

`PROJECT.json` lists the points of the code where each of these can go wrong.

## Modules

| Module | Contents |
|---|---|
| `Outbox` | what the outbound path promises: record, transmit in order, resolve once |
| `Delivery` | the outbound path as the code has it |
| `Inbox` | what the inbound path promises: record once, remove after that |
| `Inbound` | the inbound path as the code has it |
| `ModemLine` | the dialogue of a send on the serial line, and the recovery of the line |
| `ApiKeys` | creation, revocation and resolution of API keys |
| `Lockout` | when failures lock, and what the trackers keep of them |
| `Access` | attempts under the lockout, for API keys and logins; admin sessions |
| `Settings` | how the configuration is read |
| `Startup` | the service and `create-admin` coming up on a shared database (uses `Settings`) |
| `Segmentation` | how a body is measured and cut |
| `Status` | what the modem's answers are taken to mean, the gate, the backoff |
| `Admission` | a `POST /messages` from the rate limiter to the row (uses `Segmentation`, `Status`) |
| `Readers` | pages of messages, the event stream, the dashboard's activity |
| `Service` | the process: `Startup`, `Admission` and `Readers` composed |
| `MCDelivery`, `MCInbound`, `MCModemLine`, `MCApiKeys`, `MCAccess`, `MCService` | instances for TLC |
| `DeliveryProofs`, `InboundProofs`, `ModemLineProofs`, `ApiKeysProofs`, `AccessProofs`, `StartupProofs` (and `Settings`), `SegmentationProofs`, `ServiceProofs` | theorems about the modules they are named for |

A definition headed "Mutant" is a plausible mistake in the code that follows it; no
specification uses it. It shows that the property it is paired with in
`PROJECT.json` would notice.

### Delivery

`row`, `born` and `old` are the table `outbound_messages` (`status`, the order of
`created_at`, and whether it is past the reaper's cutoff). `at[m][s]` is the place
where the call of source `s` ("api": the dispatch task with its handler,
"reaper") for message `m` stands, each place being one await of the code:

    insert   create_outbound_message        (prepare_send)
    submit   tx.send(request)               (ModemHandle::send_sms)
    await    the oneshot reply
    record   set_outbound_status            (dispatch_send, reap_queued_messages)
    publish  events.publish, and the answer of a synchronous send

`chan` is the mpsc channel followed by the senders waiting for room, which tokio
serves in order; `mgr`, `attempt`, `cur` are `run_modem_manager` and the request
in its hands (segment, attempt, whether this attempt has put the segment on
air); `snap` is what the code decides by in `ModemStatusSnapshot`, `net` what is
true of the SIM. `aired` counts the copies of each segment the network took: it
is the only judge of what was sent. `phase` is the lifecycle. `slips[m]` counts,
for the properties only, how often the service lost track of a send of `m`.

The AT dialogue of one attempt is reduced to its outcome: the segment goes on
air or not, and the answer is OK, another result, or nothing in time. An answer
is taken to be that of its own segment; `ModemLine` looks into that. `AnswerErrorRetry` with the segment on
air is the misleading answer: an error after the fact, or an OK whose `+CMGS`
line was lost.

A row grows `old` only when its dispatch is idle or (unless `GraceHolds`) awaits
the modem. Leaving the rest out says that a task which can run is polled within
the grace period. With `GraceHolds` the grace period is what the comment at
`lib.rs:207-209` says it is. The runs that ask what the code guarantees beside
that known overlap set it; the runs about the overlap do not.

### Inbound

`stored` is the modem's message storage, `todo` the commands it has received and
not dealt with, `wire` what it has written and the session has not read. `pc`
names the await of the session: `poll` is the `select!`, `persist` the insert,
`audit` the record of an index that was given up, the others are exchanges, named
by what they are for. `idx`, `tries`, `got` are the
locals of `handle_inbound_inner`, `pending` is its queue of indexes. `setup`,
`refresh` and `send` exchanges discard `+CMTI`; `read`, `delete` and `raw` ones
scan for it, as the calls of `scan_cmti` do. One exchange stands for each run of
them, since any number may follow one another.

Commands and answers carry names in the model, but the session takes whichever
answer comes next, as `collect_until_terminator` does. `ExchangeTimeout` with a
command still in `todo` is the late answer, bounded by `MaxLate`.

A new connection begins with an empty line (closing the terminal discards its
buffers, and recovery drains what is left). A message is written to the line as
one item: the model has no announcement in the middle of an answer. A successful
insert is taken for durable.

`reported` are the messages for which there is an audit record, `unaudited` those
for which writing it failed: `audit` (session.rs:34-41) only logs that, and the
session goes on. A failed insert and its failed record are two faults.

### ApiKeys

`row` is the table `api_keys`, `cache` the moka cache, "none" being a cached
negative lookup. `req[r].at` is the await of a request in `auth_middleware`:
`get`, `lookup` and `insert` are those of `resolve_active_key`, `decide` is
`authenticate_identified`, for which only the outcome of the lookup counts here
(the lockout is a component of its own). `adm[a].at` is the await of
`create_api_key` (`tell`: the audit record) or `revoke_api_key` (`update`,
`invalidate`, `confirm`: the audit record). Any handler may stop at any of them:
a statement fails, or the connection of its client ends and axum drops it.
`told` is who can present a key at all: an admin has been shown it. `confirmed`
and `strayed` are history: the revocations an admin was told of, and the entries
cached from a lookup older than the revocation they follow.

### ModemLine

The line of `Inbound` once more, for the other thing that is done on it: `todo` is
what the session has written and the modem has not dealt with, `wire` what the
modem has written back. An answer is told by its kind only, "end" (`OK` or an
error), "sent" (`+CMGS` and `OK`) or "prompt", because that is all the code goes
by. `plan` is what the session is about to write, one exchange after the other
(`recover_command_mode`, `initialize`, the character set, a status refresh);
`job`, `part` and `tries` are the loop of `handle_send`; `wait` names the read it is
in. The modem is external: between a header it accepted and the end of a text it
takes everything for text. It may refuse, fall silent or be slow; the port may
be lost at any byte, a text with it (`Cut`).

Every read has a time limit (8 s for a prompt, 30 s for a result), and every limit may
pass while what is waited for is on its way: an answer or a result (`late`, bounded
by `MaxLate`) as well as a prompt (`tardy`, bounded by `MaxTardy`), before the modem has
seen the header or after. What comes later stays on the line. `wait_for_prompt`
looks for the byte `>`, which a line that is no prompt may have in it: `Misprompted` is
such a byte (`strays`, bounded by `MaxStrays`), anywhere before the first prompt on the
line. It is taken in the same step in which it comes, since at any other time it is
part of a line that matters to nobody here. What a modem makes of a text at its
command line is `ModemTyped`. A header that the modem refuses is, in the code and the
model, a prompt that does not come: it is waited for, reported as "timeout" and not
tried again.

The code can tell its prompt and its answers only by their order, so three of the
properties, `PromptIsOwn`, `NoTextExecuted` and `SentIsTaken`, hold while little goes wrong.
`Tolerable` says how little: up to four refusals, lost or late answers and lost ports
while no prompt was late and no other `>` taken for one; or any number of late
prompts and of such bytes, but none of the others. The properties with `Within` in
their names have that condition. It is sharp in kind: one late prompt and one lost
answer break `PromptIsOwn`, so do one stray byte and one refusal, and with a
lost port five of the first kind do.

### Lockout and Access

A failure is a pair of the time its attempt began and the rank in which it was
recorded, a history a set of failures. `Recorded` and `Pruned` are `record_failure`
and `evict_stale`; `Locked` is the decision of `is_locked_out` and `admin_locked`.
`tracker` is what the code keeps, `history` what it would keep if it forgot
nothing, and `dropped` the sources a saturated tracker had no place for. `att[a]`
is one attempt: `lookup` is the await between the check of the lock and its
record, `audit` the one between the session and its audit record. The two kinds
of attempt, API key and login, share everything but three points, so `kind` is a
choice of the initial state.

`sessions` is `SessionStore`, `cookie` what the browser was sent. Passwords and
tokens are right or wrong, tokens are never guessed or reused. Time is a clock of
ticks; an attempt is under way for at most `MaxFlight` ticks, and the sweeper
runs when it is due.

### Settings and Startup

A text is a number: what it reads as, or one of a few texts that read as nothing
(blank, junk, a nested value, one that is not there). `Rule` has a line per key,
with the default and the range; `Order` is the order of `from_map`, which decides
the error that is reported. `Load` is `config::load`.

`at[p]` is the step of process `p`, the service or the tool: configuration,
connection, the read of `MAX(version)`, one migration after the other, then
binding or the upsert of the admin. One migration and its record are one
transaction, hence one step; of two processes that try the same one the slower
gets a constraint error and ends. `Fail` is an error or a kill anywhere, `Restart`
is systemd's, `Edit` changes the file or the environment under a process that
has read it. `setup` names one of a few set-ups, and the tool has its own:
`lib.rs` says it uses the same configuration as `run`, which is so only in the
same environment and working directory.

### Segmentation and Status

Pure functions, with their reference definitions beside them. A character is one
of five kinds, by what it costs in either encoding. `Fewest` looks for the least
number of consecutive parts among all ways of cutting. The loop of `segment_by` is
a function of the number of characters read (`Loop`), as is the sum of their costs
(`Sums`), so that both can be reasoned about. `Status` maps the fields of
the four answers of a refresh to a snapshot, and the snapshot to the answers of
`/health`, `/status` and the gate.

### Admission

`slot[r]` is a request that has been authenticated: `check` is the time between
taking the clock and getting the limiter's lock, in which requests overtake each
other; `prepare` the validation, `insert` the await of the row. `windows` is the
cache of `WindowState`, whose entries expire; `let` and `promise` are history: who
was let in when, and what `Retry-After` last said. The eviction at 50,000 keys is
not reached.

### Readers

`table` is both message tables in the order of insertion, each row with the time
the wall clock showed. `silent` are the rows whose event is still to come. A
client subscribes, then asks for page after page until one is empty (`client.offset`
is what it passes). The queries of the dashboard return any of the admissible
sets where several rows share a time.

### Service

Composes what one process holds. `ServiceUp` is the bind of `Startup` together with
the limits handed to the router; `ServiceDown` any failure, which takes the
limiter, the requests, the bus and the connections with it. Clients act while the
server answers. `load` picks what a behaviour is about (the start itself, sends,
pages, the dashboard), since these do not read each other's state; four more
values, `cut`, `load`, `report` and `backoff`, are behaviours of one state each in
which a pure function is given an `input`.

## Runs

| Run | Instance | What it shows |
|---|---|---|
| `delivery_races` | 2 messages, 1 fault, channel of 1, no grace | types; `SentMeansAired`; `CopiesBounded`; `OutcomesAgree` |
| `delivery_recovers` | 1 message of 2 segments, 2 faults, 2 glitches, fair | `AwaitedIsHeld`; every queued row is resolved |
| `delivery_outbox` | 2 messages, 3 segments, 2 glitches, grace | `Delivery` implements `Outbox` |
| `delivery_double_send` | 1 message, no fault, 1 lost port | refutes `NeverDoubleSends` |
| `inbound_inbox` | 3 messages, 2 places, 3 faults, fair | types; `NothingLost`; `Inbound` implements `Inbox`; an index taken from the line is followed up, though its audit record may fail too |
| `inbound_late` | 2 messages, 2 late answers, no fault | refutes `NothingLost` |
| `inbound_unscanned` | 2 messages, no fault, fair | refutes `AnnouncedIsHandled` |
| `modem_line` | a UCS2 message of 2 segments and a plain one, 2 attempts, 2 faults, 2 late answers, 1 late prompt, 1 stray `>`, fair | types; the prompt gets its own text or ESC; a text is in its character set; every send ends; and, while little goes wrong (`Tolerable`): a prompt is the session's own, no text is run as a command, "sent" means taken |
| `keys_refused` | 2 keys, 2 requests, 2 admins | types; `ConfirmedIsEvicted` |
| `keys_immediate` | the same | refutes `RevocationImmediate` |
| `admin_access` | 2 sources and one place in the tracker, 2 attempts, 1 session, 4 failures, 5 ticks | types; the pruned tracker decides as the full history; guesses per window; locks of keys are kept; sessions are reclaimed; cookies are audited |
| `service` | 2 migrations, 2 files, 3 set-ups, 3 troubles; 2 requests of a key; 3 rows; some 3,000 inputs of the pure parts | types; the schema is as recorded and complete; the service comes up; bursts, `Retry-After`; queued rows can be sent; nothing unseen; the dashboard; configuration, segmentation, status and backoff against their references |

**Bounds.** Two messages are what it takes to contend for the channel, for the
reaper's batch and for the manager; a channel of one place makes the second
sender wait; a batch of one makes the reaper come back; two attempts and one
reopening give every counter a step below, at and past its limit. A fault is a
crash, a stop, a lost status write or a misleading answer; one of them with two
messages and two with one reach each of these before, in the middle of and after
a recovery. `SlipsBounded` stops `delivery_races` where overlapping sends of the
reaper would repeat without end. For inbound, three messages in two places fill
the storage and reuse a place; three faults can fail the insert, the delete and
the session of the same message, or its insert, the audit record of that and more;
three attempts are those of the code.
`delivery_races` uses symmetry in the messages: its properties are invariants and
the model treats messages alike (both of one segment).

For API keys, two requests, two admin handlers and two keys let any two handlers of
one key overlap while another key is in use; all three sets are symmetric, and
the properties are invariants.

For the modem line, two segments let the result of one be taken for the other's,
and two messages let it cross from one to the next; two late answers and two
faults can spoil a dialogue and the recovery from it, and reach the four that
`Tolerable` allows. A late prompt and a stray `>` join them in every order, so that
the properties without a condition are checked with all of it, and those with one
are checked for either half of it. With `MaxLate = 3` and the ports that the two
faults can lose, `PromptIsOwn` fails without any late prompt. With more of the other
half, three late prompts and three strays and nothing else, nothing fails; both halves
are proved for any bounds (see below).

For access, a threshold of two with three failures kept, and windows of one or
two ticks, make every failure pass through recent, old and pruned; one place for
two sources saturates the tracker; two attempts overlap. Attempts are symmetric.

For the service, two migrations are the least with a gap between them; the
troubles let the service lose a race, be killed and have its set-up edited in
one behaviour, and behaviours with clients begin with one left so that a crash
comes between requests. A window is one second of two ticks, or two; requests
lag one tick, entries go after two, so an entry can go at the end of its window.
Three rows and a feed of two overflow the feed; pages of one and two cross
insertions; three times of the wall clock can be set back. Bodies are all those
of up to five characters of five kinds and the plain ones of up to twelve, with
capacities of 4/3 (GSM-7) and 3/2 (UCS2) and three parts: the limit of parts is
reached and passed, pairs fall on every boundary.

**Fairness.** Weak fairness on each task says that the tokio runtime polls a task
that can go on and fires its timers; on the modem's answer, that the modem
answers or the exchange times out; on `Restart`, that systemd restarts a dead
process (`Restart=on-failure`) and that a stopped one is started again; on
`GainNetwork`, that a registration comes back. Nothing is assumed of clients,
signals, crashes, lost ports or arriving messages. Strong fairness on `PollLine`
alone: `select!` picks at random between a line and a request that are both
ready, so it does not pass over the line for ever. In `ModemLine` the same is
said of the modem and of each read, which has a time limit; nobody has to ask for
a send or an exchange. In `Service` only the start is fair (`Upwards`): the runtime
goes on with it and systemd restarts it; the tool, the clients and edits are
left free, and `ComesUp` holds only as long as the configuration loads.

**Where code and documentation part.**

* `delivery_double_send`. The comment at `lib.rs:207-209` says the grace period
  keeps the reaper from racing the foreground dispatch. The reaper looks at
  `created_at` only, and a dispatch waits for the manager without a bound, so a
  backlog or a reconnect longer than the grace period sends a message twice.
* `inbound_late`. README.md:27-30 says a message is deleted only once it is
  persisted. Two answers to `AT+CMGR` that come after their timeouts shift all
  that follows: the third attempt reads the first answer, the delete is
  acknowledged by the second, and the third is taken for the message at the next
  index, which is then deleted unread.
* `inbound_unscanned`. README.md:27-29 says inbound messages arrive as `+CMTI`,
  which the manager reads. One that comes during `initialize`, `refresh_status`
  (every 30 s) or a send is dropped, and the storage is never listed.
* `keys_immediate`. `keycache.rs:4-6` says a revocation takes effect immediately.
  A request that read the row before the revocation puts it in the cache after
  the eviction; without an expiry the entry stays. `ConfirmedIsEvicted` says that
  this is the only way: everything else that may overlap leaves the key refused.

The properties of the other runs hold as the code has it. What modelling them
brought up, without a run of its own:

* `transport.rs:249-250` says that after an abort the modem is guaranteed to be back
  in command mode. It is once it has dealt with the ESC, whose answer is awaited
  for a bounded time; `NoCommandSwallowed` rests on the order of the line, not on that.
* `ratelimit.rs` calls the window sliding. It is fixed: `BurstBounded` has twice the
  limit, and that bound is reached. It also speaks of spans shorter than a window
  by `MaxLag`: requests take their time before they wait for the lock
  (`rate_limit_middleware`), so a span as long as a window may have the late
  requests of one window, all of the next and the first of a third, three times
  the limit. TLC finds that with `MaxLag = 2`. Lines 91-93 say that dropping idle entries
  never affects a decision; with a `RATE_WINDOW_SECS` beyond the hour entries live
  it may, so the property is about windows that the entries outlive.
* `auth.rs:125-131`: once the tracker has no place left, the failures of further
  identifiers are not recorded and never lock them. `DecidesAsFull` excepts them.
  For the others it is proved if a tracker keeps enough: with the 5 and 32 of the
  code, for up to 24 attempts of all sources at once, none longer than the
  window; nothing in the code bounds either.
* `wait_for_prompt` of the serial port (transport.rs:118) takes any `>` in its buffer for
  the prompt, and the buffer is not emptied before the header is written.
  `transport.rs:264-265` says that the modem "must answer with the `>` prompt before it will
  take the body", and the test at `protocol.rs:400` that "a > b" is no prompt. With a refused
  header and one such byte the text is written to the command line (TLC finds it with
  `MaxStrays = 1` and `MaxFaults = 1` and nothing else, as `NoTextExecuted`).
* `recover_command_mode` (transport.rs:234) and the drains before a header read what
  has arrived. A prompt still on its way is taken by a later `wait_for_prompt`
  (transport.rs:111) for that of its own header. The exchange of `AT+CMGF=1` that a send
  begins with reads such a prompt away with its answer; when that answer is lost or
  late as well, the session writes a text to a header the modem has not
  accepted. So one late prompt and one lost answer are enough on one connection, and a
  message may be called sent whose last segment was not taken. With prompts in time it
  cannot happen on one connection (`PromptsAreOwn`); after a lost port, which is one
  fault, it takes four more lost or late answers of the model (`PromptsAreOwnWithin`), and
  more in the code, where one step of the model stands for several commands.
* A login in flight when its address is locked lifts the lock if it succeeds;
  the cookie's `Max-Age` counts from the login and is not renewed with the session;
  a password reset by `create-admin` leaves running sessions alone.
* A body line that reads `OK` or `ERROR` ends the answer to `AT+CMGR` early.
* Rows from more than `RowCap - ShowMax` (40) steps ahead of a clock that was set
  back crowd out the dashboard's recent activity (`FewAhead`).

## Proofs

All theorems hold for every value of the constants; they assume only the named
assumptions of each module, which give its constants their types and ranges, and
the hypotheses they state.

* `DeliveryProofs!TypeCorrect` (`Spec => []TypeOK`). `TypeOK` is inductive as it
  stands, because it says that the manager's segment exists and that a call
  about to publish has an outcome. One lemma per group of actions; what a step
  leaves alone is dealt with once, in `Frame`.
* `DeliveryProofs!SentIsTrue` (`Spec => []SentMeansAired`). Not inductive: a step
  that writes "sent" copies what a call was told, which the manager concluded
  from its segments. `SentInv` adds the two facts in between: the segments before
  the current one are out, and the current one if it is on air (`CurProgress`);
  and no call holds a Sent result that is not true (`SentResult`). `aired` only
  grows (`AiredGrows`), so these survive everything that happens to other calls,
  crashes included.
* `DeliveryProofs!NobodyForgotten` (`Spec => []AwaitedIsHeld`). `HeldInv` says of every call
  in which of channel, senders waiting for room and manager its request is, and
  that none has two; that a reaper that is gone left no batch; and that nothing is
  kept while the process is down.
* `DeliveryProofs!DuplicatesAreSlips` (`Spec => []CopiesBounded`). What has to be counted is
  not only the copies on air but those that may still come: `Budget` charges every
  call for the segments it may yet put on air, and a queued row that is left to the
  reaper for one call more; a slip pays for what is charged twice.
* `DeliveryProofs!OneOutcome` (`Spec => []OutcomesAgree`): while nothing slipped, one call at
  a time has a message in its care (`Agree`), and nobody is told an outcome before
  the row has it.
* `DeliveryProofs!CalmIsOutbox`: without faults and with a grace period that covers every
  dispatch, each step of `Delivery` is one of `Outbox` or a stutter. It rests on the
  invariants above and on `Calm`: nothing slipped, and what the reaper takes is no
  longer in a dispatch.
* `InboundProofs!TypeCorrect` (`Spec => []TypeOK`).
* `InboundProofs!KeptUntilSaved` (`MaxLate = 0 /\ Spec => []NothingLost`). The
  inductive invariant `InTime` says why order is enough to match answers when
  none is late: at most one command or one answer is in flight, it is for the
  index being handled, what was read is what that index holds, and a delete is
  in flight only to an index whose message is recorded. The hypothesis is needed:
  `inbound_late` refutes the property without it.
* `InboundProofs!InboundIsInbox`, under the same hypothesis: each step of `Inbound` is one
  of `Inbox` or a stutter. In addition it needs that a message is at one index and
  recorded once (`Single`), and that an index has one notice, in the modem's storage,
  on the line, in the queue or in hand, and that for a message not yet recorded
  (`Fresh`).
* `ApiKeysProofs!TypeCorrect` and `ApiKeysProofs!RevocationEvicts`
  (`Spec => []ConfirmedIsEvicted`). The strengthening `UpdatedFirst` follows the
  order in `revoke_api_key`: a handler about to evict has seen the row revoked,
  one about to confirm has evicted. `RequestEvicted` and `AdminEvicted` say that
  nothing later undoes either, whichever handler does it.

* `ModemLineProofs!Typed` and `ModemLineProofs!NothingSwallowed`
  (`Spec => []NoCommandSwallowed`), with no bound on faults, late
  answers, late prompts and stray `>`. The
  strengthening `Dialogue` looks at the whole of what was written: a header is
  followed by its own text, a beginning of it, or ESC, and a beginning by ESC; an
  end that is still open is the session's own while it waits for the prompt, or
  the next thing it writes is ESC. That is why recovery begins with ESC.
* `ModemLineProofs!CharsetKeptRight` (`TextInItsCharset`): `Charset` says of each parameter of
  the character set that the last setting still to be written, or the last one
  in `todo`, or what the modem has, is the one due.
* `ModemLineProofs!TextsAreRead` and `ModemLineProofs!SentWasTaken` (`NoTextExecuted`,
  `SentIsTaken`) under the hypothesis `[](PromptIsOwn /\ NoStray)`: with any number of
  faults and late answers a prompt of another header, or a byte taken for one, is all
  that can go wrong. `TextFirst`: a text is written to a modem that waits for it and
  has nothing else to do. `InDialogue` and `SoFar` follow what the network took to the
  answer and to what the client is told.
* `ModemLineProofs!PromptsAreOwn`: while no port is lost, no prompt comes later than the
  session waits for it and no other `>` is taken for one (`Timely`), every prompt found is
  that of the header before it, with any number of other answers lost, refused or
  late. `InOrder` says that there is a header or a prompt on the line only while the
  session waits for the prompt of its own.
* `ModemLineProofs!PromptsAreOwnWithin`, `TextsAreReadWithin` and `SentWasTakenWithin`: lost
  ports, late prompts and stray `>` included, the three hold as long as what went wrong
  is `Tolerable`, whatever the bounds of the instance are. Each half has its own
  inductive invariant.
  + At most four refusals, lost or late answers and lost ports, every prompt in time:
    a lost port leaves headers that the session after it knows nothing of. `Outstanding`
    bounds what can be on the line by what was lost or given up and the one answer
    that is awaited. `Owing` compares, for each header or prompt of an earlier session,
    the number of things before it with the answers the new session has still to wait
    for (`Ahead`): each answer that comes takes something away, each that does not is
    counted, and a session that waits for none of its own has nothing of another before
    it (`Behind`). Before a header of its own it waits for those to ESC, which the modem
    need not give, to `AT`, to the two settings of the character set and to the command a
    send begins with: four that are owed. With a fifth loss TLC finds a session misled.
  + Any number of late prompts and stray `>`, nothing else: the port is never lost and
    every command is answered, so session and modem go in step (`InStep`). While an answer is
    awaited, the line has what it answers (`AnswerDue`), and a late prompt only before it,
    where it is read away with it; a session at a prompt or a result has its own header or
    text under way, and what else is left on the line is prompts (`PromptDue`,
    `ResultDue`).
* `AccessProofs!Typed` (the tracker never outgrows its places),
  `AccessProofs!OnlyTimeUnlocks` (`LockKept`: what is too old to be kept is too old
  to matter for a lock that holds, `PrunedKeepsLock`, and an attempt that began
  earlier finds the lock too, `LockedEarlier`), `AccessProofs!CookieIsAudited`, and
  `AccessProofs!UnusedAreReclaimed`, which needs that a login takes less time than
  a session may be idle: `create` takes the time at which the attempt began.
* `AccessProofs!NothingThatMatters` (`DecidesAsFull`). Failures are recorded out of the
  order of their times, so the ones that are kept need not be the newest.
  `Remembered` says that what is forgotten is too old or has enough after it, and
  counts those that were overtaken: no more than the attempts that were under
  way. Hence the hypothesis `EnoughKept`, which the code's numbers meet; the run's
  instance keeps three, fewer than that.
* `AccessProofs!GuessesAreFew` (`GuessesBounded`), which needs `LocksOutlast` too: locks as
  long as the window, those of keys longer by the time of an attempt (300 s and
  60 s in the code). `Counted` says how many can still be recorded once a failure
  has locked: for logins those under way.
* `StartupProofs!EveryOne`: the reference definition `LoadsRight` holds of every
  set-up, not only of those the run tries. A configuration that loads is usable;
  the environment hides the file; repairing the named setting moves the error on.
* `StartupProofs!RecordIsTrue` and `StartupProofs!ReadyIsComplete`. `SchemaAsRecorded`
  is not kept by a migration alone: the process must also have seen to all the
  migrations before its own (`Sound`), which reading `MAX(version)` gives it only
  because there is no gap.
* `ServiceProofs!ComesUpAsStartup`: every behaviour of `Service` is one of
  `StartupSpec`, so the theorems about the start hold of the composition;
  `ServiceProofs!SchemaIsTrue`, `ServiceProofs!ServedIsComplete` and
  `ServiceProofs!ConfigurationsLoad` state the run's properties of it.
* `ServiceProofs!WaitingSuffices` (`RetryAfterSuffices`): the invariant `RetryInv` says
  that a key with a promise has no window left, or one that is over by the time
  promised. A refusal gives that because the seconds are rounded up (`RoundedUp`) and
  windows are whole seconds, which is where the loaded configuration comes in
  (`LimitsInv`: the limiter has the positive limits that `config::load` lets pass); a
  request whose time lies before the window began counts the whole window.
* `ServiceProofs!TwiceAtMost` (`BurstBounded`). `BurstInv` says of each key that of the requests
  let in no more than the window's count can be of this window only, and no more
  than that and a limit lie in the span that ends now (`Few`); that older spans hold
  (`Spans`); and that an entry which expired has outlived its window.
* `SegmentationProofs!EveryCutRight`: a body of any length, for any capacities of at
  least two, is cut into the fewest parts that hold it, and they make it up again.
  Both ways of cutting are `Greedy`: a part ends only where the next character would
  have been too much. For the loop this is an invariant of what it holds after k
  characters (`Holds`); for the cut by division it is arithmetic (`PartCount`). Whatever
  the other cut, its first i ends lie within the first i greedy parts (`Optimal`), or
  a part of it would span a greedy part and a character more. The library's theorems
  of induction take the property as an operator, which none of the provers here can
  instantiate; `Induction` takes the set of the numbers that have it instead, and
  follows from the library's `WFMin`, which is about sets (`LeastNumber`).
* `ServiceProofs!BodiesAreCut` (`SegmentsRight`) is `EveryCutRight` of the bodies tried, and
  `ServiceProofs!ServiceTyped` (`Spec => []TypeOK`) puts together the invariants of the parts;
  that a queued row has between one and `MaxParts` segments comes from `EveryCutRight`.
* `ServiceProofs!QueuedIsSendable` (`RowsSendable`): a request on its way to the insert
  has passed `prepare_send` (`RowsInv`); that a body which is cut at all is announced
  with as many parts as it has (`PartsCounted`) does not need to know how it is cut.
* `ServiceProofs!ReportsAgree` (`StatusAgrees`), by the lemma `SnapshotAgrees` on every
  snapshot that `refresh_status` can build.
* `ServiceProofs!NothingMissed` (`NothingUnseen`). `Listing` says of a client among its pages
  that a message it has not heard of has a rank no smaller than its offset. A new
  row never moves another to the front (`RankGrows`), whatever the clock does; ranks
  have no gap (`RankTaken`, by counting), so a page that is empty is past the last row
  and one that is not holds all up to its end (`PageComplete`).
* `ServiceProofs!DashboardRight` (`RecentRight`). `DashInv` keeps what the first query found
  as the answer over the rows there were then, while rows come in; `Crowd` says that
  a query that was cut off still has enough rows that are not from ahead of the
  clock, and `EnoughShown` that these are newer than any row left out.
* `ServiceProofs!DelaysDouble` (`BackoffDoubles`), for all counts of attempts.

Every safety property that a passing run checks is stated by a theorem, and so are
the refinements `OutboxSpec` and `InboxSpec`. Some theorems have a condition; beyond
it their properties are model-checked only, or fail. `PromptIsOwn`, `NoTextExecuted` and
`SentIsTaken` fail beyond `Tolerable`, which is part of the properties checked and proved.
`DecidesAsFull` and `GuessesBounded` are
model-checked only for a tracker that keeps fewer failures than `EnoughKept` asks for,
as in `admin_access`. The conditions of `KeptUntilSaved`,
`InboundIsInbox` and `CalmIsOutbox` are those of the runs that check the properties.

The liveness properties (`QueuedResolves`, those of `Inbound`, `SendEnds`, `ComesUp`) depend
on fairness and ENABLED and stay with TLC.

## Not modelled

Message texts, numbers, references and error codes; audit records, except as the
account of a message given up and of a login (that a failed delete is audited too is
left out); metrics and log output, which
nothing reads back; the rendering of pages and JSON, the OpenAPI document, security
headers and static files; the hexadecimal form of UCS2 and the `AT+CMGS` header;
the Python client and the web interface, which are clients of the HTTP interface.
An answer of the modem is whole or missing, never garbled. A power cut that undoes
a commit SQLite has acknowledged (`synchronous=NORMAL`) is outside `Inbound`. The
eviction of the rate limiter at 50,000 keys and of the key cache at its capacity
are the library's choice of a victim; `ApiKeys` has the latter as a free step, the
former is left out.

## What could follow

* `Inbound` and `ModemLine` over one line: a late answer of a read during a send, with
  the `>` its text may hold.
