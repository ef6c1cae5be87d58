----------------------------- MODULE Admission ------------------------------
(***************************************************************************)
(* From an authenticated POST /messages to the queued row: the rate        *)
(* limiter of the key, the validation of the request, the gate and the     *)
(* insert (ratelimit.rs, api/mod.rs, api/v1.rs, sms.rs).                   *)
(*                                                                         *)
(* Requests of one key overlap: each takes its time first and reaches the  *)
(* limiter a little later, out of order. The window of a key and its count *)
(* are in memory and changed under a lock; they are gone when they have    *)
(* not been used for long, and with the process.                           *)
(***************************************************************************)
EXTENDS Segmentation, Status

CONSTANTS
  ApiKeys,     \* keys that make requests
  CustomLimit, \* CustomLimit[k]: api_keys.custom_rate_limit, None for null
  Posts,       \* requests that may be made, see Post
  Missing,     \* stands for a field that is not there
  MaxBody,     \* MAX_BODY_CHARS
  Slots,       \* requests that may be under way at once
  Second,      \* ticks of the clock in a second
  IdleTime,    \* ENTRY_TTL, in ticks
  MaxLag,      \* bound on the time a request takes to reach the limiter; it
               \* may see the clock go on, so no less than a tick
  MaxTime      \* bound on the clock

ASSUME AdmissionAssumption ==
  /\ ApiKeys # {} /\ CustomLimit \in [ApiKeys -> Int]
  /\ Second \in Nat \ {0} /\ IdleTime \in Nat \ {0}
  /\ MaxLag \in Nat \ {0} /\ MaxTime \in Nat /\ MaxBody \in Nat
  /\ Missing \notin ({"good", "bad"} \union Seq(Chars))

VARIABLES
  open,    \* the limit and window in force while the server answers
  clock,   \* Instant::now(), in ticks
  windows, \* windows[k]: the WindowState of k and its last use
  slot,    \* slot[r]: the request in slot r, and how far it is
  rows,    \* the queued messages inserted
  let,     \* let[k]: requests of k let in by this process, at which time
  promise  \* promise[k]: when the last answer says that k may come again

admissionVars == <<open, clock, windows, slot, rows, let, promise>>

NoKey    == CHOOSE k \in ApiKeys : TRUE
FreeSlot == [at |-> "free", key |-> NoKey, now |-> 0, post |-> Missing]
Absent   == [count |-> 0, start |-> 0, used |-> None]
NoLets   == [k \in ApiKeys |-> {}]
Closed   == [limit |-> 0, window |-> 0]
IsOpen   == open # Closed

\* Nothing is under way and nothing is remembered of earlier requests.
Forgotten ==
  /\ windows' = [k \in ApiKeys |-> Absent]
  /\ slot' = [r \in Slots |-> FreeSlot]
  /\ let' = NoLets /\ promise' = [k \in ApiKeys |-> None]

InitAdmission ==
  /\ open = Closed /\ clock = 0
  /\ windows = [k \in ApiKeys |-> Absent]
  /\ slot = [r \in Slots |-> FreeSlot] /\ rows = {}
  /\ let = NoLets /\ promise = [k \in ApiKeys |-> None]

\* build_router: with_rate_config.
Open(limit, seconds) ==
  /\ open' = [limit |-> limit, window |-> seconds * Second]
  /\ UNCHANGED <<clock, windows, slot, rows, let, promise>>

Close == open' = Closed /\ Forgotten /\ UNCHANGED <<clock, rows>>

-----------------------------------------------------------------------------
(* The limiter.                                                            *)

CustomLimitMax == 10000

\* effective_limit: a custom limit out of its range counts for nothing.
EffectiveLimit(k) ==
  IF CustomLimit[k] \in 1..CustomLimitMax THEN CustomLimit[k] ELSE open.limit

\* Mutant: the seconds left are rounded down, to none at the end.
RetryAfterDown(elapsed) == (open.window - elapsed) \div Second

\* retry_after_secs: rounded up, at least one and at most the window.
RetryAfter(elapsed) ==
  LET secs == (open.window - elapsed + Second - 1) \div Second
      most == IF open.window < Second THEN 1 ELSE open.window \div Second
  IN IF secs < 1 THEN 1 ELSE IF secs > most THEN most ELSE secs

Elapsed(w, now) == IF now < w.start THEN 0 ELSE now - w.start

\* Mutant: a new window begins without the request that opens it.
DecideUncounted(w, limit, now) ==
  IF Elapsed(w, now) >= open.window
  THEN [allow |-> TRUE, window |-> [w EXCEPT !.count = 0, !.start = now]]
  ELSE IF w.count < limit
  THEN [allow |-> TRUE, window |-> [w EXCEPT !.count = @ + 1]]
  ELSE [allow |-> FALSE, window |-> w]

\* decide.
Decide(w, limit, now) ==
  IF Elapsed(w, now) >= open.window
  THEN [allow |-> TRUE, window |-> [w EXCEPT !.count = 1, !.start = now]]
  ELSE IF w.count < limit
  THEN [allow |-> TRUE, window |-> [w EXCEPT !.count = @ + 1]]
  ELSE [allow |-> FALSE, window |-> w]

\* RateLimiter::check: a key without an entry gets one that begins now.
Entry(k, now) ==
  IF windows[k] = Absent THEN [count |-> 0, start |-> now, used |-> clock]
  ELSE [windows[k] EXCEPT !.used = clock]

\* auth_middleware has let the request pass; rate_limit_middleware takes the
\* time.
Arrive(r, k) ==
  /\ IsOpen /\ slot[r].at = "free"
  /\ slot' = [slot EXCEPT ![r] = [at |-> "check", key |-> k, now |-> clock,
                                  post |-> Missing]]
  /\ UNCHANGED <<open, clock, windows, rows, let, promise>>

\* The decision: on to the handler, or 429 with Retry-After.
Check(r) ==
  LET k == slot[r].key  now == slot[r].now  w == Entry(k, now)
      d == Decide(w, EffectiveLimit(k), now)
  IN /\ slot[r].at = "check"
     /\ windows' = [windows EXCEPT ![k] = d.window]
     /\ IF d.allow
        THEN /\ slot' = [slot EXCEPT ![r].at = "prepare"]
             /\ let' = [let EXCEPT ![k] =
                          @ \union {[at |-> clock, no |-> Cardinality(@)]}]
             /\ promise' = [promise EXCEPT ![k] = None]
        ELSE /\ slot' = [slot EXCEPT ![r] = FreeSlot]
             /\ promise' = [promise EXCEPT ![k] =
                              clock + Second * RetryAfter(Elapsed(w, now))]
             /\ UNCHANGED let
     /\ UNCHANGED <<open, clock, rows>>

\* moka drops an entry that was not used for IdleTime. (It also makes room at
\* MAX_TRACKED_KEYS, which the instances do not reach.)
Expire(k) ==
  /\ windows[k] # Absent /\ clock >= windows[k].used + IdleTime
  /\ windows' = [windows EXCEPT ![k] = Absent]
  /\ UNCHANGED <<open, clock, slot, rows, let, promise>>

-----------------------------------------------------------------------------
(* The handler.                                                            *)

\* A request as prepare_send sees it: a number that is one or not, and a body.
Post == [to : {Missing, "good", "bad"}, body : {Missing} \union Seq(Chars)]
ASSUME PostsAssumption == Posts \subseteq Post

\* Mutant: the segments are not counted.
RefusalUncounted(post, deliverable) ==
  CASE Missing \in {post.to, post.body} -> "missing"
    [] post.to = "bad"                  -> "number"
    [] post.body = <<>>                 -> "empty"
    [] Len(post.body) > MaxBody         -> "long"
    [] ~deliverable                     -> "gated"
    [] OTHER                            -> "none"

\* Why prepare_send refuses a request, in the order in which it looks.
Refusal(post, deliverable) ==
  IF Missing \in {post.to, post.body} THEN "missing"
  ELSE IF post.to = "bad" THEN "number"
  ELSE IF post.body = <<>> THEN "empty"
  ELSE IF Len(post.body) > MaxBody THEN "long"
  ELSE IF SegmentMessage(post.body).parts = <<>> THEN "parts"
  ELSE IF ~deliverable THEN "gated" ELSE "none"

\* What the gate may say: the snapshot is whatever the manager has made it.
Gates == {Deliverable(s) : s \in Snapshots}

\* parse_send_request and prepare_send: refused, or on to the insert.
Prepare(r) ==
  /\ slot[r].at = "prepare"
  /\ \E post \in Posts, deliverable \in Gates :
       slot' = [slot EXCEPT ![r] =
         IF Refusal(post, deliverable) = "none"
         THEN [@ EXCEPT !.at = "insert", !.post = post] ELSE FreeSlot]
  /\ UNCHANGED <<open, clock, windows, rows, let, promise>>

\* The body is not JSON, or the client is gone before the insert.
Drop(r) ==
  /\ slot[r].at = "prepare" /\ slot' = [slot EXCEPT ![r] = FreeSlot]
  /\ UNCHANGED <<open, clock, windows, rows, let, promise>>

Row(post) == [to |-> post.to, body |-> post.body,
              parts |-> Len(SegmentMessage(post.body).parts)]

\* create_outbound_message; or it fails, and the answer is an error.
Insert(r) ==
  /\ slot[r].at = "insert" /\ slot' = [slot EXCEPT ![r] = FreeSlot]
  /\ rows' = rows \union {Row(slot[r].post)} \/ UNCHANGED rows
  /\ UNCHANGED <<open, clock, windows, let, promise>>

\* Time passes, for requests on their way to the limiter only so much.
Tick ==
  /\ clock < MaxTime /\ clock' = clock + 1
  /\ \A r \in Slots : slot[r].at = "check" => clock < slot[r].now + MaxLag
  /\ UNCHANGED <<open, windows, slot, rows, let, promise>>

Traffic ==
  \/ \E r \in Slots : Check(r) \/ Prepare(r) \/ Drop(r) \/ Insert(r)
                        \/ \E k \in ApiKeys : Arrive(r, k)
  \/ \E k \in ApiKeys : Expire(k)
  \/ Tick

-----------------------------------------------------------------------------
(* Properties.                                                             *)

AdmissionTypeOK ==
  /\ open \in [limit : Nat, window : Nat] /\ clock \in 0..MaxTime
  /\ windows \in [ApiKeys -> [count : Nat, start : Nat, used : Int]]
  /\ slot \in [Slots -> [at : {"free", "check", "prepare", "insert"},
                         key : ApiKeys, now : Nat, post : Posts \union {Missing}]]
  /\ \A m \in rows : m.parts \in 1..MaxParts
  /\ let \in [ApiKeys -> SUBSET [at : 0..MaxTime, no : Nat]]
  /\ promise \in [ApiKeys -> Int]

\* The comment on ENTRY_TTL takes windows to be shorter than it. Where they are
\* not, an entry may go before its window is over.
WindowOutlived == open.window <= IdleTime

\* However the requests of a key overlap and where the windows fall, no span
\* shorter than a window by the time a request takes to reach the limiter has
\* more than twice the limit: the windows are fixed, and the end of one and the
\* beginning of the next may meet. (A span as long as a window may have those
\* of three: late ones of the first, and the last one's.) (decide, check)
BurstBounded == IsOpen /\ WindowOutlived =>
  \A k \in ApiKeys : \A t \in 0..MaxTime :
    Cardinality({x \in let[k] : t <= x.at /\ x.at + MaxLag <= t + open.window})
      <= 2 * EffectiveLimit(k)

\* Whoever was refused and waits as long as Retry-After says is let in, if no
\* other request of the key was in between (retry_after_secs).
RetryAfterSuffices == \A k \in ApiKeys :
  promise[k] # None /\ clock >= promise[k] =>
    Decide(Entry(k, clock), EffectiveLimit(k), clock).allow

\* What is queued can be sent: the number is one, and the segments handle_send
\* will cut are those that were announced, no more than a message may have
\* (prepare_send, segment_message).
RowsSendable == \A m \in rows :
  /\ m.to = "good" /\ m.body \notin {Missing, <<>>}
  /\ Len(m.body) <= MaxBody
  /\ SegmentMessage(m.body).parts # <<>>
  /\ m.parts = SegmentMessage(m.body).required
=============================================================================
