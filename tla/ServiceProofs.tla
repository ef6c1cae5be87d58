---------------------------- MODULE ServiceProofs ----------------------------
(***************************************************************************)
(* Proofs about Service, for every instance: it comes up as Startup says,  *)
(* so that what is proved of Startup holds of it; it serves with the       *)
(* limits it has loaded; whoever waits as long as Retry-After says is let  *)
(* in, and no more than twice the limit in a window; what is queued can be *)
(* sent; clients that keep up miss no message; and the dashboard shows     *)
(* what is recent.                                                         *)
(***************************************************************************)
EXTENDS Service, StartupProofs, SegmentationProofs, FiniteSetTheorems

\* What the proofs use of the assumption on Admission everywhere.
LEMMA UnitsAre ==
  /\ ApiKeys # {} /\ CustomLimit \in [ApiKeys -> Int]
  /\ Second \in Nat \ {0} /\ MaxLag \in Nat \ {0} /\ MaxTime \in Nat /\ MaxBody \in Nat
BY AdmissionAssumption

USE UnitsAre DEF Procs

-----------------------------------------------------------------------------
(* Service implements Startup.                                             *)

LEMMA StepsAreStartups == [Next]_serviceVars => [StartupNext]_startupVars
<1> SUFFICES ASSUME [Next]_serviceVars PROVE [StartupNext]_startupVars
  OBVIOUS
<1>1. CASE Coming
  BY <1>1 DEF Coming, Starts, StartupNext
<1>2. CASE ServiceUp
  BY <1>2 DEF ServiceUp, StartupNext
<1>3. CASE ServiceDown
  BY <1>3 DEF ServiceDown, StartupNext
<1>4. CASE Sending \/ Reading \/ UNCHANGED serviceVars
  BY <1>4 DEF Sending, Reading, serviceVars
<1> QED BY <1>1, <1>2, <1>3, <1>4 DEF Next

\* What the service and the tool do to come up is what Startup has them do,
\* whatever clients and timers do beside it (run, create_admin).
THEOREM ComesUpAsStartup == Spec => StartupSpec
<1>1. Init => Init0
  BY DEF Init
<1> QED BY <1>1, StepsAreStartups, PTL DEF Spec, StartupSpec

\* The versions recorded are the scripts that took effect (run_migrations).
THEOREM SchemaIsTrue == Spec => []SchemaAsRecorded
BY ComesUpAsStartup, RecordIsTrue, PTL

\* Whoever is served finds the whole schema (ensure_ready, run).
THEOREM ServedIsComplete == Spec => []ReadyMeansComplete
BY ComesUpAsStartup, ReadyIsComplete, PTL

-----------------------------------------------------------------------------
(* The limits in force.                                                    *)

Limit(c)  == c["DEFAULT_RATE_LIMIT"]
Window(c) == c["RATE_WINDOW_SECS"]
Loaded    == {"connect", "migrations", "migrate", "bind", "serve"}

\* What a working service has loaded can be opened with, and is what it opened
\* with.
LimitsInv ==
  /\ at["service"] \in Loaded =>
       /\ Limit(conf["service"]) \in Nat \ {0} /\ Window(conf["service"]) \in Nat \ {0}
  /\ ~Serving => open = Closed
  /\ Serving => open = [limit  |-> Limit(conf["service"]),
                        window |-> Window(conf["service"]) * Second]

\* Clients are only served while the limiter has its limits.
LEMMA ServedIsLimited == ASSUME LimitsInv, Serving PROVE IsOpen
<1> DEFINE l == Limit(conf["service"])  w == Window(conf["service"])
<1>1. l \in Nat \ {0}
  BY DEF LimitsInv, Serving, Loaded
<1>2. open = [limit |-> l, window |-> w * Second]
  BY DEF LimitsInv
<1> HIDE DEF l, w
<1> QED BY <1>1, <1>2 DEF IsOpen, Closed

\* What happens to the service's own part when it loads, goes on or ends.
LEMMA LimitsAtStartup ==
  ASSUME IInv, LimitsInv, UNCHANGED open,
         \/ \E p \in Procs : Launch(p) \/ Step(p) \/ Edit(p)
         \/ Restart \/ UpsertAdmin \/ Fail("tool") \/ RunAgain
  PROVE  LimitsInv'
<1> USE DEF LimitsInv, Serving, Loaded
<1>0. DOMAIN at = Procs /\ DOMAIN conf = Procs
  BY DEF IInv, Shape
<1>1. CASE LoadConfig("service")
  <2>1. CASE Loads(Found[setup["service"]])
    <3> DEFINE c == Load(Found[setup["service"]]).conf
    <3>1. Limit(c) \in Nat \ {0} /\ Window(c) \in Nat \ {0}
      BY <2>1, LoadedPositive DEF Limit, Window, Positive
    <3>2. conf'["service"] = c /\ at'["service"] = "connect"
      BY <1>0, <1>1, <2>1 DEF LoadConfig, Goes
    <3> HIDE DEF c
    <3>3. ~Serving /\ ~Serving'
      BY <1>1, <3>2 DEF LoadConfig
    <3> QED BY <3>1, <3>2, <3>3
  <2>2. CASE ~Loads(Found[setup["service"]])
    BY <1>0, <1>1, <2>2 DEF LoadConfig, Ends, Goes
  <2> QED BY <2>1, <2>2
<1>2. CASE Step("service") /\ ~LoadConfig("service")
  <2>1. conf'["service"] = conf["service"] \/ at'["service"] = "failed"
    BY <1>0, <1>2 DEF Step, Connect, ReadVersion, Migrate, SchemaReady, Ends, Goes
  <2>2. at["service"] \in Loaded /\ at'["service"] # "serve" /\ ~Serving
    BY <1>0, <1>2 DEF Step, Connect, ReadVersion, Migrate, SchemaReady, Ends, Goes
  <2> QED BY <2>1, <2>2
<1>3. CASE Launch("service") \/ Restart
  <2>1. at'["service"] = "load" /\ ~Serving
    BY <1>0, <1>3 DEF Launch, Restart, Goes
  <2> QED BY <2>1
<1>4. CASE \/ \E p \in Procs : Edit(p)
           \/ Launch("tool") \/ Step("tool") \/ UpsertAdmin \/ Fail("tool") \/ RunAgain
  <2>1. at'["service"] = at["service"] /\ conf'["service"] = conf["service"]
    BY <1>0, <1>4 DEF Edit, process, Launch, Step, LoadConfig, Connect, ReadVersion,
      Migrate, SchemaReady, UpsertAdmin, Fail, RunAgain, Ends, Goes
  <2> QED BY <2>1
<1> QED BY <1>1, <1>2, <1>3, <1>4

LEMMA LimitsStep == IInv /\ LimitsInv /\ [Next]_serviceVars => LimitsInv'
<1> SUFFICES ASSUME IInv, LimitsInv, [Next]_serviceVars PROVE LimitsInv'
  OBVIOUS
<1>1. CASE Coming
  <2>1. UNCHANGED open
    BY <1>1 DEF Coming, NoTraffic, admissionVars
  <2>2. \/ \E p \in Procs : Launch(p) \/ Step(p) \/ Edit(p)
        \/ Restart \/ UpsertAdmin \/ Fail("tool") \/ RunAgain
    BY <1>1 DEF Coming, Starts
  <2> QED BY <2>1, <2>2, LimitsAtStartup
<1>2. CASE ServiceUp
  <2>1. /\ at["service"] = "bind" /\ at'["service"] = "serve" /\ conf' = conf
        /\ open' = [limit |-> Limit(conf["service"]),
                    window |-> Window(conf["service"]) * Second]
    BY <1>2 DEF ServiceUp, Bind, Goes, Open, Limit, Window, IInv, Shape
  <2> QED BY <2>1 DEF LimitsInv, Serving, Loaded
<1>3. CASE ServiceDown
  <2>1. at'["service"] = "failed" /\ open' = Closed
    BY <1>3 DEF ServiceDown, Fail, Ends, Goes, Close, IInv, Shape
  <2> QED BY <2>1 DEF LimitsInv, Serving, Loaded
<1>4. CASE Sending
  <2>1. UNCHANGED open
    BY <1>4 DEF Sending, Traffic, Check, Prepare, Drop, Insert, Arrive, Expire, Tick
  <2> QED BY <1>4, <2>1 DEF Sending, startupVars, process, LimitsInv, Serving
<1>5. CASE Reading \/ UNCHANGED serviceVars
  BY <1>5 DEF Reading, serviceVars, admissionVars, startupVars, process, LimitsInv, Serving
<1> QED BY <1>1, <1>2, <1>3, <1>4, <1>5 DEF Next

LEMMA LimitsAlways == Spec => [](IInv /\ LimitsInv)
<1>1. Init => LimitsInv
  BY DEF Init, Init0, InitAdmission, LimitsInv, Serving, Loaded
<1> QED BY <1>1, ComesUpAsStartup, Always, LimitsStep, PTL DEF Spec

-----------------------------------------------------------------------------
(* The pure parts.                                                         *)

InputInv ==
  /\ load = {"load"} => input \in LoadInputs
  /\ load = {"report"} => input \in Snapshots
  /\ load = {"backoff"} => input \in Attempts
  /\ load = {"cut"} => input \in Bodies

LEMMA InputAlways == Spec => []InputInv
<1>1. Init => InputInv
  <2>1. /\ {"load"} # {"cut"} /\ {"report"} # {"cut"} /\ {"report"} # {"load"}
        /\ {"backoff"} # {"cut"} /\ {"backoff"} # {"load"} /\ {"backoff"} # {"report"}
    OBVIOUS
  <2> QED BY <2>1 DEF Init, Inputs, InputInv
<1>2. InputInv /\ [Next]_serviceVars => InputInv'
  BY DEF InputInv, Next, Coming, NoTraffic, ServiceUp, ServiceDown, Sending, Reading,
    serviceVars
<1> QED BY <1>1, <1>2, PTL DEF Spec

\* Whatever set-ups are tried, each is loaded as it should be (config::load).
THEOREM ConfigurationsLoad ==
  ASSUME LoadInputs \subseteq SetUps PROVE Spec => []LoadsAreRight
<1>1. InputInv => LoadsAreRight
  BY EveryOne DEF InputInv, LoadsAreRight
<1> QED BY <1>1, InputAlways, PTL

\* A strength of any size is a percentage or not known.
LEMMA SignalIsPercent ==
  ASSUME NEW csq \in {None} \union Nat PROVE Signal(csq) \in {None} \union 0..100
<1>1. CASE csq = None \/ csq = 99 \/ csq > 31
  BY <1>1 DEF Signal
<1>2. CASE ~(csq = None \/ csq = 99 \/ csq > 31)
  <2>1. csq \in 0..31
    BY <1>2 DEF None
  <2>2. (csq * 100) \div 31 \in 0..100
    BY <2>1
  <2> QED BY <1>2, <2>2 DEF Signal
<1> QED BY <1>1, <1>2

LEMMA AnswersAreNumbers ==
  {None} \union 0..31 \union {50, 99, 200} \subseteq {None} \union Nat
OBVIOUS

LEMMA SnapshotAgrees ==
  ASSUME NEW answered \in BOOLEAN, NEW cpin, NEW creg, NEW csq \in {None} \union Nat,
         NEW cops, NEW s, s = Snapshot(answered, cpin, creg, csq, cops)
  PROVE  Agrees(s) /\ Agrees(Disconnected(s))
<1>1. s.connected = TRUE /\ s.signal \in {None} \union 0..100
  BY SignalIsPercent DEF Snapshot
<1> QED BY <1>1 DEF Agrees, Health, Deliverable, HealthCode, Disconnected, Unavailable,
      StatusFields

\* Whatever the modem answered or failed to answer, health, status and the gate
\* agree on it (derive_health, deliverability_gate, build_status_response).
THEOREM ReportsAgree == Spec => []StatusAgrees
<1>1. \A s \in Refreshed : Agrees(s) /\ Agrees(Disconnected(s))
  <2> TAKE s \in Refreshed
  <2>1. PICK a \in Answers : s = Snapshot(a.answered, a.cpin, a.creg, a.csq, a.cops)
    BY DEF Refreshed
  <2>2. a.answered \in BOOLEAN
    BY DEF Answers
  <2>3. a.csq \in {None} \union 0..31 \union {50, 99, 200}
    BY DEF Answers
  <2>4. a.csq \in {None} \union Nat
    BY <2>3, AnswersAreNumbers
  <2> QED BY <2>1, <2>2, <2>4, SnapshotAgrees
<1>2. InputInv => StatusAgrees
  BY <1>1 DEF InputInv, StatusAgrees, Snapshots
<1> QED BY <1>2, InputAlways, PTL

\* The first delays, one by one.
LEMMA Powers ==
  2 ^ 0 = 1 /\ 2 ^ 1 = 2 /\ 2 ^ 2 = 4 /\ 2 ^ 3 = 8 /\ 2 ^ 4 = 16 /\ 2 ^ 5 = 32
<1>1. 2 ^ 0 = 1 /\ 2 ^ 1 = 2 /\ 2 ^ 2 = 4
  OBVIOUS
<1>2. 2 ^ 3 = 8 /\ 2 ^ 4 = 16 /\ 2 ^ 5 = 32
  OBVIOUS
<1> QED BY <1>1, <1>2

LEMMA Delays ==
  /\ Backoff(1) = 1 /\ Backoff(2) = 2 /\ Backoff(3) = 4 /\ Backoff(4) = 8
  /\ Backoff(5) = 16 /\ Backoff(6) = 32
  /\ \A n \in Nat : n >= 7 => Backoff(n) = 60
<1>1. \A n \in Nat : n >= 7 => Backoff(n) = 60
  BY DEF Backoff, BackoffCap
<1>2. \A n \in 1..6 : n - 1 < 6 /\ ~(2 ^ (n - 1) > 60) => Backoff(n) = 2 ^ (n - 1)
  BY DEF Backoff, BackoffCap
<1> QED BY <1>1, <1>2, Powers

\* However often the port could not be opened, the delay before it is tried again
\* is double the last one up to the cap (reconnect_backoff_secs).
THEOREM DelaysDouble ==
  ASSUME Attempts \subseteq Nat \ {0} PROVE Spec => []BackoffDoubles
<1>1. ASSUME NEW n \in Nat \ {0} PROVE Doubles(n)
  <2>1. CASE n \in 1..6
    <3>1. n = 1 \/ n = 2 \/ n = 3 \/ n = 4 \/ n = 5 \/ n = 6
      BY <2>1
    <3> QED BY <3>1, Delays DEF Doubles, BackoffCap
  <2>2. CASE n = 7
    BY <2>2, Delays DEF Doubles, BackoffCap
  <2>3. CASE n >= 8
    <3>1. n - 1 \in Nat /\ n - 1 >= 7 /\ n # 1
      BY <2>3
    <3>2. Backoff(n) = 60 /\ Backoff(n - 1) = 60
      BY <2>3, <3>1, Delays
    <3> QED BY <3>1, <3>2 DEF Doubles, BackoffCap
  <2> QED BY <2>1, <2>2, <2>3
<1>2. InputInv => BackoffDoubles
  BY <1>1 DEF InputInv, BackoffDoubles
<1> QED BY <1>2, InputAlways, PTL

-----------------------------------------------------------------------------
(* Retry-After.                                                            *)

Slot == [at : {"free", "check", "prepare", "insert"}, key : ApiKeys, now : Nat,
         post : Posts \union {Missing}]
Entries == [count : Nat, start : Nat, used : Int]

\* A request on its way took its time in the past; a window began in the past;
\* and whoever was promised something has a window that is over by then.
Promised(k) == promise[k] # None =>
  /\ IsOpen /\ promise[k] \in Nat
  /\ windows[k] # Absent => windows[k].start + open.window <= promise[k]
RetryInv ==
  /\ clock \in Nat /\ slot \in [Slots -> Slot] /\ windows \in [ApiKeys -> Entries]
  /\ DOMAIN promise = ApiKeys
  /\ \A r \in Slots : slot[r].now <= clock
  /\ \A k \in ApiKeys : windows[k].start <= clock
  /\ \A k \in ApiKeys : Promised(k)

\* The limits in force, as far as the limiter depends on them.
Sane == IsOpen => \E l \in Nat \ {0}, w \in Nat \ {0} :
  open = [limit |-> l, window |-> w * Second]

LEMMA LimitsSane == LimitsInv => Sane
BY DEF LimitsInv, Sane, IsOpen, Serving, Loaded

LEMMA LimitPositive ==
  ASSUME Sane, IsOpen, NEW k \in ApiKeys PROVE EffectiveLimit(k) \in Nat \ {0}
<1>0. CustomLimitMax \in Nat
  BY SMT DEF CustomLimitMax
<1>1. open.limit \in Nat \ {0}
  BY DEF Sane
<1>2. CASE CustomLimit[k] \in 1..CustomLimitMax
  <2>1. CustomLimit[k] \in Nat \ {0}
    BY <1>0, <1>2
  <2>2. EffectiveLimit(k) = CustomLimit[k]
    BY <1>2 DEF EffectiveLimit
  <2> QED BY <2>1, <2>2
<1>3. CASE CustomLimit[k] \notin 1..CustomLimitMax
  BY <1>1, <1>3 DEF EffectiveLimit
<1> QED BY <1>2, <1>3

\* What is rounded up is no less.
LEMMA RoundedUp ==
  ASSUME NEW x \in Int, NEW s \in Nat \ {0}
  PROVE  (x + s - 1) \div s \in Int /\ s * ((x + s - 1) \div s) >= x
<1> DEFINE y == x + s - 1
           q == y \div s
<1>1. y \in Int /\ q \in Int /\ y % s \in 0..(s - 1) /\ y = s * q + (y % s)
  BY SMT
<1>2. s * q \in Int
  BY <1>1
<1> HIDE DEF q
<1> QED BY <1>1, <1>2 DEF q

\* The seconds announced last until the window is over.
LEMMA LongEnough ==
  ASSUME Sane, IsOpen, NEW elapsed \in Nat
  PROVE  /\ RetryAfter(elapsed) \in Nat
         /\ Second * RetryAfter(elapsed) >= open.window - elapsed
<1>1. PICK w \in Nat \ {0} : open.window = w * Second
  <2>1. PICK l \in Nat \ {0}, w \in Nat \ {0} : open = [limit |-> l, window |-> w * Second]
    BY DEF Sane
  <2>2. open.window = w * Second
    BY <2>1, Zenon
  <2> QED BY <2>2
<1> DEFINE x == open.window - elapsed
           secs == (x + Second - 1) \div Second
<1>2. x \in Int /\ Second \in Nat \ {0}
  BY <1>1
<1>3. secs \in Int /\ Second * secs >= x
  BY <1>2, RoundedUp
<1>4. open.window \in Int /\ open.window >= Second /\ open.window \div Second = w
  BY <1>1
<1>5. RetryAfter(elapsed) = IF secs < 1 THEN 1 ELSE IF secs > w THEN w ELSE secs
  BY <1>2, <1>4 DEF RetryAfter
<1> HIDE DEF secs
<1>6. CASE secs < 1
  BY <1>2, <1>3, <1>5, <1>6
<1>7. CASE secs > w
  BY <1>1, <1>2, <1>3, <1>5, <1>7
<1>8. CASE secs \in 1..w
  BY <1>2, <1>3, <1>5, <1>8
<1> QED BY <1>3, <1>6, <1>7, <1>8

LEMMA RetryEnough == RetryInv /\ Sane => RetryAfterSuffices
<1> SUFFICES ASSUME RetryInv, Sane, NEW k \in ApiKeys, promise[k] # None,
                    clock >= promise[k]
             PROVE  Decide(Entry(k, clock), EffectiveLimit(k), clock).allow
  BY DEF RetryAfterSuffices
<1> DEFINE w == Entry(k, clock)
<1>1. IsOpen /\ open.window \in Nat
  BY DEF RetryInv, Promised, Sane
<1>2. EffectiveLimit(k) \in Nat \ {0}
  BY <1>1, LimitPositive
<1>3. w.count = 0 \/ Elapsed(w, clock) >= open.window
  <2>1. CASE windows[k] = Absent
    BY <2>1 DEF Entry
  <2>2. CASE windows[k] # Absent
    <3>1. windows[k].start \in Nat /\ windows[k].start <= clock /\ clock \in Nat
          /\ windows[k].start + open.window <= promise[k] /\ promise[k] \in Nat
      BY <2>2 DEF RetryInv, Promised, Entries
    <3>2. w.start = windows[k].start
      BY <2>2 DEF Entry, RetryInv, Entries
    <3> QED BY <1>1, <3>1, <3>2 DEF Elapsed
  <2> QED BY <2>1, <2>2
<1> HIDE DEF w
<1>4. Decide(w, EffectiveLimit(k), clock).allow = TRUE
  <2>1. CASE Elapsed(w, clock) >= open.window
    <3>1. Decide(w, EffectiveLimit(k), clock) =
            [allow |-> TRUE, window |-> [w EXCEPT !.count = 1, !.start = clock]]
      BY <2>1 DEF Decide
    <3> QED BY <3>1
  <2>2. CASE ~(Elapsed(w, clock) >= open.window)
    <3>1. w.count < EffectiveLimit(k)
      BY <1>2, <1>3, <2>2
    <3>2. Decide(w, EffectiveLimit(k), clock) =
            [allow |-> TRUE, window |-> [w EXCEPT !.count = @ + 1]]
      BY <2>2, <3>1 DEF Decide
    <3> QED BY <3>2
  <2> QED BY <2>1, <2>2
<1> QED BY <1>4 DEF w

LEMMA Blanks == FreeSlot \in Slot /\ Absent \in Entries /\ FreeSlot.now = 0 /\ Absent.start = 0
<1>1. NoKey \in ApiKeys
  BY DEF NoKey
<1> QED BY <1>1 DEF FreeSlot, Slot, Absent, Entries, None

\* The two windows a granted request may leave.
LEMMA Anew ==
  ASSUME NEW w \in Entries, NEW now \in Nat
  PROVE  /\ [w EXCEPT !.count = 1, !.start = now] \in Entries
         /\ [w EXCEPT !.count = 1, !.start = now].count = 1
         /\ [w EXCEPT !.count = 1, !.start = now].start = now
         /\ [w EXCEPT !.count = 1, !.start = now].used = w.used
<1> DEFINE a == [w EXCEPT !.count = 1]
           anew == [a EXCEPT !.start = now]
<1>1. w.start \in Nat /\ w.used \in Int
  BY DEF Entries
<1>2. a = [count |-> 1, start |-> w.start, used |-> w.used]
  BY DEF Entries
<1> HIDE DEF a
<1>3. anew = [count |-> 1, start |-> now, used |-> w.used]
  BY <1>2
<1> HIDE DEF anew
<1>4. anew \in Entries /\ anew.count = 1 /\ anew.start = now /\ anew.used = w.used
  BY <1>1, <1>3 DEF Entries
<1> QED BY <1>4 DEF anew, a

LEMMA More ==
  ASSUME NEW w \in Entries
  PROVE  /\ [w EXCEPT !.count = @ + 1] \in Entries
         /\ [w EXCEPT !.count = @ + 1].count = w.count + 1
         /\ [w EXCEPT !.count = @ + 1].start = w.start
         /\ [w EXCEPT !.count = @ + 1].used = w.used
<1> DEFINE c == w.count + 1
           more == [w EXCEPT !.count = c]
<1>1. c \in Nat /\ w.start \in Nat /\ w.used \in Int
  BY DEF Entries
<1> HIDE DEF c
<1>2. more = [count |-> c, start |-> w.start, used |-> w.used]
  BY DEF Entries
<1> HIDE DEF more
<1>3. more \in Entries /\ more.count = c /\ more.start = w.start /\ more.used = w.used
  BY <1>1, <1>2 DEF Entries
<1> QED BY <1>3 DEF more, c

\* A refusal leaves the window as it is; otherwise it may begin anew.
LEMMA Decided ==
  ASSUME NEW w \in Entries, NEW limit, NEW now \in Nat
  PROVE  \/ /\ Decide(w, limit, now).allow = TRUE
            /\ Decide(w, limit, now).window \in Entries
            /\ Decide(w, limit, now).window.start \in {w.start, now}
         \/ Decide(w, limit, now).allow = FALSE /\ Decide(w, limit, now).window = w
<1> DEFINE anew == [w EXCEPT !.count = 1, !.start = now]
           more == [w EXCEPT !.count = @ + 1]
<1>1. anew \in Entries /\ anew.start = now /\ more \in Entries /\ more.start = w.start
  BY Anew, More, Zenon
<1> HIDE DEF anew, more
<1>2. CASE Decide(w, limit, now) = [allow |-> TRUE, window |-> anew]
  BY <1>1, <1>2
<1>3. CASE Decide(w, limit, now) = [allow |-> TRUE, window |-> more]
  BY <1>1, <1>3
<1>4. CASE Decide(w, limit, now) = [allow |-> FALSE, window |-> w]
  BY <1>4
<1> QED BY <1>2, <1>3, <1>4 DEF Decide, anew, more

\* An entry that is looked up is one, used now, and otherwise what it was.
LEMMA UsedEntry ==
  ASSUME NEW v \in Entries, NEW used \in Int
  PROVE  LET w == [v EXCEPT !.used = used] IN
         w \in Entries /\ w.used = used /\ w.count = v.count /\ w.start = v.start
<1> DEFINE w == [v EXCEPT !.used = used]
<1>1. w = [count |-> v.count, start |-> v.start, used |-> used]
  BY DEF Entries
<1>2. v.count \in Nat /\ v.start \in Nat
  BY DEF Entries
<1> HIDE DEF w
<1>3. w \in Entries
  BY <1>1, <1>2 DEF Entries
<1>4. w.used = used /\ w.count = v.count /\ w.start = v.start
  BY <1>1
<1> QED BY <1>3, <1>4 DEF w

\* A window that began at start, e before now as the limiter sees it, is over
\* when what it lacks has passed.
LEMMA Over ==
  ASSUME NEW start \in Nat, NEW now \in Nat, NEW later \in Nat, NEW window \in Nat,
         NEW e \in Nat, NEW x \in Nat, start <= later, now <= later,
         e = 0 \/ e = now - start, x >= window - e
  PROVE  start + window <= later + x /\ later + x \in Nat
OBVIOUS

LEMMA CheckRetry ==
  ASSUME RetryInv, Sane, IsOpen, NEW r \in Slots, Check(r) PROVE RetryInv'
<1> DEFINE k == slot[r].key
           now == slot[r].now
           w == Entry(k, now)
           d == Decide(w, EffectiveLimit(k), now)
<1>1. k \in ApiKeys /\ now \in Nat /\ now <= clock /\ clock \in Nat
  BY DEF RetryInv, Slot
<1> HIDE DEF k, now
<1>2. w \in Entries /\ w.start <= clock
  <2>1. CASE windows[k] = Absent
    <3>1. w = [count |-> 0, start |-> now, used |-> clock]
      BY <2>1 DEF Entry
    <3> HIDE DEF w
    <3> QED BY <1>1, <3>1 DEF Entries
  <2>2. CASE windows[k] # Absent
    <3> DEFINE v == windows[k]
    <3>1. w = [v EXCEPT !.used = clock]
      BY <2>2 DEF Entry
    <3>2. v \in Entries /\ v.start <= clock /\ clock \in Int
      BY <1>1 DEF RetryInv
    <3> HIDE DEF w, v
    <3>3. w \in Entries /\ w.start = v.start
      BY <3>1, <3>2, UsedEntry
    <3> QED BY <3>2, <3>3
  <2> QED BY <2>1, <2>2
<1> HIDE DEF w
<1>3. \/ d.allow = TRUE /\ d.window \in Entries /\ d.window.start \in {w.start, now}
      \/ d.allow = FALSE /\ d.window = w
  <2>1. w \in Entries /\ now \in Nat
    BY <1>1, <1>2
  <2> DEFINE l == EffectiveLimit(k)
  <2> HIDE DEF l
  <2>2. \/ /\ Decide(w, l, now).allow = TRUE
           /\ Decide(w, l, now).window \in Entries
           /\ Decide(w, l, now).window.start \in {w.start, now}
        \/ Decide(w, l, now).allow = FALSE /\ Decide(w, l, now).window = w
    BY <2>1, Decided
  <2> QED BY <2>2 DEF d, l
<1>4. /\ windows' = [windows EXCEPT ![k] = d.window] /\ UNCHANGED <<open, clock>>
      /\ d.allow => /\ slot' = [slot EXCEPT ![r].at = "prepare"]
                    /\ promise' = [promise EXCEPT ![k] = None]
      /\ ~d.allow => /\ slot' = [slot EXCEPT ![r] = FreeSlot]
                     /\ promise' = [promise EXCEPT ![k] =
                                      clock + Second * RetryAfter(Elapsed(w, now))]
  BY DEF Check, k, now, w, d
<1> HIDE DEF d
<1>5. windows' \in [ApiKeys -> Entries] /\ \A j \in ApiKeys : windows'[j].start <= clock
  <2>1. d.window \in Entries /\ d.window.start <= clock
    BY <1>1, <1>2, <1>3
  <2> QED BY <1>1, <1>4, <2>1 DEF RetryInv
<1>6. slot' \in [Slots -> Slot] /\ \A q \in Slots : slot'[q].now <= clock
  <2>1. CASE d.allow = TRUE
    <3>1. slot' = [slot EXCEPT ![r].at = "prepare"]
      BY <1>4, <2>1
    <3>2. [slot[r] EXCEPT !.at = "prepare"] \in Slot
          /\ [slot[r] EXCEPT !.at = "prepare"].now = slot[r].now
      BY DEF RetryInv, Slot
    <3> QED BY <3>1, <3>2 DEF RetryInv
  <2>2. CASE d.allow = FALSE
    <3>1. slot' = [slot EXCEPT ![r] = FreeSlot]
      BY <1>4, <2>2
    <3> QED BY <1>1, <3>1, Blanks DEF RetryInv
  <2> QED BY <1>3, <2>1, <2>2
<1>7. DOMAIN promise' = ApiKeys
  BY <1>3, <1>4 DEF RetryInv
<1>8. IsOpen'
  BY <1>4 DEF IsOpen
<1>9. ASSUME NEW j \in ApiKeys PROVE Promised(j)'
  <2>1. CASE j # k
    <3>1. promise'[j] = promise[j] /\ windows'[j] = windows[j] /\ open' = open
      BY <1>1, <1>3, <1>4, <2>1 DEF RetryInv
    <3> QED BY <1>8, <3>1 DEF RetryInv, Promised
  <2>2. CASE j = k /\ d.allow = TRUE
    BY <1>1, <1>4, <2>2 DEF RetryInv, Promised
  <2>3. CASE j = k /\ d.allow = FALSE
    <3> DEFINE e == Elapsed(w, now)
               secs == RetryAfter(e)
    <3>1. e \in Nat /\ (e = 0 \/ e = now - w.start) /\ w.start \in Nat
      BY <1>1, <1>2 DEF Elapsed, Entries
    <3>2. secs \in Nat /\ Second * secs >= open.window - e
      BY <3>1, LongEnough
    <3>3. promise'[j] = clock + Second * secs /\ windows'[j].start = w.start
      BY <1>1, <1>3, <1>4, <2>3 DEF RetryInv
    <3> HIDE DEF e, secs
    <3>4. open.window \in Nat /\ Second * secs \in Nat /\ open' = open
      BY <1>4, <3>2 DEF Sane
    <3>5. w.start + open.window <= clock + Second * secs /\ clock + Second * secs \in Nat
      <4> DEFINE x == Second * secs
      <4>1. x \in Nat /\ x >= open.window - e /\ open.window \in Nat
        BY <3>2, <3>4
      <4> HIDE DEF x
      <4>2. w.start \in Nat /\ w.start <= clock /\ now \in Nat /\ now <= clock
            /\ clock \in Nat
        BY <1>1, <1>2, <3>1
      <4>3. e \in Nat /\ (e = 0 \/ e = now - w.start)
        BY <3>1
      <4>4. w.start + open.window <= clock + x /\ clock + x \in Nat
        BY <4>1, <4>2, <4>3, Over
      <4> QED BY <4>4 DEF x
    <3> QED BY <1>8, <3>3, <3>4, <3>5 DEF Promised
  <2> QED BY <1>3, <2>1, <2>2, <2>3
<1> QED BY <1>1, <1>4, <1>5, <1>6, <1>7, <1>9 DEF RetryInv

\* What leaves the limiter alone.
LEMMA ApartRetry ==
  ASSUME RetryInv, UNCHANGED <<open, windows, promise>>, clock' \in Nat, clock <= clock',
         slot' \in [Slots -> Slot], \A r \in Slots : slot'[r].now <= clock'
  PROVE  RetryInv'
<1>1. \A k \in ApiKeys : windows'[k].start <= clock'
  BY DEF RetryInv, Entries
<1> QED BY <1>1 DEF RetryInv, Promised, IsOpen

LEMMA TrafficRetry == ASSUME RetryInv, Sane, IsOpen, Traffic PROVE RetryInv'
<1>1. ASSUME NEW r \in Slots, Check(r) PROVE RetryInv'
  BY <1>1, CheckRetry
<1>2. ASSUME NEW r \in Slots, Prepare(r) PROVE RetryInv'
  <2>1. PICK post \in Posts, deliverable \in Gates :
          slot' = [slot EXCEPT ![r] =
            IF Refusal(post, deliverable) = "none"
            THEN [@ EXCEPT !.at = "insert", !.post = post] ELSE FreeSlot]
    BY <1>2 DEF Prepare
  <2>2. [slot[r] EXCEPT !.at = "insert", !.post = post] \in Slot
        /\ [slot[r] EXCEPT !.at = "insert", !.post = post].now = slot[r].now
    BY DEF RetryInv, Slot
  <2>3. UNCHANGED <<open, windows, promise, clock>> /\ clock \in Nat
    BY <1>2 DEF Prepare, RetryInv
  <2>4. CASE Refusal(post, deliverable) = "none"
    <3>1. slot' \in [Slots -> Slot] /\ \A q \in Slots : slot'[q].now <= clock
      BY <2>1, <2>2, <2>4 DEF RetryInv
    <3> QED BY <2>3, <3>1, ApartRetry
  <2>5. CASE Refusal(post, deliverable) # "none"
    <3>1. slot' \in [Slots -> Slot] /\ \A q \in Slots : slot'[q].now <= clock
      BY <2>1, <2>3, <2>5, Blanks DEF RetryInv
    <3> QED BY <2>3, <3>1, ApartRetry
  <2> QED BY <2>4, <2>5
<1>3. ASSUME NEW r \in Slots, Drop(r) \/ Insert(r) PROVE RetryInv'
  <2>1. UNCHANGED <<open, windows, promise, clock>> /\ clock \in Nat
        /\ slot' = [slot EXCEPT ![r] = FreeSlot]
    BY <1>3 DEF Drop, Insert, RetryInv
  <2>2. slot' \in [Slots -> Slot] /\ \A q \in Slots : slot'[q].now <= clock
    BY <2>1, Blanks DEF RetryInv
  <2> QED BY <2>1, <2>2, ApartRetry
<1>4. ASSUME NEW r \in Slots, NEW k \in ApiKeys, Arrive(r, k) PROVE RetryInv'
  <2> DEFINE new == [at |-> "check", key |-> k, now |-> clock, post |-> Missing]
  <2>1. new \in Slot /\ new.now = clock
    BY DEF Slot, RetryInv
  <2>2. UNCHANGED <<open, windows, promise, clock>> /\ clock \in Nat
        /\ slot' = [slot EXCEPT ![r] = new]
    BY <1>4 DEF Arrive, RetryInv
  <2> HIDE DEF new
  <2>3. slot' \in [Slots -> Slot] /\ \A q \in Slots : slot'[q].now <= clock
    BY <2>1, <2>2 DEF RetryInv
  <2> QED BY <2>2, <2>3, ApartRetry
<1>5. ASSUME NEW k \in ApiKeys, Expire(k) PROVE RetryInv'
  <2>1. UNCHANGED <<open, promise, clock, slot>>
        /\ windows' = [windows EXCEPT ![k] = Absent] /\ clock \in Nat
    BY <1>5 DEF Expire, RetryInv
  <2>2. windows' \in [ApiKeys -> Entries] /\ \A j \in ApiKeys : windows'[j].start <= clock
    BY <2>1, Blanks DEF RetryInv
  <2>3. \A j \in ApiKeys : Promised(j)'
    BY <2>1 DEF RetryInv, Promised, IsOpen
  <2> QED BY <2>1, <2>2, <2>3 DEF RetryInv
<1>6. CASE Tick
  <2>1. clock' = clock + 1 /\ UNCHANGED <<open, windows, slot, promise>> /\ clock \in Nat
    BY <1>6 DEF Tick, RetryInv
  <2>2. \A r \in Slots : slot[r].now <= clock'
    BY <2>1 DEF RetryInv, Slot
  <2> QED BY <2>1, <2>2, ApartRetry DEF RetryInv
<1> QED BY <1>1, <1>2, <1>3, <1>4, <1>5, <1>6 DEF Traffic

LEMMA RetryStep == RetryInv /\ LimitsInv /\ [Next]_serviceVars => RetryInv'
<1> SUFFICES ASSUME RetryInv, LimitsInv, [Next]_serviceVars PROVE RetryInv'
  OBVIOUS
<1>1. CASE Coming \/ Reading \/ UNCHANGED serviceVars
  <2>1. UNCHANGED admissionVars
    BY <1>1 DEF Coming, NoTraffic, Reading, serviceVars
  <2> QED BY <2>1, ApartRetry DEF admissionVars, RetryInv
<1>2. CASE ServiceUp
  <2>1. open = Closed
    BY <1>2 DEF ServiceUp, Bind, LimitsInv, Serving
  <2>2. UNCHANGED <<clock, windows, slot, promise>>
    BY <1>2 DEF ServiceUp, Open
  <2>3. \A k \in ApiKeys : promise[k] = None
    BY <2>1 DEF RetryInv, Promised, IsOpen
  <2>4. \A k \in ApiKeys : Promised(k)'
    BY <2>2, <2>3 DEF Promised
  <2> QED BY <2>2, <2>4 DEF RetryInv
<1>3. CASE ServiceDown
  <2>1. Forgotten /\ UNCHANGED clock
    BY <1>3 DEF ServiceDown, Close
  <2>2. windows' \in [ApiKeys -> Entries] /\ \A k \in ApiKeys : windows'[k].start <= clock
    BY <2>1, Blanks DEF Forgotten, RetryInv
  <2>3. slot' \in [Slots -> Slot] /\ \A r \in Slots : slot'[r].now <= clock
    BY <2>1, Blanks DEF Forgotten, RetryInv
  <2>4. DOMAIN promise' = ApiKeys /\ \A k \in ApiKeys : Promised(k)'
    BY <2>1 DEF Forgotten, Promised
  <2> QED BY <2>1, <2>2, <2>3, <2>4 DEF RetryInv
<1>4. CASE Sending
  <2>1. IsOpen /\ Traffic
    BY <1>4, ServedIsLimited DEF Sending
  <2> QED BY <2>1, LimitsSane, TrafficRetry
<1> QED BY <1>1, <1>2, <1>3, <1>4 DEF Next

LEMMA RetryInit == Init => RetryInv
<1> SUFFICES ASSUME Init PROVE RetryInv
  OBVIOUS
<1>1. /\ clock = 0 /\ windows = [k \in ApiKeys |-> Absent]
      /\ slot = [r \in Slots |-> FreeSlot] /\ promise = [k \in ApiKeys |-> None]
  BY DEF Init, InitAdmission
<1> QED BY <1>1, Blanks DEF RetryInv, Promised

\* However long the windows and whatever the limits, and however the requests of
\* a key overlap: who is refused and waits as long as Retry-After says is let
\* in, if no other request of the key was in between (retry_after_secs, check).
THEOREM WaitingSuffices == Spec => []RetryAfterSuffices
BY RetryInit, RetryStep, RetryEnough, LimitsAlways, LimitsSane, PTL DEF Spec

-----------------------------------------------------------------------------
(* What is queued.                                                         *)

\* A body that is cut at all is announced with as many parts as it has.
LEMMA PartsCounted ==
  ASSUME NEW body, SegmentMessage(body).parts # <<>>
  PROVE  SegmentMessage(body).required = Len(SegmentMessage(body).parts)
<1>1. \/ \E parts : SegmentMessage(body) = Segments(parts)
      \/ \E n : SegmentMessage(body) = TooManyParts(n)
  BY DEF SegmentMessage, SegmentSimple, SegmentBy
<1>2. \A n : TooManyParts(n).parts = <<>>
  BY DEF TooManyParts
<1>3. \A parts : Segments(parts).required = Len(Segments(parts).parts)
  BY DEF Segments
<1> QED BY <1>1, <1>2, <1>3

Sendable(to, body) ==
  /\ to = "good" /\ body \notin {Missing, <<>>} /\ Len(body) <= MaxBody
  /\ SegmentMessage(body).parts # <<>>

LEMMA AdmittedSendable ==
  ASSUME NEW post \in Posts, NEW deliverable, Refusal(post, deliverable) = "none"
  PROVE  Sendable(post.to, post.body)
<1>1. post.to \in {Missing, "good", "bad"} /\ post.body \in {Missing} \union Seq(Chars)
  BY PostsAssumption DEF Post
<1>2. /\ Missing \notin {post.to, post.body} /\ post.to # "bad" /\ post.body # <<>>
      /\ ~(Len(post.body) > MaxBody) /\ SegmentMessage(post.body).parts # <<>>
  BY DEF Refusal
<1>3. Len(post.body) \in Nat /\ MaxBody \in Nat
  BY <1>1, <1>2
<1> QED BY <1>1, <1>2, <1>3 DEF Sendable

\* What is on its way to the insert has passed prepare_send.
RowsInv ==
  /\ \A r \in Slots : slot[r].at = "insert" => Sendable(slot[r].post.to, slot[r].post.body)
  /\ RowsSendable

LEMMA RowsApart ==
  ASSUME RowsInv, UNCHANGED rows,
         \A r \in Slots : slot'[r].at = "insert" => slot'[r] = slot[r]
  PROVE  RowsInv'
BY DEF RowsInv, RowsSendable

LEMMA RowsTraffic == ASSUME RetryInv, RowsInv, Traffic PROVE RowsInv'
<1> USE DEF RetryInv
<1>0. FreeSlot.at # "insert"
  BY DEF FreeSlot
<1>1. ASSUME NEW r \in Slots, Check(r) PROVE RowsInv'
  <2>1. UNCHANGED rows
        /\ (slot' = [slot EXCEPT ![r].at = "prepare"] \/ slot' = [slot EXCEPT ![r] = FreeSlot])
    BY <1>1 DEF Check
  <2>2. [slot[r] EXCEPT !.at = "prepare"].at # "insert"
    BY DEF Slot
  <2> QED BY <1>0, <2>1, <2>2, RowsApart
<1>2. ASSUME NEW r \in Slots, Prepare(r) PROVE RowsInv'
  <2>1. PICK post \in Posts, deliverable \in Gates :
          slot' = [slot EXCEPT ![r] =
            IF Refusal(post, deliverable) = "none"
            THEN [@ EXCEPT !.at = "insert", !.post = post] ELSE FreeSlot]
    BY <1>2 DEF Prepare
  <2>2. UNCHANGED rows
    BY <1>2 DEF Prepare
  <2>3. CASE Refusal(post, deliverable) = "none"
    <3> DEFINE new == [slot[r] EXCEPT !.at = "insert", !.post = post]
    <3>1. new.post = post
      BY DEF Slot
    <3>2. slot' = [slot EXCEPT ![r] = new] /\ Sendable(post.to, post.body)
      BY <2>1, <2>3, AdmittedSendable
    <3> HIDE DEF new
    <3>3. \A q \in Slots : slot'[q] = IF q = r THEN new ELSE slot[q]
      BY <3>2
    <3>4. \A q \in Slots : slot'[q].at = "insert" =>
            Sendable(slot'[q].post.to, slot'[q].post.body)
      BY <3>1, <3>2, <3>3 DEF RowsInv
    <3> QED BY <2>2, <3>4 DEF RowsInv, RowsSendable, Sendable
  <2>4. CASE Refusal(post, deliverable) # "none"
    <3>1. slot' = [slot EXCEPT ![r] = FreeSlot]
      BY <2>1, <2>4
    <3> QED BY <1>0, <2>2, <3>1, RowsApart
  <2> QED BY <2>3, <2>4
<1>3. ASSUME NEW r \in Slots, Drop(r) PROVE RowsInv'
  BY <1>0, <1>3, RowsApart DEF Drop
<1>4. ASSUME NEW r \in Slots, NEW k \in ApiKeys, Arrive(r, k) PROVE RowsInv'
  BY <1>4, RowsApart DEF Arrive
<1>5. ASSUME NEW r \in Slots, Insert(r) PROVE RowsInv'
  <2> DEFINE m == Row(slot[r].post)
  <2>1. slot' = [slot EXCEPT ![r] = FreeSlot]
        /\ (rows' = rows \union {m} \/ rows' = rows) /\ slot[r].at = "insert"
    BY <1>5 DEF Insert
  <2>2. Sendable(slot[r].post.to, slot[r].post.body)
    BY <2>1 DEF RowsInv
  <2>3. /\ m.to = slot[r].post.to /\ m.body = slot[r].post.body
        /\ m.parts = Len(SegmentMessage(slot[r].post.body).parts)
    BY DEF Row
  <2> HIDE DEF m
  <2>4. Sendable(m.to, m.body) /\ m.parts = SegmentMessage(m.body).required
    BY <2>2, <2>3, PartsCounted DEF Sendable
  <2>5. RowsSendable'
    BY <2>1, <2>4 DEF RowsInv, RowsSendable, Sendable
  <2>6. \A q \in Slots : slot'[q].at = "insert" => slot'[q] = slot[q]
    BY <1>0, <2>1
  <2> QED BY <2>5, <2>6 DEF RowsInv, Sendable
<1>6. CASE (\E k \in ApiKeys : Expire(k)) \/ Tick
  BY <1>6, RowsApart DEF Expire, Tick
<1> QED BY <1>1, <1>2, <1>3, <1>4, <1>5, <1>6 DEF Traffic

LEMMA RowsStep == RetryInv /\ RowsInv /\ [Next]_serviceVars => RowsInv'
<1> SUFFICES ASSUME RetryInv, RowsInv, [Next]_serviceVars PROVE RowsInv'
  OBVIOUS
<1>1. CASE Coming \/ Reading \/ UNCHANGED serviceVars
  BY <1>1, RowsApart DEF Coming, NoTraffic, Reading, serviceVars, admissionVars
<1>2. CASE ServiceUp
  BY <1>2, RowsApart DEF ServiceUp, Open
<1>3. CASE ServiceDown
  BY <1>3, RowsApart DEF ServiceDown, Close, Forgotten, FreeSlot
<1>4. CASE Sending
  BY <1>4, RowsTraffic DEF Sending
<1> QED BY <1>1, <1>2, <1>3, <1>4 DEF Next

\* Whatever is posted, and whether a row is inserted before or after a restart:
\* what is queued can be sent, in the segments announced (prepare_send,
\* create_outbound_message).
THEOREM QueuedIsSendable == Spec => []RowsSendable
<1>1. Init => RetryInv /\ RowsInv
  <2>1. Init => RowsInv
    BY DEF Init, InitAdmission, RowsInv, RowsSendable, FreeSlot
  <2> QED BY <2>1, RetryInit
<1>2. RowsInv => RowsSendable
  BY DEF RowsInv
<1> QED BY <1>1, <1>2, RetryStep, RowsStep, LimitsAlways, PTL DEF Spec

-----------------------------------------------------------------------------
(* How many are let in.                                                    *)

Lets == [at : Nat, no : Nat]

\* Of the requests X let in until time c, in a window that began at s and has
\* counted n: none was much later than the end of the window before; no more
\* than n can be of this window only; and no more than its n and a limit from
\* before are in the span that ends with c.
Few(X, W, c, s, n, limit) ==
  /\ \A x \in X : x.at < s + W + MaxLag
  /\ Cardinality({x \in X : s + MaxLag <= x.at}) <= n
  /\ Cardinality({x \in X : c + MaxLag <= x.at + W}) <= limit + n
Spans(X, W, limit) == \A t \in Nat :
  Cardinality({x \in X : t <= x.at /\ x.at + MaxLag <= t + W}) <= 2 * limit

LEMMA OneMore ==
  ASSUME NEW S, IsFiniteSet(S), NEW y, NEW T, T \subseteq S \union {y}
  PROVE  IsFiniteSet(T) /\ Cardinality(T) \in Nat /\ Cardinality(T) <= Cardinality(S) + 1
         /\ Cardinality(S) \in Nat
<1>0. Cardinality(S) \in Nat
  BY FS_CardinalityType
<1>1. IsFiniteSet(S \union {y}) /\ Cardinality(S \union {y}) <= Cardinality(S) + 1
  <2>1. CASE y \in S
    <3>1. S \union {y} = S
      BY <2>1
    <3>2. Cardinality(S \union {y}) = Cardinality(S) /\ IsFiniteSet(S \union {y})
      BY <3>1
    <3> QED BY <1>0, <3>2
  <2>2. CASE y \notin S
    <3>1. IsFiniteSet(S \union {y}) /\ Cardinality(S \union {y}) = Cardinality(S) + 1
      BY <2>2, FS_AddElement
    <3> QED BY <1>0, <3>1
  <2> QED BY <2>1, <2>2
<1>2. IsFiniteSet(T) /\ Cardinality(T) <= Cardinality(S \union {y})
      /\ Cardinality(S \union {y}) \in Nat
  BY <1>1, FS_Subset, FS_CardinalityType
<1> QED BY <1>0, <1>1, <1>2, FS_CardinalityType

\* With one more the spans that it is in are the only ones to look at.
LEMMA SpansOn ==
  ASSUME NEW X \in SUBSET Lets, IsFiniteSet(X), NEW W \in Nat, NEW limit \in Nat,
         NEW c \in Nat, NEW y \in Lets, y.at = c, NEW n \in 0..limit,
         \A x \in X : x.at <= c, Spans(X, W, limit),
         Cardinality({x \in X \union {y} : c + MaxLag <= x.at + W}) <= limit + n
  PROVE  Spans(X \union {y}, W, limit)
<1> DEFINE Y == X \union {y}  Ending == {x \in Y : c + MaxLag <= x.at + W}
<1> SUFFICES ASSUME NEW t \in Nat
             PROVE  Cardinality({x \in Y : t <= x.at /\ x.at + MaxLag <= t + W}) <= 2 * limit
  BY DEF Spans
<1> DEFINE Span == {x \in Y : t <= x.at /\ x.at + MaxLag <= t + W}
<1>0. /\ \A x \in Y : x.at \in Nat /\ x.at <= c
      /\ MaxLag \in Nat /\ IsFiniteSet(Y) /\ y \in Y
  BY FS_AddElement DEF Lets
<1>1. CASE y \in Span
  <2>1. t <= c /\ c + MaxLag <= t + W
    BY <1>1
  <2>2. Span \subseteq Ending /\ Ending \subseteq Y
    BY <1>0, <2>1
  <2>3. /\ Cardinality(Span) <= Cardinality(Ending) /\ Cardinality(Span) \in Nat
        /\ Cardinality(Ending) \in Nat
    <3> HIDE DEF Span, Ending, Y
    <3>1. IsFiniteSet(Ending) /\ IsFiniteSet(Span)
      BY <1>0, <2>2, FS_Subset
    <3> QED BY <2>2, <3>1, FS_Subset, FS_CardinalityType
  <2>4. Cardinality(Ending) <= limit + n
    OBVIOUS
  <2> HIDE DEF Span, Ending
  <2>5. Cardinality(Span) <= 2 * limit
    BY <2>3, <2>4
  <2> QED BY <2>5 DEF Span
<1>2. CASE y \notin Span
  <2>1. Span = {x \in X : t <= x.at /\ x.at + MaxLag <= t + W}
    BY <1>2
  <2> QED BY <2>1 DEF Spans
<1> QED BY <1>1, <1>2

\* A request more in the window.
LEMMA FewMore ==
  ASSUME NEW X \in SUBSET Lets, IsFiniteSet(X), NEW W \in Nat, NEW limit \in Nat,
         NEW c \in Nat, NEW y \in Lets, y.at = c, NEW n \in Nat, n < limit,
         \A x \in X : x.at <= c, Spans(X, W, limit),
         NEW s \in Nat, Few(X, W, c, s, n, limit), c < s + W + MaxLag
  PROVE  Few(X \union {y}, W, c, s, n + 1, limit) /\ Spans(X \union {y}, W, limit)
<1> DEFINE Y == X \union {y}
           Within(Z) == {x \in Z : s + MaxLag <= x.at}
           Ending(Z) == {x \in Z : c + MaxLag <= x.at + W}
<1>1. \A x \in Y : x.at < s + W + MaxLag
  BY DEF Few
<1>2. /\ IsFiniteSet(Within(X)) /\ IsFiniteSet(Ending(X))
      /\ Within(Y) \subseteq Within(X) \union {y} /\ Ending(Y) \subseteq Ending(X) \union {y}
  <2>1. Within(X) \subseteq X /\ Ending(X) \subseteq X
    OBVIOUS
  <2>2. Within(Y) \subseteq Within(X) \union {y} /\ Ending(Y) \subseteq Ending(X) \union {y}
    OBVIOUS
  <2> HIDE DEF Within, Ending
  <2> QED BY <2>1, <2>2, FS_Subset
<1>3. Cardinality(Within(X)) <= n /\ Cardinality(Ending(X)) <= limit + n
  BY DEF Few
<1> HIDE DEF Within, Ending
<1>4. /\ Cardinality(Within(Y)) <= Cardinality(Within(X)) + 1
      /\ Cardinality(Within(X)) \in Nat /\ Cardinality(Within(Y)) \in Nat
  BY <1>2, OneMore
<1>5. /\ Cardinality(Ending(Y)) <= Cardinality(Ending(X)) + 1
      /\ Cardinality(Ending(X)) \in Nat /\ Cardinality(Ending(Y)) \in Nat
  BY <1>2, OneMore
<1>6. Cardinality(Within(Y)) <= n + 1 /\ Cardinality(Ending(Y)) <= limit + (n + 1)
  BY <1>3, <1>4, <1>5
<1>7. Few(Y, W, c, s, n + 1, limit)
  BY <1>1, <1>6 DEF Few, Within, Ending
<1>8. n + 1 \in 0..limit
  OBVIOUS
<1>9. Cardinality({x \in Y : c + MaxLag <= x.at + W}) <= limit + (n + 1)
  BY <1>6 DEF Ending
<1> QED BY <1>7, <1>8, <1>9, SpansOn

\* The first request of a window: all before it are of earlier windows, and few
\* of them are late.
LEMMA FewAnew ==
  ASSUME NEW X \in SUBSET Lets, IsFiniteSet(X), NEW W \in Nat \ {0},
         NEW limit \in Nat \ {0}, NEW c \in Nat, NEW y \in Lets, y.at = c,
         \A x \in X : x.at <= c, Spans(X, W, limit),
         NEW now \in Nat, now <= c, c <= now + MaxLag,
         \A x \in X : x.at < now + MaxLag,
         Cardinality({x \in X : c + MaxLag <= x.at + W}) <= limit
  PROVE  Few(X \union {y}, W, c, now, 1, limit) /\ Spans(X \union {y}, W, limit)
<1> DEFINE Y == X \union {y}
           Within(Z) == {x \in Z : now + MaxLag <= x.at}
           Ending(Z) == {x \in Z : c + MaxLag <= x.at + W}
<1>0. MaxLag \in Nat /\ \A x \in X : x.at \in Nat
  BY DEF Lets
<1>1. \A x \in Y : x.at < now + W + MaxLag
  BY <1>0
<1>2. /\ Within(X) = {} /\ IsFiniteSet(Ending(X))
      /\ Within(Y) \subseteq Within(X) \union {y} /\ Ending(Y) \subseteq Ending(X) \union {y}
  <2>1. Within(X) = {}
    BY <1>0
  <2>2. Ending(X) \subseteq X
    OBVIOUS
  <2>3. Within(Y) \subseteq Within(X) \union {y} /\ Ending(Y) \subseteq Ending(X) \union {y}
    OBVIOUS
  <2> HIDE DEF Within, Ending
  <2> QED BY <2>1, <2>2, <2>3, FS_Subset
<1>3. Cardinality(Ending(X)) <= limit
  OBVIOUS
<1> HIDE DEF Within, Ending
<1>4. /\ Cardinality(Within(Y)) <= Cardinality(Within(X)) + 1 /\ Cardinality(Within(X)) = 0
      /\ Cardinality(Within(Y)) \in Nat
  BY <1>2, OneMore, FS_EmptySet
<1>5. /\ Cardinality(Ending(Y)) <= Cardinality(Ending(X)) + 1
      /\ Cardinality(Ending(X)) \in Nat /\ Cardinality(Ending(Y)) \in Nat
  BY <1>2, OneMore
<1>6. Cardinality(Within(Y)) <= 1 /\ Cardinality(Ending(Y)) <= limit + 1
  BY <1>3, <1>4, <1>5
<1>7. Few(Y, W, c, now, 1, limit)
  BY <1>1, <1>6 DEF Few, Within, Ending
<1>8. 1 \in 0..limit
  OBVIOUS
<1>9. Cardinality({x \in Y : c + MaxLag <= x.at + W}) <= limit + 1
  BY <1>6 DEF Ending
<1> QED BY <1>7, <1>8, <1>9, SpansOn

\* As time goes on, the span that ends with it holds less.
LEMMA FewLater ==
  ASSUME NEW X \in SUBSET Lets, IsFiniteSet(X), NEW W \in Nat, NEW limit \in Nat,
         NEW c \in Nat, NEW d \in Nat, c <= d, NEW s, NEW n \in Nat, Few(X, W, c, s, n, limit)
  PROVE  Few(X, W, d, s, n, limit)
<1> DEFINE Ending(u) == {x \in X : u + MaxLag <= x.at + W}
<1>0. MaxLag \in Nat /\ \A x \in X : x.at \in Nat
  BY DEF Lets
<1>1. Ending(d) \subseteq Ending(c) /\ Ending(c) \subseteq X
  BY <1>0
<1>2. Cardinality(Ending(c)) <= limit + n
  BY DEF Few
<1> HIDE DEF Ending
<1>3. IsFiniteSet(Ending(c))
  BY <1>1, FS_Subset
<1>4. Cardinality(Ending(d)) <= Cardinality(Ending(c)) /\ Cardinality(Ending(d)) \in Nat
      /\ Cardinality(Ending(c)) \in Nat
  BY <1>1, <1>3, FS_Subset, FS_CardinalityType
<1>5. Cardinality(Ending(d)) <= limit + n
  BY <1>2, <1>4
<1> QED BY <1>5 DEF Few, Ending

-----------------------------------------------------------------------------
\* What there is to know of a key whose windows outlive their use: as above, and
\* what was let in is no younger than the last use of the window; when the
\* window is gone, it is as old as a window.
Counts(k) ==
  /\ Spans(let[k], open.window, EffectiveLimit(k))
  /\ windows[k] = Absent => \A x \in let[k] : x.at + open.window <= clock
  /\ windows[k] # Absent =>
       /\ windows[k].count \in 1..EffectiveLimit(k)
       /\ \A x \in let[k] : x.at <= windows[k].used
       /\ Few(let[k], open.window, clock, windows[k].start, windows[k].count,
              EffectiveLimit(k))
BurstInv ==
  /\ let \in [ApiKeys -> SUBSET Lets]
  /\ \A k \in ApiKeys : IsFiniteSet(let[k]) /\ \A x \in let[k] : x.at <= clock
  /\ \A k \in ApiKeys : ~IsOpen => let[k] = {} /\ windows[k] = Absent
  /\ \A r \in Slots : slot[r].at = "check" => clock <= slot[r].now + MaxLag
  /\ IsOpen /\ WindowOutlived => \A k \in ApiKeys : Counts(k)

LEMMA WindowPositive == ASSUME Sane, IsOpen PROVE open.window \in Nat \ {0}
<1>1. PICK l \in Nat \ {0}, w \in Nat \ {0} : open = [limit |-> l, window |-> w * Second]
  BY DEF Sane
<1>2. open.window = w * Second
  BY <1>1, Zenon
<1>3. w * Second \in Nat \ {0}
  BY <1>1
<1> QED BY <1>2, <1>3

LEMMA BurstEnough == BurstInv /\ Sane => BurstBounded
BY DEF BurstInv, BurstBounded, Counts, Spans

\* A key for which nothing is decided, as time goes on.
LEMMA CountsOn ==
  ASSUME Sane, IsOpen, RetryInv, NEW k \in ApiKeys, Counts(k), let[k] \in SUBSET Lets,
         IsFiniteSet(let[k]), UNCHANGED open, let'[k] = let[k], windows'[k] = windows[k],
         clock' \in Nat, clock <= clock'
  PROVE  Counts(k)'
<1>1. /\ open.window \in Nat \ {0} /\ EffectiveLimit(k) \in Nat \ {0} /\ clock \in Nat
      /\ \A x \in let[k] : x.at \in Nat
  BY WindowPositive, LimitPositive DEF RetryInv, Lets
<1>2. EffectiveLimit(k)' = EffectiveLimit(k) /\ open' = open
  BY DEF EffectiveLimit
<1>3. windows[k] # Absent => Few(let[k], open.window, clock', windows[k].start,
                                 windows[k].count, EffectiveLimit(k))
  BY <1>1, FewLater DEF Counts
<1>4. windows[k] = Absent => \A x \in let[k] : x.at + open.window <= clock'
  BY <1>1 DEF Counts
<1> QED BY <1>2, <1>3, <1>4 DEF Counts

\* The decision, case by case.
LEMMA Cases ==
  ASSUME NEW w \in Entries, NEW limit, NEW now \in Nat
  PROVE  LET d == Decide(w, limit, now)  W == open.window
             old == Elapsed(w, now) >= W IN
         /\ old => d.allow = TRUE /\ d.window \in Entries /\ d.window.used = w.used
                   /\ d.window.count = 1 /\ d.window.start = now
         /\ ~old /\ w.count < limit =>
              /\ d.allow = TRUE /\ d.window \in Entries /\ d.window.used = w.used
              /\ d.window.count = w.count + 1 /\ d.window.start = w.start
         /\ ~old /\ ~(w.count < limit) => d.allow = FALSE /\ d.window = w
<1> DEFINE anew == [w EXCEPT !.count = 1, !.start = now]
           more == [w EXCEPT !.count = @ + 1]
           W == open.window
           d == Decide(w, limit, now)
           old == Elapsed(w, now) >= W
<1>1. anew \in Entries /\ anew.start = now /\ anew.count = 1 /\ anew.used = w.used
  BY Anew, Zenon
<1>2. more \in Entries /\ more.start = w.start /\ more.count = w.count + 1
      /\ more.used = w.used
  BY More, Zenon
<1>3. old => d = [allow |-> TRUE, window |-> anew]
  BY DEF Decide
<1>4. ~old /\ w.count < limit => d = [allow |-> TRUE, window |-> more]
  BY DEF Decide
<1>5. ~old /\ ~(w.count < limit) => d = [allow |-> FALSE, window |-> w]
  BY DEF Decide
<1> HIDE DEF anew, more, d, old
<1>6. old => d.allow = TRUE /\ d.window = anew
  BY <1>3
<1>7. ~old /\ w.count < limit => d.allow = TRUE /\ d.window = more
  BY <1>4
<1>8. ~old /\ ~(w.count < limit) => d.allow = FALSE /\ d.window = w
  BY <1>5
<1> QED BY <1>1, <1>2, <1>6, <1>7, <1>8 DEF d, old

LEMMA CheckCounts ==
  ASSUME Sane, IsOpen, RetryInv, BurstInv, WindowOutlived, NEW r \in Slots, Check(r),
         NEW k, k = slot[r].key
  PROVE  Counts(k)'
<1> DEFINE now == slot[r].now
           w == Entry(k, now)
           limit == EffectiveLimit(k)
           d == Decide(w, limit, now)
           W == open.window
           X == let[k]
           y == [at |-> clock, no |-> Cardinality(let[k])]
<1>1. /\ k \in ApiKeys /\ now \in Nat /\ now <= clock /\ clock \in Nat
      /\ clock <= now + MaxLag /\ MaxLag \in Nat \ {0}
      /\ W \in Nat \ {0} /\ limit \in Nat \ {0}
      /\ X \in SUBSET Lets /\ IsFiniteSet(X) /\ Counts(k)
      /\ \A x \in X : x.at <= clock /\ x.at \in Nat
  BY WindowPositive, LimitPositive DEF RetryInv, Slot, BurstInv, Lets, Check
<1>2. windows' = [windows EXCEPT ![k] = d.window] /\ UNCHANGED <<open, clock>>
  BY DEF Check
<1>3. d.allow => let' = [let EXCEPT ![k] = @ \union {y}]
  BY DEF Check
<1>4. ~d.allow => UNCHANGED let
  BY DEF Check
<1>5. windows'[k] = d.window
  BY <1>1, <1>2 DEF RetryInv
<1>6. /\ d.allow => let'[k] = X \union {y}
      /\ ~d.allow => let'[k] = X
  BY <1>1, <1>3, <1>4 DEF BurstInv
<1>7. y \in Lets /\ y.at = clock
  BY <1>1, FS_CardinalityType DEF Lets
<1>8. EffectiveLimit(k)' = limit /\ open'.window = W /\ clock' = clock
  BY <1>2 DEF EffectiveLimit
<1>9. /\ w \in Entries /\ w.used = clock
      /\ windows[k] = Absent => w.count = 0 /\ w.start = now
      /\ windows[k] # Absent => w.count = windows[k].count /\ w.start = windows[k].start
  <2>1. CASE windows[k] = Absent
    <3>1. w = [count |-> 0, start |-> now, used |-> clock]
      BY <2>1 DEF Entry
    <3> HIDE DEF w
    <3> QED BY <1>1, <2>1, <3>1 DEF Entries
  <2>2. CASE windows[k] # Absent
    <3> DEFINE v == windows[k]
    <3>1. w = [v EXCEPT !.used = clock]
      BY <2>2 DEF Entry
    <3>2. v \in Entries
      BY <1>1 DEF RetryInv
    <3> HIDE DEF w, v
    <3>3. clock \in Int
      BY <1>1
    <3>4. w \in Entries /\ w.used = clock /\ w.count = v.count /\ w.start = v.start
      BY <3>1, <3>2, <3>3, UsedEntry
    <3> QED BY <2>2, <3>4 DEF v
  <2> QED BY <2>1, <2>2
<1>10. Spans(X, W, limit)
  BY <1>1 DEF Counts
<1>11. windows[k] = Absent => \A x \in X : x.at + W <= clock
  BY <1>1 DEF Counts
<1>12. windows[k] # Absent =>
         w.count \in 1..limit /\ Few(X, W, clock, w.start, w.count, limit)
  BY <1>1, <1>9 DEF Counts
<1>c. /\ Elapsed(w, now) >= W => d.allow = TRUE /\ d.window \in Entries
           /\ d.window.used = w.used /\ d.window.count = 1 /\ d.window.start = now
      /\ ~(Elapsed(w, now) >= W) /\ w.count < limit =>
           /\ d.allow = TRUE /\ d.window \in Entries /\ d.window.used = w.used
           /\ d.window.count = w.count + 1 /\ d.window.start = w.start
      /\ ~(Elapsed(w, now) >= W) /\ ~(w.count < limit) => d.allow = FALSE /\ d.window = w
  BY <1>1, <1>9, Cases
<1>s. w.start \in Nat /\ w.count \in Nat
  BY <1>9 DEF Entries
<1> SUFFICES ASSUME TRUE PROVE
    /\ Spans(let'[k], W, limit)
    /\ d.window.used = clock /\ d.window \in Entries
    /\ d.window.count \in 1..limit
    /\ Few(let'[k], W, clock, d.window.start, d.window.count, limit)
  <2> HIDE DEF d, w, X, y, limit, W, now
  <2>1. d.window.used = clock /\ clock \in Nat => d.window # Absent
    BY DEF Absent, None
  <2>2. \A x \in let'[k] : x.at <= clock
    <3>1. \A x \in X : x.at <= clock
      BY <1>1
    <3>2. y.at <= clock
      BY <1>1, <1>7
    <3>3. let'[k] \subseteq X \union {y}
      BY <1>6
    <3> QED BY <3>1, <3>2, <3>3
  <2> QED BY <1>1, <1>5, <1>8, <2>1, <2>2 DEF Counts
<1> HIDE DEF d, w, X, y, limit, W, now
<1>13. CASE windows[k] = Absent
  <2>1. ~(Elapsed(w, now) >= W) /\ w.count < limit /\ w.count + 1 = 1
    BY <1>1, <1>9, <1>13 DEF Elapsed
  <2>2. \A x \in X : x.at < now + MaxLag
    BY <1>1, <1>11, <1>13
  <2>3. Cardinality({x \in X : clock + MaxLag <= x.at + W}) <= limit
    <3>1. {x \in X : clock + MaxLag <= x.at + W} = {}
      BY <1>1, <1>11, <1>13
    <3>2. Cardinality({x \in X : clock + MaxLag <= x.at + W}) = 0
      BY <3>1, FS_EmptySet
    <3> QED BY <1>1, <3>2
  <2>4. Few(X \union {y}, W, clock, now, 1, limit) /\ Spans(X \union {y}, W, limit)
    BY <1>1, <1>7, <1>10, <2>2, <2>3, FewAnew
  <2>5. d.allow = TRUE /\ d.window.count = 1 /\ d.window.start = now
        /\ d.window.used = clock /\ d.window \in Entries
    BY <1>9, <1>13, <1>c, <2>1
  <2>6. let'[k] = X \union {y} /\ 1 \in 1..limit
    BY <1>1, <1>6, <2>5
  <2> QED BY <2>4, <2>5, <2>6
<1>14. CASE windows[k] # Absent /\ Elapsed(w, now) >= W
  <2>1. w.start + W <= now
    BY <1>1, <1>s, <1>14 DEF Elapsed
  <2>2. \A x \in X : x.at < now + MaxLag
    <3>1. \A x \in X : x.at < w.start + W + MaxLag
      BY <1>12, <1>14 DEF Few
    <3> QED BY <1>1, <1>s, <2>1, <3>1
  <2>3. Cardinality({x \in X : clock + MaxLag <= x.at + W}) <= limit
    <3> DEFINE Sp == {x \in X : clock + MaxLag <= x.at + W}
               Cur == {x \in X : w.start + MaxLag <= x.at}
    <3>1. Sp \subseteq Cur /\ Cur \subseteq X
      BY <1>1, <1>s, <2>1
    <3>2. Cardinality(Cur) <= w.count
      BY <1>12, <1>14 DEF Few
    <3> HIDE DEF Sp, Cur
    <3>3. IsFiniteSet(Cur) /\ IsFiniteSet(Sp)
      BY <1>1, <3>1, FS_Subset
    <3>4. Cardinality(Sp) <= Cardinality(Cur) /\ Cardinality(Sp) \in Nat
          /\ Cardinality(Cur) \in Nat
      BY <3>1, <3>3, FS_Subset, FS_CardinalityType
    <3>5. Cardinality(Sp) <= limit
      BY <1>1, <1>12, <1>14, <3>2, <3>4
    <3> QED BY <3>5 DEF Sp
  <2>4. Few(X \union {y}, W, clock, now, 1, limit) /\ Spans(X \union {y}, W, limit)
    BY <1>1, <1>7, <1>10, <2>2, <2>3, FewAnew
  <2>5. d.allow = TRUE /\ d.window.count = 1 /\ d.window.start = now
        /\ d.window.used = clock /\ d.window \in Entries
    BY <1>9, <1>14, <1>c
  <2>6. let'[k] = X \union {y} /\ 1 \in 1..limit
    BY <1>1, <1>6, <2>5
  <2> QED BY <2>4, <2>5, <2>6
<1>15. CASE windows[k] # Absent /\ ~(Elapsed(w, now) >= W) /\ w.count < limit
  <2>1. clock < w.start + W + MaxLag
    BY <1>1, <1>s, <1>15 DEF Elapsed
  <2>2. Few(X \union {y}, W, clock, w.start, w.count + 1, limit)
        /\ Spans(X \union {y}, W, limit)
    BY <1>1, <1>7, <1>10, <1>12, <1>15, <1>s, <2>1, FewMore
  <2>3. w.count + 1 \in 1..limit
    BY <1>1, <1>s, <1>15
  <2> QED BY <1>6, <1>9, <1>15, <1>c, <2>2, <2>3
<1>16. CASE windows[k] # Absent /\ ~(Elapsed(w, now) >= W) /\ ~(w.count < limit)
  BY <1>6, <1>9, <1>10, <1>12, <1>16, <1>c
<1> QED BY <1>13, <1>14, <1>15, <1>16

\* What every step of traffic but the limiter's leaves alone.
LEMMA ApartBurst ==
  ASSUME RetryInv, BurstInv, LimitsInv, UNCHANGED <<open, windows, let>>, clock' \in Nat, clock <= clock',
         \A r \in Slots : slot'[r].at = "check" => clock' <= slot'[r].now + MaxLag
  PROVE  BurstInv'
<1>1. \A k \in ApiKeys : IsFiniteSet(let[k]) /\ let[k] \in SUBSET Lets
        /\ \A x \in let[k] : x.at <= clock'
  BY DEF BurstInv, RetryInv, Lets
<1>2. ASSUME IsOpen, WindowOutlived, NEW k \in ApiKeys PROVE Counts(k)'
  BY <1>1, <1>2, LimitsSane, CountsOn DEF BurstInv
<1>3. IsOpen' = IsOpen /\ WindowOutlived' = WindowOutlived
  BY DEF IsOpen, WindowOutlived
<1> QED BY <1>1, <1>2, <1>3 DEF BurstInv

LEMMA CheckBurst ==
  ASSUME RetryInv, BurstInv, LimitsInv, IsOpen, NEW r \in Slots, Check(r) PROVE BurstInv'
<1> DEFINE k == slot[r].key
           y == [at |-> clock, no |-> Cardinality(let[k])]
<1>1. k \in ApiKeys /\ UNCHANGED <<open, clock>> /\ clock \in Nat
  BY DEF Check, RetryInv, Slot
<1>2. \/ let' = [let EXCEPT ![k] = @ \union {y}]
      \/ let' = let
  BY DEF Check
<1>3. /\ \E d : windows' = [windows EXCEPT ![k] = d]
      /\ slot' = [slot EXCEPT ![r].at = "prepare"] \/ slot' = [slot EXCEPT ![r] = FreeSlot]
  BY DEF Check
<1>k. k = slot[r].key
  OBVIOUS
<1>4. IsFiniteSet(let[k]) /\ let[k] \in SUBSET Lets /\ let \in [ApiKeys -> SUBSET Lets]
  BY <1>1 DEF BurstInv
<1>5. y \in Lets /\ y.at = clock
  BY <1>1, <1>4, FS_CardinalityType DEF Lets
<1> HIDE DEF k, y
<1>6. let' \in [ApiKeys -> SUBSET Lets]
  BY <1>1, <1>2, <1>4, <1>5
<1>7. ASSUME NEW j \in ApiKeys
      PROVE  IsFiniteSet(let'[j]) /\ \A x \in let'[j] : x.at <= clock'
  <2>1. let'[j] = let[j] \/ let'[j] = let[j] \union {y}
    BY <1>1, <1>2, <1>4
  <2>2. IsFiniteSet(let[j]) /\ \A x \in let[j] : x.at <= clock
    BY DEF BurstInv
  <2>3. IsFiniteSet(let[j] \union {y})
    BY <2>2, FS_AddElement
  <2>4. CASE let'[j] = let[j]
    BY <1>1, <2>2, <2>4
  <2>5. CASE let'[j] = let[j] \union {y}
    <3>1. \A x \in let[j] \union {y} : x.at <= clock
      BY <1>1, <1>5, <2>2
    <3> QED BY <1>1, <2>3, <2>5, <3>1
  <2> QED BY <2>1, <2>4, <2>5
<1>8. ASSUME NEW q \in Slots, slot'[q].at = "check" PROVE clock' <= slot'[q].now + MaxLag
  <2>1. FreeSlot.at # "check" /\ [slot[r] EXCEPT !.at = "prepare"].at # "check"
    BY DEF FreeSlot, RetryInv, Slot
  <2>2. slot'[q] = slot[q]
    BY <1>3, <1>8, <2>1 DEF RetryInv
  <2> QED BY <1>1, <1>8, <2>2 DEF BurstInv
<1>9. ASSUME WindowOutlived, NEW j \in ApiKeys PROVE Counts(j)'
  <2>1. CASE j = k
    BY <1>9, <1>k, <2>1, LimitsSane, CheckCounts
  <2>2. CASE j # k
    <3>1. let'[j] = let[j] /\ windows'[j] = windows[j]
      BY <1>1, <1>2, <1>3, <1>4, <2>2 DEF RetryInv
    <3>2. Counts(j) /\ IsFiniteSet(let[j]) /\ let[j] \in SUBSET Lets
      BY <1>9 DEF BurstInv
    <3> QED BY <1>1, <3>1, <3>2, LimitsSane, CountsOn
  <2> QED BY <2>1, <2>2
<1>10. IsOpen' /\ WindowOutlived' = WindowOutlived
  BY <1>1 DEF IsOpen, WindowOutlived
<1> QED BY <1>6, <1>7, <1>8, <1>9, <1>10 DEF BurstInv

LEMMA ExpireBurst ==
  ASSUME RetryInv, BurstInv, LimitsInv, IsOpen, NEW k \in ApiKeys, Expire(k) PROVE BurstInv'
<1>1. /\ windows[k] # Absent /\ clock >= windows[k].used + IdleTime /\ clock \in Nat
      /\ windows' = [windows EXCEPT ![k] = Absent]
      /\ UNCHANGED <<open, clock, slot, let>>
  BY DEF Expire, RetryInv
<1>2. ASSUME WindowOutlived, NEW j \in ApiKeys PROVE Counts(j)'
  <2>0. Counts(j) /\ IsFiniteSet(let[j]) /\ let[j] \in SUBSET Lets
    BY <1>2 DEF BurstInv
  <2>1. CASE j = k
    <3>1. /\ open.window \in Nat /\ open.window <= IdleTime /\ windows[k].used \in Int
          /\ \A x \in let[k] : x.at \in Nat /\ x.at <= windows[k].used
      BY <1>1, <1>2, <2>0, <2>1, LimitsSane, WindowPositive
         DEF WindowOutlived, RetryInv, Entries, Counts, Lets
    <3>2. \A x \in let[k] : x.at + open.window <= clock
      <4> DEFINE W == open.window  u == windows[k].used
      <4>1. /\ W \in Nat /\ u \in Int /\ u + W <= clock /\ clock \in Nat
            /\ \A x \in let[k] : x.at \in Nat /\ x.at <= u
        <5>1. IdleTime \in Nat
          BY AdmissionAssumption
        <5>2. W \in Nat /\ W <= IdleTime /\ u \in Int /\ u + IdleTime <= clock
          BY <1>1, <3>1
        <5> HIDE DEF W, u
        <5>3. u + W <= clock
          BY <1>1, <5>1, <5>2
        <5> QED BY <1>1, <3>1, <5>2, <5>3 DEF u
      <4> HIDE DEF W, u
      <4>2. \A x \in let[k] : x.at + W <= clock
        BY <4>1
      <4> QED BY <4>2 DEF W
    <3>3. windows'[k] = Absent
      BY <1>1 DEF RetryInv
    <3>4. EffectiveLimit(k)' = EffectiveLimit(k)
      BY <1>1 DEF EffectiveLimit
    <3> QED BY <1>1, <2>0, <2>1, <3>2, <3>3, <3>4 DEF Counts
  <2>2. CASE j # k
    BY <1>1, <2>0, <2>2, LimitsSane, CountsOn DEF RetryInv
  <2> QED BY <2>1, <2>2
<1>3. IsOpen' /\ WindowOutlived' = WindowOutlived
  BY <1>1 DEF IsOpen, WindowOutlived
<1> QED BY <1>1, <1>2, <1>3 DEF BurstInv

LEMMA TrafficBurst ==
  ASSUME RetryInv, BurstInv, LimitsInv, IsOpen, Traffic PROVE BurstInv'
<1>0. FreeSlot.at # "check" /\ clock \in Nat
  BY DEF FreeSlot, RetryInv
<1>1. ASSUME NEW r \in Slots, Check(r) PROVE BurstInv'
  BY <1>1, CheckBurst
<1>2. ASSUME NEW r \in Slots, Prepare(r) \/ Drop(r) \/ Insert(r) PROVE BurstInv'
  <2>1. UNCHANGED <<open, windows, let, clock>>
    BY <1>2 DEF Prepare, Drop, Insert
  <2>2. \E new : slot' = [slot EXCEPT ![r] = new] /\ new.at # "check"
    <3>1. CASE Drop(r) \/ Insert(r)
      BY <1>0, <3>1 DEF Drop, Insert
    <3>2. CASE Prepare(r)
      <4>1. PICK post \in Posts, deliverable \in Gates :
              slot' = [slot EXCEPT ![r] =
                IF Refusal(post, deliverable) = "none"
                THEN [@ EXCEPT !.at = "insert", !.post = post] ELSE FreeSlot]
        BY <3>2 DEF Prepare
      <4>2. [slot[r] EXCEPT !.at = "insert", !.post = post].at # "check"
        BY DEF RetryInv, Slot
      <4>3. CASE Refusal(post, deliverable) = "none"
        BY <4>1, <4>2, <4>3
      <4>4. CASE Refusal(post, deliverable) # "none"
        BY <1>0, <4>1, <4>4
      <4> QED BY <4>3, <4>4
    <3> QED BY <1>2, <3>1, <3>2
  <2>3. \A q \in Slots : slot'[q].at = "check" => slot'[q] = slot[q]
    BY <2>2 DEF RetryInv
  <2>4. \A q \in Slots : slot'[q].at = "check" => clock' <= slot'[q].now + MaxLag
    BY <2>1, <2>3 DEF BurstInv
  <2> QED BY <1>0, <2>1, <2>4, ApartBurst
<1>3. ASSUME NEW r \in Slots, NEW k \in ApiKeys, Arrive(r, k) PROVE BurstInv'
  <2> DEFINE new == [at |-> "check", key |-> k, now |-> clock, post |-> Missing]
  <2>1. UNCHANGED <<open, windows, let, clock>> /\ slot' = [slot EXCEPT ![r] = new]
    BY <1>3 DEF Arrive
  <2>2. clock <= new.now + MaxLag
    BY <1>0
  <2> HIDE DEF new
  <2>3. \A q \in Slots : slot'[q] = slot[q] \/ slot'[q] = new
    BY <2>1 DEF RetryInv
  <2>4. \A q \in Slots : slot'[q].at = "check" => clock' <= slot'[q].now + MaxLag
    BY <2>1, <2>2, <2>3 DEF BurstInv
  <2> QED BY <1>0, <2>1, <2>4, ApartBurst
<1>4. ASSUME NEW k \in ApiKeys, Expire(k) PROVE BurstInv'
  BY <1>4, ExpireBurst
<1>5. CASE Tick
  <2>1. clock' = clock + 1 /\ UNCHANGED <<open, windows, slot, let>>
        /\ \A r \in Slots : slot[r].at = "check" => clock < slot[r].now + MaxLag
    BY <1>5 DEF Tick
  <2>2. \A r \in Slots : slot'[r].at = "check" => clock' <= slot'[r].now + MaxLag
    <3>1. \A r \in Slots : slot[r].now \in Nat
      BY DEF RetryInv, Slot
    <3> QED BY <1>0, <2>1, <3>1
  <2> QED BY <1>0, <2>1, <2>2, ApartBurst
<1> QED BY <1>1, <1>2, <1>3, <1>4, <1>5 DEF Traffic

LEMMA BurstStep == RetryInv /\ LimitsInv /\ BurstInv /\ [Next]_serviceVars => BurstInv'
<1> SUFFICES ASSUME RetryInv, LimitsInv, BurstInv, [Next]_serviceVars PROVE BurstInv'
  OBVIOUS
<1>0. clock \in Nat
  BY DEF RetryInv
<1>1. CASE Coming \/ Reading \/ UNCHANGED serviceVars
  <2>1. UNCHANGED admissionVars
    BY <1>1 DEF Coming, NoTraffic, Reading, serviceVars
  <2>2. UNCHANGED <<open, windows, let, clock, slot>>
    BY <2>1 DEF admissionVars
  <2>3. \A r \in Slots : slot'[r].at = "check" => clock' <= slot'[r].now + MaxLag
    BY <2>2 DEF BurstInv
  <2> QED BY <1>0, <2>2, <2>3, ApartBurst
<1>2. CASE ServiceUp
  <2>1. open = Closed /\ ~IsOpen
    BY <1>2 DEF ServiceUp, Bind, LimitsInv, Serving, IsOpen
  <2>2. UNCHANGED <<clock, windows, slot, let>>
    BY <1>2 DEF ServiceUp, Open
  <2>3. \A k \in ApiKeys : let[k] = {} /\ windows[k] = Absent
    BY <2>1 DEF BurstInv
  <2>4. ASSUME IsOpen', NEW k \in ApiKeys PROVE Counts(k)'
    <3>1. EffectiveLimit(k)' \in Nat
      <4>1. open'.limit = Limit(conf["service"]) /\ Limit(conf["service"]) \in Nat
        BY <1>2 DEF ServiceUp, Bind, Open, Limit, LimitsInv, Loaded
      <4>2. CustomLimitMax \in Nat
        BY SMT DEF CustomLimitMax
      <4> QED BY <4>1, <4>2 DEF EffectiveLimit
    <3>2. \A t \in Nat : Cardinality({x \in {} : t <= x.at /\ x.at + MaxLag <= t + open'.window}) = 0
      BY FS_EmptySet
    <3>3. let'[k] = {} /\ windows'[k] = Absent
      BY <2>2, <2>3
    <3>4. Spans({}, open'.window, EffectiveLimit(k)')
      BY <3>1, <3>2 DEF Spans
    <3> QED BY <3>3, <3>4 DEF Counts
  <2> QED BY <2>2, <2>3, <2>4 DEF BurstInv
<1>3. CASE ServiceDown
  <2>1. open' = Closed /\ Forgotten /\ UNCHANGED clock
    BY <1>3 DEF ServiceDown, Close
  <2>2. /\ let' = [k \in ApiKeys |-> {}] /\ windows' = [k \in ApiKeys |-> Absent]
        /\ \A r \in Slots : slot'[r].at # "check"
    BY <2>1 DEF Forgotten, NoLets, FreeSlot
  <2> QED BY <2>1, <2>2, FS_EmptySet DEF BurstInv, IsOpen
<1>4. CASE Sending
  <2>1. IsOpen /\ Traffic
    BY <1>4, ServedIsLimited DEF Sending
  <2> QED BY <2>1, TrafficBurst
<1> QED BY <1>1, <1>2, <1>3, <1>4 DEF Next

\* However long the windows, whatever the limits, and however late and out of
\* order the requests of a key reach the limiter: no span that is shorter than a
\* window by that lateness has more than twice the limit (decide, check).
THEOREM TwiceAtMost == Spec => []BurstBounded
<1>1. Init => BurstInv
  BY FS_EmptySet DEF Init, InitAdmission, NoLets, BurstInv, IsOpen, FreeSlot
<1> QED BY <1>1, BurstEnough, BurstStep, RetryInit, RetryStep, LimitsAlways, LimitsSane,
           PTL DEF Spec

-----------------------------------------------------------------------------
(* What clients get to see.                                                *)

TableRow == [of : {"inbound", "outbound"}, at : 0..MaxWall]
Client   == [at : {"away", "paging", "listed"}, feed : Seq(Nat), lagged : BOOLEAN,
             seen : SUBSET Nat, offset : Nat]
TableOK  == table \in Seq(TableRow)

LEMMA RowsFinite ==
  ASSUME TableOK
  PROVE  /\ IsFiniteSet(Rows) /\ Rows \in SUBSET Nat
         /\ \A n \in Rows : At(n) \in Nat /\ table[n] \in TableRow
         /\ \A t : Of(t) \in SUBSET Rows /\ IsFiniteSet(Of(t))
<1>1. Len(table) \in Nat /\ \A n \in 1..Len(table) : table[n] \in TableRow
  BY DEF TableOK
<1>2. IsFiniteSet(Rows) /\ Rows \in SUBSET Nat
  BY <1>1, FS_Interval DEF Rows
<1>3. \A n \in Rows : At(n) \in Nat /\ table[n] \in TableRow
  BY <1>1 DEF Rows, At, TableRow
<1>4. \A t : Of(t) \in SUBSET Rows
  BY DEF Of
<1> QED BY <1>2, <1>3, <1>4, FS_Subset

\* A row more, and the others are what they were.
LEMMA Appended ==
  ASSUME TableOK, NEW row \in TableRow, table' = Append(table, row)
  PROVE  /\ TableOK' /\ Len(table') = Len(table) + 1 /\ Len(table) \in Nat
         /\ Rows' = Rows \union {Len(table) + 1} /\ Len(table) + 1 \notin Rows
         /\ \A n \in Rows : At(n)' = At(n) /\ table'[n] = table[n]
         /\ \A t : Of(t) \subseteq Of(t)' /\ Of(t)' \subseteq Of(t) \union {Len(table) + 1}
<1>1. /\ table' \in Seq(TableRow) /\ Len(table') = Len(table) + 1 /\ Len(table) \in Nat
      /\ \A n \in 1..Len(table) : table'[n] = table[n]
  BY DEF TableOK
<1>2. Rows' = Rows \union {Len(table) + 1} /\ Len(table) + 1 \notin Rows
  BY <1>1 DEF Rows
<1>3. \A n \in Rows : At(n)' = At(n) /\ table'[n] = table[n]
  BY <1>1 DEF Rows, At
<1>4. \A t : Of(t) \subseteq Of(t)' /\ Of(t)' \subseteq Of(t) \union {Len(table) + 1}
  BY <1>2, <1>3 DEF Of
<1> QED BY <1>1, <1>2, <1>3, <1>4 DEF TableOK

\* Ranks.
InFront(n) == {m \in Of("inbound") : Before(m, n)}

LEMMA RankNat ==
  ASSUME TableOK, NEW n \in Of("inbound")
  PROVE  IsFiniteSet(InFront(n)) /\ Rank(n) = Cardinality(InFront(n)) /\ Rank(n) \in Nat
<1>1. InFront(n) \in SUBSET Of("inbound")
  BY DEF InFront
<1>2. IsFiniteSet(InFront(n))
  BY <1>1, RowsFinite, FS_Subset
<1> QED BY <1>2, FS_CardinalityType DEF Rank, InFront

LEMMA RankOrder ==
  ASSUME TableOK, NEW m \in Of("inbound"), NEW n \in Of("inbound"), Before(m, n)
  PROVE  Rank(m) < Rank(n)
<1>1. \A i \in Of("inbound") : At(i) \in Nat /\ i \in Nat
  BY RowsFinite
<1>2. InFront(m) \subseteq InFront(n) /\ m \in InFront(n) /\ m \notin InFront(m)
  BY <1>1 DEF InFront, Before
<1>3. /\ IsFiniteSet(InFront(n)) /\ Rank(n) = Cardinality(InFront(n)) /\ Rank(n) \in Nat
      /\ Rank(m) = Cardinality(InFront(m)) /\ Rank(m) \in Nat
  BY RankNat
<1>4. Cardinality(InFront(m)) <= Cardinality(InFront(n))
      /\ Cardinality(InFront(m)) # Cardinality(InFront(n))
  BY <1>2, <1>3, FS_Subset
<1> QED BY <1>3, <1>4

LEMMA RankOwn ==
  ASSUME TableOK, NEW m \in Of("inbound"), NEW n \in Of("inbound"), m # n
  PROVE  Rank(m) # Rank(n)
<1>1. At(m) \in Nat /\ m \in Nat /\ At(n) \in Nat /\ n \in Nat
  BY RowsFinite
<1>2. Before(m, n) \/ Before(n, m)
  BY <1>1 DEF Before
<1>3. Rank(m) \in Nat /\ Rank(n) \in Nat
  BY RankNat
<1> QED BY <1>2, <1>3, RankOrder

\* Below a rank none is missing.
LEMMA RankTaken ==
  ASSUME TableOK, NEW n \in Of("inbound"), NEW j \in Nat, j < Rank(n)
  PROVE  \E m \in Of("inbound") : Rank(m) = j
<1> DEFINE S == InFront(n)
           T == 0..(Rank(n) - 1)
           f == [m \in S |-> Rank(m)]
<1>1. /\ Rank(n) \in Nat /\ Cardinality(S) = Rank(n) /\ S \in SUBSET Of("inbound")
  BY RankNat DEF InFront
<1>2. \A m \in S : Rank(m) \in Nat /\ Rank(m) < Rank(n)
  BY RankNat, RankOrder DEF InFront
<1>3. f \in [S -> T]
  BY <1>1, <1>2
<1>4. \A a, b \in S : a # b => f[a] # f[b]
  BY <1>1, RankOwn
<1>5. f \in Injection(S, T)
  BY <1>3, <1>4 DEF Injection, IsInjective
<1>6. IsFiniteSet(T) /\ Cardinality(T) = Rank(n)
  <2> DEFINE b == Rank(n) - 1
  <2>1. b \in Int /\ b + 1 = Rank(n) /\ b >= 0 /\ Rank(n) \in Nat
    BY <1>1
  <2> HIDE DEF b
  <2>0. 0 \in Int /\ b \in Int
    BY <2>1
  <2>2. IsFiniteSet(0..b) /\ Cardinality(0..b) = IF 0 > b THEN 0 ELSE b - 0 + 1
    BY <2>0, FS_Interval, Zenon
  <2>3. Cardinality(0..b) = Rank(n)
    BY <2>1, <2>2
  <2> QED BY <2>2, <2>3 DEF b
<1>7. f \in Surjection(S, T)
  BY <1>1, <1>5, <1>6, FS_Injection
<1>8. j \in T
  BY <1>1
<1>9. PICK m \in S : f[m] = j
  BY <1>7, <1>8 DEF Surjection
<1> QED BY <1>1, <1>9

\* A row more never puts one that is there further to the front.
LEMMA RankGrows ==
  ASSUME TableOK, NEW row \in TableRow, table' = Append(table, row), NEW n \in Of("inbound")
  PROVE  Rank(n) <= Rank(n)' /\ Rank(n) \in Nat /\ Rank(n)' \in Nat
<1>1. TableOK' /\ n \in Of("inbound")' /\ n \in Rows
  BY Appended, RowsFinite
<1>2. InFront(n) \subseteq InFront(n)'
  <2>1. \A m \in Of("inbound") : m \in Of("inbound")' /\ At(m)' = At(m) /\ At(n)' = At(n)
    BY <1>1, Appended, RowsFinite
  <2> QED BY <2>1 DEF InFront, Before
<1>3. Rank(n) = Cardinality(InFront(n)) /\ Rank(n) \in Nat
  BY RankNat
<1>4. IsFiniteSet(InFront(n)') /\ Rank(n)' = Cardinality(InFront(n)') /\ Rank(n)' \in Nat
  <2>1. InFront(n)' \in SUBSET Of("inbound")'
    BY DEF InFront
  <2>2. IsFiniteSet(Of("inbound")')
    <3>1. IsFiniteSet(Of("inbound")) /\ Of("inbound")' \subseteq Of("inbound") \union {Len(table) + 1}
      BY RowsFinite, Appended
    <3> QED BY <3>1, OneMore
  <2>3. IsFiniteSet(InFront(n)')
    BY <2>1, <2>2, FS_Subset
  <2> QED BY <2>3, FS_CardinalityType DEF Rank, InFront
<1> QED BY <1>2, <1>3, <1>4, FS_Subset

\* A page that is empty is past all rows; one that is not holds all from its
\* first rank to its last.
LEMMA PageComplete ==
  ASSUME TableOK, NEW limit \in Nat \ {0}, NEW offset \in Nat,
         NEW n \in Of("inbound"), Rank(n) >= offset, n \notin Page(limit, offset)
  PROVE  /\ Page(limit, offset) # {} /\ Cardinality(Page(limit, offset)) \in Nat
         /\ Rank(n) >= offset + Cardinality(Page(limit, offset))
<1> DEFINE P == Page(limit, offset)
           T == offset..(offset + limit - 1)
           f == [m \in P |-> Rank(m)]
<1>1. Rank(n) \in Nat /\ Rank(n) >= offset + limit
  BY RankNat DEF Page
<1>2. P # {}
  <2>1. PICK m \in Of("inbound") : Rank(m) = offset
    <3>1. offset < Rank(n)
      BY <1>1
    <3> QED BY <3>1, RankTaken
  <2>2. m \in P
    BY <2>1 DEF Page
  <2> QED BY <2>2
<1>3. P \in SUBSET Of("inbound") /\ \A m \in P : Rank(m) \in T
  BY DEF Page
<1>4. f \in Injection(P, T)
  <2>1. f \in [P -> T] /\ \A a, b \in P : a # b => f[a] # f[b]
    BY <1>3, RankOwn
  <2> QED BY <2>1 DEF Injection, IsInjective
<1>5. IsFiniteSet(T) /\ Cardinality(T) = limit
  BY FS_Interval
<1>6. IsFiniteSet(P) /\ Cardinality(P) <= limit
  BY <1>4, <1>5, FS_Injection
<1>7. Cardinality(P) \in Nat
  BY <1>6, FS_CardinalityType
<1> QED BY <1>1, <1>2, <1>6, <1>7

-----------------------------------------------------------------------------
Queued  == {client.feed[i] : i \in DOMAIN client.feed}
Unheard == Of("inbound") \ (client.seen \union silent \union Queued)

\* What a client has not heard of is still to come on its pages, and there is
\* none of it when it has seen them all.
Listing == ~client.lagged =>
  /\ client.at = "paging" => \A n \in Unheard : Rank(n) >= client.offset
  /\ client.at = "listed" => Unheard = {}
ListInv ==
  /\ TableOK /\ wall \in 0..MaxWall /\ Len(table) <= MaxRows
  /\ silent \in SUBSET Rows
  /\ client \in Client /\ Len(client.feed) <= Capacity
  /\ client.seen \in SUBSET Of("inbound")
  /\ Listing

\* All that happens to what readers see.
ReadersStep ==
  \/ Recording
  \/ Paging
  \/ Watching
  \/ /\ CutOff
     /\ UNCHANGED <<wall, table>>
  \/ UNCHANGED readersVars

LEMMA StepsAreReaders == [Next]_serviceVars => ReadersStep
<1> SUFFICES ASSUME [Next]_serviceVars PROVE ReadersStep
  OBVIOUS
<1>1. CASE Coming
  BY <1>1 DEF Coming, NoTraffic, ReadersStep
<1>2. CASE ServiceUp
  BY <1>2 DEF ServiceUp, ReadersStep
<1>3. CASE ServiceDown
  BY <1>3 DEF ServiceDown, ReadersStep
<1>4. CASE Sending
  BY <1>4 DEF Sending, ReadersStep
<1>5. CASE Reading
  BY <1>5 DEF Reading, ReadersStep
<1>6. CASE UNCHANGED serviceVars
  BY <1>6 DEF serviceVars, ReadersStep
<1> QED BY <1>1, <1>2, <1>3, <1>4, <1>5, <1>6 DEF Next

LEMMA FeedAppend ==
  ASSUME NEW s \in Seq(Nat), NEW n \in Nat
  PROVE  /\ Append(s, n) \in Seq(Nat) /\ Len(Append(s, n)) = Len(s) + 1
         /\ \A i \in DOMAIN s : i \in DOMAIN Append(s, n) /\ Append(s, n)[i] = s[i]
         /\ Len(s) + 1 \in DOMAIN Append(s, n) /\ Append(s, n)[Len(s) + 1] = n
         /\ Len(s) \in Nat
OBVIOUS

LEMMA FeedTail ==
  ASSUME NEW s \in Seq(Nat), s # <<>>
  PROVE  /\ Tail(s) \in Seq(Nat) /\ Len(Tail(s)) = Len(s) - 1 /\ Len(s) \in Nat /\ Head(s) \in Nat
         /\ \A i \in DOMAIN s : s[i] # Head(s) =>
              \E j \in DOMAIN Tail(s) : Tail(s)[j] = s[i]
<1>1. Tail(s) \in Seq(Nat) /\ Len(Tail(s)) = Len(s) - 1 /\ Len(s) \in Nat /\ Head(s) \in Nat
  OBVIOUS
<1>2. ASSUME NEW i \in DOMAIN s, s[i] # Head(s)
      PROVE  \E j \in DOMAIN Tail(s) : Tail(s)[j] = s[i]
  <2>1. i \in 1..Len(s) /\ i # 1
    BY <1>2
  <2>2. i - 1 \in DOMAIN Tail(s) /\ Tail(s)[i - 1] = s[i]
    BY <1>1, <2>1
  <2> QED BY <2>2
<1> QED BY <1>1, <1>2

LEMMA RecordRead ==
  ASSUME ListInv, Room, NEW t \in {"inbound", "outbound"}, Inserted(t),
         silent' = silent \union {Len(table) + 1}, UNCHANGED <<wall, client>>
  PROVE  ListInv'
<1> DEFINE row == [of |-> t, at |-> wall]
<1>1. row \in TableRow /\ table' = Append(table, row) /\ TableOK
  BY DEF Inserted, ListInv, TableRow
<1> HIDE DEF row
<1>2. /\ TableOK' /\ Len(table') = Len(table) + 1 /\ Len(table) \in Nat
      /\ Rows' = Rows \union {Len(table) + 1}
      /\ Of("inbound") \subseteq Of("inbound")'
      /\ Of("inbound")' \subseteq Of("inbound") \union {Len(table) + 1}
  BY <1>1, Appended
<1>3. Len(table') <= MaxRows
  BY <1>2, ReadersAssumption DEF Room
<1>4. silent' \in SUBSET Rows' /\ client'.seen \in SUBSET Of("inbound")'
  BY <1>2 DEF ListInv
<1>5. Unheard' \subseteq Unheard
  BY <1>2 DEF Unheard, Queued
<1>6. Listing'
  <2>1. \A n \in Unheard : Rank(n) <= Rank(n)' /\ Rank(n) \in Nat /\ Rank(n)' \in Nat
    BY <1>1, RankGrows DEF Unheard
  <2>2. client.offset \in Nat
    BY DEF ListInv, Client
  <2>3. ASSUME ~client.lagged, client.at = "paging", NEW n \in Unheard'
        PROVE  Rank(n)' >= client.offset
    <3>1. n \in Unheard
      BY <1>5
    <3>2. Rank(n) >= client.offset
      BY <2>3, <3>1 DEF ListInv, Listing
    <3> QED BY <2>1, <2>2, <3>1, <3>2
  <2> QED BY <1>5, <2>3 DEF Listing, ListInv
<1> QED BY <1>2, <1>3, <1>4, <1>6 DEF ListInv

\* What leaves the table alone, and tells the client at least what it knew.
LEMMA ListingOn ==
  ASSUME ListInv, UNCHANGED table,
         client'.lagged \/ client'.at = "away"
         \/ (/\ client'.at = client.at /\ client'.offset = client.offset
             /\ client'.lagged = client.lagged /\ Unheard' \subseteq Unheard)
  PROVE  Listing'
<1>1. \A n : Rank(n)' = Rank(n)
  BY DEF Rank, Before, Of, Rows, At
<1> QED BY <1>1 DEF ListInv, Listing

LEMMA PublishRead ==
  ASSUME ListInv, NEW n \in silent, Publish(n) PROVE ListInv'
<1>1. /\ silent' = silent \ {n} /\ client' = Heard(client, n) /\ UNCHANGED <<wall, table>>
      /\ n \in Nat /\ client \in Client /\ client.feed \in Seq(Nat)
  BY RowsFinite DEF Publish, ListInv, Client
<1>2. CASE client.at = "away"
  <2>1. client' = client
    BY <1>1, <1>2 DEF Heard
  <2>2. Listing'
    BY <1>1, <1>2, <2>1, ListingOn
  <2> QED BY <1>1, <2>1, <2>2 DEF ListInv, TableOK, Rows, Of
<1>3. CASE client.at # "away" /\ Len(client.feed) < Capacity
  <2> DEFINE feed == Append(client.feed, n)
  <2>1. client' = [client EXCEPT !.feed = feed]
    BY <1>1, <1>3 DEF Heard
  <2>2. /\ feed \in Seq(Nat) /\ Len(feed) <= Capacity
        /\ \A i \in DOMAIN client.feed : i \in DOMAIN feed /\ feed[i] = client.feed[i]
        /\ \E i \in DOMAIN feed : feed[i] = n
    <3>1. Len(feed) = Len(client.feed) + 1 /\ Len(client.feed) \in Nat
      BY <1>1, FeedAppend
    <3>2. Len(feed) <= Capacity
      BY <1>3, <3>1, ReadersAssumption
    <3> QED BY <1>1, <3>2, FeedAppend
  <2> HIDE DEF feed
  <2>3. /\ client' \in Client /\ client'.feed = feed /\ client'.at = client.at
        /\ client'.offset = client.offset /\ client'.lagged = client.lagged
        /\ client'.seen = client.seen
    BY <1>1, <2>1, <2>2 DEF Client
  <2>4. Unheard' \subseteq Unheard
    <3>1. Queued \union {n} \subseteq Queued'
      BY <2>2, <2>3 DEF Queued
    <3> QED BY <1>1, <2>3, <3>1 DEF Unheard, Of, Rows
  <2>5. Listing'
    BY <1>1, <2>3, <2>4, ListingOn
  <2> QED BY <1>1, <2>2, <2>3, <2>5 DEF ListInv, TableOK, Rows, Of
<1>4. CASE client.at # "away" /\ ~(Len(client.feed) < Capacity)
  <2> DEFINE feed == Append(Tail(client.feed), n)
  <2>1. client' = [client EXCEPT !.feed = feed, !.lagged = TRUE]
    BY <1>1, <1>4 DEF Heard
  <2>2. feed \in Seq(Nat) /\ Len(feed) <= Capacity
    <3>1. client.feed # <<>> /\ Len(client.feed) <= Capacity
      BY <1>4, ReadersAssumption DEF ListInv
    <3>2. Tail(client.feed) \in Seq(Nat) /\ Len(Tail(client.feed)) = Len(client.feed) - 1
          /\ Len(client.feed) \in Nat
      BY <1>1, <3>1, FeedTail
    <3>3. feed \in Seq(Nat) /\ Len(feed) = Len(Tail(client.feed)) + 1
      BY <1>1, <3>2, FeedAppend
    <3> QED BY <3>1, <3>2, <3>3
  <2> HIDE DEF feed
  <2>3. client' \in Client /\ client'.feed = feed /\ client'.lagged = TRUE
        /\ client'.seen = client.seen
    BY <1>1, <2>1, <2>2 DEF Client
  <2>4. Listing'
    BY <1>1, <2>3, ListingOn
  <2> QED BY <1>1, <2>2, <2>3, <2>4 DEF ListInv, TableOK, Rows, Of
<1> QED BY <1>2, <1>3, <1>4

LEMMA LimitInRange ==
  ASSUME NEW raw \in Limits PROVE PageLimit(raw) \in Nat \ {0}
<1>1. PageDefault \in Nat \ {0} /\ PageMax \in Nat \ {0}
  BY ReadersAssumption
<1>2. CASE raw = Absence
  BY <1>1, <1>2 DEF PageLimit
<1>3. CASE raw # Absence
  <2>1. raw \in Int
    BY <1>3, ReadersAssumption
  <2> QED BY <1>1, <1>3, <2>1 DEF PageLimit
<1> QED BY <1>2, <1>3

LEMMA PagingRead == ASSUME ListInv, Paging PROVE ListInv'
<1>0. UNCHANGED <<wall, table, silent>>
  BY DEF Paging, Subscribe, ReadEvent, Leave, ReadPage
<1>1. client \in Client /\ client.feed \in Seq(Nat) /\ TableOK /\ client.offset \in Nat
      /\ client.seen \in SUBSET Of("inbound")
  BY DEF ListInv, Client
<1>2. Of("inbound")' = Of("inbound") /\ Rows' = Rows /\ TableOK' /\ \A n : Rank(n)' = Rank(n)
  BY <1>0, <1>1 DEF Of, Rows, TableOK, Rank, Before, At
<1>3. CASE Subscribe \/ Leave
  <2>1. /\ client' \in Client /\ client'.feed = <<>> /\ client'.seen = {}
        /\ (client'.at = "paging" /\ client'.offset = 0) \/ client'.at = "away"
    <3>1. CASE Subscribe
      <4>1. client' = [at |-> "paging", feed |-> <<>>, lagged |-> FALSE, seen |-> {},
                       offset |-> 0]
        BY <3>1 DEF Subscribe, Away
      <4> QED BY <4>1 DEF Client
    <3>2. CASE Leave
      BY <3>2 DEF Leave, Away, Client
    <3> QED BY <1>3, <3>1, <3>2
  <2>2. Listing'
    <3>1. \A n \in Unheard' : Rank(n)' \in Nat
      BY <1>1, <1>2, RankNat DEF Unheard
    <3> QED BY <2>1, <3>1 DEF Listing
  <2>3. Len(client'.feed) <= Capacity
    BY <2>1, ReadersAssumption
  <2> QED BY <1>0, <1>2, <2>1, <2>2, <2>3 DEF ListInv
<1>4. CASE ReadEvent
  <2> DEFINE h == {Head(client.feed)} \intersect Of("inbound")
  <2>1. client.feed # <<>>
    BY <1>4 DEF ReadEvent
  <2>2. client' = [client EXCEPT !.feed = Tail(client.feed), !.seen = client.seen \union h]
    BY <1>1, <1>4 DEF ReadEvent, Sees, Client
  <2>3. /\ Tail(client.feed) \in Seq(Nat) /\ Len(Tail(client.feed)) <= Capacity
        /\ \A i \in DOMAIN client.feed : client.feed[i] # Head(client.feed) =>
             \E j \in DOMAIN Tail(client.feed) : Tail(client.feed)[j] = client.feed[i]
    <3>1. Len(client.feed) <= Capacity
      BY DEF ListInv
    <3>2. /\ Tail(client.feed) \in Seq(Nat) /\ Len(Tail(client.feed)) = Len(client.feed) - 1
          /\ Len(client.feed) \in Nat
      BY <1>1, <2>1, FeedTail
    <3>3. Len(Tail(client.feed)) <= Capacity
      BY <3>1, <3>2, ReadersAssumption
    <3>4. \A i \in DOMAIN client.feed : client.feed[i] # Head(client.feed) =>
             \E j \in DOMAIN Tail(client.feed) : Tail(client.feed)[j] = client.feed[i]
      BY <1>1, <2>1, FeedTail
    <3> QED BY <3>2, <3>3, <3>4
  <2>4. h \in SUBSET Of("inbound") /\ Of("inbound") \in SUBSET Nat
    BY <1>1, RowsFinite
  <2>h. h = {Head(client.feed)} \intersect Of("inbound")
    OBVIOUS
  <2> HIDE DEF h
  <2>5. /\ client' \in Client /\ client'.feed = Tail(client.feed)
        /\ client'.seen = client.seen \union h
        /\ client'.at = client.at /\ client'.offset = client.offset
        /\ client'.lagged = client.lagged
    BY <1>1, <2>2, <2>3, <2>4 DEF Client
  <2>6. Unheard' \subseteq Unheard
    <3>1. Queued \subseteq Queued' \union {Head(client.feed)}
      BY <2>3, <2>5 DEF Queued
    <3> QED BY <1>0, <1>2, <2>5, <2>h, <3>1 DEF Unheard
  <2>7. Listing'
    BY <1>0, <2>5, <2>6, ListingOn
  <2> QED BY <1>0, <1>1, <1>2, <2>3, <2>4, <2>5, <2>7 DEF ListInv
<1>5. ASSUME NEW raw \in Limits, ReadPage(raw) PROVE ListInv'
  <2> DEFINE page == Page(PageLimit(raw), client.offset)
  <2>1. /\ client.at = "paging"
        /\ client' = IF page = {} THEN [client EXCEPT !.at = "listed"]
             ELSE Sees([client EXCEPT !.offset = @ + Cardinality(page)], page)
    BY <1>5 DEF ReadPage
  <2>2. page \in SUBSET Of("inbound") /\ Cardinality(page) \in Nat
    <3>1. page \in SUBSET Of("inbound")
      BY DEF Page
    <3>2. IsFiniteSet(page)
      BY <1>1, <3>1, RowsFinite, FS_Subset
    <3> QED BY <3>1, <3>2, FS_CardinalityType
  <2>3. ASSUME ~client.lagged, NEW n \in Unheard, n \notin page
        PROVE  page # {} /\ Rank(n) >= client.offset + Cardinality(page)
    <3>1. Rank(n) >= client.offset /\ n \in Of("inbound")
      BY <2>1, <2>3 DEF ListInv, Listing, Unheard
    <3> QED BY <1>1, <2>3, <3>1, LimitInRange, PageComplete
  <2> HIDE DEF page
  <2>4. Len(client.feed) <= Capacity
    BY DEF ListInv
  <2>5. CASE page = {}
    <3>1. client' = [client EXCEPT !.at = "listed"]
      BY <2>1, <2>5
    <3>2. /\ client' \in Client /\ client'.feed = client.feed /\ client'.at = "listed"
          /\ client'.seen = client.seen /\ client'.lagged = client.lagged
      BY <1>1, <3>1 DEF Client
    <3>3. Unheard' = Unheard
      BY <1>0, <1>2, <3>2 DEF Unheard, Queued
    <3>4. Listing'
      BY <2>3, <2>5, <3>2, <3>3 DEF Listing
    <3> QED BY <1>0, <1>1, <1>2, <2>4, <3>2, <3>4 DEF ListInv
  <2>6. CASE page # {}
    <3> DEFINE off == client.offset + Cardinality(page)
    <3>1. page \intersect Of("inbound") = page
      BY <2>2
    <3>2. client' = [client EXCEPT !.offset = off, !.seen = client.seen \union page]
      BY <1>1, <2>1, <2>6, <3>1 DEF Sees, Client
    <3>3. off \in Nat /\ page \in SUBSET Nat
      BY <1>1, <2>2, RowsFinite
    <3>o. off = client.offset + Cardinality(page)
      OBVIOUS
    <3> HIDE DEF off
    <3>4. /\ client' \in Client /\ client'.feed = client.feed /\ client'.at = "paging"
          /\ client'.seen = client.seen \union page /\ client'.lagged = client.lagged
          /\ client'.offset = off
      BY <1>1, <2>1, <3>2, <3>3 DEF Client
    <3>5. Unheard' \subseteq Unheard \ page
      BY <1>0, <1>2, <3>4 DEF Unheard, Queued
    <3>6. Listing'
      BY <1>2, <2>3, <3>4, <3>5, <3>o DEF Listing
    <3> QED BY <1>0, <1>1, <1>2, <2>2, <2>4, <3>4, <3>6 DEF ListInv
  <2> QED BY <2>5, <2>6
<1> QED BY <1>3, <1>4, <1>5 DEF Paging

LEMMA ReadStep == ListInv /\ ReadersStep => ListInv'
<1> SUFFICES ASSUME ListInv, ReadersStep PROVE ListInv'
  OBVIOUS
<1>1. CASE Record \/ Queue
  BY <1>1, RecordRead DEF Record, Queue
<1>2. ASSUME NEW n \in silent, Publish(n) PROVE ListInv'
  BY <1>2, PublishRead
<1>3. CASE SetWall \/ Watching \/ UNCHANGED readersVars
  <2>1. UNCHANGED <<table, silent, client>> /\ wall' \in 0..MaxWall
    BY <1>3 DEF SetWall, Watching, AskActivity, ShowActivity, readersVars, ListInv
  <2>2. Listing'
    BY <2>1, ListingOn DEF Unheard, Queued, Of, Rows
  <2> QED BY <2>1, <2>2 DEF ListInv, TableOK, Rows, Of
<1>4. CASE Paging
  BY <1>4, PagingRead
<1>5. CASE CutOff /\ UNCHANGED <<wall, table>>
  <2>1. /\ client' \in Client /\ client'.feed = <<>> /\ client'.seen = {}
        /\ client'.at = "away" /\ silent' = {}
    BY <1>5 DEF CutOff, Away, Client
  <2>2. Listing'
    BY <1>5, <2>1, ListingOn
  <2>3. Len(client'.feed) <= Capacity
    BY <2>1, ReadersAssumption
  <2> QED BY <1>5, <2>1, <2>2, <2>3 DEF ListInv, TableOK, Rows, Of
<1> QED BY <1>1, <1>2, <1>3, <1>4, <1>5 DEF ReadersStep, Recording

LEMMA ReadInit == InitReaders => ListInv
<1> SUFFICES ASSUME InitReaders PROVE ListInv
  OBVIOUS
<1>1. /\ client \in Client /\ client.feed = <<>> /\ client.seen = {}
      /\ client.at = "away" /\ silent = {} /\ table = <<>> /\ wall = 1
  BY DEF InitReaders, Away, Client
<1>2. TableOK /\ Len(table) = 0
  BY <1>1 DEF TableOK
<1>3. Listing
  BY <1>1 DEF Listing
<1> QED BY <1>1, <1>2, <1>3, ReadersAssumption DEF ListInv

\* For any pages, any number of messages that come in between and any clock: a
\* client that keeps up misses no message (inbound_handler, events_handler,
\* handle_inbound_inner).
THEOREM NothingMissed == Spec => []NothingUnseen
<1>1. Init => ListInv
  BY ReadInit DEF Init
<1>2. ListInv => NothingUnseen
  BY DEF ListInv, Listing, Unheard, Queued, NothingUnseen
<1>3. ListInv /\ [Next]_serviceVars => ListInv'
  BY ReadStep, StepsAreReaders
<1> QED BY <1>1, <1>2, <1>3, PTL DEF Spec

-----------------------------------------------------------------------------
(* The dashboard.                                                          *)

Dash == [at : {"none", "asked", "shown"}, now : Int, before : SUBSET Nat, found : SUBSET Nat]

\* The outbound rows there were when the dashboard was asked for.
FoundFirst ==
  dash.found \in First({n \in Of("outbound") \intersect dash.before :
                          At(n) >= dash.now - Day}, RowCap)
DashInv ==
  /\ TableOK /\ wall \in Int
  /\ dash \in Dash /\ dash.before \subseteq Rows /\ dash.found \subseteq Rows
  /\ dash.at = "asked" => FoundFirst
  /\ RecentRight

LEMMA LikeFirst ==
  ASSUME NEW S, NEW most, NEW T
  PROVE  T \in First(S, most) <=>
           /\ T \subseteq S /\ Cardinality(T) <= most
           /\ Cardinality(T) = most \/ T = S
           /\ \A m \in T, n \in S \ T : At(m) >= At(n)
BY DEF First

\* If enough entries are from some time on, so is all that is shown of them.
LEMMA EnoughShown ==
  ASSUME NEW Es, IsFiniteSet(Es), \A n \in Es : At(n) \in Nat, NEW v \in Int,
         NEW D \in First(Es, ShowMax), NEW B \in SUBSET Es, Cardinality(B) >= ShowMax,
         \A b \in B : At(b) >= v
  PROVE  Cardinality(D) = ShowMax /\ \A m \in D : At(m) >= v
<1>1. /\ D \in SUBSET Es /\ Cardinality(D) <= ShowMax
      /\ Cardinality(D) = ShowMax \/ D = Es
      /\ \A m \in D, n \in Es \ D : At(m) >= At(n)
  BY LikeFirst
<1>2. IsFiniteSet(D) /\ IsFiniteSet(B)
  BY <1>1, FS_Subset
<1>3. Cardinality(D) \in Nat /\ Cardinality(B) \in Nat /\ Cardinality(Es) \in Nat /\ ShowMax \in Nat
  BY <1>2, FS_CardinalityType, ReadersAssumption
<1>4. Cardinality(D) = ShowMax
  <2>1. Cardinality(B) <= Cardinality(Es)
    BY FS_Subset
  <2> QED BY <1>1, <1>3, <2>1
<1>5. ASSUME NEW m \in D PROVE At(m) >= v
  <2>1. CASE B \subseteq D
    <3>1. Cardinality(B) <= Cardinality(D) /\ (Cardinality(D) = Cardinality(B) => D = B)
      BY <1>2, <2>1, FS_Subset
    <3>2. D = B
      BY <1>3, <1>4, <3>1
    <3> QED BY <1>5, <3>2
  <2>2. CASE ~(B \subseteq D)
    <3>1. PICK b \in B : b \notin D
      BY <2>2
    <3>2. At(m) >= At(b) /\ At(b) >= v /\ At(m) \in Nat /\ At(b) \in Nat
      BY <1>1, <1>5, <3>1
    <3> QED BY <3>2
  <2> QED BY <2>1, <2>2
<1>6. \A m \in D : At(m) >= v
  BY <1>5
<1> QED BY <1>4, <1>6

\* A query that is cut off has enough rows that are not from ahead of the clock.
LEMMA Crowd ==
  ASSUME NEW t, NEW now \in Int, IsFiniteSet(Of(t)), \A n \in Of(t) : At(n) \in Nat,
         Cardinality({n \in Of(t) : At(n) > now}) <= RowCap - ShowMax,
         NEW S \in SUBSET Of(t), NEW T \in First(S, RowCap), NEW n \in S, n \notin T
  PROVE  /\ Cardinality({m \in T : At(m) <= now}) >= ShowMax
         /\ \A m \in T : At(m) >= At(n)
<1> DEFINE Ahead == {m \in Of(t) : At(m) > now}
           A == {m \in T : At(m) > now}
           B == {m \in T : At(m) <= now}
<1>1. /\ T \in SUBSET Of(t) /\ Cardinality(T) = RowCap
      /\ \A m \in T : At(m) >= At(n)
  <2>1. /\ T \subseteq S
        /\ Cardinality(T) = RowCap \/ T = S
        /\ \A m \in T, k \in S \ T : At(m) >= At(k)
    BY LikeFirst
  <2> QED BY <2>1
<1>2. IsFiniteSet(T) /\ IsFiniteSet(Ahead) /\ Cardinality(T) \in Nat
  <2>1. Ahead \in SUBSET Of(t)
    OBVIOUS
  <2> QED BY <1>1, <2>1, FS_Subset, FS_CardinalityType
<1>3. A \in SUBSET Ahead /\ B \in SUBSET T /\ A \union B = T /\ A \intersect B = {}
  BY <1>1
<1>4. IsFiniteSet(A) /\ Cardinality(A) <= Cardinality(Ahead) /\ IsFiniteSet(B)
  BY <1>2, <1>3, FS_Subset
<1>5. Cardinality(Ahead) <= RowCap - ShowMax
  OBVIOUS
<1> HIDE DEF A, B, Ahead
<1>6. Cardinality(T) = Cardinality(A) + Cardinality(B) - Cardinality(A \intersect B)
  BY <1>3, <1>4, FS_Union
<1>7. Cardinality(A) \in Nat /\ Cardinality(B) \in Nat /\ Cardinality(Ahead) \in Nat
      /\ Cardinality(A \intersect B) = 0
  BY <1>2, <1>3, <1>4, FS_CardinalityType, FS_EmptySet
<1>8. Cardinality(B) >= ShowMax
  BY <1>1, <1>4, <1>5, <1>6, <1>7, ReadersAssumption
<1> QED BY <1>1, <1>8 DEF B

\* What is shown of what the two queries found.
LEMMA ShowRight ==
  ASSUME DashInv, ShowActivity PROVE RecentRight'
<1>1. PICK found \in Activity("inbound", dash.now) :
        \E shown \in Recent(dash.found \union found, dash.now) :
          dash' = [dash EXCEPT !.at = "shown", !.found = shown]
  BY DEF ShowActivity
<1>2. PICK shown \in Recent(dash.found \union found, dash.now) :
        dash' = [dash EXCEPT !.at = "shown", !.found = shown]
  BY <1>1
<1>3. UNCHANGED <<table, wall>> /\ dash.at = "asked" /\ dash \in Dash /\ dash.now \in Int
      /\ dash'.now = dash.now /\ dash'.before = dash.before /\ dash'.found = shown
  BY <1>2 DEF ShowActivity, DashInv, Dash
<1> DEFINE now == dash.now
           So == {n \in Of("outbound") \intersect dash.before : At(n) >= now - Day}
           Si == {n \in Of("inbound") : At(n) >= now - Day}
           All == dash.found \union found
           E == {n \in All : now - At(n) \in 0..Day}
<1>4. /\ dash.found \in First(So, RowCap) /\ found \in First(Si, RowCap)
      /\ shown \in First(E, ShowMax)
  BY <1>1, <1>2, <1>3 DEF DashInv, FoundFirst, Activity, Recent
<1>5. /\ dash.found \in SUBSET So /\ found \in SUBSET Si /\ shown \in SUBSET E
      /\ Cardinality(shown) = ShowMax \/ shown = E
      /\ \A m \in shown, n \in E \ shown : At(m) >= At(n)
  BY <1>4, LikeFirst
<1>6. /\ So \in SUBSET Of("outbound") /\ Si \in SUBSET Of("inbound")
      /\ \A t : IsFiniteSet(Of(t)) /\ Of(t) \in SUBSET Rows
      /\ \A n \in Rows : At(n) \in Nat /\ table[n] \in TableRow
      /\ IsFiniteSet(Rows)
  BY RowsFinite DEF DashInv
<1>7. E \in SUBSET Rows /\ IsFiniteSet(E) /\ \A n \in E : At(n) \in Nat
  <2>1. E \in SUBSET Rows
    BY <1>5, <1>6
  <2> QED BY <1>6, <2>1, FS_Subset
<1>8. ASSUME FewAhead(now), NEW n \in dash.before \ shown, now - At(n) \in 0..Day
      PROVE  Cardinality(shown) = ShowMax /\ \A m \in shown : At(m) >= At(n)
  <2>1. n \in Rows /\ At(n) \in Nat /\ now \in Int /\ Day \in Nat
    BY <1>3, <1>6, <1>8, ReadersAssumption DEF DashInv
  <2>2. At(n) >= now - Day /\ At(n) <= now
    BY <1>8, <2>1
  <2>3. n \in So \/ n \in Si
    <3>1. table[n].of \in {"inbound", "outbound"}
      BY <1>6, <2>1 DEF TableRow
    <3> QED BY <1>8, <2>1, <2>2, <3>1 DEF Of
  <2>4. CASE n \in All
    BY <1>5, <1>8, <2>4
  <2>5. ASSUME NEW t \in {"inbound", "outbound"}, NEW S \in SUBSET Of(t),
               NEW T \in First(S, RowCap), T \subseteq All, n \in S, n \notin T
        PROVE  Cardinality(shown) = ShowMax /\ \A m \in shown : At(m) >= At(n)
    <3> DEFINE B == {m \in T : At(m) <= now}
    <3>1. IsFiniteSet(Of(t)) /\ \A m \in Of(t) : At(m) \in Nat
      BY <1>6
    <3>2. Cardinality({m \in Of(t) : At(m) > now}) <= RowCap - ShowMax
      BY <1>8 DEF FewAhead
    <3>3. Cardinality(B) >= ShowMax /\ \A m \in T : At(m) >= At(n)
      BY <2>1, <2>5, <3>1, <3>2, Crowd
    <3>4. T \in SUBSET S
      BY LikeFirst
    <3>5. B \in SUBSET E /\ \A b \in B : At(b) >= At(n)
      <4>1. ASSUME NEW m \in B PROVE m \in E
        <5>1. m \in All /\ At(m) \in Nat /\ At(m) <= now /\ At(m) >= At(n)
          BY <2>5, <3>1, <3>3, <3>4
        <5>2. now - At(m) \in 0..Day
          BY <2>1, <2>2, <5>1
        <5> QED BY <5>1, <5>2
      <4> QED BY <3>3, <4>1
    <3> DEFINE v == At(n)
    <3>6. v \in Int /\ IsFiniteSet(E) /\ \A m \in E : At(m) \in Nat
      BY <1>7, <2>1
    <3>7. shown \in First(E, ShowMax) /\ Cardinality(B) >= ShowMax /\ B \in SUBSET E
          /\ \A b \in B : At(b) >= v
      BY <1>4, <3>3, <3>5
    <3> HIDE DEF B, E, v
    <3>8. Cardinality(shown) = ShowMax /\ \A m \in shown : At(m) >= v
      BY <3>6, <3>7, EnoughShown
    <3> QED BY <3>8 DEF v
  <2> HIDE DEF E, So, Si
  <2>6. CASE n \in So /\ n \notin All
    <3>1. dash.found \subseteq All /\ n \notin dash.found
      BY <2>6
    <3> QED BY <1>4, <1>6, <2>5, <2>6, <3>1
  <2>7. CASE n \in Si /\ n \notin All
    <3>1. found \subseteq All /\ n \notin found
      BY <2>7
    <3> QED BY <1>4, <1>6, <2>5, <2>7, <3>1
  <2> QED BY <2>3, <2>4, <2>6, <2>7
<1>9. \A n \in shown : now - At(n) \in 0..Day
  BY <1>5
<1>10. /\ \A n : At(n)' = At(n)
       /\ FewAhead(dash.now)' <=> FewAhead(now)
  BY <1>3 DEF At, FewAhead, Of, Rows
<1> HIDE DEF E, So, Si, All
<1> QED BY <1>3, <1>8, <1>9, <1>10 DEF RecentRight

LEMMA AskRight == ASSUME DashInv, AskActivity PROVE DashInv'
<1>1. PICK found \in Activity("outbound", wall) :
        dash' = [at |-> "asked", now |-> wall, before |-> Rows, found |-> found]
  BY DEF AskActivity
<1>2. UNCHANGED <<table, wall>> /\ wall \in Int
  BY DEF AskActivity, DashInv
<1>3. found \in First({n \in Of("outbound") : At(n) >= wall - Day}, RowCap)
  BY <1>1 DEF Activity
<1>4. Of("outbound") \in SUBSET Rows /\ Rows \in SUBSET Nat
  BY RowsFinite DEF DashInv
<1>5. found \subseteq Rows
  BY <1>3, <1>4, LikeFirst
<1>6. dash' \in Dash /\ dash'.at = "asked" /\ dash'.now = wall /\ dash'.before = Rows
      /\ dash'.found = found
  BY <1>1, <1>2, <1>4, <1>5 DEF Dash
<1>7. TableOK' /\ wall' \in Int /\ Rows' = Rows /\ \A n : At(n)' = At(n)
  BY <1>2 DEF DashInv, TableOK, Rows, At
<1>8. FoundFirst'
  <2>1. {n \in Of("outbound") : At(n) >= wall - Day}
        = {n \in Of("outbound")' \intersect dash'.before : At(n)' >= dash'.now - Day}
    BY <1>2, <1>4, <1>6 DEF Of, Rows, At
  <2>2. \A S, most : First(S, most)' = First(S, most)
    BY <1>2 DEF First, At
  <2> QED BY <1>2, <1>3, <1>4, <1>6, <2>1 DEF FoundFirst, First, Of, Rows, At
<1> QED BY <1>5, <1>6, <1>7, <1>8 DEF DashInv, RecentRight

\* Rows that come later leave it right: they only make it likelier that rows from
\* ahead of the clock crowd others out.
LEMMA LaterRight ==
  ASSUME DashInv, NEW t \in {"inbound", "outbound"}, Inserted(t), wall \in 0..MaxWall,
         UNCHANGED <<wall, dash>>
  PROVE  DashInv'
<1> DEFINE row == [of |-> t, at |-> wall]
<1>1. row \in TableRow /\ table' = Append(table, row) /\ TableOK
  BY DEF Inserted, DashInv, TableRow
<1> HIDE DEF row
<1>2. /\ TableOK' /\ Rows' = Rows \union {Len(table) + 1}
      /\ \A n \in Rows : At(n)' = At(n) /\ table'[n] = table[n]
      /\ \A u : Of(u) \subseteq Of(u)'
  BY <1>1, Appended
<1>3. /\ Rows \in SUBSET Nat /\ \A n \in Rows : At(n) \in Nat
      /\ \A u : Of(u) \in SUBSET Rows /\ IsFiniteSet(Of(u))
  BY RowsFinite DEF DashInv
<1>4. /\ dash \in Dash /\ dash.before \subseteq Rows /\ dash.found \subseteq Rows
      /\ dash.now \in Int
  BY DEF DashInv, Dash
<1>5. dash'.at = "asked" => FoundFirst'
  <2> SUFFICES ASSUME dash.at = "asked" PROVE FoundFirst'
    BY DEF DashInv
  <2>1. PICK S : S = {n \in Of("outbound") \intersect dash.before : At(n) >= dash.now - Day}
    OBVIOUS
  <2>2. {n \in Of("outbound")' \intersect dash.before : At(n)' >= dash.now - Day} = S
    BY <1>2, <1>4, <2>1 DEF Of
  <2>3. S \subseteq Rows
    BY <1>4, <2>1
  <2>4. dash.found \in First(S, RowCap)
    BY <2>1 DEF FoundFirst, DashInv
  <2>5. /\ dash.found \subseteq S /\ Cardinality(dash.found) <= RowCap
        /\ Cardinality(dash.found) = RowCap \/ dash.found = S
        /\ \A m \in dash.found, n \in S \ dash.found : At(m) >= At(n)
    BY <2>4, LikeFirst
  <2>6. \A m \in dash.found, n \in S \ dash.found : At(m)' >= At(n)'
    BY <1>2, <2>3, <2>5
  <2>7. dash'.found \in First(S, RowCap)'
    BY <2>5, <2>6 DEF First
  <2> QED BY <2>2, <2>7 DEF FoundFirst, First
<1>6. RecentRight'
  <2> SUFFICES ASSUME dash.at = "shown", FewAhead(dash.now)' PROVE RecentRight'
    BY DEF RecentRight
  <2>1. FewAhead(dash.now)
    <3> SUFFICES ASSUME NEW u \in {"inbound", "outbound"}
                 PROVE  Cardinality({n \in Of(u) : At(n) > dash.now}) <= RowCap - ShowMax
      BY DEF FewAhead
    <3> DEFINE A == {n \in Of(u) : At(n) > dash.now}
               C == {n \in Of(u)' : At(n)' > dash.now}
    <3>1. A \in SUBSET C
      BY <1>2, <1>3
    <3>2. IsFiniteSet(A) /\ IsFiniteSet(C)
      <4>1. TableOK' => IsFiniteSet(Of(u)')
        <5>1. Of(u)' \subseteq Of(u) \union {Len(table) + 1}
          BY <1>1, Appended
        <5> QED BY <1>3, <5>1, OneMore
      <4>2. A \in SUBSET Of(u) /\ C \in SUBSET Of(u)'
        OBVIOUS
      <4> QED BY <1>2, <1>3, <4>1, <4>2, FS_Subset
    <3>3. Cardinality(C) <= RowCap - ShowMax
      BY DEF FewAhead
    <3> HIDE DEF A, C
    <3>4. Cardinality(A) <= Cardinality(C) /\ Cardinality(A) \in Nat /\ Cardinality(C) \in Nat
      BY <3>1, <3>2, FS_Subset, FS_CardinalityType
    <3>5. Cardinality(A) <= RowCap - ShowMax
      BY <3>3, <3>4, ReadersAssumption
    <3> QED BY <3>5 DEF A
  <2>2. /\ \A n \in dash.found : dash.now - At(n) \in 0..Day
        /\ \A n \in dash.before \ dash.found :
             dash.now - At(n) \in 0..Day =>
               /\ Cardinality(dash.found) = ShowMax
               /\ \A m \in dash.found : At(m) >= At(n)
    BY <2>1 DEF DashInv, RecentRight
  <2>3. \A n \in dash.before \union dash.found : At(n)' = At(n)
    BY <1>2, <1>4
  <2> QED BY <2>2, <2>3 DEF RecentRight
<1>7. dash'.before \subseteq Rows' /\ dash'.found \subseteq Rows'
  BY <1>2, <1>4
<1> QED BY <1>2, <1>4, <1>5, <1>6, <1>7 DEF DashInv

\* What leaves the rows alone and the dashboard as it is, or takes it away.
LEMMA DashOn ==
  ASSUME DashInv, UNCHANGED table, wall' \in Int, dash' = dash \/ dash' = NoPage
  PROVE  DashInv'
<1>1. CASE dash' = NoPage
  BY <1>1 DEF DashInv, NoPage, Dash, RecentRight, TableOK
<1>2. CASE dash' = dash
  <2>1. TableOK' /\ Rows' = Rows /\ (dash'.at = "asked" => FoundFirst')
    BY <1>2 DEF DashInv, TableOK, Rows, FoundFirst, First, Of, At
  <2>2. RecentRight'
    BY <1>2 DEF DashInv, RecentRight, FewAhead, Of, At, Rows
  <2> QED BY <1>2, <2>1, <2>2 DEF DashInv
<1> QED BY <1>1, <1>2

LEMMA DashStep == ListInv /\ DashInv /\ ReadersStep => DashInv'
<1> SUFFICES ASSUME ListInv, DashInv, ReadersStep PROVE DashInv'
  OBVIOUS
<1>0. wall \in 0..MaxWall /\ MaxWall \in Nat
  BY ReadersAssumption DEF ListInv
<1>1. CASE Record \/ Queue
  BY <1>0, <1>1, LaterRight DEF Record, Queue
<1>2. CASE SetWall
  BY <1>0, <1>2, DashOn DEF SetWall
<1>3. ASSUME NEW n \in silent, Publish(n) PROVE DashInv'
  BY <1>0, <1>3, DashOn DEF Publish
<1>4. CASE Paging
  <2>1. UNCHANGED <<wall, table, dash>>
    BY <1>4 DEF Paging, Subscribe, ReadEvent, Leave, ReadPage
  <2> QED BY <1>0, <2>1, DashOn
<1>5. CASE AskActivity
  BY <1>5, AskRight
<1>6. CASE ShowActivity
  <2>1. RecentRight'
    BY <1>6, ShowRight
  <2>2. PICK shown \in SUBSET Rows : dash' = [dash EXCEPT !.at = "shown", !.found = shown]
    <3>1. PICK found \in Activity("inbound", dash.now) :
            \E shown \in Recent(dash.found \union found, dash.now) :
              dash' = [dash EXCEPT !.at = "shown", !.found = shown]
      BY <1>6 DEF ShowActivity
    <3>2. PICK shown \in Recent(dash.found \union found, dash.now) :
            dash' = [dash EXCEPT !.at = "shown", !.found = shown]
      BY <3>1
    <3>3. found \subseteq Rows /\ dash.found \subseteq Rows
      BY LikeFirst, RowsFinite DEF Activity, DashInv
    <3>4. shown \subseteq Rows
      BY <3>3, LikeFirst DEF Recent
    <3> QED BY <3>2, <3>4
  <2>3. Rows \in SUBSET Nat
    BY RowsFinite DEF DashInv
  <2>4. dash' \in Dash /\ dash'.at = "shown" /\ dash'.before = dash.before /\ dash'.found = shown
    BY <2>2, <2>3 DEF DashInv, Dash
  <2>5. UNCHANGED <<table, wall>>
    BY <1>6 DEF ShowActivity
  <2> QED BY <2>1, <2>2, <2>4, <2>5 DEF DashInv, TableOK, Rows
<1>7. CASE CutOff /\ UNCHANGED <<wall, table>>
  BY <1>0, <1>7, DashOn DEF CutOff
<1>8. CASE UNCHANGED readersVars
  BY <1>0, <1>8, DashOn DEF readersVars
<1> QED BY <1>1, <1>2, <1>3, <1>4, <1>5, <1>6, <1>7, <1>8
    DEF ReadersStep, Recording, Watching

LEMMA DashInit == InitReaders => DashInv
<1> SUFFICES ASSUME InitReaders PROVE DashInv
  OBVIOUS
<1>1. dash = NoPage /\ table = <<>> /\ wall = 1
  BY DEF InitReaders
<1> QED BY <1>1 DEF DashInv, NoPage, Dash, RecentRight, TableOK

\* For any rows and any clock, also one that is set back: the dashboard shows
\* the newest messages of the last day, although each of its two queries is cut
\* off by itself and rows come in between them (recent_message_activity,
\* recent_activity).
THEOREM DashboardRight == Spec => []RecentRight
<1>1. Init => ListInv /\ DashInv
  BY ReadInit, DashInit DEF Init
<1>2. DashInv => RecentRight
  BY DEF DashInv
<1>3. ListInv /\ DashInv /\ [Next]_serviceVars => ListInv' /\ DashInv'
  BY ReadStep, DashStep, StepsAreReaders
<1> QED BY <1>1, <1>2, <1>3, PTL DEF Spec

-----------------------------------------------------------------------------
(* Segmentation and the types.                                             *)

\* Whatever bodies are tried, each is cut as it should be (segment_message).
THEOREM BodiesAreCut ==
  ASSUME Bodies \subseteq Seq(Chars) \ {<<>>} PROVE Spec => []SegmentsRight
<1>1. InputInv => SegmentsRight
  BY EveryCutRight DEF InputInv, SegmentsRight
<1> QED BY <1>1, InputAlways, PTL

\* What no other invariant says of Admission.
RestInv ==
  /\ clock \in 0..MaxTime
  /\ promise = [k \in ApiKeys |-> promise[k]]
  /\ \A r \in Slots : slot[r].at = "insert" => slot[r].post \in Posts
  /\ \A m \in rows : m.body \in Seq(Chars)

LEMMA RestApart ==
  ASSUME RestInv, UNCHANGED <<clock, rows>>, UNCHANGED promise \/ Forgotten,
         UNCHANGED slot \/ Forgotten
  PROVE  RestInv'
<1>1. Forgotten => \A r \in Slots : slot'[r].at # "insert"
  BY DEF Forgotten, FreeSlot
<1>2. promise' = [k \in ApiKeys |-> promise'[k]]
  BY DEF RestInv, Forgotten
<1> QED BY <1>1, <1>2 DEF RestInv

LEMMA RestTraffic == ASSUME RetryInv, RowsInv, RestInv, Traffic PROVE RestInv'
<1>0. /\ slot \in [Slots -> Slot] /\ clock \in 0..MaxTime
      /\ promise = [k \in ApiKeys |-> promise[k]]
      /\ \A r \in Slots : slot[r].at = "insert" => slot[r].post \in Posts
      /\ \A m \in rows : m.body \in Seq(Chars)
  BY DEF RetryInv, RestInv
<1>1. ASSUME NEW r \in Slots, Check(r) PROVE RestInv'
  <2>1. /\ slot' = [slot EXCEPT ![r].at = "prepare"] \/ slot' = [slot EXCEPT ![r] = FreeSlot]
        /\ \E x : promise' = [promise EXCEPT ![slot[r].key] = x]
        /\ UNCHANGED <<clock, rows>>
    BY <1>1 DEF Check
  <2>2. promise' = [k \in ApiKeys |-> promise'[k]]
    BY <1>0, <2>1
  <2>3. \A q \in Slots : slot'[q].at = "insert" => slot'[q] = slot[q]
    BY <1>0, <2>1 DEF FreeSlot, Slot
  <2> QED BY <1>0, <2>1, <2>2, <2>3 DEF RestInv
<1>2. ASSUME NEW r \in Slots, Prepare(r) PROVE RestInv'
  <2>1. PICK post \in Posts : \/ slot' = [slot EXCEPT ![r] = [@ EXCEPT !.at = "insert", !.post = post]]
                              \/ slot' = [slot EXCEPT ![r] = FreeSlot]
    BY <1>2 DEF Prepare
  <2>2. ASSUME NEW q \in Slots, slot'[q].at = "insert" PROVE slot'[q].post \in Posts
    <3>1. CASE q # r
      BY <1>0, <2>1, <2>2, <3>1
    <3>2. CASE q = r
      <4>1. slot[r] \in Slot /\ slot'[r] # FreeSlot
        BY <1>0, <2>2, <3>2 DEF FreeSlot
      <4>2. slot'[r] = [slot[r] EXCEPT !.at = "insert", !.post = post]
        BY <1>0, <2>1, <4>1
      <4>3. slot'[r].post = post
        BY <4>1, <4>2 DEF Slot
      <4> QED BY <3>2, <4>3
    <3> QED BY <3>1, <3>2
  <2>3. UNCHANGED <<clock, rows, promise>>
    BY <1>2 DEF Prepare
  <2> QED BY <1>0, <2>2, <2>3 DEF RestInv
<1>3. ASSUME NEW r \in Slots, Drop(r) \/ Insert(r) PROVE RestInv'
  <2>1. slot' = [slot EXCEPT ![r] = FreeSlot] /\ UNCHANGED <<clock, promise>>
    BY <1>3 DEF Drop, Insert
  <2>2. \A q \in Slots : slot'[q].at = "insert" => slot'[q].post \in Posts
    BY <1>0, <2>1 DEF FreeSlot, Slot
  <2>3. \A m \in rows' : m.body \in Seq(Chars)
    <3>1. CASE rows' = rows
      BY <1>0, <3>1
    <3>2. CASE rows' = rows \union {Row(slot[r].post)} /\ slot[r].at = "insert"
      <4>1. slot[r].post \in Posts /\ slot[r].post.body # Missing
        BY <1>0, <3>2 DEF RowsInv, Sendable
      <4>2. slot[r].post.body \in Seq(Chars)
        BY <4>1, PostsAssumption DEF Post
      <4>3. Row(slot[r].post).body = slot[r].post.body
        BY DEF Row
      <4> QED BY <1>0, <3>2, <4>2, <4>3
    <3> QED BY <1>3, <3>1, <3>2 DEF Drop, Insert
  <2> QED BY <1>0, <2>1, <2>2, <2>3 DEF RestInv
<1>4. ASSUME NEW r \in Slots, NEW k \in ApiKeys, Arrive(r, k) PROVE RestInv'
  <2>1. /\ slot' = [slot EXCEPT ![r] = [at |-> "check", key |-> k, now |-> clock, post |-> Missing]]
        /\ UNCHANGED <<clock, rows, promise>>
    BY <1>4 DEF Arrive
  <2>2. \A q \in Slots : slot'[q].at = "insert" => slot'[q].post \in Posts
    BY <1>0, <2>1
  <2> QED BY <1>0, <2>1, <2>2 DEF RestInv
<1>5. ASSUME NEW k \in ApiKeys, Expire(k) PROVE RestInv'
  BY <1>0, <1>5 DEF Expire, RestInv
<1>6. ASSUME Tick PROVE RestInv'
  <2>1. clock' \in 0..MaxTime /\ UNCHANGED <<slot, rows, promise>>
    BY <1>0, <1>6, AdmissionAssumption DEF Tick
  <2> QED BY <1>0, <2>1 DEF RestInv
<1> QED BY <1>1, <1>2, <1>3, <1>4, <1>5, <1>6 DEF Traffic

LEMMA RestStep == RetryInv /\ RowsInv /\ RestInv /\ [Next]_serviceVars => RestInv'
<1> SUFFICES ASSUME RetryInv, RowsInv, RestInv, [Next]_serviceVars PROVE RestInv'
  OBVIOUS
<1>1. CASE Coming \/ Reading \/ UNCHANGED serviceVars
  BY <1>1, RestApart DEF Coming, NoTraffic, Reading, serviceVars, admissionVars
<1>2. CASE ServiceUp
  BY <1>2, RestApart DEF ServiceUp, Open
<1>3. CASE ServiceDown
  BY <1>3, RestApart DEF ServiceDown, Close
<1>4. CASE Sending
  BY <1>4, RestTraffic DEF Sending
<1> QED BY <1>1, <1>2, <1>3, <1>4 DEF Next

LEMMA RestInit == Init => RestInv
BY DEF Init, InitAdmission, RestInv, FreeSlot

LEMMA AdmissionTyped ==
  ASSUME LimitsInv, RetryInv, RowsInv, BurstInv, RestInv PROVE AdmissionTypeOK
<1>1. open \in [limit : Nat, window : Nat]
  <2>1. CASE ~Serving
    BY <2>1 DEF LimitsInv, Closed
  <2>2. CASE Serving
    <3>1. Limit(conf["service"]) \in Nat \ {0} /\ Window(conf["service"]) \in Nat \ {0}
      BY <2>2 DEF LimitsInv, Serving, Loaded
    <3>2. Window(conf["service"]) * Second \in Nat
      BY <3>1
    <3> QED BY <2>2, <3>1, <3>2 DEF LimitsInv
  <2> QED BY <2>1, <2>2
<1>2. /\ clock \in 0..MaxTime /\ windows \in [ApiKeys -> Entries] /\ slot \in [Slots -> Slot]
  BY DEF RestInv, RetryInv
<1>3. ASSUME NEW m \in rows PROVE m.parts \in 1..MaxParts
  <2>1. /\ m.body \in Seq(Chars) /\ m.body # <<>>
        /\ SegmentMessage(m.body).parts # <<>> /\ m.parts = SegmentMessage(m.body).required
    BY DEF RestInv, RowsInv, RowsSendable
  <2>2. SegmentMessage(m.body).required \in Nat \ {0}
    BY <2>1, RequiredIs
  <2>3. ~ (SegmentMessage(m.body).required > MaxParts)
    BY <2>1, EveryCutRight DEF CutRight
  <2> QED BY <2>1, <2>2, <2>3, SegmentationAssumption
<1>4. let \in [ApiKeys -> SUBSET [at : 0..MaxTime, no : Nat]]
  <2>1. let \in [ApiKeys -> SUBSET Lets]
    BY DEF BurstInv
  <2>2. ASSUME NEW k \in ApiKeys PROVE let[k] \in SUBSET [at : 0..MaxTime, no : Nat]
    <3> SUFFICES ASSUME NEW x \in let[k] PROVE x \in [at : 0..MaxTime, no : Nat]
      OBVIOUS
    <3>1. x \in Lets /\ x.at <= clock
      BY <2>1 DEF BurstInv
    <3> QED BY <1>2, <3>1 DEF Lets
  <2> QED BY <2>1, <2>2
<1>5. promise \in [ApiKeys -> Int]
  <2>1. \A k \in ApiKeys : promise[k] \in Int
    BY DEF RetryInv, Promised, None
  <2> QED BY <2>1 DEF RestInv
<1> QED BY <1>1, <1>2, <1>3, <1>4, <1>5 DEF AdmissionTypeOK, Entries, Slot

LEMMA ReadersTyped == ASSUME ListInv, DashInv PROVE ReadersTypeOK
<1>1. \A n \in Rows : table[n] \in [of : {"inbound", "outbound"}, at : 0..MaxWall]
  <2>1. table \in Seq(TableRow)
    BY DEF ListInv, TableOK
  <2>2. \A n \in 1..Len(table) : table[n] \in TableRow
    BY <2>1
  <2> QED BY <2>2, Zenon DEF TableRow, Rows
<1>2. /\ wall \in 0..MaxWall /\ Len(table) <= MaxRows /\ silent \subseteq Rows
      /\ client.at \in {"away", "paging", "listed"} /\ Len(client.feed) <= Capacity
      /\ client.seen \subseteq Of("inbound")
  BY DEF ListInv, Client
<1>3. dash.at \in {"none", "asked", "shown"} /\ dash.found \subseteq Rows
  BY DEF DashInv, Dash
<1> QED BY <1>1, <1>2, <1>3 DEF ReadersTypeOK

\* For any instance the service as a whole stays well typed: no message is
\* queued in more segments than the modem is to send, no request and no promise
\* has a time that is none, and no client or dashboard refers to a row that is
\* not there.
THEOREM ServiceTyped == Spec => []TypeOK
<1>1. Spec => []StartupTypeOK
  BY ComesUpAsStartup, Typed, PTL
<1>2. Init => RowsInv
  BY DEF Init, InitAdmission, RowsInv, RowsSendable, FreeSlot
<1>3. Init => BurstInv
  BY FS_EmptySet DEF Init, InitAdmission, NoLets, BurstInv, IsOpen, FreeSlot
<1>4. Spec => [](LimitsInv /\ RetryInv /\ RowsInv /\ BurstInv /\ RestInv)
  BY <1>2, <1>3, RetryInit, RetryStep, RowsStep, BurstStep, RestInit, RestStep, LimitsAlways,
     PTL DEF Spec
<1>5. Init => ListInv /\ DashInv
  BY ReadInit, DashInit DEF Init
<1>6. ListInv /\ DashInv /\ [Next]_serviceVars => ListInv' /\ DashInv'
  BY ReadStep, DashStep, StepsAreReaders
<1>7. Spec => [](ListInv /\ DashInv)
  BY <1>5, <1>6, PTL DEF Spec
<1>8. LimitsInv /\ RetryInv /\ RowsInv /\ BurstInv /\ RestInv => AdmissionTypeOK
  BY AdmissionTyped
<1>9. ListInv /\ DashInv => ReadersTypeOK
  BY ReadersTyped
<1>10. StartupTypeOK /\ AdmissionTypeOK /\ ReadersTypeOK => TypeOK
  BY DEF TypeOK
<1> QED BY <1>1, <1>4, <1>7, <1>8, <1>9, <1>10, PTL
=============================================================================
