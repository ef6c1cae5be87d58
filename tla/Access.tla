------------------------------- MODULE Access -------------------------------
(***************************************************************************)
(* Who is let in: the lockout after repeated failures, for API keys and    *)
(* for admin logins, and the admin sessions a login opens (auth.rs,        *)
(* api/mod.rs, admin/login.rs, admin/session.rs, lib.rs).                  *)
(*                                                                         *)
(* Actors: attempts, which check the lock, await the database and then     *)
(* record how they ended, several at once from the same source; requests   *)
(* of admins with the cookie of a session; the sweeper of sessions. What   *)
(* they share is in memory under locks, each step below under one of them. *)
(* The two kinds of attempts differ in three points, and a behaviour is    *)
(* about one of them: an API attempt looks at the lock again when it is    *)
(* recorded, a login does not; a login opens a session; and the lock       *)
(* itself (Lockout).                                                       *)
(***************************************************************************)
EXTENDS Lockout

CONSTANTS
  Sources,    \* key identifiers, or client addresses
  Attempts,   \* attempts that may be under way at once
  Tokens,     \* session tokens that may be drawn
  MaxTracked, \* identifiers tracked (MAX_TRACKED_IDENTIFIERS)
  IdleTime,   \* SESSION_IDLE_TIMEOUT
  SweepEvery, \* SESSION_SWEEP_INTERVAL
  MaxFlight,  \* bound on how long an attempt is under way
  MaxFailures,\* bound on failures
  MaxTime,    \* bound on the clock
  NoToken     \* stands for "no session"

ASSUME AccessAssumption ==
  /\ MaxTracked \in Nat \ {0} /\ IdleTime \in Nat \ {0}
  /\ SweepEvery \in Nat \ {0} /\ MaxFlight \in Nat
  /\ MaxFailures \in Nat /\ MaxTime \in Nat
  /\ NoToken \notin Tokens
  /\ IsFiniteSet(Sources) /\ Sources # {} /\ IsFiniteSet(Attempts)

VARIABLES
  kind,     \* which tracker this behaviour is about
  clock,    \* Instant::now()
  tracker,  \* tracker[s]: the history kept of source s, {} for none
  history,  \* history[s]: every failure of s since its last success
  dropped,  \* sources a failure of which the full tracker has not recorded
  count,    \* failures recorded so far
  att,      \* att[a]: the attempt in slot a
  sessions, \* sessions[t]: the SessionStore, and what became of its tokens
  cookie,   \* cookie[t]: when the cookie of session t expires, 0 for none sent
  audited,  \* sessions whose admin_login_success record was written
  nextSweep \* when the sweeper is due

failures == <<tracker, history, dropped, count>>
store    == <<sessions, cookie, audited, nextSweep>>
vars == <<kind, clock, failures, att, store>>

Free == [at |-> "free", src |-> CHOOSE s \in Sources : TRUE, now |-> 0,
         token |-> NoToken]
Unused == [state |-> "unused", seen |-> 0]

Init ==
  /\ kind \in Kinds /\ clock = 1
  /\ tracker = [s \in Sources |-> {}] /\ history = [s \in Sources |-> {}]
  /\ dropped = {} /\ count = 0
  /\ att = [a \in Attempts |-> Free]
  /\ sessions = [t \in Tokens |-> Unused] /\ cookie = [t \in Tokens |-> 0]
  /\ audited = {} /\ nextSweep = 1 + SweepEvery

-----------------------------------------------------------------------------
(* Attempts.                                                               *)

\* Mutant: the lock is not looked at.
BeginUnchecked(a, s) ==
  /\ att[a].at = "free"
  /\ att' = [att EXCEPT ![a] = [at |-> "lookup", src |-> s, now |-> clock,
                                token |-> NoToken]]
  /\ UNCHANGED <<kind, clock, failures, store>>

\* The attempt begins: its time is taken and the lock is looked at. Whoever
\* is locked out is told so, and nothing changes.
Begin(a, s) ==
  /\ att[a].at = "free" /\ ~Locked(kind, tracker[s], clock)
  /\ att' = [att EXCEPT ![a] = [at |-> "lookup", src |-> s, now |-> clock,
                                token |-> NoToken]]
  /\ UNCHANGED <<kind, clock, failures, store>>

End(a) == att' = [att EXCEPT ![a] = Free]

\* The lookup fails, or the request is dropped while it waits: no record.
LookupFails(a) ==
  /\ att[a].at = "lookup" /\ End(a)
  /\ UNCHANGED <<kind, clock, failures, store>>

\* record_failure: a source that is not tracked yet needs a place; when there
\* is none, those whose failures are all too old make room, and if there is
\* none still the failure is not recorded.
Tracked(tr) == {s \in Sources : tr[s] # {}}
EvictStale(now) == [s \in Sources |-> Pruned(kind, tracker[s], now)]

\* Mutant: a new identifier gets its entry whether there is a place or not.
RecordFailureAnyway(s, now) ==
  LET f == [at |-> now, no |-> count] IN
  /\ count < MaxFailures /\ count' = count + 1
  /\ history' = [history EXCEPT ![s] = @ \union {f}]
  /\ tracker' = [EvictStale(now) EXCEPT ![s] = Recorded(kind, @, f)]
  /\ UNCHANGED dropped

RecordFailure(s, now) ==
  LET f    == [at |-> now, no |-> count]
      full == tracker[s] = {} /\ Cardinality(Tracked(tracker)) >= MaxTracked
      tr   == IF full THEN EvictStale(now) ELSE tracker
  IN /\ count < MaxFailures /\ count' = count + 1
     /\ history' = [history EXCEPT ![s] = @ \union {f}]
     /\ IF full /\ Cardinality(Tracked(tr)) >= MaxTracked
        THEN tracker' = tr /\ dropped' = dropped \union {s}
        ELSE /\ tracker' = [tr EXCEPT ![s] = Recorded(kind, @, f)]
             /\ UNCHANGED dropped

RecordSuccess(s) ==
  /\ tracker' = [tracker EXCEPT ![s] = {}]
  /\ history' = [history EXCEPT ![s] = {}]
  /\ dropped' = dropped \ {s} /\ UNCHANGED count

\* Mutant: the lock is not looked at again.
AuthenticateUnchecked(a) ==
  LET s == att[a].src  now == att[a].now IN
  /\ kind = "key" /\ att[a].at = "lookup" /\ End(a)
  /\ RecordSuccess(s) \/ RecordFailure(s, now)
  /\ UNCHANGED <<kind, clock, store>>

\* authenticate_identified, under the lock of the tracker.
Authenticate(a) ==
  LET s == att[a].src  now == att[a].now IN
  /\ kind = "key" /\ att[a].at = "lookup" /\ End(a)
  /\ IF Locked(kind, tracker[s], now)
     THEN UNCHANGED failures
     ELSE RecordSuccess(s) \/ RecordFailure(s, now)
  /\ UNCHANGED <<kind, clock, store>>

\* perform_login, wrong credentials: the failure is recorded whatever the lock
\* has become, and audited; whether the audit is written changes nothing more.
LoginFails(a) ==
  /\ kind = "login" /\ att[a].at = "lookup" /\ End(a)
  /\ RecordFailure(att[a].src, att[a].now)
  /\ UNCHANGED <<kind, clock, store>>

\* Right credentials: the failures are forgotten, the session is created with
\* the time the attempt began, and the audit record is still to be written.
LoginVerified(a) ==
  /\ kind = "login" /\ att[a].at = "lookup"
  /\ RecordSuccess(att[a].src)
  /\ \E t \in Tokens :
       /\ sessions[t].state = "unused"
       /\ sessions' = [sessions EXCEPT ![t] = [state |-> "live",
                                               seen |-> att[a].now]]
       /\ att' = [att EXCEPT ![a].at = "audit", ![a].token = t]
  /\ UNCHANGED <<kind, clock, cookie, audited, nextSweep>>

\* session_cookie: its Max-Age counts from the answer and is not renewed.
SendCookie(t) == cookie' = [cookie EXCEPT ![t] = clock + IdleTime]

\* Mutant: an error of the audit insert is ignored.
LoginAnsweredAnyway(a) ==
  /\ att[a].at = "audit" /\ End(a)
  /\ audited' \in {audited, audited \union {att[a].token}}
  /\ SendCookie(att[a].token)
  /\ UNCHANGED <<kind, clock, failures, sessions, nextSweep>>

\* The record is written and the cookie goes out.
LoginAnswered(a) ==
  /\ att[a].at = "audit" /\ End(a)
  /\ audited' = audited \union {att[a].token}
  /\ SendCookie(att[a].token)
  /\ UNCHANGED <<kind, clock, failures, sessions, nextSweep>>

\* It is not written, or the client is gone: nobody has the token.
LoginAbandoned(a) ==
  /\ att[a].at = "audit" /\ End(a)
  /\ audited' \in {audited, audited \union {att[a].token}}
  /\ UNCHANGED <<kind, clock, failures, sessions, cookie, nextSweep>>

-----------------------------------------------------------------------------
(* Sessions.                                                               *)

\* Mutant: one instant more.
ValidInclusive(session, now) ==
  session.state = "live" /\ now <= session.seen + IdleTime

Valid(session, now) == session.state = "live" /\ now < session.seen + IdleTime

Ended(t) == [sessions EXCEPT ![t].state = "ended"]

\* The cookie of session t, while the browser keeps it, opens what asks for a
\* session; what changes anything asks for the csrf token of it as well.
SendsCookie(t) == clock < cookie[t] /\ sessions[t].state = "live"
CsrfValid(t)   == Valid(sessions[t], clock)

\* A request with the cookie of session t: validate renews the session, or
\* removes it when it has been idle too long.
Authorize(t) ==
  /\ SendsCookie(t)
  /\ sessions' = IF Valid(sessions[t], clock)
                 THEN [sessions EXCEPT ![t].seen = clock]
                 ELSE Ended(t)
  /\ UNCHANGED <<kind, clock, failures, att, cookie, audited, nextSweep>>

\* logout, with the csrf token of the session: it goes, and the cookie too.
Logout(t) ==
  /\ SendsCookie(t) /\ CsrfValid(t)
  /\ sessions' = Ended(t) /\ cookie' = [cookie EXCEPT ![t] = 0]
  /\ UNCHANGED <<kind, clock, failures, att, audited, nextSweep>>

\* sweep_expired.
Swept == [t \in Tokens |->
  IF sessions[t].state = "live" /\ ~Valid(sessions[t], clock)
  THEN [sessions[t] EXCEPT !.state = "ended"] ELSE sessions[t]]

\* The task that spawn_session_sweeper starts.
Sweep ==
  /\ clock = nextSweep /\ nextSweep' = clock + SweepEvery
  /\ sessions' = Swept
  /\ UNCHANGED <<kind, clock, failures, att, cookie, audited>>

-----------------------------------------------------------------------------
\* Time passes; the sweeper is punctual, and attempts take their time.
Tick ==
  /\ clock < MaxTime /\ clock < nextSweep
  /\ \A a \in Attempts : att[a].at # "free" => clock < att[a].now + MaxFlight
  /\ clock' = clock + 1
  /\ UNCHANGED <<kind, failures, att, store>>

Attempt(a) ==
  \/ \E s \in Sources : Begin(a, s)
  \/ LookupFails(a) \/ Authenticate(a) \/ LoginFails(a)
  \/ LoginVerified(a) \/ LoginAnswered(a) \/ LoginAbandoned(a)

Next ==
  \/ \E a \in Attempts : Attempt(a)
  \/ \E t \in Tokens : Authorize(t) \/ Logout(t)
  \/ Sweep \/ Tick

Spec == Init /\ [][Next]_vars

-----------------------------------------------------------------------------
(* Properties.                                                             *)

TrackerOK ==
  /\ kind \in Kinds /\ clock \in Nat
  /\ tracker \in [Sources -> SUBSET Failure]
  /\ history \in [Sources -> SUBSET Failure]
  /\ dropped \subseteq Sources /\ count \in 0..MaxFailures
  /\ Cardinality(Tracked(tracker)) <= MaxTracked
AttemptsOK ==
  /\ att \in [Attempts -> [at : {"free", "lookup", "audit"}, src : Sources,
                           now : Nat, token : Tokens \union {NoToken}]]
  /\ \A a \in Attempts :
       /\ att[a].now <= clock
       /\ att[a].at = "audit" => att[a].token \in Tokens
StoreOK ==
  /\ sessions \in [Tokens -> [state : {"unused", "live", "ended"}, seen : Nat]]
  /\ cookie \in [Tokens -> Nat] /\ audited \subseteq Tokens /\ nextSweep \in Nat

\* The type invariant.
TypeOK == TrackerOK /\ AttemptsOK /\ StoreOK

\* Nothing that is forgotten matters: pruning by age, the limit on what is kept
\* of a source and failures recorded out of order leave the decision what all
\* the failures since the last success make it. A failure for which the full
\* tracker had no place is the only one that is missed (record_failure,
\* evict_stale), and it never locks anyone out that should not be.
DecidesAsFull == \A s \in Sources :
  /\ Locked(kind, tracker[s], clock) => Locked(kind, history[s], clock)
  /\ s \notin dropped =>
       (Locked(kind, history[s], clock) => Locked(kind, tracker[s], clock))

\* How many failures a source can get recorded in any window: as many as lock,
\* and for logins those that were under way with the last of them, which
\* passed the check together (auth_middleware, perform_login).
Overshoot == IF kind = "key" THEN 0 ELSE Cardinality(Attempts) - 1
GuessesBounded == \A s \in Sources \ dropped : \A f \in history[s] :
  Cardinality({g \in history[s] : g.at <= f.at /\ f.at < g.at + Window[kind]})
    <= Threshold + Overshoot

\* The lock of a key ends with time only: neither an attempt that began before
\* it, nor the eviction of others, lifts it (authenticate_identified).
LockKept == [][
  \A s \in Sources :
    kind = "key" /\ Locked(kind, tracker[s], clock) /\ clock' = clock
      => Locked(kind, tracker'[s], clock)]_vars

\* A session nobody uses, one whose login was told of an error among them, is
\* gone with the second sweep after its time (spawn_session_sweeper).
SessionsReclaimed == \A t \in Tokens :
  sessions[t].state = "live" =>
    clock < sessions[t].seen + IdleTime + SweepEvery

\* A cookie goes out for an audited login only, and works for as long as the
\* session is used and the browser keeps it (perform_login).
HandedOutIsAudited == \A t \in Tokens :
  cookie[t] # 0 => t \in audited /\ sessions[t].state # "unused"
=============================================================================
