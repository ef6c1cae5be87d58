---------------------------- MODULE AccessProofs -----------------------------
(***************************************************************************)
(* Proofs about Access, for any sources, any number of attempts under way  *)
(* at once and any limits and times: the state is well typed, and no more  *)
(* identifiers are tracked than there is room for; nothing but time ends   *)
(* the lock of a key; a cookie goes out for an audited login only; and,    *)
(* as long as a login takes less time than a session may be idle, sessions *)
(* that are not used are gone with the second sweep after their time.      *)
(* As long as enough failures are kept for the attempts that are under way *)
(* at once, what is forgotten of a source never changes whether it is      *)
(* locked out, and the lock lets no more failures through than it should.  *)
(***************************************************************************)
EXTENDS Access, FiniteSetTheorems, TLAPS

USE LockoutAssumption, AccessAssumption

-----------------------------------------------------------------------------
(* The trackers.                                                           *)

LEMMA PrunedSubset ==
  ASSUME NEW k, NEW h, NEW now PROVE Pruned(k, h, now) \subseteq h
BY DEF Pruned

LEMMA RecordedSubset ==
  ASSUME NEW k, NEW h, NEW f PROVE Recorded(k, h, f) \subseteq h \union {f}
BY DEF Recorded, Newest, Pruned

LEMMA EvictStaleType ==
  ASSUME TrackerOK, NEW now
  PROVE  /\ EvictStale(now) \in [Sources -> SUBSET Failure]
         /\ \A s \in Sources : EvictStale(now)[s] \subseteq tracker[s]
<1>1. \A s \in Sources : EvictStale(now)[s] = Pruned(kind, tracker[s], now)
  BY DEF EvictStale
<1>2. \A s \in Sources : Pruned(kind, tracker[s], now) \subseteq tracker[s]
  BY PrunedSubset
<1>3. \A s \in Sources : tracker[s] \subseteq Failure
  BY DEF TrackerOK
<1> QED BY <1>1, <1>2, <1>3 DEF EvictStale

\* A place is needed for a source that has none, and is taken only if there is
\* one.
LEMMA RecordFailureType ==
  ASSUME TrackerOK, NEW s \in Sources, NEW now \in Nat, RecordFailure(s, now),
         UNCHANGED <<kind, clock>>
  PROVE  TrackerOK'
<1> DEFINE f    == [at |-> now, no |-> count]
           full == tracker[s] = {} /\ Cardinality(Tracked(tracker)) >= MaxTracked
           tr   == IF full THEN EvictStale(now) ELSE tracker
<1>1. f \in Failure /\ count' \in 0..MaxFailures
  BY DEF TrackerOK, Failure, RecordFailure
<1>2. tr \in [Sources -> SUBSET Failure] /\ \A x \in Sources : tr[x] \subseteq tracker[x]
  BY EvictStaleType DEF TrackerOK
<1>3. Recorded(kind, tr[s], f) \in SUBSET Failure
  BY <1>1, <1>2, RecordedSubset
<1>4. history' \in [Sources -> SUBSET Failure] /\ dropped' \subseteq Sources
  BY <1>1 DEF TrackerOK, RecordFailure
<1>5. \/ tracker' = tr
      \/ /\ tracker' = [tr EXCEPT ![s] = Recorded(kind, @, f)]
         /\ ~(full /\ Cardinality(Tracked(tr)) >= MaxTracked)
  BY DEF RecordFailure
<1>6. IsFiniteSet(Sources) /\ Tracked(tracker) \subseteq Sources
      /\ Tracked(tr) \subseteq Tracked(tracker)
  BY <1>2 DEF Tracked
<1>7. /\ IsFiniteSet(Tracked(tracker)) /\ IsFiniteSet(Tracked(tr))
      /\ Cardinality(Tracked(tr)) <= Cardinality(Tracked(tracker))
      /\ Cardinality(Tracked(tr)) \in Nat /\ Cardinality(Tracked(tracker)) \in Nat
  BY <1>6, FS_Subset, FS_CardinalityType
<1>8. Cardinality(Tracked(tracker)) <= MaxTracked
  BY DEF TrackerOK
<1>9. tracker' \in [Sources -> SUBSET Failure] /\ Cardinality(Tracked(tracker')) <= MaxTracked
  <2>1. CASE tracker' = tr
    BY <1>2, <1>7, <1>8, <2>1
  <2>2. CASE /\ tracker' = [tr EXCEPT ![s] = Recorded(kind, @, f)]
             /\ ~(full /\ Cardinality(Tracked(tr)) >= MaxTracked)
    <3>1. tracker' \in [Sources -> SUBSET Failure]
      BY <1>2, <1>3, <2>2
    <3>2. Tracked(tracker') \subseteq Tracked(tr) \union {s}
      BY <1>2, <2>2 DEF Tracked
    <3>3. s \in Tracked(tr) \/ Cardinality(Tracked(tr)) < MaxTracked
      <4>1. CASE tracker[s] # {}
        BY <4>1 DEF Tracked
      <4>2. CASE tracker[s] = {}
        BY <1>7, <2>2, <4>2
      <4> QED BY <4>1, <4>2
    <3> HIDE DEF f, full, tr
    <3>4. CASE s \in Tracked(tr)
      <4>1. Tracked(tracker') \subseteq Tracked(tr)
        BY <3>2, <3>4
      <4>2. Cardinality(Tracked(tracker')) <= Cardinality(Tracked(tr))
            /\ Cardinality(Tracked(tracker')) \in Nat
        BY <1>7, <4>1, FS_Subset, FS_CardinalityType
      <4> QED BY <1>7, <1>8, <3>1, <4>2
    <3>5. CASE s \notin Tracked(tr) /\ Cardinality(Tracked(tr)) < MaxTracked
      <4>1. /\ IsFiniteSet(Tracked(tr) \union {s})
            /\ Cardinality(Tracked(tr) \union {s}) = Cardinality(Tracked(tr)) + 1
        BY <1>7, <3>5, FS_AddElement
      <4>2. Cardinality(Tracked(tracker')) <= Cardinality(Tracked(tr)) + 1
            /\ Cardinality(Tracked(tracker')) \in Nat
        BY <3>2, <4>1, FS_Subset, FS_CardinalityType
      <4> QED BY <1>7, <3>1, <3>5, <4>2
    <3> QED BY <3>3, <3>4, <3>5
  <2> QED BY <1>5, <2>1, <2>2
<1>10. kind' = kind /\ clock' = clock /\ Tracked(tracker)' = Tracked(tracker')
  BY DEF Tracked
<1> QED BY <1>1, <1>4, <1>9, <1>10 DEF TrackerOK

LEMMA RecordSuccessType ==
  ASSUME TrackerOK, NEW s \in Sources, RecordSuccess(s), UNCHANGED <<kind, clock>>
  PROVE  TrackerOK'
<1>1. Tracked(tracker') \subseteq Tracked(tracker) /\ Tracked(tracker) \subseteq Sources
  BY DEF RecordSuccess, TrackerOK, Tracked
<1>2. IsFiniteSet(Tracked(tracker)) /\ IsFiniteSet(Tracked(tracker'))
      /\ Cardinality(Tracked(tracker')) <= Cardinality(Tracked(tracker))
      /\ Cardinality(Tracked(tracker')) \in Nat /\ Cardinality(Tracked(tracker)) \in Nat
  BY <1>1, FS_Subset, FS_CardinalityType
<1>3. Tracked(tracker)' = Tracked(tracker')
  BY DEF Tracked
<1>4. Cardinality(Tracked(tracker)) <= MaxTracked
  BY DEF TrackerOK
<1>5. Cardinality(Tracked(tracker')) <= MaxTracked
  BY <1>2, <1>4
<1> QED BY <1>3, <1>5 DEF RecordSuccess, TrackerOK

LEMMA SameFailuresType ==
  ASSUME TrackerOK, UNCHANGED <<kind, failures>>, clock' \in Nat PROVE TrackerOK'
BY DEF TrackerOK, failures, Tracked

-----------------------------------------------------------------------------
(* Type correctness.                                                       *)

LEMMA InitType == Init => TypeOK
<1> SUFFICES ASSUME Init PROVE TypeOK
  OBVIOUS
<1>1. Tracked(tracker) = {}
  BY DEF Init, Tracked
<1>2. TrackerOK
  <2>1. Cardinality(Tracked(tracker)) <= MaxTracked
    BY <1>1, FS_EmptySet
  <2> QED BY <2>1 DEF Init, TrackerOK
<1>3. AttemptsOK
  BY DEF Init, AttemptsOK, Free
<1>4. StoreOK
  BY DEF Init, StoreOK, Unused
<1> QED BY <1>2, <1>3, <1>4 DEF TypeOK

LEMMA EndType ==
  ASSUME AttemptsOK, NEW a \in Attempts, End(a), clock' = clock, clock \in Nat
  PROVE  AttemptsOK'
<1>1. Free \in [at : {"free", "lookup", "audit"}, src : Sources, now : Nat,
                token : Tokens \union {NoToken}] /\ Free.at = "free" /\ Free.now = 0
  BY DEF Free
<1> HIDE DEF Free
<1> QED BY <1>1 DEF AttemptsOK, End

LEMMA BeginType ==
  ASSUME TypeOK, NEW a \in Attempts, NEW s \in Sources, Begin(a, s) PROVE TypeOK'
<1>1. TrackerOK'
  BY SameFailuresType DEF Begin, TypeOK, TrackerOK
<1>2. AttemptsOK'
  BY DEF Begin, TypeOK, AttemptsOK, TrackerOK
<1>3. StoreOK'
  BY DEF Begin, TypeOK, StoreOK, store
<1> QED BY <1>1, <1>2, <1>3 DEF TypeOK

LEMMA AttemptType ==
  ASSUME TypeOK, NEW a \in Attempts, Attempt(a) PROVE TypeOK'
<1>0. clock \in Nat /\ att[a].src \in Sources /\ att[a].now \in Nat
  BY DEF TypeOK, TrackerOK, AttemptsOK
<1>1. CASE \E s \in Sources : Begin(a, s)
  BY <1>1, BeginType
<1>2. CASE LookupFails(a)
  BY <1>0, <1>2, SameFailuresType, EndType
     DEF LookupFails, TypeOK, StoreOK, store
<1>3. CASE Authenticate(a)
  <2>1. StoreOK' /\ AttemptsOK' /\ UNCHANGED <<kind, clock>>
    BY <1>0, <1>3, EndType DEF Authenticate, TypeOK, StoreOK, store
  <2>2. TrackerOK'
    BY <1>0, <1>3, <2>1, SameFailuresType, RecordSuccessType, RecordFailureType
       DEF Authenticate, TypeOK
  <2> QED BY <2>1, <2>2 DEF TypeOK
<1>4. CASE LoginFails(a)
  BY <1>0, <1>4, EndType, RecordFailureType DEF LoginFails, TypeOK, StoreOK, store
<1>5. CASE LoginVerified(a)
  <2>1. TrackerOK'
    BY <1>0, <1>5, RecordSuccessType DEF LoginVerified, TypeOK
  <2>2. PICK t \in Tokens :
          /\ sessions' = [sessions EXCEPT ![t] = [state |-> "live",
                                                  seen |-> att[a].now]]
          /\ att' = [att EXCEPT ![a].at = "audit", ![a].token = t]
    BY <1>5 DEF LoginVerified
  <2>3. att' = [att EXCEPT ![a] = [att[a] EXCEPT !.at = "audit", !.token = t]]
    BY <2>2 DEF TypeOK, AttemptsOK
  <2>4. clock' = clock
    BY <1>5 DEF LoginVerified
  <2>5. AttemptsOK'
    <3>1. AttemptsOK /\ t \in Tokens
      BY DEF TypeOK
    <3>2. [att[a] EXCEPT !.at = "audit", !.token = t]
            = [at |-> "audit", src |-> att[a].src, now |-> att[a].now, token |-> t]
      <4> DEFINE b == att[a]
      <4>1. b \in [at : {"free", "lookup", "audit"}, src : Sources,
                   now : Nat, token : Tokens \union {NoToken}]
        BY <3>1 DEF AttemptsOK
      <4> HIDE DEF b
      <4> DEFINE c == [b EXCEPT !.at = "audit"]
      <4>2. c = [at |-> "audit", src |-> b.src, now |-> b.now, token |-> b.token]
        BY <4>1
      <4> HIDE DEF c
      <4>3. [c EXCEPT !.token = t]
              = [at |-> "audit", src |-> b.src, now |-> b.now, token |-> t]
        BY <4>2
      <4> QED BY <4>3 DEF b, c
    <3>3. \A b \in Attempts : att'[b] = IF b = a THEN
            [at |-> "audit", src |-> att[a].src, now |-> att[a].now, token |-> t]
            ELSE att[b]
      BY <2>3, <3>1, <3>2 DEF AttemptsOK
    <3>4. DOMAIN att' = Attempts /\ att' = [b \in Attempts |-> att'[b]]
      BY <2>3, <3>1 DEF AttemptsOK
    <3> QED BY <2>4, <3>1, <3>3, <3>4 DEF AttemptsOK
  <2>6. StoreOK'
    <3>1. UNCHANGED <<cookie, audited, nextSweep>> /\ StoreOK /\ att[a].now \in Nat
      BY <1>0, <1>5 DEF LoginVerified, TypeOK, AttemptsOK
    <3>2. [state |-> "live", seen |-> att[a].now]
            \in [state : {"unused", "live", "ended"}, seen : Nat]
      BY <3>1
    <3>3. sessions' \in [Tokens -> [state : {"unused", "live", "ended"}, seen : Nat]]
      BY <2>2, <3>1, <3>2 DEF StoreOK
    <3> QED BY <3>1, <3>3 DEF StoreOK
  <2> QED BY <2>1, <2>5, <2>6 DEF TypeOK
<1>6. CASE LoginAnswered(a)
  <2>1. TrackerOK' /\ AttemptsOK'
    BY <1>0, <1>6, SameFailuresType, EndType DEF LoginAnswered, TypeOK
  <2>2. att[a].token \in Tokens
    BY <1>6 DEF LoginAnswered, TypeOK, AttemptsOK
  <2>3. StoreOK'
    BY <1>0, <1>6, <2>2 DEF LoginAnswered, SendCookie, TypeOK, StoreOK
  <2> QED BY <2>1, <2>3 DEF TypeOK
<1>7. CASE LoginAbandoned(a)
  <2>1. TrackerOK' /\ AttemptsOK'
    BY <1>0, <1>7, SameFailuresType, EndType DEF LoginAbandoned, TypeOK
  <2>2. att[a].token \in Tokens
    BY <1>7 DEF LoginAbandoned, TypeOK, AttemptsOK
  <2>3. StoreOK'
    BY <1>7, <2>2 DEF LoginAbandoned, TypeOK, StoreOK
  <2> QED BY <2>1, <2>3 DEF TypeOK
<1> QED BY <1>1, <1>2, <1>3, <1>4, <1>5, <1>6, <1>7 DEF Attempt

LEMMA SessionStepType ==
  ASSUME TypeOK, (\E t \in Tokens : Authorize(t) \/ Logout(t)) \/ Sweep
  PROVE  TypeOK'
<1>1. UNCHANGED <<kind, clock, failures, att>>
  BY DEF Authorize, Logout, Sweep
<1>2. TrackerOK' /\ AttemptsOK'
  BY <1>1, SameFailuresType DEF TypeOK, TrackerOK, AttemptsOK
<1>3. CASE \E t \in Tokens : Authorize(t) \/ Logout(t)
  <2>1. PICK t \in Tokens : Authorize(t) \/ Logout(t)
    BY <1>3
  <2>2. sessions' \in {sessions, Ended(t), [sessions EXCEPT ![t].seen = clock]}
        /\ cookie' \in {cookie, [cookie EXCEPT ![t] = 0]}
        /\ UNCHANGED <<audited, nextSweep>>
    BY <2>1 DEF Authorize, Logout
  <2>3. clock \in Nat /\ StoreOK
    BY DEF TypeOK, TrackerOK
  <2>4. Ended(t) \in [Tokens -> [state : {"unused", "live", "ended"}, seen : Nat]]
        /\ [sessions EXCEPT ![t].seen = clock]
             \in [Tokens -> [state : {"unused", "live", "ended"}, seen : Nat]]
    BY <2>3 DEF Ended, StoreOK
  <2>5. sessions' \in [Tokens -> [state : {"unused", "live", "ended"}, seen : Nat]]
    BY <2>2, <2>3, <2>4 DEF StoreOK
  <2>6. cookie' \in [Tokens -> Nat]
    <3>1. [cookie EXCEPT ![t] = 0] \in [Tokens -> Nat] /\ cookie \in [Tokens -> Nat]
      BY <2>3 DEF StoreOK
    <3>2. cookie' \in {cookie, [cookie EXCEPT ![t] = 0]}
      BY <2>2
    <3> QED BY <3>1, <3>2
  <2>7. StoreOK'
    BY <2>2, <2>3, <2>5, <2>6 DEF StoreOK
  <2> QED BY <1>2, <2>7 DEF TypeOK
<1>4. CASE Sweep
  <2>1. \A t \in Tokens : Swept[t] \in [state : {"unused", "live", "ended"}, seen : Nat]
    BY DEF Swept, TypeOK, StoreOK
  <2>2. sessions' \in [Tokens -> [state : {"unused", "live", "ended"}, seen : Nat]]
    BY <1>4, <2>1 DEF Sweep, Swept
  <2> QED BY <1>2, <1>4, <2>2 DEF Sweep, TypeOK, StoreOK, TrackerOK
<1> QED BY <1>2, <1>3, <1>4 DEF TypeOK

LEMMA TickType == ASSUME TypeOK, Tick PROVE TypeOK'
<1>1. clock \in Nat /\ clock' = clock + 1 /\ UNCHANGED <<kind, failures, att, store>>
  BY DEF Tick, TypeOK, TrackerOK
<1>2. TrackerOK'
  BY <1>1, SameFailuresType DEF TypeOK
<1>3. AttemptsOK'
  BY <1>1 DEF TypeOK, AttemptsOK
<1>4. StoreOK'
  BY <1>1 DEF TypeOK, StoreOK, store
<1> QED BY <1>2, <1>3, <1>4 DEF TypeOK

LEMMA StepType == TypeOK /\ [Next]_vars => TypeOK'
<1> SUFFICES ASSUME TypeOK, [Next]_vars PROVE TypeOK'
  OBVIOUS
<1>1. CASE Next
  BY <1>1, AttemptType, SessionStepType, TickType DEF Next
<1>2. CASE UNCHANGED vars
  <2>1. TrackerOK'
    BY <1>2, SameFailuresType DEF vars, TypeOK, TrackerOK
  <2>2. AttemptsOK' /\ StoreOK'
    BY <1>2 DEF vars, store, TypeOK, AttemptsOK, StoreOK
  <2> QED BY <2>1, <2>2 DEF TypeOK
<1> QED BY <1>1, <1>2

\* The state is well typed; no attempt is from the future; and the tracker never
\* has more identifiers than it has room for (record_failure, evict_stale).
THEOREM Typed == Spec => []TypeOK
BY InitType, StepType, PTL DEF Spec

-----------------------------------------------------------------------------
(* The lock of a key.                                                      *)

\* What is too old to be kept at a time no later than now is too old to matter
\* for a lock that holds now.
LEMMA PrunedKeepsLock ==
  ASSUME NEW h \in SUBSET Failure, NEW then \in Nat, NEW now \in Nat, then <= now,
         kind = "key", Locked(kind, h, now)
  PROVE  Locked(kind, Pruned(kind, h, then), now)
<1> DEFINE kept == Pruned(kind, h, then)
<1>1. PICK f \in Triggers(kind, h) : now < f.at + LockTime[kind]
  BY DEF Locked
<1>2. f \in h /\ f.at \in Nat /\ Cardinality(Recent(kind, h, f.at)) >= Threshold
  BY DEF Triggers, Failure
<1>3. Window[kind] \in Nat /\ LockTime[kind] \in Nat
  BY DEF Kinds
<1>4. ASSUME NEW g \in Recent(kind, h, f.at) PROVE g \in kept
  <2>1. g \in h /\ g.at \in Nat /\ f.at <= g.at + Window[kind]
    BY DEF Recent, Failure
  <2>2. then <= g.at + (Window[kind] + LockTime[kind])
    BY <1>1, <1>2, <1>3, <2>1
  <2> QED BY <2>1, <2>2 DEF Pruned, Horizon
<1>5. Recent(kind, kept, f.at) = Recent(kind, h, f.at)
  BY <1>4 DEF Recent, Pruned
<1>6. f \in kept
  BY <1>2, <1>3, <1>4 DEF Recent
<1>7. f \in Triggers(kind, kept)
  BY <1>2, <1>5, <1>6 DEF Triggers
<1> QED BY <1>1, <1>7 DEF Locked

\* An attempt that began before now finds a lock that holds now.
LEMMA LockedEarlier ==
  ASSUME NEW h \in SUBSET Failure, NEW then \in Nat, NEW now \in Nat, then <= now,
         kind = "key", Locked(kind, h, now)
  PROVE  Locked(kind, h, then)
<1>1. PICK f \in Triggers(kind, h) : now < f.at + LockTime[kind]
  BY DEF Locked
<1>2. f.at \in Nat /\ LockTime[kind] \in Nat
  BY DEF Triggers, Failure, Kinds
<1>3. then < f.at + LockTime[kind]
  BY <1>1, <1>2
<1> QED BY <1>3 DEF Locked

\* A failure of one source leaves the lock of another alone.
LEMMA OthersKept ==
  ASSUME TrackerOK, NEW s \in Sources, NEW x \in Sources, x # s,
         NEW now \in Nat, now <= clock, RecordFailure(x, now),
         kind = "key", Locked(kind, tracker[s], clock)
  PROVE  Locked(kind, tracker'[s], clock)
<1>1. clock \in Nat /\ tracker[s] \in SUBSET Failure
  BY DEF TrackerOK
<1>2. tracker'[s] = tracker[s] \/ tracker'[s] = Pruned(kind, tracker[s], now)
  <2> DEFINE f    == [at |-> now, no |-> count]
             full == tracker[x] = {} /\ Cardinality(Tracked(tracker)) >= MaxTracked
             tr   == IF full THEN EvictStale(now) ELSE tracker
  <2>1. tracker' = tr \/ tracker' = [tr EXCEPT ![x] = Recorded(kind, @, f)]
    BY DEF RecordFailure
  <2>2. tr \in [Sources -> SUBSET Failure]
    BY EvictStaleType DEF TrackerOK
  <2>3. tr[s] = tracker[s] \/ tr[s] = Pruned(kind, tracker[s], now)
    BY DEF EvictStale
  <2> HIDE DEF tr, f
  <2> QED BY <2>1, <2>2, <2>3
<1> QED BY <1>1, <1>2, PrunedKeepsLock

LEMMA KeepStep ==
  ASSUME TypeOK, [Next]_vars
  PROVE  \A s \in Sources :
           kind = "key" /\ Locked(kind, tracker[s], clock) /\ clock' = clock
             => Locked(kind, tracker'[s], clock)
<1> SUFFICES ASSUME NEW s \in Sources, kind = "key",
                    Locked(kind, tracker[s], clock), clock' = clock
             PROVE  Locked(kind, tracker'[s], clock)
  OBVIOUS
<1>1. CASE UNCHANGED failures
  BY <1>1 DEF failures
<1>2. ASSUME NEW a \in Attempts, Authenticate(a)
      PROVE  Locked(kind, tracker'[s], clock)
  <2> DEFINE x == att[a].src  now == att[a].now
  <2>1. x \in Sources /\ now \in Nat /\ now <= clock /\ clock \in Nat
        /\ tracker \in [Sources -> SUBSET Failure] /\ TrackerOK
    BY DEF TypeOK, TrackerOK, AttemptsOK
  <2>2. UNCHANGED failures \/ (~Locked(kind, tracker[x], now)
                               /\ (RecordSuccess(x) \/ RecordFailure(x, now)))
    BY <1>2 DEF Authenticate
  <2> HIDE DEF x, now
  <2>3. CASE ~Locked(kind, tracker[x], now) /\ (RecordSuccess(x) \/ RecordFailure(x, now))
    <3>1. x # s
      BY <2>1, <2>3, LockedEarlier
    <3>2. CASE RecordSuccess(x)
      BY <2>1, <3>1, <3>2 DEF RecordSuccess
    <3>3. CASE RecordFailure(x, now)
      BY <2>1, <3>1, <3>3, OthersKept
    <3> QED BY <2>3, <3>2, <3>3
  <2> QED BY <1>1, <2>2, <2>3
<1>3. ASSUME NEW a \in Attempts, Attempt(a), ~Authenticate(a)
      PROVE  UNCHANGED failures
  BY <1>3 DEF Attempt, Begin, LookupFails, LoginFails, LoginVerified,
              LoginAnswered, LoginAbandoned
<1>4. CASE (\E t \in Tokens : Authorize(t) \/ Logout(t)) \/ Sweep \/ Tick
  BY <1>1, <1>4 DEF Authorize, Logout, Sweep, Tick
<1>5. CASE UNCHANGED vars
  BY <1>1, <1>5 DEF vars
<1> QED BY <1>1, <1>2, <1>3, <1>4, <1>5 DEF Next

\* Nothing but time ends the lock of a key: not an attempt that began before it
\* and succeeds after it, and not the eviction of what is stale for another
\* identifier (authenticate_identified, evict_stale).
THEOREM OnlyTimeUnlocks == Spec => LockKept
<1>1. TypeOK /\ [Next]_vars =>
        [\A s \in Sources :
           kind = "key" /\ Locked(kind, tracker[s], clock) /\ clock' = clock
             => Locked(kind, tracker'[s], clock)]_vars
  BY KeepStep
<1> QED BY <1>1, Typed, PTL DEF Spec, LockKept

-----------------------------------------------------------------------------
(* Sessions and their cookies.                                             *)

\* The session of a login that is still to be audited is there, and stays.
Handed ==
  /\ HandedOutIsAudited
  /\ \A a \in Attempts : att[a].at = "audit" => sessions[att[a].token].state # "unused"

LEMMA InitHanded == Init => Handed
BY DEF Init, Handed, HandedOutIsAudited, Free

LEMMA EndedState ==
  ASSUME StoreOK, NEW t \in Tokens, NEW u \in Tokens, sessions[u].state # "unused"
  PROVE  Ended(t)[u].state # "unused" /\ Swept[u].state # "unused"
BY DEF StoreOK, Ended, Swept

\* A session that was opened is never taken for unused again.
LEMMA UsedStays ==
  ASSUME TypeOK, [Next]_vars, NEW u \in Tokens, sessions[u].state # "unused"
  PROVE  sessions'[u].state # "unused"
<1>1. ASSUME NEW a \in Attempts, LoginVerified(a) PROVE sessions'[u].state # "unused"
  BY <1>1 DEF LoginVerified, TypeOK, StoreOK
<1>2. ASSUME NEW a \in Attempts, Attempt(a), ~LoginVerified(a)
      PROVE  sessions'[u].state # "unused"
  BY <1>2 DEF Attempt, Begin, LookupFails, Authenticate, LoginFails, LoginAnswered,
              LoginAbandoned, store
<1>3. ASSUME NEW t \in Tokens, Authorize(t) PROVE sessions'[u].state # "unused"
  BY <1>3, EndedState DEF Authorize, TypeOK, StoreOK
<1>4. ASSUME NEW t \in Tokens, Logout(t) PROVE sessions'[u].state # "unused"
  BY <1>4, EndedState DEF Logout, TypeOK
<1>5. CASE Sweep
  BY <1>5, EndedState DEF Sweep, TypeOK
<1>6. CASE Tick \/ UNCHANGED vars
  BY <1>6 DEF Tick, vars, store
<1> QED BY <1>1, <1>2, <1>3, <1>4, <1>5, <1>6 DEF Next

LEMMA HandedStep == TypeOK /\ Handed /\ [Next]_vars => Handed'
<1> SUFFICES ASSUME TypeOK, Handed, [Next]_vars PROVE Handed'
  OBVIOUS
<1>1. ASSUME NEW a \in Attempts, att'[a].at = "audit"
      PROVE  sessions'[att'[a].token].state # "unused"
  <2>1. CASE att'[a] = att[a]
    BY <1>1, <2>1, UsedStays DEF Handed, TypeOK, AttemptsOK
  <2>2. CASE att'[a] # att[a]
    <3>1. PICK b \in Attempts : Attempt(b)
      BY <2>2 DEF Next, Authorize, Logout, Sweep, Tick, vars
    <3>2. CASE LoginVerified(b)
      <4>1. PICK t \in Tokens :
              /\ sessions' = [sessions EXCEPT ![t] = [state |-> "live",
                                                      seen |-> att[b].now]]
              /\ att' = [att EXCEPT ![b].at = "audit", ![b].token = t]
        BY <3>2 DEF LoginVerified
      <4>2. a = b /\ att'[a].token = t
        BY <2>2, <4>1 DEF TypeOK, AttemptsOK
      <4> QED BY <4>1, <4>2 DEF TypeOK, StoreOK
    <3>3. CASE ~LoginVerified(b)
      BY <1>1, <2>2, <3>1, <3>3
         DEF Attempt, Begin, LookupFails, Authenticate, LoginFails, LoginAnswered,
             LoginAbandoned, End, Free, TypeOK, AttemptsOK
    <3> QED BY <3>2, <3>3
  <2> QED BY <2>1, <2>2
<1>2. ASSUME NEW t \in Tokens, cookie'[t] # 0
      PROVE  t \in audited' /\ sessions'[t].state # "unused"
  <2>1. CASE cookie[t] # 0
    <3>1. t \in audited /\ sessions[t].state # "unused"
      BY <2>1 DEF Handed, HandedOutIsAudited
    <3>2. audited \subseteq audited'
      BY DEF Next, Attempt, Begin, LookupFails, Authenticate, LoginFails,
             LoginVerified, LoginAnswered, LoginAbandoned, Authorize, Logout,
             Sweep, Tick, vars, store
    <3> QED BY <3>1, <3>2, UsedStays
  <2>2. CASE cookie[t] = 0
    <3>1. PICK a \in Attempts : LoginAnswered(a)
      BY <1>2, <2>2 DEF Next, Attempt, Begin, LookupFails, Authenticate, LoginFails,
             LoginVerified, LoginAbandoned, Authorize, Logout,
             Sweep, Tick, vars, store, TypeOK, StoreOK
    <3>2. t = att[a].token /\ att[a].at = "audit" /\ t \in audited'
      BY <1>2, <2>2, <3>1 DEF LoginAnswered, SendCookie, TypeOK, StoreOK
    <3>3. sessions[t].state # "unused"
      BY <3>2 DEF Handed
    <3> QED BY <3>2, <3>3, UsedStays
  <2> QED BY <2>1, <2>2
<1> QED BY <1>1, <1>2 DEF Handed, HandedOutIsAudited

\* A cookie goes out only when the login has been audited, and for a session that
\* was opened (perform_login).
THEOREM CookieIsAudited == Spec => []HandedOutIsAudited
<1>1. Handed => HandedOutIsAudited
  BY DEF Handed
<1> QED BY <1>1, Typed, InitHanded, HandedStep, PTL DEF Spec

\* The sweeper is in time; what is live when it has just run is not over age, and
\* what is opened later began a short time ago.
Timely ==
  /\ clock <= nextSweep /\ nextSweep <= clock + SweepEvery
  /\ \A a \in Attempts : att[a].at # "free" => clock <= att[a].now + MaxFlight
  /\ \A t \in Tokens :
       sessions[t].state = "live" => nextSweep < sessions[t].seen + IdleTime + SweepEvery

LEMMA InitTimely == Init => Timely
BY DEF Init, Timely, Free, Unused

LEMMA TimelyGives == TypeOK /\ Timely => SessionsReclaimed
BY DEF TypeOK, TrackerOK, StoreOK, Timely, SessionsReclaimed

LEMMA TimelyStep ==
  ASSUME MaxFlight < IdleTime, TypeOK, Timely, [Next]_vars PROVE Timely'
<1> DEFINE Flights == \A a \in Attempts :
                        att[a].at # "free" => clock <= att[a].now + MaxFlight
           Ages == \A t \in Tokens :
             sessions[t].state = "live" => nextSweep < sessions[t].seen + IdleTime + SweepEvery
<1>0. clock \in Nat /\ nextSweep \in Nat /\ SweepEvery \in Nat /\ IdleTime \in Nat
  BY DEF TypeOK, TrackerOK, StoreOK
<1>1. ASSUME NEW a \in Attempts, Attempt(a) PROVE Timely'
  <2>1. UNCHANGED <<clock, nextSweep>>
    BY <1>1 DEF Attempt, Begin, LookupFails, Authenticate, LoginFails, LoginVerified,
                LoginAnswered, LoginAbandoned, store
  <2>2. Flights'
    <3>1. \A b \in Attempts : \/ att'[b].at = "free" \/ att'[b] = att[b]
                              \/ att'[b].now = clock
                              \/ att[b].at # "free" /\ att'[b].now = att[b].now
      BY <1>1 DEF Attempt, Begin, LookupFails, Authenticate, LoginFails, LoginVerified,
                  LoginAnswered, LoginAbandoned, End, Free, TypeOK, AttemptsOK
    <3> QED BY <1>0, <2>1, <3>1 DEF Timely
  <2>3. Ages'
    <3>1. CASE LoginVerified(a)
      <4>1. PICK u \in Tokens :
              sessions' = [sessions EXCEPT ![u] = [state |-> "live", seen |-> att[a].now]]
        BY <3>1 DEF LoginVerified
      <4>2. att[a].at # "free" /\ att[a].now \in Nat
        BY <3>1 DEF LoginVerified, TypeOK, AttemptsOK
      <4>3. nextSweep < att[a].now + IdleTime + SweepEvery
        BY <1>0, <4>2 DEF Timely
      <4> QED BY <2>1, <4>1, <4>3 DEF Timely, TypeOK, StoreOK
    <3>2. CASE ~LoginVerified(a)
      <4>1. sessions' = sessions
        BY <1>1, <3>2 DEF Attempt, Begin, LookupFails, Authenticate, LoginFails,
                LoginAnswered, LoginAbandoned, store
      <4> QED BY <2>1, <4>1 DEF Timely
    <3> QED BY <3>1, <3>2
  <2> QED BY <2>1, <2>2, <2>3 DEF Timely
<1>2. ASSUME NEW t \in Tokens, Authorize(t) PROVE Timely'
  <2>1. UNCHANGED <<clock, nextSweep, att>>
    BY <1>2 DEF Authorize
  <2>2. \A u \in Tokens : sessions'[u].state = "live" =>
          \/ sessions[u].state = "live" /\ sessions'[u].seen = sessions[u].seen
          \/ sessions'[u].seen = clock
    BY <1>2 DEF Authorize, Ended, TypeOK, StoreOK
  <2>3. Ages'
    BY <1>0, <2>1, <2>2 DEF Timely
  <2> QED BY <2>1, <2>3 DEF Timely
<1>3. ASSUME NEW t \in Tokens, Logout(t) PROVE Timely'
  <2>1. UNCHANGED <<clock, nextSweep, att>>
    BY <1>3 DEF Logout
  <2>2. \A u \in Tokens : sessions'[u].state = "live" =>
          sessions[u].state = "live" /\ sessions'[u].seen = sessions[u].seen
    BY <1>3 DEF Logout, Ended, TypeOK, StoreOK
  <2> QED BY <2>1, <2>2 DEF Timely
<1>4. CASE Sweep
  <2>1. clock' = clock /\ att' = att /\ nextSweep' = clock + SweepEvery
    BY <1>4 DEF Sweep
  <2>2. \A u \in Tokens : sessions'[u].state = "live" =>
          clock < sessions'[u].seen + IdleTime /\ sessions'[u].seen \in Nat
    BY <1>4 DEF Sweep, Swept, Valid, TypeOK, StoreOK
  <2>3. Ages'
    BY <1>0, <2>1, <2>2
  <2> QED BY <1>0, <2>1, <2>3 DEF Timely
<1>5. CASE Tick
  <2>1. clock' = clock + 1 /\ clock < nextSweep /\ UNCHANGED <<att, sessions, nextSweep>>
        /\ \A a \in Attempts : att[a].at # "free" => clock < att[a].now + MaxFlight
    BY <1>5 DEF Tick, store
  <2>2. \A a \in Attempts : att[a].now \in Nat
    BY DEF TypeOK, AttemptsOK
  <2> QED BY <1>0, <2>1, <2>2 DEF Timely
<1>6. CASE UNCHANGED vars
  BY <1>6 DEF vars, store, Timely
<1> QED BY <1>1, <1>2, <1>3, <1>4, <1>5, <1>6 DEF Next

\* If a login takes less time than a session may be idle, a session nobody uses
\* is gone with the second sweep after its time, and so is one whose cookie was
\* never sent. A login that took longer would open a session that is over age
\* from the start (spawn_session_sweeper, SessionStore::create).
THEOREM UnusedAreReclaimed ==
  ASSUME MaxFlight < IdleTime PROVE Spec => []SessionsReclaimed
<1>1. TypeOK /\ Timely /\ [Next]_vars => Timely'
  BY TimelyStep
<1> QED BY <1>1, Typed, InitTimely, TimelyGives, PTL DEF Spec

-----------------------------------------------------------------------------
(* What the trackers forget does not matter, as long as an attempt takes   *)
(* less time than a window, and enough failures are kept for two           *)
(* thresholds and the attempts that are under way at once.                 *)

\* A finite set has a greatest element: the one with the fewest above it.
LEMMA Greatest ==
  ASSUME NEW F, IsFiniteSet(F), F # {}, NEW r \in [F -> Nat]
  PROVE  \E x \in F : \A y \in F : r[y] <= r[x]
<1> DEFINE Above(x) == {h \in F : r[h] > r[x]}
           T == {Above(x) : x \in F}
           R == StrictSubsetOrdering(F)
<1>1. IsWellFoundedOn(R, FiniteSubsetsOf(F))
  BY FS_StrictSubsetOrderingWellFounded
<1>2. T \subseteq FiniteSubsetsOf(F) /\ T # {}
  <2>1. \A x \in F : Above(x) \in SUBSET F
    OBVIOUS
  <2>2. \A t \in SUBSET F : IsFiniteSet(t)
    BY FS_Subset
  <2>3. \A x \in F : Above(x) \in FiniteSubsetsOf(F)
    BY <2>1, <2>2 DEF FiniteSubsetsOf
  <2> HIDE DEF Above
  <2> QED BY <2>3
<1>3. \A p, q \in SUBSET F : p \subseteq q /\ p # q => <<p, q>> \in R
  BY DEF StrictSubsetOrdering
<1> HIDE DEF R
<1>4. PICK t \in T : \A u \in T : ~(<<u, t>> \in R)
  BY <1>1, <1>2, WFMin
<1>5. PICK x \in F : t = Above(x)
  OBVIOUS
<1>6. ASSUME NEW y \in F, r[y] > r[x] PROVE FALSE
  <2>1. Above(y) \subseteq Above(x) /\ y \in Above(x) /\ y \notin Above(y)
    BY <1>6
  <2>2. Above(y) # t /\ Above(y) \subseteq t
    BY <1>5, <2>1
  <2>3. Above(y) \in T /\ Above(y) \in SUBSET F /\ t \in SUBSET F
    BY <1>5
  <2> HIDE DEF Above, T
  <2> QED BY <1>3, <1>4, <2>2, <2>3
<1> QED BY <1>6

LEMMA LastRecorded ==
  ASSUME NEW F \in SUBSET Failure, IsFiniteSet(F), F # {}
  PROVE  \E x \in F : \A y \in F : y.no <= x.no
<1> DEFINE r == [f \in F |-> f.no]
<1>1. r \in [F -> Nat]
  BY DEF Failure
<1> HIDE DEF r
<1>2. PICK x \in F : \A y \in F : r[y] <= r[x]
  BY <1>1, Greatest
<1> QED BY <1>2 DEF r

LEMMA Latest ==
  ASSUME NEW F \in SUBSET Failure, IsFiniteSet(F), F # {}
  PROVE  \E x \in F : \A y \in F : y.at <= x.at
<1> DEFINE r == [f \in F |-> f.at]
<1>1. r \in [F -> Nat]
  BY DEF Failure
<1> HIDE DEF r
<1>2. PICK x \in F : \A y \in F : r[y] <= r[x]
  BY <1>1, Greatest
<1> QED BY <1>2 DEF r

\* Failures that all lie in one window lock, if they are enough.
LEMMA WindowLocks ==
  ASSUME NEW k \in Kinds, NEW H \in SUBSET Failure, IsFiniteSet(H),
         NEW G \in SUBSET H, Cardinality(G) >= Threshold, NEW from \in Nat,
         \A g \in G : from <= g.at /\ g.at <= from + Window[k]
  PROVE  \E f \in Triggers(k, H) : f \in G
<1>1. IsFiniteSet(G) /\ G \in SUBSET Failure
  BY FS_Subset
<1>2. G # {}
  BY FS_EmptySet
<1>3. PICK f \in G : \A g \in G : g.at <= f.at
  BY <1>1, <1>2, Latest
<1>4. Window[k] \in Nat /\ \A g \in G : g.at \in Nat
  BY <1>1 DEF Failure
<1>5. G \subseteq Recent(k, H, f.at)
  BY <1>3, <1>4 DEF Recent
<1>6. Recent(k, H, f.at) \in SUBSET H
  BY DEF Recent
<1>7. IsFiniteSet(Recent(k, H, f.at))
  BY <1>6, FS_Subset
<1>8. Cardinality(G) <= Cardinality(Recent(k, H, f.at))
      /\ Cardinality(G) \in Nat /\ Cardinality(Recent(k, H, f.at)) \in Nat
  BY <1>1, <1>5, <1>7, FS_Subset, FS_CardinalityType
<1>9. Cardinality(Recent(k, H, f.at)) >= Threshold
  BY <1>8
<1> QED BY <1>9 DEF Triggers

\* More failures never make a lock end.
LEMMA MoreLocks ==
  ASSUME NEW k \in Kinds, NEW H, IsFiniteSet(H), NEW G \in SUBSET H, NEW f \in Triggers(k, G)
  PROVE  f \in Triggers(k, H)
<1>1. Recent(k, G, f.at) \subseteq Recent(k, H, f.at) /\ Recent(k, H, f.at) \in SUBSET H
  BY DEF Recent
<1>2. IsFiniteSet(Recent(k, H, f.at))
  BY <1>1, FS_Subset
<1>3. Cardinality(Recent(k, G, f.at)) <= Cardinality(Recent(k, H, f.at))
      /\ Cardinality(Recent(k, G, f.at)) \in Nat
      /\ Cardinality(Recent(k, H, f.at)) \in Nat
  BY <1>1, <1>2, FS_Subset, FS_CardinalityType
<1>4. f \in G /\ Cardinality(Recent(k, G, f.at)) >= Threshold
  BY DEF Triggers
<1>5. Cardinality(Recent(k, H, f.at)) >= Threshold
  BY <1>3, <1>4
<1> QED BY <1>4, <1>5 DEF Triggers

-----------------------------------------------------------------------------
\* The failures recorded after g, those of them whose attempts began before,
\* and the attempts that may still become such.
After(s, g) == {h \in history[s] : h.no > g.no}
Overtaken(s, g) == {h \in After(s, g) : h.at < g.at}
Behind(s, g) == {a \in Attempts :
  att[a].at = "lookup" /\ att[a].src = s /\ att[a].now < g.at}

\* A trigger whose lock has not ended.
Live(s) == {f \in Triggers(kind, history[s]) : clock < f.at + LockTime[kind]}

HistoryOK == \A s \in Sources :
  /\ IsFiniteSet(history[s]) /\ tracker[s] \subseteq history[s]
  /\ \A g \in history[s] : g.at <= clock /\ g.no < count
InFlight == \A a \in Attempts : att[a].at # "free" => clock <= att[a].now + MaxFlight
\* What is forgotten is too old, or enough failures came after it.
Forgotten == \A s \in Sources \ dropped : \A g \in history[s] \ tracker[s] :
  \/ clock > g.at + Horizon(kind)
  \/ Cardinality(After(s, g)) >= MaxKept
\* At most all other attempts overtake one.
FewOvertaken == \A s \in Sources : \A g \in history[s] :
  Cardinality(Overtaken(s, g)) + Cardinality(Behind(s, g)) < Cardinality(Attempts)
\* As long as a lock holds, all failures are from before it or were under way.
LockedSince == \A s \in Sources \ dropped : \A f \in Live(s) :
  /\ \A g \in history[s] : g.at <= f.at + MaxFlight
  /\ \A a \in Attempts : kind = "login" /\ att[a].at = "lookup" /\ att[a].src = s =>
       att[a].now <= f.at + MaxFlight

Remembered == HistoryOK /\ InFlight /\ Forgotten /\ FewOvertaken /\ LockedSince

EnoughKept ==
  /\ \A k \in Kinds : MaxFlight <= Window[k]
  /\ MaxKept + 2 >= 2 * Threshold + Cardinality(Attempts)

\* Those recorded after g that did not overtake it.
LEMMA InTurn ==
  ASSUME TypeOK, Remembered, EnoughKept, NEW s \in Sources, NEW g \in history[s],
         Cardinality(After(s, g)) >= MaxKept
  PROVE  /\ IsFiniteSet(After(s, g) \ Overtaken(s, g))
         /\ Cardinality(After(s, g) \ Overtaken(s, g)) + 1 >= 2 * Threshold
         /\ \A h \in After(s, g) \ Overtaken(s, g) : g.at <= h.at
<1>1. After(s, g) \in SUBSET history[s] /\ IsFiniteSet(history[s])
  BY DEF After, Remembered, HistoryOK
<1>2. IsFiniteSet(After(s, g))
  BY <1>1, FS_Subset
<1>3. Overtaken(s, g) \in SUBSET After(s, g) /\ Behind(s, g) \in SUBSET Attempts
  BY DEF Overtaken, Behind
<1>4. IsFiniteSet(Overtaken(s, g)) /\ IsFiniteSet(Behind(s, g))
  BY <1>2, <1>3, FS_Subset
<1>5. Cardinality(Overtaken(s, g)) + Cardinality(Behind(s, g)) < Cardinality(Attempts)
  BY DEF Remembered, FewOvertaken
<1>6. /\ Cardinality(Overtaken(s, g)) \in Nat /\ Cardinality(Behind(s, g)) \in Nat
      /\ Cardinality(Attempts) \in Nat /\ Cardinality(After(s, g)) \in Nat
  BY <1>2, <1>4, FS_CardinalityType
<1>7. After(s, g) \cap Overtaken(s, g) = Overtaken(s, g)
  BY <1>3
<1>8. /\ IsFiniteSet(After(s, g) \ Overtaken(s, g))
      /\ Cardinality(After(s, g) \ Overtaken(s, g))
           = Cardinality(After(s, g)) - Cardinality(Overtaken(s, g))
  BY <1>2, <1>7, FS_Difference
<1>9. Cardinality(After(s, g) \ Overtaken(s, g)) + 1 >= 2 * Threshold
  BY <1>5, <1>6, <1>8 DEF EnoughKept
<1>10. \A h \in After(s, g) \ Overtaken(s, g) : g.at <= h.at
  <2>1. \A h \in history[s] : h.at \in Nat
    BY DEF TypeOK, TrackerOK, Failure
  <2> QED BY <1>1, <2>1 DEF Overtaken
<1> QED BY <1>8, <1>9, <1>10

\* Of what is forgotten from a time on, the last recorded was followed by that
\* many which the tracker has, all of them from that time on.
LEMMA KeptSince ==
  ASSUME TypeOK, Remembered, EnoughKept, NEW s \in Sources \ dropped, NEW from \in Nat,
         clock <= from + Horizon(kind),
         NEW x \in history[s] \ tracker[s], from <= x.at
  PROVE  \E N \in SUBSET tracker[s] :
           /\ IsFiniteSet(N) /\ Cardinality(N) + 1 >= 2 * Threshold
           /\ \A h \in N : from <= h.at
<1> DEFINE F == {g \in history[s] \ tracker[s] : from <= g.at}
<1>1. F \in SUBSET history[s] /\ IsFiniteSet(history[s]) /\ x \in F /\ F \in SUBSET Failure
  BY DEF Remembered, HistoryOK, TypeOK, TrackerOK
<1>2. IsFiniteSet(F) /\ F # {}
  BY <1>1, FS_Subset
<1> HIDE DEF F
<1>3. PICK g \in F : \A h \in F : h.no <= g.no
  BY <1>1, <1>2, LastRecorded
<1>4. g \in history[s] \ tracker[s] /\ from <= g.at
  BY <1>3 DEF F
<1>5. clock \in Nat /\ g.at \in Nat /\ Horizon(kind) \in Nat
  BY <1>1 DEF TypeOK, TrackerOK, Failure, Horizon
<1>6. Cardinality(After(s, g)) >= MaxKept
  BY <1>4, <1>5 DEF Remembered, Forgotten
<1> DEFINE N == After(s, g) \ Overtaken(s, g)
<1>7. /\ IsFiniteSet(N) /\ Cardinality(N) + 1 >= 2 * Threshold
      /\ \A h \in N : g.at <= h.at
  BY <1>4, <1>6, InTurn
<1>8. \A h \in N : h \in history[s] /\ h.no > g.no /\ h.at \in Nat /\ h.no \in Nat
  BY DEF After, TypeOK, TrackerOK, Failure
<1>9. g.no \in Nat
  BY <1>1 DEF Failure
<1> HIDE DEF N
<1>10. \A h \in N : from <= h.at
  BY <1>4, <1>5, <1>7, <1>8
<1>11. \A h \in N : h \in tracker[s]
  BY <1>3, <1>8, <1>9, <1>10 DEF F
<1> QED BY <1>7, <1>10, <1>11

\* What locks by all failures locks by those the tracker has.
LEMMA RememberedDecides ==
  ASSUME TypeOK, Remembered, EnoughKept, NEW s \in Sources \ dropped, NEW f \in Live(s)
  PROVE  \E x \in Triggers(kind, tracker[s]) : clock < x.at + LockTime[kind]
<1> DEFINE W == Window[kind]  L == LockTime[kind]
<1>1. /\ f \in Triggers(kind, history[s]) /\ clock < f.at + L
      /\ f \in history[s] /\ Cardinality(Recent(kind, history[s], f.at)) >= Threshold
  BY DEF Live, Triggers
<1>2. /\ history[s] \in SUBSET Failure /\ tracker[s] \in SUBSET history[s]
      /\ IsFiniteSet(history[s]) /\ IsFiniteSet(tracker[s]) /\ tracker[s] \in SUBSET Failure
      /\ clock \in Nat /\ W \in Nat /\ L \in Nat /\ kind \in Kinds /\ Horizon(kind) = W + L
      /\ MaxFlight <= W
  BY FS_Subset DEF TypeOK, TrackerOK, Remembered, HistoryOK, EnoughKept, Horizon
<1>3. f.at \in Nat /\ \A h \in history[s] : h.at \in Nat /\ h.at <= f.at + W
  <2>1. \A h \in history[s] : h.at \in Nat /\ h.at <= f.at + MaxFlight
    BY <1>2 DEF Remembered, LockedSince, Failure
  <2>2. f.at \in Nat
    BY <1>1, <1>2 DEF Failure
  <2> QED BY <1>2, <2>1, <2>2
<1> HIDE DEF W, L
<1>4. ASSUME NEW G \in SUBSET tracker[s], Cardinality(G) >= Threshold,
             \A h \in G : f.at <= h.at
      PROVE  \E x \in Triggers(kind, tracker[s]) : clock < x.at + L
  <2>1. \A h \in G : f.at <= h.at /\ h.at <= f.at + Window[kind] /\ h.at \in Nat
    BY <1>2, <1>3, <1>4 DEF W
  <2>2. PICK x \in Triggers(kind, tracker[s]) : x \in G
    BY <1>2, <1>3, <1>4, <2>1, WindowLocks
  <2> QED BY <1>1, <1>2, <1>3, <2>1, <2>2
<1>5. CASE f \notin tracker[s]
  <2>1. PICK N \in SUBSET tracker[s] :
          /\ IsFiniteSet(N) /\ Cardinality(N) + 1 >= 2 * Threshold
          /\ \A h \in N : f.at <= h.at
    <3>1. clock <= f.at + Horizon(kind)
      BY <1>1, <1>2, <1>3
    <3> QED BY <1>1, <1>3, <1>5, <3>1, KeptSince
  <2>2. Cardinality(N) >= Threshold
    BY <2>1, FS_CardinalityType
  <2> QED BY <1>4, <2>1, <2>2 DEF L
<1>6. CASE f \in tracker[s] /\ Recent(kind, history[s], f.at) \subseteq tracker[s]
  <2>1. Recent(kind, tracker[s], f.at) = Recent(kind, history[s], f.at)
    BY <1>2, <1>6 DEF Recent
  <2>2. f \in Triggers(kind, tracker[s])
    BY <1>1, <1>6, <2>1 DEF Triggers
  <2> QED BY <1>1, <2>2 DEF L
<1>7. CASE f \in tracker[s] /\ ~(Recent(kind, history[s], f.at) \subseteq tracker[s])
  <2>1. PICK g \in history[s] \ tracker[s] : f.at <= g.at + W
    BY <1>7 DEF Recent, W
  <2> DEFINE from == IF f.at >= W THEN f.at - W ELSE 0
  <2>2. /\ from \in Nat /\ from <= g.at /\ clock <= from + Horizon(kind)
        /\ \A h \in tracker[s] : from <= h.at => f.at <= h.at + W
    BY <1>1, <1>2, <1>3, <2>1
  <2> HIDE DEF from
  <2>3. PICK N \in SUBSET tracker[s] :
          /\ IsFiniteSet(N) /\ Cardinality(N) + 1 >= 2 * Threshold
          /\ \A h \in N : from <= h.at
    BY <2>2, KeptSince
  <2> DEFINE Low == {h \in N : h.at <= f.at}  High == {h \in N : f.at <= h.at}
  <2>4. IsFiniteSet(Low) /\ IsFiniteSet(High) /\ IsFiniteSet(Low \cap High)
    <3>1. Low \in SUBSET N /\ High \in SUBSET N /\ Low \cap High \in SUBSET N
      OBVIOUS
    <3> QED BY <2>3, <3>1, FS_Subset
  <2>5. Low \union High = N
    BY <1>2, <1>3
  <2>6. /\ Cardinality(N) = Cardinality(Low) + Cardinality(High) - Cardinality(Low \cap High)
        /\ Cardinality(Low) \in Nat /\ Cardinality(High) \in Nat
        /\ Cardinality(Low \cap High) \in Nat /\ Cardinality(N) \in Nat
    BY <2>3, <2>4, <2>5, FS_Union, FS_CardinalityType
  <2>7. Low \in SUBSET Recent(kind, tracker[s], f.at) /\ High \in SUBSET tracker[s]
        /\ \A h \in High : f.at <= h.at
    BY <1>2, <2>2, <2>3 DEF Recent, W
  <2> HIDE DEF Low, High
  <2>8. Cardinality(Low) >= Threshold \/ Cardinality(High) >= Threshold
    BY <2>3, <2>6
  <2>9. CASE Cardinality(High) >= Threshold
    BY <1>4, <2>7, <2>9 DEF L
  <2>10. CASE Cardinality(Low) >= Threshold
    <3>1. Recent(kind, tracker[s], f.at) \in SUBSET tracker[s]
      BY DEF Recent
    <3>2. IsFiniteSet(Recent(kind, tracker[s], f.at))
      BY <1>2, <3>1, FS_Subset
    <3>3. Cardinality(Low) <= Cardinality(Recent(kind, tracker[s], f.at))
          /\ Cardinality(Recent(kind, tracker[s], f.at)) \in Nat
      BY <2>7, <3>2, FS_Subset, FS_CardinalityType
    <3>4. Cardinality(Recent(kind, tracker[s], f.at)) >= Threshold
      BY <2>6, <2>10, <3>3
    <3>5. f \in Triggers(kind, tracker[s])
      BY <1>7, <3>4 DEF Triggers
    <3> QED BY <1>1, <3>5 DEF L
  <2> QED BY <2>8, <2>9, <2>10
<1> QED BY <1>5, <1>6, <1>7

-----------------------------------------------------------------------------
\* Attempts that are over or have passed to the audit matter no more.
Fewer == \A a \in Attempts : att'[a].at # "free" =>
  /\ att[a].at # "free" /\ att'[a].now = att[a].now /\ att'[a].src = att[a].src
  /\ att'[a].at = "lookup" => att[a].at = "lookup"

LEMMA FewerBehind ==
  ASSUME Fewer, NEW s, NEW g
  PROVE  /\ Behind(s, g)' \subseteq Behind(s, g)
         /\ IsFiniteSet(Behind(s, g)) /\ IsFiniteSet(Behind(s, g)')
         /\ Cardinality(Behind(s, g)') <= Cardinality(Behind(s, g))
         /\ Cardinality(Behind(s, g)) \in Nat /\ Cardinality(Behind(s, g)') \in Nat
<1>1. Behind(s, g)' \subseteq Behind(s, g)
  BY DEF Behind, Fewer
<1>2. Behind(s, g) \subseteq Attempts
  BY DEF Behind
<1>3. IsFiniteSet(Behind(s, g))
  BY <1>2, FS_Subset
<1>4. IsFiniteSet(Behind(s, g)') /\ Cardinality(Behind(s, g)') <= Cardinality(Behind(s, g))
  BY <1>1, <1>3, FS_Subset
<1> QED BY <1>1, <1>3, <1>4, FS_CardinalityType

LEMMA SameHistory ==
  ASSUME NEW s, NEW g, history'[s] = history[s]
  PROVE  After(s, g)' = After(s, g) /\ Overtaken(s, g)' = Overtaken(s, g)
BY DEF After, Overtaken

LEMMA OvertakenFinite ==
  ASSUME TypeOK, Remembered, NEW s \in Sources, NEW g
  PROVE  /\ IsFiniteSet(After(s, g)) /\ IsFiniteSet(Overtaken(s, g))
         /\ Cardinality(After(s, g)) \in Nat /\ Cardinality(Overtaken(s, g)) \in Nat
<1>1. After(s, g) \in SUBSET history[s] /\ Overtaken(s, g) \in SUBSET history[s]
      /\ IsFiniteSet(history[s])
  BY DEF After, Overtaken, Remembered, HistoryOK
<1>2. IsFiniteSet(After(s, g)) /\ IsFiniteSet(Overtaken(s, g))
  BY <1>1, FS_Subset
<1> QED BY <1>2, FS_CardinalityType

LEMMA InitRemembered == Init => Remembered
<1> SUFFICES ASSUME Init PROVE Remembered
  OBVIOUS
<1>1. HistoryOK
  BY FS_EmptySet DEF Init, HistoryOK
<1>2. InFlight /\ Forgotten /\ FewOvertaken
  BY DEF Init, InFlight, Free, Forgotten, FewOvertaken
<1>3. LockedSince
  BY DEF Init, LockedSince, Live, Triggers
<1> QED BY <1>1, <1>2, <1>3 DEF Remembered

\* The failures of a source stay what they are while attempts end.
LEMMA SourceKept ==
  ASSUME TypeOK, Remembered, Fewer, UNCHANGED <<kind, clock>>, NEW s \in Sources,
         history'[s] = history[s]
  PROVE  /\ \A g \in history'[s] :
              Cardinality(Overtaken(s, g)') + Cardinality(Behind(s, g)')
                < Cardinality(Attempts)
         /\ Live(s)' = Live(s)
         /\ s \notin dropped => \A f \in Live(s)' :
              /\ \A g \in history'[s] : g.at <= f.at + MaxFlight
              /\ \A a \in Attempts : kind' = "login" /\ att'[a].at = "lookup"
                                      /\ att'[a].src = s => att'[a].now <= f.at + MaxFlight
<1>1. ASSUME NEW g \in history'[s]
      PROVE  Cardinality(Overtaken(s, g)') + Cardinality(Behind(s, g)')
               < Cardinality(Attempts)
  <2>1. Cardinality(Overtaken(s, g)) + Cardinality(Behind(s, g)) < Cardinality(Attempts)
        /\ Overtaken(s, g)' = Overtaken(s, g)
    BY SameHistory DEF Remembered, FewOvertaken
  <2>2. Cardinality(Overtaken(s, g)) \in Nat /\ Cardinality(Attempts) \in Nat
    BY OvertakenFinite, FS_CardinalityType
  <2>3. /\ Cardinality(Behind(s, g)') <= Cardinality(Behind(s, g))
        /\ Cardinality(Behind(s, g)) \in Nat /\ Cardinality(Behind(s, g)') \in Nat
    BY FewerBehind
  <2> QED BY <2>1, <2>2, <2>3
<1>2. Live(s)' = Live(s)
  BY DEF Live, Triggers, Recent
<1>3. ASSUME s \notin dropped, NEW f \in Live(s)
      PROVE  /\ \A g \in history'[s] : g.at <= f.at + MaxFlight
             /\ \A a \in Attempts : kind' = "login" /\ att'[a].at = "lookup"
                                     /\ att'[a].src = s => att'[a].now <= f.at + MaxFlight
  BY <1>3 DEF Remembered, LockedSince, Fewer
<1> QED BY <1>1, <1>2, <1>3

LEMMA FewerInFlight ==
  ASSUME Remembered, Fewer, UNCHANGED clock PROVE InFlight'
BY DEF Remembered, InFlight, Fewer

\* Nothing is recorded.
LEMMA NothingRecorded ==
  ASSUME TypeOK, Remembered, Fewer, UNCHANGED <<kind, clock, failures>> PROVE Remembered'
<1>1. InFlight'
  BY FewerInFlight
<1>2. HistoryOK'
  BY DEF Remembered, HistoryOK, failures
<1>3. Forgotten'
  BY SameHistory DEF Remembered, Forgotten, failures
<1>4. FewOvertaken' /\ LockedSince'
  <2>1. \A s \in Sources : history'[s] = history[s]
    BY DEF failures
  <2> QED BY <2>1, SourceKept DEF FewOvertaken, LockedSince, failures
<1> QED BY <1>1, <1>2, <1>3, <1>4 DEF Remembered

LEMMA SuccessRemembered ==
  ASSUME TypeOK, Remembered, Fewer, UNCHANGED <<kind, clock>>,
         NEW x \in Sources, RecordSuccess(x)
  PROVE  Remembered'
<1>0. /\ history \in [Sources -> SUBSET Failure] /\ tracker \in [Sources -> SUBSET Failure]
      /\ history'[x] = {} /\ tracker'[x] = {} /\ dropped' = dropped \ {x} /\ count' = count
      /\ \A s \in Sources \ {x} : history'[s] = history[s] /\ tracker'[s] = tracker[s]
  BY DEF TypeOK, TrackerOK, RecordSuccess
<1>1. InFlight'
  BY FewerInFlight
<1>2. HistoryOK'
  BY <1>0, FS_EmptySet DEF Remembered, HistoryOK
<1>3. Forgotten'
  BY <1>0, SameHistory DEF Remembered, Forgotten
<1>4. FewOvertaken'
  BY <1>0, SourceKept DEF FewOvertaken
<1>5. LockedSince'
  <2>1. Live(x)' = {}
    BY <1>0 DEF Live, Triggers
  <2> QED BY <1>0, <2>1, SourceKept DEF LockedSince
<1> QED BY <1>1, <1>2, <1>3, <1>4, <1>5 DEF Remembered

LEMMA TickRemembered == ASSUME TypeOK, Remembered, Tick PROVE Remembered'
<1>0. /\ clock \in Nat /\ clock' = clock + 1 /\ UNCHANGED <<kind, failures, att>>
      /\ \A s \in Sources : history[s] \in SUBSET Failure /\ history'[s] = history[s]
      /\ Horizon(kind) \in Nat /\ LockTime[kind] \in Nat
  BY DEF Tick, TypeOK, TrackerOK, failures, Horizon
<1>1. InFlight'
  <2>1. \A a \in Attempts : att[a].at # "free" => clock < att[a].now + MaxFlight
    BY DEF Tick
  <2>2. \A a \in Attempts : att[a].now \in Nat
    BY DEF TypeOK, AttemptsOK
  <2> QED BY <1>0, <2>1, <2>2 DEF InFlight
<1>2. HistoryOK'
  BY <1>0 DEF Remembered, HistoryOK, failures, Failure
<1>3. Forgotten'
  BY <1>0, SameHistory DEF Remembered, Forgotten, failures, Failure
<1>4. FewOvertaken'
  <2>1. \A s, g : Behind(s, g)' = Behind(s, g)
    BY <1>0 DEF Behind
  <2> QED BY <1>0, <2>1, SameHistory DEF Remembered, FewOvertaken
<1>5. LockedSince'
  <2>1. \A s \in Sources : Live(s)' \subseteq Live(s)
    BY <1>0 DEF Live, Triggers, Recent, Failure
  <2> QED BY <1>0, <2>1 DEF Remembered, LockedSince, failures
<1> QED BY <1>1, <1>2, <1>3, <1>4, <1>5 DEF Remembered

\* Whoever is not locked out is not locked by all the failures either.
LEMMA NoneLive ==
  ASSUME TypeOK, Remembered, EnoughKept, NEW s \in Sources \ dropped,
         ~Locked(kind, tracker[s], clock)
  PROVE  Live(s) = {}
<1> SUFFICES ASSUME NEW f \in Live(s) PROVE FALSE
  OBVIOUS
<1>1. PICK x \in Triggers(kind, tracker[s]) : clock < x.at + LockTime[kind]
  BY RememberedDecides
<1>2. x.at <= clock
  BY DEF Triggers, Remembered, HistoryOK
<1> QED BY <1>1, <1>2 DEF Locked

LEMMA BeginRemembered ==
  ASSUME TypeOK, Remembered, EnoughKept, NEW a \in Attempts, NEW x \in Sources, Begin(a, x)
  PROVE  Remembered'
<1>0. /\ UNCHANGED <<kind, clock, failures>> /\ clock \in Nat /\ MaxFlight \in Nat
      /\ att'[a] = [at |-> "lookup", src |-> x, now |-> clock, token |-> NoToken]
      /\ att[a].at = "free" /\ \A b \in Attempts \ {a} : att'[b] = att[b]
      /\ \A s \in Sources : history'[s] = history[s]
  BY DEF Begin, TypeOK, TrackerOK, AttemptsOK, failures
<1>1. InFlight'
  <2>1. clock <= clock + MaxFlight
    BY <1>0
  <2> QED BY <1>0, <2>1 DEF Remembered, InFlight
<1>2. HistoryOK' /\ Forgotten'
  BY <1>0, SameHistory DEF Remembered, HistoryOK, Forgotten, failures
<1>3. FewOvertaken'
  <2>1. ASSUME NEW s \in Sources, NEW g \in history[s] PROVE Behind(s, g)' = Behind(s, g)
    <3>1. g.at <= clock /\ g.at \in Nat
      BY DEF Remembered, HistoryOK, TypeOK, TrackerOK, Failure
    <3>2. ~(att'[a].now < g.at)
      BY <1>0, <3>1
    <3> QED BY <1>0, <3>2 DEF Behind
  <2> QED BY <1>0, <2>1, SameHistory DEF Remembered, FewOvertaken
<1>4. LockedSince'
  <2>1. \A s \in Sources : Live(s)' = Live(s)
    BY <1>0 DEF Live, Triggers, Recent
  <2>2. x \notin dropped => Live(x) = {}
    BY NoneLive DEF Begin
  <2> QED BY <1>0, <2>1, <2>2 DEF Remembered, LockedSince, failures
<1> QED BY <1>1, <1>2, <1>3, <1>4 DEF Remembered

\* What a failure makes the tracker forget.
LEMMA FailureForgets ==
  ASSUME TypeOK, HistoryOK, NEW x \in Sources, NEW now \in Nat, RecordFailure(x, now),
         UNCHANGED kind,
         NEW s \in Sources \ dropped', NEW g \in history'[s] \ tracker'[s]
  PROVE  \/ g \in history[s] \ tracker[s]
         \/ now > g.at + Horizon(kind)
         \/ s = x /\ IsFiniteSet(After(s, g)') /\ Cardinality(After(s, g)') >= MaxKept
<1> DEFINE f    == [at |-> now, no |-> count]
           full == tracker[x] = {} /\ Cardinality(Tracked(tracker)) >= MaxTracked
           tr   == IF full THEN EvictStale(now) ELSE tracker
<1>1. /\ history \in [Sources -> SUBSET Failure] /\ tracker \in [Sources -> SUBSET Failure]
      /\ history' = [history EXCEPT ![x] = @ \union {f}] /\ f \in Failure
      /\ tr \in [Sources -> SUBSET Failure] /\ Horizon(kind) \in Nat
  BY EvictStaleType DEF TypeOK, TrackerOK, RecordFailure, Failure, Horizon
<1>2. /\ tr[s] \subseteq tracker[s]
      /\ \A h \in tracker[s] \ tr[s] : now > h.at + Horizon(kind)
  <2>1. tr[s] = tracker[s] \/ tr[s] = Pruned(kind, tracker[s], now)
    BY DEF EvictStale
  <2>2. \A h \in tracker[s] : h.at \in Nat
    BY <1>1 DEF Failure
  <2> HIDE DEF tr
  <2> QED BY <1>1, <2>1, <2>2 DEF Pruned
<1>3. \/ tracker' = tr /\ x \in dropped'
      \/ tracker' = [tr EXCEPT ![x] = Recorded(kind, @, f)]
  BY DEF RecordFailure
<1> HIDE DEF tr
<1>4. CASE s # x
  <2>1. tracker'[s] = tr[s] /\ history'[s] = history[s]
    BY <1>1, <1>3, <1>4
  <2> QED BY <1>2, <2>1
<1>5. CASE s = x
  <2>1. tracker'[s] = Newest(Pruned(kind, tr[s] \union {f}, now)) /\ f.at = now
    BY <1>1, <1>3, <1>5 DEF Recorded
  <2>2. history'[s] = history[s] \union {f}
    BY <1>1, <1>5
  <2> DEFINE P == Pruned(kind, tr[s] \union {f}, now)
  <2>3. CASE g \notin P
    <3>1. g = f \/ g \in history[s]
      BY <2>2
    <3>2. g \in tr[s] \union {f} => ~(now <= g.at + Horizon(kind)) /\ g.at \in Nat
      BY <1>1, <2>3 DEF Pruned, Failure
    <3>3. g \in tr[s] \union {f} => now > g.at + Horizon(kind)
      BY <1>1, <3>2
    <3>4. g \in history[s] \ tracker[s] \/ g \in tracker[s] \ tr[s] \/ g \in tr[s] \union {f}
      BY <3>1
    <3> QED BY <1>2, <3>3, <3>4
  <2>4. CASE g \in P
    <3> DEFINE M == {h \in P : h.no > g.no}
    <3>1. ~(Cardinality(M) < MaxKept)
      BY <2>1, <2>4 DEF Newest
    <3>2. P \subseteq history'[s] /\ IsFiniteSet(history'[s])
      <4>1. P \subseteq tr[s] \union {f}
        BY DEF Pruned
      <4>2. tracker[s] \subseteq history[s] /\ IsFiniteSet(history[s])
        BY DEF HistoryOK
      <4>3. IsFiniteSet(history[s] \union {f})
        BY <4>2, FS_AddElement
      <4> QED BY <1>2, <2>2, <4>1, <4>2, <4>3
    <3>3. M \subseteq After(s, g)' /\ After(s, g)' \subseteq history'[s]
      BY <3>2 DEF After
    <3>4. IsFiniteSet(After(s, g)')
      BY <3>2, <3>3, FS_Subset
    <3> HIDE DEF M
    <3>5. IsFiniteSet(M) /\ Cardinality(M) <= Cardinality(After(s, g)')
      BY <3>3, <3>4, FS_Subset
    <3>6. Cardinality(M) \in Nat /\ Cardinality(After(s, g)') \in Nat
      BY <3>4, <3>5, FS_CardinalityType
    <3>7. Cardinality(After(s, g)') >= MaxKept
      BY <3>1, <3>5, <3>6
    <3> QED BY <1>5, <3>4, <3>7
  <2> QED BY <2>3, <2>4
<1> QED BY <1>4, <1>5

LEMMA FailureRemembered ==
  ASSUME TypeOK, Remembered, EnoughKept, UNCHANGED <<kind, clock>>,
         NEW a \in Attempts, att[a].at = "lookup", End(a),
         RecordFailure(att[a].src, att[a].now),
         kind = "key" => ~Locked(kind, tracker[att[a].src], att[a].now)
  PROVE  Remembered'
<1> DEFINE x == att[a].src  now == att[a].now  f == [at |-> now, no |-> count]
<1>0. /\ x \in Sources /\ now \in Nat /\ now <= clock /\ clock \in Nat /\ count \in Nat
      /\ clock <= now + MaxFlight /\ MaxFlight \in Nat /\ kind \in Kinds
      /\ history \in [Sources -> SUBSET Failure]
  BY DEF TypeOK, TrackerOK, AttemptsOK, Remembered, InFlight
<1>1. Fewer /\ att'[a].at = "free" /\ \A b \in Attempts \ {a} : att'[b] = att[b]
  BY DEF Fewer, End, Free, TypeOK, AttemptsOK
<1>2. RecordFailure(x, now)
  OBVIOUS
<1>3. /\ history' = [history EXCEPT ![x] = @ \union {f}] /\ count' = count + 1
      /\ dropped \subseteq dropped' /\ f \in Failure /\ f.at = now /\ f.no = count
  BY <1>0 DEF RecordFailure, Failure
<1>4. history'[x] = history[x] \union {f}
      /\ \A s \in Sources \ {x} : history'[s] = history[s]
  BY <1>0, <1>3
<1>a. a \in Attempts /\ att[a].src = x /\ att[a].now = now
  OBVIOUS
<1>k. kind = "key" => ~Locked(kind, tracker[x], now)
  OBVIOUS
<1> HIDE DEF x, now, f
<1>5. InFlight'
  BY <1>1, FewerInFlight
<1>6. HistoryOK'
  <2>1. ASSUME NEW s \in Sources
        PROVE  IsFiniteSet(history'[s]) /\ \A g \in history'[s] : g.at <= clock /\ g.no < count + 1
    <3>1. IsFiniteSet(history[s]) /\ \A g \in history[s] : g.at <= clock /\ g.no < count
          /\ g.no \in Nat
      BY <1>0 DEF Remembered, HistoryOK, Failure
    <3>2. IsFiniteSet(history[s] \union {f})
      BY <3>1, FS_AddElement
    <3>3. history'[s] = history[s] \/ history'[s] = history[s] \union {f}
      BY <1>4
    <3>4. f.at <= clock /\ f.no < count + 1 /\ \A g \in history[s] : g.no < count + 1
      BY <1>0, <1>3, <3>1
    <3> QED BY <3>1, <3>2, <3>3, <3>4
  <2>2. ASSUME NEW s \in Sources PROVE tracker'[s] \subseteq history'[s]
    <3> DEFINE full == tracker[x] = {} /\ Cardinality(Tracked(tracker)) >= MaxTracked
               tr   == IF full THEN EvictStale(now) ELSE tracker
    <3>1. tracker' = tr \/ tracker' = [tr EXCEPT ![x] = Recorded(kind, @, f)]
      BY <1>2 DEF RecordFailure, f
    <3>2. tr \in [Sources -> SUBSET Failure] /\ tr[s] \subseteq tracker[s]
      BY EvictStaleType DEF TypeOK, TrackerOK
    <3>3. tracker[s] \subseteq history[s] /\ history[s] \subseteq history'[s]
      BY <1>0, <1>4 DEF Remembered, HistoryOK
    <3> HIDE DEF tr
    <3>4. tracker'[s] = tr[s] \/ (s = x /\ tracker'[s] = Recorded(kind, tr[s], f))
      BY <1>0, <3>1, <3>2
    <3> QED BY <1>4, <3>2, <3>3, <3>4, RecordedSubset
  <2> QED BY <1>3, <2>1, <2>2 DEF HistoryOK
<1>7. Forgotten'
  <2> SUFFICES ASSUME NEW s \in Sources \ dropped', NEW g \in history'[s] \ tracker'[s]
               PROVE  \/ clock > g.at + Horizon(kind)
                      \/ Cardinality(After(s, g)') >= MaxKept
    BY DEF Forgotten
  <2>1. CASE g \in history[s] \ tracker[s]
    <3>1. clock > g.at + Horizon(kind) \/ Cardinality(After(s, g)) >= MaxKept
      BY <1>3, <2>1 DEF Remembered, Forgotten
    <3>2. After(s, g) \subseteq After(s, g)' /\ After(s, g)' \subseteq history'[s]
      BY <1>0, <1>4 DEF After
    <3>3. IsFiniteSet(After(s, g)')
      BY <1>6, <3>2, FS_Subset DEF HistoryOK
    <3>4. /\ Cardinality(After(s, g)) <= Cardinality(After(s, g)')
          /\ Cardinality(After(s, g)) \in Nat /\ Cardinality(After(s, g)') \in Nat
      BY <3>2, <3>3, FS_Subset, FS_CardinalityType
    <3>5. Cardinality(After(s, g)) >= MaxKept => Cardinality(After(s, g)') >= MaxKept
      BY <3>4
    <3> QED BY <3>1, <3>5
  <2>2. CASE now > g.at + Horizon(kind)
    <3>1. g.at \in Nat /\ Horizon(kind) \in Nat
      BY <1>0, <1>3, <1>4 DEF Failure, Horizon
    <3>2. clock > g.at + Horizon(kind)
      BY <1>0, <2>2, <3>1
    <3> QED BY <3>2
  <2>3. HistoryOK
    BY DEF Remembered
  <2> QED BY <1>0, <1>2, <2>1, <2>2, <2>3, FailureForgets
<1>8. FewOvertaken'
  <2> SUFFICES ASSUME NEW s \in Sources, NEW g \in history'[s]
               PROVE  Cardinality(Overtaken(s, g)') + Cardinality(Behind(s, g)')
                        < Cardinality(Attempts)
    BY DEF FewOvertaken
  <2>0. Cardinality(Attempts) \in Nat
    BY FS_CardinalityType
  <2>1. CASE s # x
    BY <1>1, <1>4, <2>1, SourceKept
  <2>2. CASE s = x /\ g = f
    <3>1. Overtaken(s, g)' = {}
      <4>1. \A h \in history'[x] : ~(h.no > f.no)
        BY <1>0, <1>3, <1>4 DEF Remembered, HistoryOK, Failure
      <4> QED BY <2>2, <4>1 DEF Overtaken, After
    <3>2. Behind(s, g)' \in SUBSET (Attempts \ {a})
      BY <1>1 DEF Behind
    <3>3. IsFiniteSet(Attempts \ {a}) /\ Cardinality(Attempts \ {a}) = Cardinality(Attempts) - 1
      BY FS_RemoveElement
    <3>4. /\ IsFiniteSet(Behind(s, g)')
          /\ Cardinality(Behind(s, g)') <= Cardinality(Attempts \ {a})
      BY <3>2, <3>3, FS_Subset
    <3>5. Cardinality(Behind(s, g)') \in Nat /\ Cardinality(Overtaken(s, g)') = 0
      BY <3>1, <3>4, FS_CardinalityType, FS_EmptySet
    <3> QED BY <2>0, <3>3, <3>4, <3>5
  <2>3. CASE s = x /\ g # f
    <3>1. g \in history[s] /\ g.at \in Nat /\ g.no < count /\ g.no \in Nat
      BY <1>0, <1>4, <2>3 DEF Remembered, HistoryOK, Failure
    <3>2. Cardinality(Overtaken(s, g)) + Cardinality(Behind(s, g)) < Cardinality(Attempts)
      BY <3>1 DEF Remembered, FewOvertaken
    <3>3. /\ IsFiniteSet(Overtaken(s, g)) /\ Cardinality(Overtaken(s, g)) \in Nat
          /\ f \notin Overtaken(s, g)
      <4>1. f \notin history[s]
        BY <1>0, <1>3 DEF Remembered, HistoryOK
      <4> QED BY <4>1, OvertakenFinite DEF Overtaken, After
    <3>4. /\ IsFiniteSet(Behind(s, g)) /\ Cardinality(Behind(s, g)') <= Cardinality(Behind(s, g))
          /\ Cardinality(Behind(s, g)) \in Nat /\ Cardinality(Behind(s, g)') \in Nat
      BY <1>1, FewerBehind
    <3>5. CASE now < g.at
      <4>1. Overtaken(s, g)' \subseteq Overtaken(s, g) \union {f}
        BY <1>4, <2>3 DEF Overtaken, After
      <4>2. /\ IsFiniteSet(Overtaken(s, g) \union {f})
            /\ Cardinality(Overtaken(s, g) \union {f}) = Cardinality(Overtaken(s, g)) + 1
        BY <3>3, FS_AddElement
      <4>3. /\ IsFiniteSet(Overtaken(s, g)')
            /\ Cardinality(Overtaken(s, g)') <= Cardinality(Overtaken(s, g)) + 1
        BY <4>1, <4>2, FS_Subset
      <4>4. Cardinality(Overtaken(s, g)') \in Nat
        BY <4>3, FS_CardinalityType
      <4>5. a \in Behind(s, g) /\ Behind(s, g)' \subseteq Behind(s, g) \ {a}
        BY <1>1, <1>a, <2>3, <3>5, FewerBehind DEF Behind
      <4>6. /\ IsFiniteSet(Behind(s, g) \ {a})
            /\ Cardinality(Behind(s, g) \ {a}) = Cardinality(Behind(s, g)) - 1
        BY <3>4, <4>5, FS_RemoveElement
      <4>7. Cardinality(Behind(s, g)') <= Cardinality(Behind(s, g)) - 1
        BY <4>5, <4>6, FS_Subset
      <4> QED BY <2>0, <3>2, <3>3, <3>4, <4>3, <4>4, <4>7
    <3>6. CASE ~(now < g.at)
      <4>1. Overtaken(s, g)' = Overtaken(s, g)
        BY <1>3, <1>4, <2>3, <3>6 DEF Overtaken, After
      <4> QED BY <2>0, <3>2, <3>3, <3>4, <4>1
    <3> QED BY <3>5, <3>6
  <2> QED BY <2>1, <2>2, <2>3
<1>9. LockedSince'
  <2> SUFFICES ASSUME NEW s \in Sources \ dropped', NEW l \in Live(s)'
               PROVE  /\ \A g \in history'[s] : g.at <= l.at + MaxFlight
                      /\ \A b \in Attempts : kind = "login" /\ att'[b].at = "lookup"
                           /\ att'[b].src = s => att'[b].now <= l.at + MaxFlight
    BY DEF LockedSince
  <2>1. s \notin dropped
    BY <1>3
  <2>2. CASE s # x
    BY <1>1, <1>4, <2>1, <2>2, SourceKept
  <2>3. CASE s = x /\ l \in Live(s)
    <3>1. kind = "login"
      <4>1. CASE kind = "key"
        <5>1. tracker[s] \in SUBSET Failure
          BY DEF TypeOK, TrackerOK
        <5>2. ~Locked(kind, tracker[s], clock)
          BY <1>0, <1>k, <2>3, <4>1, <5>1, LockedEarlier
        <5> QED BY <2>1, <2>3, <5>2, NoneLive
      <4> QED BY <1>0, <4>1 DEF Kinds
    <3>2. /\ \A g \in history[s] : g.at <= l.at + MaxFlight
          /\ \A b \in Attempts : att[b].at = "lookup" /\ att[b].src = s =>
                                   att[b].now <= l.at + MaxFlight
      BY <2>1, <2>3, <3>1 DEF Remembered, LockedSince
    <3>3. now <= l.at + MaxFlight
      BY <1>a, <2>3, <3>2
    <3>4. \A g \in history'[s] : g.at <= l.at + MaxFlight
      BY <1>3, <1>4, <2>3, <3>2, <3>3
    <3> QED BY <1>1, <3>2, <3>4 DEF Fewer
  <2>4. CASE s = x /\ l \notin Live(s)
    <3>1. /\ l \in Triggers(kind, history'[s]) /\ clock < l.at + LockTime[kind]
          /\ history'[s] = history[s] \union {f}
      BY <1>4, <2>4 DEF Live
    <3>2. l \notin Triggers(kind, history[s])
      BY <2>4, <3>1 DEF Live
    <3>3. now <= l.at
      <4>1. CASE l = f
        BY <1>0, <1>3, <4>1
      <4>2. CASE l # f
        <5>1. l \in history[s]
          BY <3>1, <4>2 DEF Triggers
        <5>2. Recent(kind, history'[s], l.at) # Recent(kind, history[s], l.at)
          BY <3>1, <3>2, <5>1 DEF Triggers
        <5>3. f \in Recent(kind, history'[s], l.at)
          BY <3>1, <5>2 DEF Recent
        <5> QED BY <1>3, <5>3 DEF Recent
      <4> QED BY <4>1, <4>2
    <3>4. l.at \in Nat
      BY <1>0, <1>3, <3>1 DEF Triggers, Failure
    <3>5. clock <= l.at + MaxFlight
      BY <1>0, <3>3, <3>4
    <3>6. \A g \in history'[s] : g.at <= l.at + MaxFlight
      <4>1. \A g \in history'[s] : g.at <= clock /\ g.at \in Nat
        BY <1>0, <1>3, <1>6, <3>1 DEF HistoryOK, Failure
      <4> QED BY <1>0, <3>4, <3>5, <4>1
    <3>7. \A b \in Attempts : att[b].now <= l.at + MaxFlight
      <4>1. \A b \in Attempts : att[b].now <= clock /\ att[b].now \in Nat
        BY DEF TypeOK, AttemptsOK
      <4> QED BY <1>0, <3>4, <3>5, <4>1
    <3> QED BY <1>1, <3>6, <3>7 DEF Fewer
  <2> QED BY <2>2, <2>3, <2>4
<1> QED BY <1>5, <1>6, <1>7, <1>8, <1>9 DEF Remembered

LEMMA RememberedStep ==
  ASSUME EnoughKept, TypeOK, Remembered, [Next]_vars PROVE Remembered'
<1>1. ASSUME NEW a \in Attempts, Attempt(a) PROVE Remembered'
  <2>0. att[a].src \in Sources
    BY DEF TypeOK, AttemptsOK
  <2>1. CASE \E s \in Sources : Begin(a, s)
    BY <2>1, BeginRemembered
  <2>2. CASE LookupFails(a) \/ LoginAnswered(a) \/ LoginAbandoned(a)
    <3>1. Fewer /\ UNCHANGED <<kind, clock, failures>>
      BY <2>2 DEF LookupFails, LoginAnswered, LoginAbandoned, Fewer, End, Free, TypeOK,
                  AttemptsOK
    <3> QED BY <3>1, NothingRecorded
  <2>3. CASE Authenticate(a)
    <3>1. Fewer /\ UNCHANGED <<kind, clock>>
      BY <2>3 DEF Authenticate, Fewer, End, Free, TypeOK, AttemptsOK
    <3>2. \/ UNCHANGED failures \/ RecordSuccess(att[a].src)
          \/ /\ ~Locked(kind, tracker[att[a].src], att[a].now)
             /\ RecordFailure(att[a].src, att[a].now)
      BY <2>3 DEF Authenticate
    <3>3. att[a].at = "lookup" /\ End(a)
      BY <2>3 DEF Authenticate
    <3> QED BY <2>0, <3>1, <3>2, <3>3, NothingRecorded, SuccessRemembered, FailureRemembered
  <2>4. CASE LoginFails(a)
    BY <2>4, FailureRemembered DEF LoginFails
  <2>5. CASE LoginVerified(a)
    <3>1. UNCHANGED <<kind, clock>> /\ RecordSuccess(att[a].src)
      BY <2>5 DEF LoginVerified
    <3>2. Fewer
      BY <2>5 DEF LoginVerified, Fewer, TypeOK, AttemptsOK
    <3> QED BY <2>0, <3>1, <3>2, SuccessRemembered
  <2> QED BY <1>1, <2>1, <2>2, <2>3, <2>4, <2>5 DEF Attempt
<1>2. CASE (\E t \in Tokens : Authorize(t) \/ Logout(t)) \/ Sweep \/ UNCHANGED vars
  <2>1. UNCHANGED <<kind, clock, failures, att>>
    BY <1>2 DEF Authorize, Logout, Sweep, vars
  <2> QED BY <2>1, NothingRecorded DEF Fewer
<1> QED BY <1>1, <1>2, TickRemembered DEF Next

\* As long as an attempt takes no longer than a window, and what is kept of a
\* source has room for two thresholds and the attempts under way at once, the
\* lock is decided as all the failures since the last success would decide it:
\* neither pruning by age, nor the limit on what is kept, nor failures recorded
\* out of order change it (record_failure, evict_stale, is_locked_out).
THEOREM NothingThatMatters == ASSUME EnoughKept PROVE Spec => []DecidesAsFull
<1>1. TypeOK /\ Remembered => DecidesAsFull
  <2> SUFFICES ASSUME TypeOK, Remembered, NEW s \in Sources
               PROVE  /\ Locked(kind, tracker[s], clock) => Locked(kind, history[s], clock)
                      /\ s \notin dropped => (Locked(kind, history[s], clock)
                                                => Locked(kind, tracker[s], clock))
    BY DEF DecidesAsFull
  <2>1. kind \in Kinds /\ IsFiniteSet(history[s]) /\ tracker[s] \in SUBSET history[s]
    BY DEF TypeOK, TrackerOK, Remembered, HistoryOK
  <2>2. ASSUME Locked(kind, tracker[s], clock) PROVE Locked(kind, history[s], clock)
    BY <2>1, <2>2, MoreLocks DEF Locked
  <2>3. ASSUME s \notin dropped, ~Locked(kind, tracker[s], clock)
        PROVE  ~Locked(kind, history[s], clock)
    <3>1. Live(s) = {}
      BY <2>3, NoneLive
    <3> QED BY <3>1 DEF Locked, Live
  <2> QED BY <2>2, <2>3
<1>2. TypeOK /\ Remembered /\ [Next]_vars => Remembered'
  BY RememberedStep
<1> QED BY <1>1, <1>2, Typed, InitRemembered, PTL DEF Spec

-----------------------------------------------------------------------------
(* How many guesses a lock lets through.                                   *)

LEMMA FirstRecorded ==
  ASSUME NEW F \in SUBSET Failure, IsFiniteSet(F), F # {}, NEW n \in Nat,
         \A f \in F : f.no < n
  PROVE  \E x \in F : \A y \in F : x.no <= y.no
<1> DEFINE r == [f \in F |-> n - f.no]
<1>1. r \in [F -> Nat]
  BY DEF Failure
<1> HIDE DEF r
<1>2. PICK x \in F : \A y \in F : r[y] <= r[x]
  BY <1>1, Greatest
<1>3. \A y \in F : n - y.no <= n - x.no /\ y.no \in Nat /\ x.no \in Nat
  BY <1>2 DEF r, Failure
<1>4. \A y \in F : x.no <= y.no
  BY <1>3
<1> QED BY <1>4

\* Of failures with ranks of their own, the first Threshold.
LEMMA FirstOnes ==
  ASSUME NEW F \in SUBSET Failure, IsFiniteSet(F), Cardinality(F) >= Threshold,
         NEW n \in Nat, \A f \in F : f.no < n,
         \A f, g \in F : f.no = g.no => f = g
  PROVE  \E e \in F : Cardinality({h \in F : h.no <= e.no}) = Threshold
<1> DEFINE UpTo(e) == {h \in F : h.no <= e.no}
           S == {e \in F : Cardinality(UpTo(e)) >= Threshold}
<1>1. \A e \in F : /\ IsFiniteSet(UpTo(e)) /\ Cardinality(UpTo(e)) \in Nat
                   /\ UpTo(e) \in SUBSET Failure
  <2>1. \A e \in F : UpTo(e) \in SUBSET F
    OBVIOUS
  <2> HIDE DEF UpTo
  <2>2. \A e \in F : IsFiniteSet(UpTo(e))
    BY <2>1, FS_Subset
  <2> QED BY <2>1, <2>2, FS_CardinalityType
<1>2. S # {} /\ S \in SUBSET F
  <2>1. F # {}
    BY FS_EmptySet
  <2>2. PICK x \in F : \A y \in F : y.no <= x.no
    BY <2>1, LastRecorded
  <2>3. UpTo(x) = F
    BY <2>2
  <2> QED BY <2>3
<1>3. IsFiniteSet(S) /\ S \in SUBSET Failure /\ \A f \in S : f.no < n
  BY <1>2, FS_Subset
<1>4. PICK e \in S : \A y \in S : e.no <= y.no
  BY <1>2, <1>3, FirstRecorded
<1>5. e \in F /\ Cardinality(UpTo(e)) >= Threshold
  BY <1>4
<1> DEFINE B == UpTo(e) \ {e}
<1>6. /\ IsFiniteSet(B) /\ Cardinality(B) = Cardinality(UpTo(e)) - 1 /\ Cardinality(B) \in Nat
      /\ B \in SUBSET F /\ \A h \in B : h.no < e.no /\ h.no \in Nat /\ e.no \in Nat
  <2>1. e \in UpTo(e)
    BY <1>5 DEF Failure
  <2>2. IsFiniteSet(B) /\ Cardinality(B) = Cardinality(UpTo(e)) - 1
    BY <1>1, <1>5, <2>1, FS_RemoveElement
  <2>3. \A h \in B : h \in F /\ h.no <= e.no /\ h # e /\ h.no \in Nat /\ e.no \in Nat
    BY <1>5 DEF Failure
  <2>4. \A h \in B : h.no < e.no
    <3> SUFFICES ASSUME NEW h \in B PROVE h.no < e.no
      OBVIOUS
    <3>1. h.no # e.no /\ h.no <= e.no /\ h.no \in Nat /\ e.no \in Nat
      BY <1>5, <2>3
    <3> QED BY <3>1
  <2>5. Cardinality(B) \in Nat
    BY <2>2, FS_CardinalityType
  <2> HIDE DEF B
  <2> QED BY <2>2, <2>3, <2>4, <2>5
<1>7. Cardinality(B) < Threshold
  <2> SUFFICES ASSUME Cardinality(B) >= Threshold PROVE FALSE
    BY <1>6
  <2> HIDE DEF B, UpTo
  <2>1. B # {}
    <3>1. B = {} => Cardinality(B) = 0
      BY FS_EmptySet
    <3> QED BY <3>1
  <2>2. B \in SUBSET Failure
    BY <1>6
  <2>3. PICK d \in B : \A y \in B : y.no <= d.no
    BY <1>6, <2>1, <2>2, LastRecorded
  <2>4. d \in F /\ d.no < e.no /\ d.no \in Nat /\ e.no \in Nat
    BY <1>6
  <2>5. B \subseteq UpTo(d)
    BY <1>6, <2>3 DEF UpTo
  <2>6. IsFiniteSet(UpTo(d)) /\ Cardinality(UpTo(d)) \in Nat
    BY <1>1, <2>4
  <2>7. Cardinality(B) <= Cardinality(UpTo(d)) /\ Cardinality(B) \in Nat
    BY <1>6, <2>5, <2>6, FS_Subset
  <2>8. d \in S
    BY <2>4, <2>6, <2>7
  <2> QED BY <1>4, <2>4, <2>8
<1>8. Cardinality(UpTo(e)) = Threshold
  BY <1>1, <1>5, <1>6, <1>7
<1> QED BY <1>5, <1>8

-----------------------------------------------------------------------------
UpTo(s, e) == {h \in history[s] : h.no <= e.no}

\* After a trigger m was complete with e: the failures and the attempts that
\* began before its lock could hold them off.
Through(s, e, m) == {h \in After(s, e) : h.at < m.at + LockTime[kind]}
Coming(s, m) == {a \in Attempts :
  att[a].at = "lookup" /\ att[a].src = s /\ att[a].now < m.at + LockTime[kind]}

Ranked == \A s \in Sources : \A g, h \in history[s] : g.no = h.no => g = h
FewThrough == kind = "login" =>
  \A s \in Sources \ dropped : \A e \in history[s] :
    \A m \in Triggers(kind, UpTo(s, e)) :
      Cardinality(Through(s, e, m)) + Cardinality(Coming(s, m)) < Cardinality(Attempts)
\* The failures in the window that ends with f.
Guesses(s, f) == {g \in history[s] : g.at <= f.at /\ f.at < g.at + Window[kind]}
KeyGuesses == kind = "key" =>
  \A s \in Sources \ dropped : \A f \in history[s] : Cardinality(Guesses(s, f)) <= Threshold

Counted == Ranked /\ FewThrough /\ KeyGuesses

LocksOutlast ==
  /\ \A k \in Kinds : Window[k] <= LockTime[k]
  /\ Window["key"] + MaxFlight <= LockTime["key"]

LEMMA InitCounted == Init => Counted
BY DEF Init, Counted, Ranked, FewThrough, KeyGuesses

LEMMA SetsFinite ==
  ASSUME TypeOK, Remembered, NEW s \in Sources, NEW e, NEW m
  PROVE  /\ IsFiniteSet(Through(s, e, m)) /\ Cardinality(Through(s, e, m)) \in Nat
         /\ IsFiniteSet(Coming(s, m)) /\ Cardinality(Coming(s, m)) \in Nat
         /\ IsFiniteSet(Guesses(s, e)) /\ Cardinality(Guesses(s, e)) \in Nat
<1>1. /\ Through(s, e, m) \in SUBSET history[s] /\ Guesses(s, e) \in SUBSET history[s]
      /\ Coming(s, m) \in SUBSET Attempts /\ IsFiniteSet(history[s])
  BY DEF Through, After, Guesses, Coming, Remembered, HistoryOK
<1>2. /\ IsFiniteSet(Through(s, e, m)) /\ IsFiniteSet(Guesses(s, e))
      /\ IsFiniteSet(Coming(s, m))
  BY <1>1, FS_Subset
<1> QED BY <1>2, FS_CardinalityType

\* A source whose failures stay what they are.
LEMMA SourceCounted ==
  ASSUME TypeOK, Remembered, Counted, Fewer, UNCHANGED kind,
         NEW s \in Sources \ dropped, history'[s] = history[s]
  PROVE  /\ kind = "login" => \A e \in history'[s] : \A m \in Triggers(kind, UpTo(s, e)') :
              Cardinality(Through(s, e, m)') + Cardinality(Coming(s, m)')
                < Cardinality(Attempts)
         /\ kind = "key" =>
              \A f \in history'[s] : Cardinality(Guesses(s, f)') <= Threshold
<1>1. ASSUME kind = "login", NEW e \in history[s], NEW m \in Triggers(kind, UpTo(s, e))
      PROVE  Cardinality(Through(s, e, m)') + Cardinality(Coming(s, m)')
               < Cardinality(Attempts)
  <2>1. Cardinality(Through(s, e, m)) + Cardinality(Coming(s, m)) < Cardinality(Attempts)
    BY <1>1 DEF Counted, FewThrough
  <2>2. Through(s, e, m)' = Through(s, e, m)
    BY DEF Through, After
  <2>3. Coming(s, m)' \subseteq Coming(s, m)
    BY DEF Coming, Fewer
  <2>4. /\ IsFiniteSet(Coming(s, m)) /\ Cardinality(Coming(s, m)) \in Nat
        /\ Cardinality(Through(s, e, m)) \in Nat /\ Cardinality(Attempts) \in Nat
    BY SetsFinite, FS_CardinalityType
  <2>5. Cardinality(Coming(s, m)') <= Cardinality(Coming(s, m))
        /\ Cardinality(Coming(s, m)') \in Nat
    BY <2>3, <2>4, FS_Subset, FS_CardinalityType
  <2> QED BY <2>1, <2>2, <2>4, <2>5
<1>2. \A e : UpTo(s, e)' = UpTo(s, e) /\ Guesses(s, e)' = Guesses(s, e)
  BY DEF UpTo, Guesses
<1> QED BY <1>1, <1>2 DEF Counted, KeyGuesses

LEMMA NothingCounted ==
  ASSUME TypeOK, Remembered, Counted, Fewer, UNCHANGED <<kind, failures>> PROVE Counted'
<1>1. UNCHANGED <<history, dropped>> /\ \A s \in Sources : history'[s] = history[s]
  BY DEF failures
<1>2. Ranked'
  BY <1>1 DEF Counted, Ranked
<1> QED BY <1>1, <1>2, SourceCounted DEF Counted, FewThrough, KeyGuesses

LEMMA SuccessCounted ==
  ASSUME TypeOK, Remembered, Counted, Fewer, UNCHANGED kind,
         NEW x \in Sources, RecordSuccess(x)
  PROVE  Counted'
<1>1. /\ history'[x] = {} /\ dropped' = dropped \ {x}
      /\ \A s \in Sources \ {x} : history'[s] = history[s]
  BY DEF TypeOK, TrackerOK, RecordSuccess
<1>2. Ranked'
  BY <1>1 DEF Counted, Ranked
<1> QED BY <1>1, <1>2, SourceCounted DEF Counted, FewThrough, KeyGuesses

LEMMA BeginCounted ==
  ASSUME TypeOK, Remembered, Counted, EnoughKept, NEW a \in Attempts, NEW x \in Sources,
         Begin(a, x)
  PROVE  Counted'
<1>0. /\ UNCHANGED <<kind, clock, failures, history, dropped>>
      /\ att'[a] = [at |-> "lookup", src |-> x, now |-> clock, token |-> NoToken]
      /\ \A b \in Attempts \ {a} : att'[b] = att[b]
  BY DEF Begin, TypeOK, AttemptsOK, failures
<1>1. Ranked' /\ KeyGuesses'
  BY <1>0 DEF Counted, Ranked, KeyGuesses, Guesses
<1>2. FewThrough'
  <2> SUFFICES ASSUME kind = "login", NEW s \in Sources \ dropped, NEW e \in history[s],
                      NEW m \in Triggers(kind, UpTo(s, e))
               PROVE  Cardinality(Through(s, e, m)') + Cardinality(Coming(s, m)')
                        < Cardinality(Attempts)
    BY <1>0 DEF FewThrough, UpTo
  <2>1. Cardinality(Through(s, e, m)) + Cardinality(Coming(s, m)) < Cardinality(Attempts)
    BY DEF Counted, FewThrough
  <2>2. Through(s, e, m)' = Through(s, e, m)
    BY <1>0 DEF Through, After
  <2>3. Coming(s, m)' \subseteq Coming(s, m)
    <3>1. CASE s = x
      <4>1. IsFiniteSet(history[s]) /\ UpTo(s, e) \in SUBSET history[s] /\ kind \in Kinds
        BY DEF Remembered, HistoryOK, UpTo, TypeOK, TrackerOK
      <4>2. m \in Triggers(kind, history[s])
        BY <4>1, MoreLocks
      <4>3. Live(s) = {}
        BY <3>1, NoneLive DEF Begin
      <4>4. ~(clock < m.at + LockTime[kind])
        BY <4>2, <4>3 DEF Live
      <4> QED BY <1>0, <4>4 DEF Coming
    <3>2. CASE s # x
      BY <1>0, <3>2 DEF Coming
    <3> QED BY <3>1, <3>2
  <2>4. /\ IsFiniteSet(Coming(s, m)) /\ Cardinality(Coming(s, m)) \in Nat
        /\ Cardinality(Through(s, e, m)) \in Nat /\ Cardinality(Attempts) \in Nat
    BY SetsFinite, FS_CardinalityType
  <2>5. Cardinality(Coming(s, m)') <= Cardinality(Coming(s, m))
        /\ Cardinality(Coming(s, m)') \in Nat
    BY <2>3, <2>4, FS_Subset, FS_CardinalityType
  <2> QED BY <2>1, <2>2, <2>4, <2>5
<1> QED BY <1>1, <1>2 DEF Counted

LEMMA FailureCounted ==
  ASSUME TypeOK, Remembered, Remembered', Counted, EnoughKept, LocksOutlast,
         UNCHANGED <<kind, clock>>,
         NEW a \in Attempts, att[a].at = "lookup", End(a),
         RecordFailure(att[a].src, att[a].now),
         kind = "key" => ~Locked(kind, tracker[att[a].src], att[a].now)
  PROVE  Counted'
<1> DEFINE x == att[a].src  now == att[a].now  f == [at |-> now, no |-> count]
<1>0. /\ x \in Sources /\ now \in Nat /\ now <= clock /\ clock \in Nat /\ count \in Nat
      /\ clock <= now + MaxFlight /\ MaxFlight \in Nat /\ kind \in Kinds
      /\ history \in [Sources -> SUBSET Failure]
  BY DEF TypeOK, TrackerOK, AttemptsOK, Remembered, InFlight
<1>1. Fewer /\ att'[a].at = "free" /\ \A b \in Attempts \ {a} : att'[b] = att[b]
  BY DEF Fewer, End, Free, TypeOK, AttemptsOK
<1>3. /\ history' = [history EXCEPT ![x] = @ \union {f}]
      /\ dropped \subseteq dropped' /\ f \in Failure /\ f.at = now /\ f.no = count
  BY <1>0 DEF RecordFailure, Failure
<1>4. history'[x] = history[x] \union {f}
      /\ \A s \in Sources \ {x} : history'[s] = history[s]
  BY <1>0, <1>3
<1>a. a \in Attempts /\ att[a].src = x /\ att[a].now = now
  OBVIOUS
<1>k. kind = "key" => ~Locked(kind, tracker[x], now)
  OBVIOUS
<1> HIDE DEF x, now, f
<1>5. \A s \in Sources : \A g \in history[s] : g.no < count /\ g.no \in Nat /\ g.at \in Nat
  BY <1>0 DEF Remembered, HistoryOK, Failure
<1>6. Ranked'
  <2>1. ASSUME NEW s \in Sources, NEW g \in history'[s], NEW h \in history'[s], g.no = h.no
        PROVE  g = h
    <3>1. g \in history[s] /\ h \in history[s] => g = h
      BY <2>1 DEF Counted, Ranked
    <3>2. g # f => g \in history[s] /\ g.no < count /\ g.no \in Nat
      BY <1>4, <1>5
    <3>3. h # f => h \in history[s] /\ h.no < count /\ h.no \in Nat
      BY <1>4, <1>5
    <3>4. g # f => g.no # count
      BY <1>0, <3>2
    <3>5. h # f => h.no # count
      BY <1>0, <3>3
    <3> QED BY <1>3, <2>1, <3>1, <3>2, <3>3, <3>4, <3>5
  <2> QED BY <2>1 DEF Ranked
<1>7. FewThrough'
  <2> SUFFICES ASSUME kind = "login", NEW s \in Sources \ dropped', NEW e \in history'[s],
                      NEW m \in Triggers(kind, UpTo(s, e)')
               PROVE  Cardinality(Through(s, e, m)') + Cardinality(Coming(s, m)')
                        < Cardinality(Attempts)
    BY DEF FewThrough
  <2>0. Cardinality(Attempts) \in Nat /\ s \in Sources \ dropped
    BY <1>3, FS_CardinalityType
  <2>1. CASE s # x
    BY <1>1, <1>4, <2>0, <2>1, SourceCounted
  <2>2. CASE s = x /\ e = f
    <3>1. Through(s, e, m)' = {}
      <4>1. \A h \in history'[x] : ~(h.no > f.no)
        BY <1>0, <1>3, <1>4, <1>5
      <4> QED BY <2>2, <4>1 DEF Through, After
    <3>2. Coming(s, m)' \in SUBSET (Attempts \ {a})
      BY <1>1 DEF Coming
    <3>3. IsFiniteSet(Attempts \ {a}) /\ Cardinality(Attempts \ {a}) = Cardinality(Attempts) - 1
      BY FS_RemoveElement
    <3>4. IsFiniteSet(Coming(s, m)') /\ Cardinality(Coming(s, m)') <= Cardinality(Attempts \ {a})
      BY <3>2, <3>3, FS_Subset
    <3>5. Cardinality(Coming(s, m)') \in Nat /\ Cardinality(Through(s, e, m)') = 0
      BY <3>1, <3>4, FS_CardinalityType, FS_EmptySet
    <3> QED BY <2>0, <3>3, <3>4, <3>5
  <2>3. CASE s = x /\ e # f
    <3>1. e \in history[s] /\ e.no < count
      BY <1>4, <1>5, <2>0, <2>3
    <3>2. UpTo(s, e)' = UpTo(s, e)
      <4>1. ~(f.no <= e.no)
        BY <1>0, <1>3, <1>5, <2>0, <3>1
      <4> QED BY <1>4, <2>3, <4>1 DEF UpTo
    <3>3. Cardinality(Through(s, e, m)) + Cardinality(Coming(s, m)) < Cardinality(Attempts)
      BY <2>0, <3>1, <3>2 DEF Counted, FewThrough
    <3>4. /\ IsFiniteSet(Through(s, e, m)) /\ Cardinality(Through(s, e, m)) \in Nat
          /\ IsFiniteSet(Coming(s, m)) /\ Cardinality(Coming(s, m)) \in Nat
      BY SetsFinite
    <3>5. Coming(s, m)' \subseteq Coming(s, m) \ {a}
      BY <1>1 DEF Coming, Fewer
    <3>6. CASE now < m.at + LockTime[kind]
      <4>1. Through(s, e, m)' \subseteq Through(s, e, m) \union {f}
        BY <1>4, <2>3 DEF Through, After
      <4>2. f \notin Through(s, e, m)
        BY <1>0, <1>3, <1>5, <2>0 DEF Through, After
      <4>3. /\ IsFiniteSet(Through(s, e, m) \union {f})
            /\ Cardinality(Through(s, e, m) \union {f}) = Cardinality(Through(s, e, m)) + 1
        BY <3>4, <4>2, FS_AddElement
      <4>4. /\ IsFiniteSet(Through(s, e, m)')
            /\ Cardinality(Through(s, e, m)') <= Cardinality(Through(s, e, m)) + 1
        BY <4>1, <4>3, FS_Subset
      <4>5. a \in Coming(s, m)
        BY <1>a, <2>3, <3>6 DEF Coming
      <4>6. /\ IsFiniteSet(Coming(s, m) \ {a})
            /\ Cardinality(Coming(s, m) \ {a}) = Cardinality(Coming(s, m)) - 1
        BY <3>4, <4>5, FS_RemoveElement
      <4>7. IsFiniteSet(Coming(s, m)') /\ Cardinality(Coming(s, m)') <= Cardinality(Coming(s, m)) - 1
        BY <3>5, <4>6, FS_Subset
      <4>8. Cardinality(Coming(s, m)') \in Nat /\ Cardinality(Through(s, e, m)') \in Nat
        BY <4>4, <4>7, FS_CardinalityType
      <4> QED BY <2>0, <3>3, <3>4, <4>4, <4>7, <4>8
    <3>7. CASE ~(now < m.at + LockTime[kind])
      <4>1. Through(s, e, m)' = Through(s, e, m)
        BY <1>3, <1>4, <2>3, <3>7 DEF Through, After
      <4>2. IsFiniteSet(Coming(s, m)') /\ Cardinality(Coming(s, m)') <= Cardinality(Coming(s, m))
        BY <3>4, <3>5, FS_Subset
      <4>3. Cardinality(Coming(s, m)') \in Nat
        BY <4>2, FS_CardinalityType
      <4> QED BY <2>0, <3>3, <3>4, <4>1, <4>2, <4>3
    <3> QED BY <3>6, <3>7
  <2> QED BY <2>1, <2>2, <2>3
<1>8. KeyGuesses'
  <2> SUFFICES ASSUME kind = "key", NEW s \in Sources \ dropped', NEW l \in history'[s]
               PROVE  Cardinality(Guesses(s, l)') <= Threshold
    BY DEF KeyGuesses
  <2>0. s \in Sources \ dropped /\ Window[kind] \in Nat /\ LockTime[kind] \in Nat
        /\ Window[kind] + MaxFlight <= LockTime[kind]
    BY <1>0, <1>3 DEF LocksOutlast, Kinds
  <2>1. CASE s # x
    BY <1>1, <1>4, <2>0, <2>1, SourceCounted
  <2>2. CASE s = x /\ f \in Guesses(s, l)'
    <3> DEFINE G == Guesses(s, l)' \ {f}
    <3>1. /\ G \in SUBSET history[s] /\ IsFiniteSet(history[s])
          /\ history[s] \in SUBSET Failure
      BY <1>0, <1>4, <2>2 DEF Guesses, Remembered, HistoryOK
    <3>2. IsFiniteSet(G)
      BY <3>1, FS_Subset
    <3>3. l.at \in Nat /\ now <= l.at
      BY <1>0, <1>3, <1>4, <2>2 DEF Guesses, Failure
    <3>4. \A g \in G : g.at <= l.at /\ l.at < g.at + Window[kind] /\ g.at \in Nat
      BY <1>5, <2>0, <3>1 DEF Guesses
    <3> HIDE DEF G
    <3>5. ~(Cardinality(G) >= Threshold)
      <4> SUFFICES ASSUME Cardinality(G) >= Threshold PROVE FALSE
        OBVIOUS
      <4> DEFINE from == IF l.at >= Window[kind] THEN l.at - Window[kind] ELSE 0
      <4>1. from \in Nat /\ \A g \in G : from <= g.at /\ g.at <= from + Window[kind]
        BY <2>0, <3>3, <3>4
      <4> HIDE DEF from
      <4>2. PICK m \in Triggers(kind, history[s]) : m \in G
        BY <1>0, <3>1, <4>1, WindowLocks
      <4>3. Live(s) = {}
        <5>1. tracker[s] \in SUBSET Failure
          BY DEF TypeOK, TrackerOK
        <5>2. ~Locked(kind, tracker[s], clock)
          BY <1>0, <1>k, <2>2, <5>1, LockedEarlier
        <5> QED BY <2>0, <5>2, NoneLive
      <4>4. ~(clock < m.at + LockTime[kind])
        BY <4>2, <4>3 DEF Live
      <4>5. m.at \in Nat /\ l.at < m.at + Window[kind]
        BY <3>4, <4>2
      <4> QED BY <1>0, <2>0, <3>3, <4>4, <4>5
    <3>6. /\ IsFiniteSet(G \union {f}) /\ Cardinality(G \union {f}) = Cardinality(G) + 1
      BY <3>2, FS_AddElement DEF G
    <3>7. G \union {f} = Guesses(s, l)'
      BY <2>2 DEF G
    <3>8. Cardinality(G) \in Nat /\ Cardinality(G) < Threshold
      BY <3>2, <3>5, FS_CardinalityType
    <3>9. Cardinality(G) + 1 <= Threshold
      BY <3>8
    <3>10. Cardinality(Guesses(s, l)') = Cardinality(G) + 1
      BY <3>6, <3>7
    <3> QED BY <3>9, <3>10
  <2>3. CASE s = x /\ f \notin Guesses(s, l)'
    <3>1. CASE l = f
      <4>1. Window[kind] = 0
        BY <1>0, <1>3, <1>4, <2>0, <2>3, <3>1 DEF Guesses
      <4>2. Guesses(s, l)' = {}
        <5>1. \A g \in history'[s] : g.at \in Nat
          BY <1>0, <1>3, <1>4, <1>5, <2>3
        <5>2. l.at \in Nat
          BY <5>1
        <5> QED BY <4>1, <5>1, <5>2 DEF Guesses
      <4> QED BY <4>2, FS_EmptySet
    <3>2. CASE l # f
      <4>1. l \in history[s]
        BY <1>4, <2>3, <3>2
      <4>2. Guesses(s, l)' = Guesses(s, l)
        BY <1>4, <2>3 DEF Guesses
      <4> QED BY <2>0, <4>1, <4>2 DEF Counted, KeyGuesses
    <3> QED BY <3>1, <3>2
  <2> QED BY <2>1, <2>2, <2>3
<1> QED BY <1>6, <1>7, <1>8 DEF Counted

LEMMA CountedStep ==
  ASSUME EnoughKept, LocksOutlast, TypeOK, Remembered, Remembered', Counted, [Next]_vars
  PROVE  Counted'
<1>1. ASSUME NEW a \in Attempts, Attempt(a) PROVE Counted'
  <2>0. att[a].src \in Sources
    BY DEF TypeOK, AttemptsOK
  <2>1. CASE \E s \in Sources : Begin(a, s)
    BY <2>1, BeginCounted
  <2>2. CASE LookupFails(a) \/ LoginAnswered(a) \/ LoginAbandoned(a)
    <3>1. Fewer /\ UNCHANGED <<kind, failures>>
      BY <2>2 DEF LookupFails, LoginAnswered, LoginAbandoned, Fewer, End, Free, TypeOK,
                  AttemptsOK
    <3> QED BY <3>1, NothingCounted
  <2>3. CASE Authenticate(a)
    <3>1. Fewer /\ UNCHANGED <<kind, clock>>
      BY <2>3 DEF Authenticate, Fewer, End, Free, TypeOK, AttemptsOK
    <3>2. \/ UNCHANGED failures \/ RecordSuccess(att[a].src)
          \/ /\ ~Locked(kind, tracker[att[a].src], att[a].now)
             /\ RecordFailure(att[a].src, att[a].now)
      BY <2>3 DEF Authenticate
    <3>3. att[a].at = "lookup" /\ End(a)
      BY <2>3 DEF Authenticate
    <3> QED BY <2>0, <3>1, <3>2, <3>3, NothingCounted, SuccessCounted, FailureCounted
  <2>4. CASE LoginFails(a)
    BY <2>4, FailureCounted DEF LoginFails
  <2>5. CASE LoginVerified(a)
    <3>1. UNCHANGED <<kind, clock>> /\ RecordSuccess(att[a].src)
      BY <2>5 DEF LoginVerified
    <3>2. Fewer
      BY <2>5 DEF LoginVerified, Fewer, TypeOK, AttemptsOK
    <3> QED BY <2>0, <3>1, <3>2, SuccessCounted
  <2> QED BY <1>1, <2>1, <2>2, <2>3, <2>4, <2>5 DEF Attempt
<1>2. CASE (\E t \in Tokens : Authorize(t) \/ Logout(t)) \/ Sweep \/ Tick \/ UNCHANGED vars
  <2>1. UNCHANGED <<kind, failures, att>>
    BY <1>2 DEF Authorize, Logout, Sweep, Tick, vars
  <2> QED BY <2>1, NothingCounted DEF Fewer
<1> QED BY <1>1, <1>2 DEF Next

\* Of the failures in a window the first Threshold lock; the others were let
\* through before the lock could hold them off.
LEMMA FewGuesses ==
  ASSUME TypeOK, Remembered, Counted, LocksOutlast, kind = "login",
         NEW s \in Sources \ dropped, NEW f \in history[s]
  PROVE  Cardinality(Guesses(s, f)) < Threshold + Cardinality(Attempts)
<1> DEFINE G == Guesses(s, f)  A == Cardinality(Attempts)
<1>1. /\ history[s] \in SUBSET Failure /\ IsFiniteSet(history[s]) /\ count \in Nat
      /\ \A g \in history[s] : g.no < count /\ g.no \in Nat /\ g.at \in Nat
      /\ Window[kind] \in Nat /\ LockTime[kind] \in Nat /\ Window[kind] <= LockTime[kind]
      /\ kind \in Kinds /\ Threshold \in Nat \ {0}
  BY DEF TypeOK, TrackerOK, Remembered, HistoryOK, LocksOutlast, Failure
<1>2. G \in SUBSET history[s] /\ IsFiniteSet(G) /\ Cardinality(G) \in Nat /\ A \in Nat
  BY SetsFinite, FS_CardinalityType DEF Guesses
<1>3. \A g \in G : g.at <= f.at /\ f.at < g.at + Window[kind]
  BY DEF Guesses
<1> SUFFICES ASSUME Cardinality(G) >= Threshold + A PROVE FALSE
  BY <1>1, <1>2
<1> HIDE DEF G
<1>4. Cardinality(G) >= Threshold /\ G \in SUBSET Failure
  BY <1>1, <1>2
<1>5. PICK e \in G : Cardinality({h \in G : h.no <= e.no}) = Threshold
  <2>1. \A g, h \in G : g.no = h.no => g = h
    BY <1>2 DEF Counted, Ranked
  <2>2. \A g \in G : g.no < count
    BY <1>1, <1>2
  <2> QED BY <1>1, <1>2, <1>4, <2>1, <2>2, FirstOnes
<1> DEFINE First == {h \in G : h.no <= e.no}
<1>6. /\ First \in SUBSET G /\ First \in SUBSET UpTo(s, e) /\ IsFiniteSet(First)
      /\ UpTo(s, e) \in SUBSET history[s]
  <2>1. First \in SUBSET G /\ First \in SUBSET UpTo(s, e) /\ UpTo(s, e) \in SUBSET history[s]
    BY <1>2 DEF UpTo
  <2> QED BY <1>2, <2>1, FS_Subset
<1>7. G \ First \in SUBSET After(s, e)
  BY <1>1, <1>2, <1>5 DEF After
<1>8. Cardinality(First) = Threshold
  BY <1>5
<1> HIDE DEF First
<1>9. PICK m \in Triggers(kind, UpTo(s, e)) : m \in First
  <2> DEFINE from == IF f.at >= Window[kind] THEN f.at - Window[kind] ELSE 0
  <2>1. /\ from \in Nat
        /\ \A g \in First : from <= g.at /\ g.at <= from + Window[kind]
    <3>1. f.at \in Nat
      BY <1>1
    <3>2. \A g \in First : g.at <= f.at /\ f.at < g.at + Window[kind] /\ g.at \in Nat
      BY <1>1, <1>2, <1>3, <1>6
    <3> QED BY <1>1, <3>1, <3>2
  <2> HIDE DEF from
  <2>2. /\ UpTo(s, e) \in SUBSET Failure /\ IsFiniteSet(UpTo(s, e))
        /\ Cardinality(First) >= Threshold
    BY <1>1, <1>6, <1>8, FS_Subset
  <2> QED BY <1>1, <1>6, <2>1, <2>2, WindowLocks
<1>10. G \ First \in SUBSET Through(s, e, m)
  <2>1. m.at \in Nat /\ f.at < m.at + Window[kind] /\ f.at \in Nat
    BY <1>1, <1>2, <1>3, <1>6, <1>9
  <2>2. f.at < m.at + LockTime[kind]
    BY <1>1, <2>1
  <2>3. \A g \in G : g.at < m.at + LockTime[kind]
    BY <1>1, <1>2, <1>3, <2>1, <2>2
  <2> QED BY <1>7, <2>3 DEF Through
<1>11. /\ IsFiniteSet(G \ First)
       /\ Cardinality(G \ First) = Cardinality(G) - Cardinality(First)
  <2>1. G \cap First = First
    BY <1>6
  <2> QED BY <1>2, <2>1, FS_Difference
<1>12. /\ Cardinality(Through(s, e, m)) >= A
       /\ Cardinality(Through(s, e, m)) \in Nat /\ Cardinality(Coming(s, m)) \in Nat
  <2>1. IsFiniteSet(Through(s, e, m)) /\ Cardinality(Through(s, e, m)) \in Nat
        /\ Cardinality(Coming(s, m)) \in Nat
    BY SetsFinite
  <2>2. Cardinality(G \ First) <= Cardinality(Through(s, e, m))
    BY <1>10, <2>1, FS_Subset
  <2>3. Cardinality(G \ First) >= A
    BY <1>1, <1>2, <1>8, <1>11
  <2> QED BY <1>2, <1>11, <2>1, <2>2, <2>3, FS_CardinalityType
<1>13. Cardinality(Through(s, e, m)) + Cardinality(Coming(s, m)) < A
  BY <1>2, <1>5, <1>9 DEF Counted, FewThrough
<1> HIDE DEF A
<1> QED BY <1>2, <1>12, <1>13

\* As long as a lock lasts at least as long as the window that sets it (for a
\* key, whose window is a minute and whose lock is five, by the time an attempt
\* takes longer), no window holds more failures of a source than lock it, and
\* for logins those that were under way with the last of them (auth_middleware,
\* perform_login).
THEOREM GuessesAreFew == ASSUME EnoughKept, LocksOutlast PROVE Spec => []GuessesBounded
<1>1. TypeOK /\ Remembered /\ Counted => GuessesBounded
  <2> SUFFICES ASSUME TypeOK, Remembered, Counted, NEW s \in Sources \ dropped,
                      NEW f \in history[s]
               PROVE  Cardinality(Guesses(s, f)) <= Threshold + Overshoot
    BY DEF GuessesBounded, Guesses
  <2>1. CASE kind = "key"
    <3>1. Cardinality(Guesses(s, f)) <= Threshold
      BY <2>1 DEF Counted, KeyGuesses
    <3> QED BY <2>1, <3>1 DEF Overshoot
  <2>2. CASE kind = "login"
    <3>1. Cardinality(Guesses(s, f)) < Threshold + Cardinality(Attempts)
      BY <2>2, FewGuesses
    <3>2. Cardinality(Attempts) \in Nat /\ Cardinality(Guesses(s, f)) \in Nat
      BY SetsFinite, FS_CardinalityType
    <3>3. Overshoot = Cardinality(Attempts) - 1
      BY <2>2 DEF Overshoot
    <3> QED BY <3>1, <3>2, <3>3
  <2> QED BY <2>1, <2>2 DEF TypeOK, TrackerOK, Kinds
<1>2. TypeOK /\ Remembered /\ [Next]_vars => Remembered'
  BY RememberedStep
<1>3. TypeOK /\ Remembered /\ Remembered' /\ Counted /\ [Next]_vars => Counted'
  BY CountedStep
<1> QED BY <1>1, <1>2, <1>3, Typed, InitRemembered, InitCounted, PTL DEF Spec
=============================================================================
