------------------------------ MODULE Lockout -------------------------------
(***************************************************************************)
(* When repeated failures lock someone out, and what the two trackers of   *)
(* green_relay keep of them: FailureTracker for API keys (auth.rs) and     *)
(* AdminLoginTracker for the addresses of admin logins (admin/session.rs). *)
(*                                                                         *)
(* A failure is the time its attempt began with and the rank in which it   *)
(* was recorded; attempts that overlap may be recorded out of the order of *)
(* their times. A history is a set of failures.                            *)
(***************************************************************************)
EXTENDS Naturals, FiniteSets

CONSTANTS
  Threshold,  \* failures that lock (LOCKOUT_FAILURE_THRESHOLD, ADMIN_MAX_FAILURES)
  Window,     \* Window[k]: the time they must fall in
  LockTime,   \* LockTime[k]: how long the lock lasts
  MaxKept     \* failures kept per identifier (MAX_FAILURES_PER_IDENTIFIER)

Kinds == {"key", "login"}

ASSUME LockoutAssumption ==
  /\ Threshold \in Nat \ {0} /\ MaxKept \in Nat \ {0}
  /\ Window \in [Kinds -> Nat] /\ LockTime \in [Kinds -> Nat]

Failure == [at : Nat, no : Nat]

\* The failures in the window that ends with t.
Recent(k, history, t) ==
  {f \in history : f.at <= t /\ t <= f.at + Window[k]}

\* A failure that completes a threshold is a trigger.
Triggers(k, history) ==
  {f \in history : Cardinality(Recent(k, history, f.at)) >= Threshold}

\* is_locked_out and admin_locked: an attempt that began before the trigger is
\* locked out of the API, and not of the login.
Locked(k, history, now) == \E f \in Triggers(k, history) :
  /\ now < f.at + LockTime[k]
  /\ k = "login" => f.at <= now

\* How long a failure may still matter.
Horizon(k) == Window[k] + LockTime[k]

\* Mutant: forgets what is older than the lock itself.
PrunedToLock(k, history, now) ==
  {f \in history : now <= f.at + LockTime[k]}

\* The retain of record_failure and evict_stale.
Pruned(k, history, now) == {f \in history : now <= f.at + Horizon(k)}

\* The drain of record_failure: the last MaxKept that were recorded.
Newest(history) ==
  {f \in history : Cardinality({g \in history : g.no > f.no}) < MaxKept}

\* record_failure, once there is a place for the identifier.
Recorded(k, history, f) == Newest(Pruned(k, history \union {f}, f.at))
=============================================================================
