------------------------------ MODULE ApiKeys -------------------------------
(***************************************************************************)
(* API keys of green_relay: creation and revocation by an admin, and the   *)
(* resolution of a presented key through the cache (api/mod.rs,            *)
(* keycache.rs, admin/keys.rs).                                            *)
(*                                                                         *)
(* Every place of a request or of an admin handler is one await of the     *)
(* code, between any two of which the others run. A handler whose client   *)
(* goes away is dropped at its await. The table survives a restart, the    *)
(* cache does not; an entry has no expiry.                                 *)
(***************************************************************************)
EXTENDS Naturals, FiniteSets

CONSTANTS
  Keys,      \* keys that may be created, each with its identifier
  Requests,  \* API requests in progress at the same time
  Admins,    \* admin handlers in progress at the same time
  NoKey      \* stands for "no key"

ASSUME ApiKeysAssumption == NoKey \notin Keys

VARIABLES
  row,      \* row[k]: the row of k in api_keys: "absent", "active", "revoked"
  cache,    \* cache[k]: "miss", or the cached lookup: "active", "none"
  told,     \* keys whose plaintext an admin has been given
  req,      \* req[r]: the place of request r, its key, what it has resolved,
            \* and whether it began after its key's revocation was confirmed
  adm,      \* adm[a]: the place of handler a and its key
  confirmed,\* keys whose revocation an admin has been told of
  strayed   \* keys whose entry is a lookup from before their revocation,
            \* cached after it

vars == <<row, cache, told, req, adm, confirmed, strayed>>

NoRequest == [at |-> "idle", key |-> NoKey, found |-> "none", after |-> FALSE]
NoHandler == [at |-> "idle", key |-> NoKey]

Init ==
  /\ row = [k \in Keys |-> "absent"] /\ cache = [k \in Keys |-> "miss"]
  /\ told = {} /\ confirmed = {} /\ strayed = {}
  /\ req = [r \in Requests |-> NoRequest] /\ adm = [a \in Admins |-> NoHandler]

-----------------------------------------------------------------------------
(* auth_middleware and resolve_active_key.                                 *)

Goto(r, place) == req' = [req EXCEPT ![r].at = place]

\* A key can only be presented by someone who was given it.
Present(r, k) ==
  /\ req[r].at = "idle" /\ k \in told
  /\ req' = [req EXCEPT ![r] =
               [at |-> "get", key |-> k, found |-> "none", after |-> k \in confirmed]]
  /\ UNCHANGED <<row, cache, told, adm, confirmed, strayed>>

CacheGet(r) ==
  /\ req[r].at = "get"
  /\ LET entry == cache[req[r].key] IN
       IF entry = "miss"
       THEN Goto(r, "lookup")
       ELSE req' = [req EXCEPT ![r].at = "decide", ![r].found = entry]
  /\ UNCHANGED <<row, cache, told, adm, confirmed, strayed>>

\* Mutant: an error is cached as well.
LookupCachingErrors(r) ==
  /\ req[r].at = "lookup"
  /\ \E found \in {"active", "none", "error"} :
       req' = [req EXCEPT ![r].at = "insert", ![r].found = found]
  /\ UNCHANGED <<row, cache, told, adm, confirmed, strayed>>

\* lookup_active_key: only a row with revoked = 0 counts. An error ends the
\* request and is not cached.
Lookup(r) ==
  /\ req[r].at = "lookup"
  /\ LET found == IF row[req[r].key] = "active" THEN "active" ELSE "none" IN
       \/ req' = [req EXCEPT ![r].at = "insert", ![r].found = found]
       \/ req' = [req EXCEPT ![r] = NoRequest]
  /\ UNCHANGED <<row, cache, told, adm, confirmed, strayed>>

\* The lookup is cached, whatever has happened to the row since.
CacheInsert(r) ==
  /\ req[r].at = "insert"
  /\ cache' = [cache EXCEPT ![req[r].key] = req[r].found]
  /\ Goto(r, "decide")
  /\ strayed' = IF req[r].found = "active" /\ row[req[r].key] = "revoked"
                THEN strayed \union {req[r].key} ELSE strayed
  /\ UNCHANGED <<row, told, adm, confirmed>>

\* authenticate_identified, and the request is served or refused; or the
\* client went away before.
EndRequest(r) ==
  /\ req[r].at # "idle"
  /\ req' = [req EXCEPT ![r] = NoRequest]
  /\ UNCHANGED <<row, cache, told, adm, confirmed, strayed>>

\* The cache holds MAX_CACHED_KEYS identifiers; any may make room for another.
CacheEvict(k) ==
  /\ cache[k] # "miss"
  /\ cache' = [cache EXCEPT ![k] = "miss"] /\ strayed' = strayed \ {k}
  /\ UNCHANGED <<row, told, req, adm, confirmed>>

-----------------------------------------------------------------------------
(* create_api_key and revoke_api_key.                                      *)

Step(a, place) == adm' = [adm EXCEPT ![a].at = place]

\* The token is random, hence new.
InsertKey(a, k) ==
  /\ adm[a].at = "idle" /\ row[k] = "absent"
  /\ row' = [row EXCEPT ![k] = "active"]
  /\ adm' = [adm EXCEPT ![a] = [at |-> "tell", key |-> k]]
  /\ UNCHANGED <<cache, told, req, confirmed, strayed>>

\* After the audit record; when it cannot be written nobody gets the key.
TellKey(a) ==
  /\ adm[a].at = "tell"
  /\ told' = told \union {adm[a].key}
  /\ adm' = [adm EXCEPT ![a] = NoHandler]
  /\ UNCHANGED <<row, cache, req, confirmed, strayed>>

\* api_key_identifier: a revoked key may be revoked again.
StartRevoke(a, k) ==
  /\ adm[a].at = "idle" /\ row[k] # "absent"
  /\ adm' = [adm EXCEPT ![a] = [at |-> "update", key |-> k]]
  /\ UNCHANGED <<row, cache, told, req, confirmed, strayed>>

\* set_api_key_revoked.
UpdateRevoked(a) ==
  /\ adm[a].at = "update"
  /\ row' = [row EXCEPT ![adm[a].key] = "revoked"]
  /\ Step(a, "invalidate")
  /\ UNCHANGED <<cache, told, req, confirmed, strayed>>

\* Mutant: another admin's revocation is taken for this one.
InvalidateOnce(a) ==
  /\ adm[a].at = "invalidate"
  /\ cache' = IF \E b \in Admins \ {a} : adm[b] = adm[a]
              THEN cache ELSE [cache EXCEPT ![adm[a].key] = "miss"]
  /\ strayed' = strayed \ {adm[a].key}
  /\ Step(a, "confirm")
  /\ UNCHANGED <<row, told, req, confirmed>>

Invalidate(a) ==
  /\ adm[a].at = "invalidate"
  /\ cache' = [cache EXCEPT ![adm[a].key] = "miss"]
  /\ strayed' = strayed \ {adm[a].key}
  /\ Step(a, "confirm")
  /\ UNCHANGED <<row, told, req, confirmed>>

\* The audit record is written and the admin is told.
ConfirmRevoke(a) ==
  /\ adm[a].at = "confirm"
  /\ confirmed' = confirmed \union {adm[a].key}
  /\ adm' = [adm EXCEPT ![a] = NoHandler]
  /\ UNCHANGED <<row, cache, told, req, strayed>>

\* A statement fails, or the admin's client goes away: the rest of the handler
\* does not happen, and nothing is confirmed.
AbandonHandler(a) ==
  /\ adm[a].at # "idle"
  /\ adm' = [adm EXCEPT ![a] = NoHandler]
  /\ UNCHANGED <<row, cache, told, req, confirmed, strayed>>

Restart ==
  /\ cache' = [k \in Keys |-> "miss"] /\ strayed' = {}
  /\ req' = [r \in Requests |-> NoRequest]
  /\ adm' = [a \in Admins |-> NoHandler]
  /\ UNCHANGED <<row, told, confirmed>>

-----------------------------------------------------------------------------
Request(r) == CacheGet(r) \/ Lookup(r) \/ CacheInsert(r) \/ EndRequest(r)
Handler(a) == TellKey(a) \/ UpdateRevoked(a) \/ Invalidate(a) \/ ConfirmRevoke(a)
                \/ AbandonHandler(a)

Next ==
  \/ \E r \in Requests, k \in Keys : Present(r, k)
  \/ \E a \in Admins, k \in Keys : InsertKey(a, k) \/ StartRevoke(a, k)
  \/ \E r \in Requests : Request(r)
  \/ \E a \in Admins : Handler(a)
  \/ \E k \in Keys : CacheEvict(k)
  \/ Restart

Spec == Init /\ [][Next]_vars

-----------------------------------------------------------------------------
(* Properties.                                                             *)

\* Every variable keeps to its type: what is cached is a lookup, never an
\* error, and only keys that were created are told, confirmed or strayed.
TableOK ==
  /\ row \in [Keys -> {"absent", "active", "revoked"}]
  /\ cache \in [Keys -> {"miss", "active", "none"}]
  /\ told \subseteq Keys /\ confirmed \subseteq Keys /\ strayed \subseteq Keys
RequestsOK ==
  /\ req \in [Requests -> [at : {"idle", "get", "lookup", "insert", "decide"},
                           key : Keys \union {NoKey}, found : {"active", "none"},
                           after : BOOLEAN]]
  /\ \A r \in Requests : req[r].at # "idle" => req[r].key \in Keys
HandlersOK ==
  /\ adm \in [Admins -> [at : {"idle", "tell", "update", "invalidate", "confirm"},
                         key : Keys \union {NoKey}]]
  /\ \A a \in Admins : adm[a].at # "idle" => adm[a].key \in Keys

TypeOK == TableOK /\ RequestsOK /\ HandlersOK

\* Once a revocation was confirmed, the only way for the key to be accepted is
\* a lookup from before the revocation that was cached after the eviction: no
\* other order of requests, revocations of the same key, dropped handlers and
\* restarts leaves it in the cache, and revoking it again removes that entry
\* too (resolve_active_key, revoke_api_key).
Evicted(k) == row[k] = "revoked" /\ (cache[k] = "active" => k \in strayed)
ConfirmedIsEvicted == \A k \in confirmed : Evicted(k)

\* What makes it so: the row is revoked before the eviction and stays so.
UpdatedBy(a) ==
  /\ adm[a].at = "invalidate" => row[adm[a].key] = "revoked"
  /\ adm[a].at = "confirm" => Evicted(adm[a].key)
UpdatedFirst == \A a \in Admins : UpdatedBy(a)

\* keycache.rs: "explicitly invalidated when a key is revoked, so revocation
\* takes effect immediately rather than after a TTL window". A request that
\* began after the revocation was confirmed is refused.
Accepted(r) == req[r].at = "decide" /\ req[r].found = "active"
RevocationImmediate == \A r \in Requests : ~(Accepted(r) /\ req[r].after)
=============================================================================
