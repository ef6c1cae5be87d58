--------------------------- MODULE ApiKeysProofs ----------------------------
(***************************************************************************)
(* Proofs about ApiKeys, for every set of keys and any number of requests  *)
(* and handlers in progress.                                               *)
(***************************************************************************)
EXTENDS ApiKeys, TLAPS

USE ApiKeysAssumption

-----------------------------------------------------------------------------
(* Type correctness.                                                       *)

LEMMA InitType == Init => TypeOK
BY DEF Init, TypeOK, TableOK, RequestsOK, HandlersOK, NoRequest, NoHandler

\* A request that moves on keeps its key.
LEMMA GotoType ==
  ASSUME RequestsOK, NEW r \in Requests, req[r].at # "idle",
         NEW place \in {"get", "lookup", "insert", "decide"},
         NEW found \in {"active", "none"},
         \/ req' = [req EXCEPT ![r].at = place]
         \/ req' = [req EXCEPT ![r].at = place, ![r].found = found]
  PROVE  RequestsOK'
BY DEF RequestsOK

\* A request that ends, or begins with a key.
LEMMA EndType ==
  ASSUME RequestsOK, NEW r \in Requests, req' = [req EXCEPT ![r] = NoRequest]
  PROVE  RequestsOK'
BY DEF RequestsOK, NoRequest

LEMMA PresentType ==
  ASSUME TypeOK, NEW r \in Requests, NEW k \in Keys, Present(r, k)
  PROVE  TypeOK'
<1>1. TableOK' /\ HandlersOK'
  BY DEF Present, TypeOK, TableOK, HandlersOK
<1> DEFINE new == [at |-> "get", key |-> k, found |-> "none", after |-> k \in confirmed]
<1>2. new \in [at : {"idle", "get", "lookup", "insert", "decide"},
               key : Keys \union {NoKey}, found : {"active", "none"},
               after : BOOLEAN] /\ new.key = k
  OBVIOUS
<1>3. req' = [req EXCEPT ![r] = new]
  BY DEF Present
<1> HIDE DEF new
<1>4. RequestsOK'
  BY <1>2, <1>3 DEF TypeOK, RequestsOK
<1> QED BY <1>1, <1>4 DEF TypeOK

LEMMA RequestType ==
  ASSUME TypeOK, NEW r \in Requests, Request(r) PROVE TypeOK'
<1> USE DEF TypeOK
<1>1. req[r].at # "idle" /\ req[r].key \in Keys /\ HandlersOK'
  BY DEF Request, CacheGet, Lookup, CacheInsert, EndRequest, RequestsOK, HandlersOK
<1>2. CASE CacheGet(r)
  <2>1. cache[req[r].key] # "miss" => cache[req[r].key] \in {"active", "none"}
    BY <1>1 DEF TableOK
  <2>2. RequestsOK'
    BY <1>1, <1>2, <2>1, GotoType DEF CacheGet, Goto
  <2> QED BY <1>1, <1>2, <2>2 DEF CacheGet, TableOK
<1>3. CASE Lookup(r)
  <2>1. RequestsOK'
    BY <1>1, <1>3, GotoType, EndType DEF Lookup
  <2> QED BY <1>1, <1>3, <2>1 DEF Lookup, TableOK
<1>4. CASE CacheInsert(r)
  <2>1. RequestsOK'
    BY <1>1, <1>4, GotoType DEF CacheInsert, Goto
  <2>2. TableOK'
    BY <1>1, <1>4 DEF CacheInsert, TableOK, RequestsOK
  <2> QED BY <1>1, <2>1, <2>2
<1>5. CASE EndRequest(r)
  BY <1>1, <1>5, EndType DEF EndRequest, TableOK
<1> QED BY <1>2, <1>3, <1>4, <1>5 DEF Request

\* A handler that moves on, ends, or begins with a key.
LEMMA StepType ==
  ASSUME HandlersOK, NEW a \in Admins,
         \/ /\ adm[a].at # "idle"
            /\ \E place \in {"invalidate", "confirm"} : Step(a, place)
         \/ adm' = [adm EXCEPT ![a] = NoHandler]
         \/ \E k \in Keys, place \in {"tell", "update"} :
              adm' = [adm EXCEPT ![a] = [at |-> place, key |-> k]]
  PROVE  HandlersOK'
BY DEF HandlersOK, Step, NoHandler

LEMMA AdminType ==
  ASSUME TypeOK, NEW a \in Admins,
         Handler(a) \/ \E k \in Keys : InsertKey(a, k) \/ StartRevoke(a, k)
  PROVE  TypeOK'
<1> USE DEF TypeOK
<1>1. RequestsOK'
  BY DEF Handler, InsertKey, StartRevoke, TellKey, UpdateRevoked, Invalidate,
         ConfirmRevoke, AbandonHandler, RequestsOK
<1>2. adm[a].at # "idle" => adm[a].key \in Keys
  BY DEF HandlersOK
<1>3. HandlersOK'
  BY StepType DEF Handler, InsertKey, StartRevoke, TellKey, UpdateRevoked,
                  Invalidate, ConfirmRevoke, AbandonHandler
<1>4. TableOK'
  BY <1>2 DEF Handler, InsertKey, StartRevoke, TellKey, UpdateRevoked, Invalidate,
              ConfirmRevoke, AbandonHandler, TableOK
<1> QED BY <1>1, <1>3, <1>4

LEMMA NextType == TypeOK /\ [Next]_vars => TypeOK'
<1> SUFFICES ASSUME TypeOK, [Next]_vars PROVE TypeOK'
  OBVIOUS
<1> USE DEF TypeOK
<1>1. CASE Restart
  BY <1>1 DEF Restart, TableOK, RequestsOK, HandlersOK, NoRequest, NoHandler
<1>2. ASSUME NEW k \in Keys, CacheEvict(k) PROVE TypeOK'
  BY <1>2 DEF CacheEvict, TableOK, RequestsOK, HandlersOK
<1>3. CASE UNCHANGED vars
  BY <1>3 DEF vars, TableOK, RequestsOK, HandlersOK
<1> QED BY <1>1, <1>2, <1>3, PresentType, RequestType, AdminType DEF Next

\* Types hold throughout: an error of the database is never cached.
THEOREM TypeCorrect == Spec => []TypeOK
BY InitType, NextType, PTL DEF Spec

-----------------------------------------------------------------------------
(* A confirmed revocation.                                                 *)

Sound == TypeOK /\ UpdatedFirst /\ ConfirmedIsEvicted

\* A request never undoes a revocation, and is counted when it caches an old
\* lookup.
LEMMA RequestEvicted ==
  ASSUME TypeOK, NEW r \in Requests, Request(r), NEW k \in Keys, Evicted(k)
  PROVE  Evicted(k)'
BY DEF TypeOK, TableOK, Evicted, Request, CacheGet, Lookup, CacheInsert, EndRequest

\* Nor does a handler, of this key or another.
LEMMA AdminEvicted ==
  ASSUME TypeOK, NEW a \in Admins, NEW k \in Keys, Evicted(k),
         Handler(a) \/ \E j \in Keys : InsertKey(a, j) \/ StartRevoke(a, j)
  PROVE  Evicted(k)'
BY DEF TypeOK, TableOK, Evicted, Handler, InsertKey, StartRevoke, TellKey,
       UpdateRevoked, Invalidate, ConfirmRevoke, AbandonHandler

LEMMA AdminSound ==
  ASSUME Sound, NEW a \in Admins,
         Handler(a) \/ \E k \in Keys : InsertKey(a, k) \/ StartRevoke(a, k)
  PROVE  UpdatedFirst' /\ ConfirmedIsEvicted'
<1> USE DEF Sound
<1>1. \A k \in Keys : Evicted(k) => Evicted(k)'
  BY AdminEvicted
<1>2. \A k \in Keys : row[k] = "revoked" => row'[k] = "revoked"
  BY DEF TypeOK, TableOK, Handler, InsertKey, StartRevoke, TellKey, UpdateRevoked,
         Invalidate, ConfirmRevoke, AbandonHandler
<1>3. \A b \in Admins : adm[b].at # "idle" => adm[b].key \in Keys
  BY DEF TypeOK, HandlersOK
<1>4. \A b \in Admins : b # a => adm'[b] = adm[b]
  BY DEF TypeOK, HandlersOK, Handler, InsertKey, StartRevoke, TellKey, UpdateRevoked,
         Invalidate, ConfirmRevoke, AbandonHandler, Step
<1>5. UpdatedBy(a)'
  <2>1. CASE UpdateRevoked(a)
    <3>1. adm'[a].at = "invalidate" /\ adm'[a].key = adm[a].key /\ adm[a].key \in Keys
      BY <1>3, <2>1 DEF UpdateRevoked, Step, TypeOK, HandlersOK
    <3>2. row'[adm[a].key] = "revoked"
      BY <2>1, <3>1 DEF UpdateRevoked, TypeOK, TableOK
    <3> QED BY <3>1, <3>2 DEF UpdatedBy
  <2>2. CASE Invalidate(a)
    <3>1. adm'[a].at = "confirm" /\ adm'[a].key = adm[a].key /\ adm[a].key \in Keys
      BY <1>3, <2>2 DEF Invalidate, Step, TypeOK, HandlersOK
    <3>2. row'[adm[a].key] = "revoked" /\ cache'[adm[a].key] = "miss"
      BY <2>2, <3>1 DEF Invalidate, TypeOK, TableOK, UpdatedFirst, UpdatedBy
    <3> QED BY <3>1, <3>2 DEF UpdatedBy, Evicted
  <2>3. CASE ~UpdateRevoked(a) /\ ~Invalidate(a)
    <3>1. adm'[a].at \notin {"invalidate", "confirm"}
      BY <2>3 DEF Handler, InsertKey, StartRevoke, TellKey, ConfirmRevoke,
                  AbandonHandler, NoHandler, TypeOK, HandlersOK
    <3> QED BY <3>1 DEF UpdatedBy
  <2> QED BY <2>1, <2>2, <2>3
<1>6. UpdatedFirst'
  <2>1. ASSUME NEW b \in Admins, b # a PROVE UpdatedBy(b)'
    <3>1. UpdatedBy(b) /\ adm'[b] = adm[b]
      BY <1>4, <2>1 DEF UpdatedFirst
    <3>2. adm[b].at = "invalidate" => row'[adm[b].key] = "revoked"
      BY <1>2, <1>3, <3>1 DEF UpdatedBy
    <3>3. adm[b].at = "confirm" => row'[adm[b].key] = "revoked"
            /\ (cache'[adm[b].key] = "active" => adm[b].key \in strayed')
      BY <1>1, <1>3, <3>1 DEF UpdatedBy, Evicted
    <3> QED BY <3>1, <3>2, <3>3 DEF UpdatedBy, Evicted
  <2> QED BY <1>5, <2>1 DEF UpdatedFirst
<1>7. ConfirmedIsEvicted'
  <2>1. CASE ConfirmRevoke(a)
    <3>1. adm[a].key \in Keys /\ Evicted(adm[a].key)
      BY <1>3, <2>1 DEF ConfirmRevoke, UpdatedFirst, UpdatedBy
    <3>2. \A k \in confirmed' : Evicted(k)
      BY <2>1, <3>1 DEF ConfirmRevoke, ConfirmedIsEvicted
    <3>3. row' = row /\ cache' = cache /\ strayed' = strayed
      BY <2>1 DEF ConfirmRevoke
    <3> QED BY <3>2, <3>3 DEF ConfirmedIsEvicted, Evicted
  <2>2. CASE ~ConfirmRevoke(a)
    <3>1. confirmed' = confirmed
      BY <2>2 DEF Handler, InsertKey, StartRevoke, TellKey, UpdateRevoked, Invalidate,
                  AbandonHandler
    <3> QED BY <1>1, <3>1 DEF ConfirmedIsEvicted, TypeOK, TableOK
  <2> QED BY <2>1, <2>2
<1> QED BY <1>6, <1>7

\* What leaves the handlers and the confirmations alone.
LEMMA OthersSound ==
  ASSUME Sound, adm' = adm, confirmed' = confirmed,
         \A k \in Keys : row'[k] = row[k] /\ (Evicted(k) => Evicted(k)')
  PROVE  UpdatedFirst' /\ ConfirmedIsEvicted'
<1>1. ASSUME NEW b \in Admins PROVE UpdatedBy(b)'
  <2>1. UpdatedBy(b) /\ (adm[b].at # "idle" => adm[b].key \in Keys)
    BY DEF Sound, TypeOK, HandlersOK, UpdatedFirst
  <2> QED BY <2>1 DEF UpdatedBy, Evicted
<1>2. ConfirmedIsEvicted'
  BY DEF Sound, ConfirmedIsEvicted, TypeOK, TableOK
<1> QED BY <1>1, <1>2 DEF UpdatedFirst

LEMMA NextSound == Sound /\ [Next]_vars => Sound'
<1> SUFFICES ASSUME Sound, [Next]_vars PROVE Sound'
  OBVIOUS
<1>1. TypeOK'
  BY NextType DEF Sound
<1>2. ASSUME NEW r \in Requests, Request(r) \/ \E k \in Keys : Present(r, k)
      PROVE  UpdatedFirst' /\ ConfirmedIsEvicted'
  <2>1. adm' = adm /\ confirmed' = confirmed /\ row' = row
    BY <1>2 DEF Request, Present, CacheGet, Lookup, CacheInsert, EndRequest
  <2>2. \A k \in Keys : Evicted(k) => Evicted(k)'
    BY <1>2, RequestEvicted DEF Sound, Present, Evicted
  <2> QED BY <2>1, <2>2, OthersSound
<1>3. ASSUME NEW j \in Keys, CacheEvict(j) PROVE UpdatedFirst' /\ ConfirmedIsEvicted'
  <2>1. adm' = adm /\ confirmed' = confirmed /\ row' = row
    BY <1>3 DEF CacheEvict
  <2>2. \A k \in Keys : Evicted(k) => Evicted(k)'
    BY <1>3 DEF Sound, TypeOK, TableOK, CacheEvict, Evicted
  <2> QED BY <2>1, <2>2, OthersSound
<1>4. CASE Restart
  <2>1. UpdatedFirst'
    BY <1>4 DEF Restart, UpdatedFirst, UpdatedBy, NoHandler
  <2>2. ConfirmedIsEvicted'
    BY <1>4 DEF Restart, Sound, TypeOK, TableOK, ConfirmedIsEvicted, Evicted
  <2> QED BY <1>1, <2>1, <2>2 DEF Sound
<1>5. CASE UNCHANGED vars
  <2>1. \A k \in Keys : row'[k] = row[k] /\ (Evicted(k) => Evicted(k)')
    BY <1>5 DEF vars, Evicted
  <2> QED BY <1>1, <1>5, <2>1, OthersSound DEF vars, Sound
<1>6. ASSUME NEW a \in Admins,
             Handler(a) \/ \E k \in Keys : InsertKey(a, k) \/ StartRevoke(a, k)
      PROVE  UpdatedFirst' /\ ConfirmedIsEvicted'
  BY <1>6, AdminSound
<1>7. CASE Next /\ ~Restart
  <2>1. UpdatedFirst' /\ ConfirmedIsEvicted'
    BY <1>2, <1>3, <1>6, <1>7 DEF Next
  <2> QED BY <1>1, <2>1 DEF Sound
<1> QED BY <1>4, <1>5, <1>7

LEMMA InitSound == Init => Sound
BY InitType DEF Init, Sound, UpdatedFirst, ConfirmedIsEvicted, UpdatedBy,
                  NoHandler

\* For any number of requests and admins: a key whose revocation was confirmed
\* is accepted only from a lookup older than the revocation and cached after
\* the eviction.
THEOREM RevocationEvicts == Spec => []ConfirmedIsEvicted
<1>1. Sound => ConfirmedIsEvicted
  BY DEF Sound
<1> QED BY <1>1, InitSound, NextSound, PTL DEF Spec
=============================================================================
