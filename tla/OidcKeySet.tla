----------------------------- MODULE OidcKeySet -----------------------------
(***************************************************************************)
(* The remote key set of oidc/jwks.go: calls of VerifySignature that share *)
(* a cache of the provider's keys, and the goroutine that fetches them     *)
(* again, at most one at a time, for every call that waits.                *)
(*                                                                         *)
(* A key is a model value; a token carries the key that signed it and the  *)
(* key ID its header claims.  The sets of keys the provider has published  *)
(* are numbered in the order it published them.  An update is named after  *)
(* the call that started it.                                               *)
(***************************************************************************)
EXTENDS Integers, Sequences

CONSTANTS
  Verifies,         \* calls of VerifySignature
  Keys,             \* the provider's keys
  KeyIDs,           \* key IDs
  KeyID,            \* KeyID[k]: the ID of key k
  NoKeyID,          \* the empty key ID: any key may have signed the token
  None,             \* no update in flight
  keysExpiryDelta,  \* 30 seconds in the code
  MaxAge,           \* bound: the longest life a cache-control header gives
  MaxTime,          \* bound: the clock
  MaxVersions       \* bound: sets of keys the provider publishes

ASSUME KeySetAssumption ==
  /\ KeyID \in [Keys -> KeyIDs]
  /\ NoKeyID \notin KeyIDs
  /\ None \notin Verifies
  /\ keysExpiryDelta \in Nat \ {0}
  /\ MaxAge \in Nat /\ MaxTime \in Nat /\ MaxVersions \in Nat

VARIABLES
  now,         \* the clock
  published,   \* the sets of keys the provider published, in order
  cached,      \* cachedKeys: the number of the set in the cache, 0 before any
  expiry,      \* expiry: 0 is the zero time
  inflight,    \* inflight: the update in flight, or None (nil)
  upc,         \* upc[u]: where update u is
  fetched,     \* fetched[u]: the set the provider answered u with, 0 for an error
  fetchExpiry, \* fetchExpiry[u]: the expiry updateKeys computed
  pc,          \* pc[v]: where call v is
  token,       \* token[v]: the token of call v
  keys,        \* keys[v]: the number of the set v looks in
  keysExpiry,  \* keysExpiry[v]: the expiry v read with the cached keys
  waits,       \* waits[v]: the update v waits for
  cancelled,   \* calls whose context is done
  result       \* result[v]: what v returned

cacheVars == <<cached, expiry, inflight>>
updateVars == <<upc, fetched, fetchExpiry>>
callVars == <<pc, token, keys, keysExpiry, waits, result>>
vars == <<now, published, cacheVars, updateVars, callVars, cancelled>>

Tokens == [key : Keys, kid : KeyIDs \cup {NoKeyID}]

Results == {"none", "malformed", "payload", "failed", "fetching", "cancelled"}

\* The keys of a set; the cache is empty before the first update.
KeysOf(n) == IF n = 0 THEN {} ELSE published[n]

\* The loops of verify: some key that the header's ID admits verifies the token.
Signed(n, t) ==
  \E k \in KeysOf(n) : (t.kid = NoKeyID \/ KeyID[k] = t.kid) /\ k = t.key

-----------------------------------------------------------------------------
Init ==
  /\ now = 0
  /\ published \in {<<ks>> : ks \in SUBSET Keys}
  /\ cached = 0
  /\ expiry = 0
  /\ inflight = None
  /\ upc = [u \in Verifies |-> "off"]
  /\ fetched = [u \in Verifies |-> 0]
  /\ fetchExpiry = [u \in Verifies |-> 0]
  /\ pc = [v \in Verifies |-> "idle"]
  /\ token \in [Verifies -> Tokens]
  /\ keys = [v \in Verifies |-> 0]
  /\ keysExpiry = [v \in Verifies |-> 0]
  /\ waits = [v \in Verifies |-> None]
  /\ cancelled = {}
  /\ result = [v \in Verifies |-> "none"]

Tick ==
  /\ now < MaxTime
  /\ now' = now + 1
  /\ UNCHANGED <<published, cacheVars, updateVars, callVars, cancelled>>

\* The provider changes its keys.
Rotate ==
  /\ Len(published) < MaxVersions
  /\ \E ks \in SUBSET Keys : published' = Append(published, ks)
  /\ UNCHANGED <<now, cacheVars, updateVars, callVars, cancelled>>

\* The context of call v is done; only the select of keysFromRemote looks at it.
Cancel(v) ==
  /\ pc[v] = "wait"
  /\ v \notin cancelled
  /\ cancelled' = cancelled \cup {v}
  /\ UNCHANGED <<now, published, cacheVars, updateVars, callVars>>

\* Call v returns; its local variables are gone.
Return(v, r) ==
  /\ pc' = [pc EXCEPT ![v] = "end"]
  /\ result' = [result EXCEPT ![v] = r]
  /\ keys' = [keys EXCEPT ![v] = 0]
  /\ keysExpiry' = [keysExpiry EXCEPT ![v] = 0]
  /\ waits' = [waits EXCEPT ![v] = None]
  /\ UNCHANGED <<now, published, cacheVars, updateVars, token, cancelled>>

-----------------------------------------------------------------------------
(***************************************************************************)
(* VerifySignature and verify.                                             *)
(***************************************************************************)
\* jose.ParseSigned fails.
Malformed(v) ==
  /\ pc[v] = "idle"
  /\ Return(v, "malformed")

\* keysFromCache, under the mutex.
KeysFromCache(v) ==
  /\ pc[v] = "idle"
  /\ keys' = [keys EXCEPT ![v] = cached]
  /\ keysExpiry' = [keysExpiry EXCEPT ![v] = expiry]
  /\ pc' = [pc EXCEPT ![v] = "cache"]
  /\ UNCHANGED <<now, published, cacheVars, updateVars, token, waits, cancelled,
                 result>>

\* The cached keys are tried whatever their expiry.
VerifyCached(v) ==
  /\ pc[v] = "cache"
  /\ Signed(keys[v], token[v])
  /\ Return(v, "payload")

\* Mutant: the keys are never fetched again while they are valid.
ExpiringNever(v) == now > keysExpiry[v]

\* now + keysExpiryDelta is after the expiry.
Expiring(v) == now + keysExpiryDelta > keysExpiry[v]

NotExpired(v) ==
  /\ pc[v] = "cache"
  /\ ~Signed(keys[v], token[v])
  /\ ~Expiring(v)
  /\ Return(v, "failed")

Refresh(v) ==
  /\ pc[v] = "cache"
  /\ ~Signed(keys[v], token[v])
  /\ Expiring(v)
  /\ pc' = [pc EXCEPT ![v] = "remote"]
  /\ UNCHANGED <<now, published, cacheVars, updateVars, token, keys, keysExpiry,
                 waits, cancelled, result>>

StartsUpdate(v) == inflight = None

\* keysFromRemote, under the mutex: join the update in flight or start one.
KeysFromRemote(v) ==
  /\ pc[v] = "remote"
  /\ inflight' = IF StartsUpdate(v) THEN v ELSE inflight
  /\ upc' = IF StartsUpdate(v) THEN [upc EXCEPT ![v] = "fetch"] ELSE upc
  /\ waits' = [waits EXCEPT ![v] = inflight']
  /\ pc' = [pc EXCEPT ![v] = "wait"]
  /\ UNCHANGED <<now, published, cached, expiry, fetched, fetchExpiry, token, keys,
                 keysExpiry, cancelled, result>>

\* Mutant: done signals once instead of closing the channel.
IsDoneNow(u) == upc[u] = "store"

\* done() closed the channel of update u.
IsDone(u) == upc[u] \in {"store", "off"}

\* The select of keysFromRemote takes either case when both are ready.
WaitCancelled(v) ==
  /\ pc[v] = "wait"
  /\ v \in cancelled
  /\ Return(v, "cancelled")

WaitFailed(v) ==
  /\ pc[v] = "wait"
  /\ IsDone(waits[v])
  /\ fetched[waits[v]] = 0
  /\ Return(v, "fetching")

WaitDone(v) ==
  LET n == fetched[waits[v]] IN
  /\ pc[v] = "wait"
  /\ IsDone(waits[v])
  /\ n # 0
  /\ Return(v, IF Signed(n, token[v]) THEN "payload" ELSE "failed")

-----------------------------------------------------------------------------
(***************************************************************************)
(* The goroutine that keysFromRemote starts, and updateKeys in it.         *)
(***************************************************************************)
\* The provider answers the GET with the set it publishes then.
Serve(u) ==
  /\ upc[u] = "fetch"
  /\ fetched' = [fetched EXCEPT ![u] = Len(published)]
  /\ upc' = [upc EXCEPT ![u] = "served"]
  /\ UNCHANGED <<now, published, cacheVars, fetchExpiry, callVars, cancelled>>

\* The answer arrives.  It expires now, or later if its headers say so.
Received(u) ==
  /\ upc[u] = "served"
  /\ \E e \in now..(now + MaxAge) : fetchExpiry' = [fetchExpiry EXCEPT ![u] = e]
  /\ upc' = [upc EXCEPT ![u] = "done"]
  /\ UNCHANGED <<now, published, cacheVars, fetched, callVars, cancelled>>

\* The request, the body, the status or the JSON is bad.
FetchFails(u) ==
  /\ upc[u] \in {"fetch", "served"}
  /\ fetched' = [fetched EXCEPT ![u] = 0]
  /\ upc' = [upc EXCEPT ![u] = "done"]
  /\ UNCHANGED <<now, published, cacheVars, fetchExpiry, callVars, cancelled>>

\* Mutant: the update is no longer in flight once its waiters are awake.
DoneFrees(u) ==
  /\ upc[u] = "done"
  /\ upc' = [upc EXCEPT ![u] = "store"]
  /\ inflight' = None
  /\ UNCHANGED <<now, published, cached, expiry, fetched, fetchExpiry, callVars,
                 cancelled>>

\* inflight.done wakes the waiters ...
Done(u) ==
  /\ upc[u] = "done"
  /\ upc' = [upc EXCEPT ![u] = "store"]
  /\ UNCHANGED <<now, published, cacheVars, fetched, fetchExpiry, callVars,
                 cancelled>>

\* Mutant: a failed update stays in flight.
StoreKeeps(u) ==
  /\ upc[u] = "store"
  /\ upc' = [upc EXCEPT ![u] = "off"]
  /\ cached' = IF fetched[u] # 0 THEN fetched[u] ELSE cached
  /\ expiry' = IF fetched[u] # 0 THEN fetchExpiry[u] ELSE expiry
  /\ inflight' = IF fetched[u] # 0 THEN None ELSE inflight
  /\ UNCHANGED <<now, published, fetched, fetchExpiry, callVars, cancelled>>

\* ... before the cache is updated and inflight is cleared, under the mutex.
Store(u) ==
  /\ upc[u] = "store"
  /\ upc' = [upc EXCEPT ![u] = "off"]
  /\ cached' = IF fetched[u] # 0 THEN fetched[u] ELSE cached
  /\ expiry' = IF fetched[u] # 0 THEN fetchExpiry[u] ELSE expiry
  /\ inflight' = None
  /\ fetchExpiry' = [fetchExpiry EXCEPT ![u] = 0]
  /\ UNCHANGED <<now, published, fetched, callVars, cancelled>>

-----------------------------------------------------------------------------
Verify(v) ==
  \/ KeysFromCache(v) \/ VerifyCached(v) \/ NotExpired(v) \/ Refresh(v)
  \/ KeysFromRemote(v) \/ WaitCancelled(v) \/ WaitFailed(v) \/ WaitDone(v)

Provider(u) == Serve(u) \/ Received(u) \/ FetchFails(u)

Update(u) == Done(u) \/ Store(u)

Next ==
  \/ Tick \/ Rotate
  \/ \E v \in Verifies : \/ Cancel(v) \/ Malformed(v) \/ Verify(v)
                         \/ Provider(v) \/ Update(v)

Spec == Init /\ [][Next]_vars

\* The goroutines of the key set run; nothing makes the provider answer.
FairSpec ==
  /\ Spec
  /\ \A v \in Verifies : WF_vars(Verify(v)) /\ WF_vars(Update(v))

=============================================================================
