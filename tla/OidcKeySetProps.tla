--------------------------- MODULE OidcKeySetProps ---------------------------
(***************************************************************************)
(* What the remote key set guarantees to the calls that share it.          *)
(***************************************************************************)
EXTENDS OidcKeySet

Version == 0..Len(published)

\* Every variable keeps its type; the sets in the cache, in an update and in a
\* call are sets the provider has published.
TypeOK ==
  /\ now \in Nat /\ expiry \in Nat
  /\ published \in Seq(SUBSET Keys)
  /\ cached \in Version
  /\ inflight \in Verifies \cup {None}
  /\ upc \in [Verifies -> {"off", "fetch", "served", "done", "store"}]
  /\ fetched \in [Verifies -> Version]
  /\ fetchExpiry \in [Verifies -> Nat]
  /\ pc \in [Verifies -> {"idle", "cache", "remote", "wait", "end"}]
  /\ token \in [Verifies -> Tokens]
  /\ keys \in [Verifies -> Version]
  /\ keysExpiry \in [Verifies -> Nat]
  /\ waits \in [Verifies -> Verifies \cup {None}]
  /\ cancelled \subseteq Verifies
  /\ result \in [Verifies -> Results]

\* An update that runs is the one in flight, so there is never more than one and
\* r.inflight, which its goroutine reads without the mutex to call done, is its
\* own; and an update in flight runs, so no call waits for a dead one.
SingleFlight ==
  /\ \A u \in Verifies : upc[u] # "off" => inflight = u
  /\ inflight # None => upc[inflight] # "off"

\* The cache never goes back to an older set of keys, however the updates and
\* the provider's changes interleave.
CacheMonotone == [][cached' >= cached]_vars

\* The header's key ID admits the key that signed the token.
Admitted(t) == t.kid = NoKeyID \/ KeyID[t.key] = t.kid

\* A token signed with a key that the provider has always published is never
\* refused: neither by an empty cache nor by joining another call's update.
StableKeyVerifies ==
  \A v \in Verifies :
    /\ Admitted(token[v])
    /\ \A n \in 1..Len(published) : token[v].key \in published[n]
    => result[v] # "failed"

\* A call returns once its context is done or the update it waits for is done,
\* even if the provider never answers another request.
WaitersReturn ==
  \A v \in Verifies :
    (pc[v] = "wait" /\ (v \in cancelled \/ upc[waits[v]] = "done")) ~> (pc[v] = "end")

\* An update that got its answer, good or bad, makes room for the next one.
FlightFreed == \A u \in Verifies : (upc[u] = "done") ~> (inflight # u)

\* The comment on keysExpiryDelta: a key that is not in the cache makes the keys
\* be updated if and only if the cached keys expire within that time.
UpdatesOnlyExpiring ==
  [][\A u \in Verifies : upc[u] = "off" /\ upc'[u] = "fetch"
                           => now + keysExpiryDelta > expiry]_vars

-----------------------------------------------------------------------------
(***************************************************************************)
(* The inductive invariant behind them.                                    *)
(***************************************************************************)
\* A call that has not asked for the keys has started no update.
FreshCalls ==
  \A v \in Verifies : pc[v] \in {"idle", "cache", "remote"} =>
    upc[v] = "off" /\ fetched[v] = 0 /\ waits[v] = None

\* An update that runs has nothing older than the cache.
UpdateNewer ==
  \A u \in Verifies :
    /\ upc[u] = "fetch" => fetched[u] = 0
    /\ upc[u] \in {"served", "done", "store"} /\ fetched[u] # 0 => fetched[u] >= cached

\* A call that waits, waits for an update that runs or has run.
WaitsReal == \A v \in Verifies : pc[v] = "wait" => waits[v] \in Verifies

\* An empty cache counts as expired; so does the snapshot of one.
EmptyExpired ==
  /\ cached = 0 => expiry = 0
  /\ \A v \in Verifies : keys[v] = 0 => keysExpiry[v] = 0

KeyInv ==
  /\ TypeOK /\ SingleFlight /\ FreshCalls /\ UpdateNewer /\ WaitsReal /\ EmptyExpired
  /\ StableKeyVerifies

=============================================================================
