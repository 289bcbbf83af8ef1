-------------------------- MODULE StandaloneProofs --------------------------
(***************************************************************************)
(* Three components that stand alone.  The caches that goroutines share:   *)
(* the keys of a remote key set, for any number of calls and keys and any  *)
(* clock and history of the provider; and the encoders of encoderCache,    *)
(* for any number of goroutines, whatever types there are and however they *)
(* recurse.  And EndsAgree of JoseCipher, for all block and hash sizes,    *)
(* texts, data, nonces and keys, and for every block cipher.               *)
(***************************************************************************)
EXTENDS OidcKeySetProps, JsonCache, JoseCipher, SequenceTheorems, WellFoundedInduction, TLAPS

-----------------------------------------------------------------------------
(* The remote key set.                                                     *)

\* The state newRemoteKeySet leaves behind satisfies the invariant.
LEMMA KeyInit == Init => KeyInv
<1> SUFFICES ASSUME Init PROVE KeyInv
  BY Zenon
<1>1. published \in Seq(SUBSET Keys) /\ Len(published) = 1
  <2>1. PICK ks \in SUBSET Keys : published = <<ks>>
    BY Zenon DEF Init
  <2> QED  BY <2>1
<1>2. TypeOK
  BY <1>1 DEF Init, TypeOK, Version, Results
<1>3. SingleFlight /\ FreshCalls /\ UpdateNewer /\ WaitsReal
  BY Zenon DEF Init, SingleFlight, FreshCalls, UpdateNewer, WaitsReal
<1>4. EmptyExpired /\ StableKeyVerifies
  BY Zenon DEF Init, EmptyExpired, StableKeyVerifies
<1> QED  BY Zenon, <1>2, <1>3, <1>4 DEF KeyInv

\* A call that returns leaves the rest of the key set alone.
LEMMA ReturnKeeps ==
  ASSUME KeyInv, NEW v \in Verifies, pc[v] # "remote", NEW r \in Results, Return(v, r),
         r # "failed" \/ StableKeyVerifies'
  PROVE  KeyInv'
<1> USE DEF KeyInv, cacheVars, updateVars
<1>1. /\ pc' = [pc EXCEPT ![v] = "end"] /\ result' = [result EXCEPT ![v] = r]
      /\ keys' = [keys EXCEPT ![v] = 0] /\ keysExpiry' = [keysExpiry EXCEPT ![v] = 0]
      /\ waits' = [waits EXCEPT ![v] = None]
      /\ UNCHANGED <<now, published, cached, expiry, inflight, upc, fetched, fetchExpiry,
                     token, cancelled>>
  BY Zenon DEF Return
<1>2. TypeOK'
  <2>1. 0 \in Version
    BY DEF TypeOK, Version
  <2> QED  BY Zenon, <1>1, <2>1 DEF TypeOK, Version
<1>3. SingleFlight' /\ UpdateNewer'
  BY Zenon, <1>1 DEF SingleFlight, UpdateNewer
<1>4. FreshCalls' /\ WaitsReal'
  BY Zenon, <1>1 DEF TypeOK, FreshCalls, WaitsReal
<1>5. EmptyExpired'
  BY Zenon, <1>1 DEF TypeOK, EmptyExpired
<1>6. StableKeyVerifies'
  BY Zenon, <1>1 DEF TypeOK, StableKeyVerifies
<1> QED  BY Zenon, <1>2, <1>3, <1>4, <1>5, <1>6

\* A key that every published set has, and that the header admits, verifies the
\* token with any published set.
LEMMA StableSigned ==
  ASSUME TypeOK, NEW v \in Verifies, NEW n \in Version, n # 0, Admitted(token[v]),
         \A i \in 1..Len(published) : token[v].key \in published[i]
  PROVE  Signed(n, token[v])
<1>1. n \in 1..Len(published)
  BY DEF Version, TypeOK
<1> QED  BY Zenon, <1>1 DEF Signed, KeysOf, Admitted

\* The steps of a call of verify preserve the invariant.
LEMMA VerifyKeeps ==
  ASSUME KeyInv, NEW v \in Verifies, Malformed(v) \/ Verify(v)
  PROVE  KeyInv'
<1> USE DEF KeyInv
<1> USE KeySetAssumption
<1>1. CASE Malformed(v)
  BY Zenon, <1>1, ReturnKeeps DEF Malformed, Results
<1>2. CASE VerifyCached(v)
  BY Zenon, <1>2, ReturnKeeps DEF VerifyCached, Results
<1>3. CASE WaitCancelled(v)
  BY Zenon, <1>3, ReturnKeeps DEF WaitCancelled, Results
<1>4. CASE WaitFailed(v)
  BY Zenon, <1>4, ReturnKeeps DEF WaitFailed, Results
<1>5. ASSUME Return(v, "failed"),
             Admitted(token[v])
               => ~\A i \in 1..Len(published) : token[v].key \in published[i]
      PROVE  StableKeyVerifies'
  BY Zenon, <1>5 DEF Return, StableKeyVerifies, TypeOK
<1>6. CASE NotExpired(v)
  <2>1. ASSUME Admitted(token[v]), \A i \in 1..Len(published) : token[v].key \in published[i]
        PROVE  FALSE
    <3>1. keys[v] \in Version /\ ~Signed(keys[v], token[v])
      BY Zenon, <1>6 DEF NotExpired, TypeOK
    <3>2. keys[v] = 0
      BY Zenon, <2>1, <3>1, StableSigned
    <3>3. keysExpiry[v] = 0
      BY Zenon, <3>2 DEF EmptyExpired
    <3>4. now \in Nat /\ ~(now + keysExpiryDelta > 0)
      BY Zenon, <1>6, <3>3 DEF NotExpired, Expiring, TypeOK
    <3> QED  BY <3>4
  <2>2. Return(v, "failed") /\ pc[v] # "remote"
    BY Zenon, <1>6 DEF NotExpired
  <2> QED  BY Zenon, <1>5, <2>1, <2>2, ReturnKeeps DEF Results
<1>7. CASE WaitDone(v)
  <2> DEFINE n == fetched[waits[v]]
  <2>1. waits[v] \in Verifies /\ n \in Version /\ n # 0 /\ pc[v] # "remote"
    BY Zenon, <1>7 DEF WaitDone, WaitsReal, TypeOK
  <2>2. CASE Signed(n, token[v])
    BY Zenon, <1>7, <2>1, <2>2, ReturnKeeps DEF WaitDone, Results
  <2>3. CASE ~Signed(n, token[v])
    <3>1. Return(v, "failed")
      BY Zenon, <1>7, <2>3 DEF WaitDone
    <3> QED  BY Zenon, <1>5, <2>1, <2>3, <3>1, StableSigned, ReturnKeeps DEF Results
  <2> QED  BY Zenon, <2>2, <2>3
<1>8. CASE KeysFromCache(v)
  <2>1. TypeOK'
    BY Zenon, <1>8 DEF KeysFromCache, TypeOK, Version, cacheVars, updateVars
  <2>2. SingleFlight' /\ FreshCalls' /\ UpdateNewer' /\ WaitsReal'
    BY ZenonT(60), <1>8 DEF KeysFromCache, TypeOK, SingleFlight, FreshCalls, UpdateNewer, WaitsReal,
       cacheVars, updateVars
  <2>3. EmptyExpired' /\ StableKeyVerifies'
    BY Zenon, <1>8 DEF KeysFromCache, TypeOK, EmptyExpired, StableKeyVerifies, cacheVars
  <2> QED  BY Zenon, <2>1, <2>2, <2>3
<1>9. CASE Refresh(v)
  <2>1. TypeOK'
    BY Zenon, <1>9 DEF Refresh, TypeOK, Version, cacheVars, updateVars
  <2>2. SingleFlight' /\ FreshCalls' /\ UpdateNewer' /\ WaitsReal'
    BY ZenonT(60), <1>9 DEF Refresh, TypeOK, SingleFlight, FreshCalls, UpdateNewer, WaitsReal,
       cacheVars, updateVars
  <2>3. EmptyExpired' /\ StableKeyVerifies'
    BY Zenon, <1>9 DEF Refresh, TypeOK, EmptyExpired, StableKeyVerifies, cacheVars
  <2> QED  BY Zenon, <2>1, <2>2, <2>3
<1>10. CASE KeysFromRemote(v)
  <2>1. inflight' \in Verifies
    BY Zenon, <1>10 DEF KeysFromRemote, StartsUpdate, TypeOK
  <2>2. upc[v] = "off" /\ fetched[v] = 0
    BY Zenon, <1>10 DEF KeysFromRemote, FreshCalls
  <2>3. TypeOK'
    BY Zenon, <1>10, <2>1 DEF KeysFromRemote, TypeOK, Version
  <2>4. SingleFlight'
    BY ZenonT(60), <1>10, <2>2 DEF KeysFromRemote, StartsUpdate, TypeOK, SingleFlight
  <2>5. FreshCalls' /\ WaitsReal'
    BY Zenon, <1>10, <2>1 DEF KeysFromRemote, TypeOK, FreshCalls, WaitsReal
  <2>6. UpdateNewer'
    BY Zenon, <1>10, <2>2 DEF KeysFromRemote, TypeOK, UpdateNewer
  <2>7. EmptyExpired' /\ StableKeyVerifies'
    BY Zenon, <1>10 DEF KeysFromRemote, EmptyExpired, StableKeyVerifies
  <2> QED  BY Zenon, <2>3, <2>4, <2>5, <2>6, <2>7
<1> QED
  BY Zenon, <1>1, <1>2, <1>3, <1>4, <1>6, <1>7, <1>8, <1>9, <1>10 DEF Verify

\* The steps of an update and of the provider that answers it preserve the
\* invariant; only the update in flight is past its start.
LEMMA UpdateKeeps ==
  ASSUME KeyInv, NEW u \in Verifies, Provider(u) \/ Update(u)
  PROVE  KeyInv'
<1> USE DEF KeyInv, cacheVars, callVars
<1> USE KeySetAssumption
<1>1. CASE Serve(u)
  <2>1. Len(published) \in Version /\ Len(published) >= cached
    BY DEF TypeOK, Version
  <2>2. TypeOK'
    BY Zenon, <1>1, <2>1 DEF Serve, TypeOK, Version
  <2>3. SingleFlight' /\ FreshCalls' /\ WaitsReal'
    BY ZenonT(60), <1>1 DEF Serve, TypeOK, SingleFlight, FreshCalls, WaitsReal
  <2>4. UpdateNewer'
    BY Zenon, <1>1, <2>1 DEF Serve, TypeOK, UpdateNewer
  <2>5. EmptyExpired' /\ StableKeyVerifies'
    BY Zenon, <1>1 DEF Serve, EmptyExpired, StableKeyVerifies
  <2> QED  BY Zenon, <2>2, <2>3, <2>4, <2>5
<1>2. CASE Received(u)
  <2>1. PICK e \in now..(now + MaxAge) : fetchExpiry' = [fetchExpiry EXCEPT ![u] = e]
    BY Zenon, <1>2 DEF Received
  <2>2. e \in Nat
    BY <2>1 DEF TypeOK
  <2>3. TypeOK'
    BY Zenon, <1>2, <2>1, <2>2 DEF Received, TypeOK, Version
  <2>4. SingleFlight' /\ FreshCalls' /\ WaitsReal' /\ UpdateNewer'
    BY ZenonT(60), <1>2 DEF Received, TypeOK, SingleFlight, FreshCalls, WaitsReal, UpdateNewer
  <2>5. EmptyExpired' /\ StableKeyVerifies'
    BY Zenon, <1>2 DEF Received, EmptyExpired, StableKeyVerifies
  <2> QED  BY Zenon, <2>3, <2>4, <2>5
<1>3. CASE FetchFails(u)
  <2>1. TypeOK'
    <3>1. 0 \in Version
      BY DEF Version
    <3>2. fetched' \in [Verifies -> Version]
      BY Zenon, <1>3, <3>1 DEF FetchFails, TypeOK
    <3>3. upc' \in [Verifies -> {"off", "fetch", "served", "done", "store"}]
      BY Zenon, <1>3 DEF FetchFails, TypeOK
    <3>4. Version' = Version
      BY Zenon, <1>3 DEF FetchFails, Version
    <3> QED  BY Zenon, <1>3, <3>2, <3>3, <3>4 DEF FetchFails, TypeOK, cacheVars, callVars
  <2>2. SingleFlight' /\ FreshCalls' /\ WaitsReal' /\ UpdateNewer'
    BY ZenonT(60), <1>3 DEF FetchFails, TypeOK, SingleFlight, FreshCalls, WaitsReal, UpdateNewer
  <2>3. EmptyExpired' /\ StableKeyVerifies'
    BY Zenon, <1>3 DEF FetchFails, EmptyExpired, StableKeyVerifies
  <2> QED  BY Zenon, <2>1, <2>2, <2>3
<1>4. CASE Done(u)
  <2>1. TypeOK'
    BY Zenon, <1>4 DEF Done, TypeOK, Version
  <2>2. SingleFlight' /\ FreshCalls' /\ WaitsReal' /\ UpdateNewer'
    BY ZenonT(60), <1>4 DEF Done, TypeOK, SingleFlight, FreshCalls, WaitsReal, UpdateNewer
  <2>3. EmptyExpired' /\ StableKeyVerifies'
    BY Zenon, <1>4 DEF Done, EmptyExpired, StableKeyVerifies
  <2> QED  BY Zenon, <2>1, <2>2, <2>3
<1>5. CASE Store(u)
  <2>1. \A w \in Verifies : upc'[w] = "off"
    BY Zenon, <1>5 DEF Store, TypeOK, SingleFlight
  <2>2. TypeOK'
    BY Zenon, <1>5 DEF Store, TypeOK, Version
  <2>3. SingleFlight' /\ FreshCalls' /\ WaitsReal' /\ UpdateNewer'
    BY Zenon, <1>5, <2>1 DEF Store, SingleFlight, FreshCalls, WaitsReal, UpdateNewer
  <2>4. EmptyExpired'
    BY Zenon, <1>5 DEF Store, EmptyExpired
  <2>5. StableKeyVerifies'
    BY Zenon, <1>5 DEF Store, StableKeyVerifies
  <2> QED  BY Zenon, <2>2, <2>3, <2>4, <2>5
<1> QED  BY Zenon, <1>1, <1>2, <1>3, <1>4, <1>5 DEF Provider, Update

\* The clock, the provider's changes and a context that ends preserve the
\* invariant.
LEMMA OutsideKeeps ==
  ASSUME KeyInv, Tick \/ Rotate \/ \E v \in Verifies : Cancel(v)
  PROVE  KeyInv'
<1> USE DEF KeyInv, cacheVars, updateVars, callVars
<1>1. CASE Tick
  <2>1. TypeOK'
    BY <1>1 DEF Tick, TypeOK, Version
  <2>2. SingleFlight' /\ FreshCalls' /\ WaitsReal' /\ UpdateNewer'
    BY Zenon, <1>1 DEF Tick, SingleFlight, FreshCalls, WaitsReal, UpdateNewer
  <2>3. EmptyExpired' /\ StableKeyVerifies'
    BY Zenon, <1>1 DEF Tick, EmptyExpired, StableKeyVerifies
  <2> QED  BY Zenon, <2>1, <2>2, <2>3
<1>2. CASE Rotate
  <2>1. PICK ks \in SUBSET Keys : published' = Append(published, ks)
    BY Zenon, <1>2 DEF Rotate
  <2>2. /\ published' \in Seq(SUBSET Keys) /\ Len(published) \in Nat
        /\ Len(published') = Len(published) + 1
        /\ \A i \in 1..Len(published) : published'[i] = published[i]
    BY <2>1 DEF TypeOK
  <2>3. \A n \in Version : n \in Version'
    BY <2>2 DEF Version
  <2>4. TypeOK'
    BY Zenon, <1>2, <2>2, <2>3 DEF Rotate, TypeOK
  <2>5. SingleFlight' /\ FreshCalls' /\ WaitsReal' /\ UpdateNewer'
    BY Zenon, <1>2 DEF Rotate, SingleFlight, FreshCalls, WaitsReal, UpdateNewer
  <2>6. EmptyExpired'
    BY Zenon, <1>2 DEF Rotate, EmptyExpired
  <2>7. StableKeyVerifies'
    BY <1>2, <2>2 DEF Rotate, StableKeyVerifies, Admitted
  <2> QED  BY Zenon, <2>4, <2>5, <2>6, <2>7
<1>3. ASSUME NEW v \in Verifies, Cancel(v) PROVE KeyInv'
  <2>1. TypeOK'
    BY Zenon, <1>3 DEF Cancel, TypeOK, Version
  <2>2. SingleFlight' /\ FreshCalls' /\ WaitsReal' /\ UpdateNewer'
    BY Zenon, <1>3 DEF Cancel, SingleFlight, FreshCalls, WaitsReal, UpdateNewer
  <2>3. EmptyExpired' /\ StableKeyVerifies'
    BY Zenon, <1>3 DEF Cancel, EmptyExpired, StableKeyVerifies
  <2> QED  BY Zenon, <2>1, <2>2, <2>3
<1> QED  BY Zenon, <1>1, <1>2, <1>3

\* No step of the key set breaks the invariant.
LEMMA KeyStep == KeyInv /\ [Next]_vars => KeyInv'
<1> SUFFICES ASSUME KeyInv, [Next]_vars PROVE KeyInv'
  BY Zenon
<1>1. CASE UNCHANGED vars
  <2>1. TypeOK' /\ SingleFlight' /\ FreshCalls'
    BY Zenon, <1>1 DEF vars, cacheVars, updateVars, callVars, KeyInv, TypeOK, Version,
       SingleFlight, FreshCalls
  <2>2. UpdateNewer' /\ WaitsReal' /\ EmptyExpired' /\ StableKeyVerifies'
    BY Zenon, <1>1 DEF vars, cacheVars, updateVars, callVars, KeyInv, UpdateNewer, WaitsReal,
       EmptyExpired, StableKeyVerifies
  <2> QED  BY Zenon, <2>1, <2>2 DEF KeyInv
<1>2. CASE Next
  BY Zenon, <1>2, OutsideKeeps, VerifyKeeps, UpdateKeeps DEF Next
<1> QED  BY Zenon, <1>1, <1>2

-----------------------------------------------------------------------------
\* The invariant of the remote key set holds for any number of calls, any keys
\* and any history of the provider.
THEOREM KeySetInvariant == Spec => []KeyInv
BY KeyInit, KeyStep, PTL DEF Spec

\* At most one goroutine of keysFromRemote runs, r.inflight is its own, and it
\* is cleared when that goroutine ends.
THEOREM KeySetSingleFlight == Spec => []SingleFlight
<1>1. KeyInv => SingleFlight
  BY Zenon DEF KeyInv
<1> QED  BY <1>1, KeySetInvariant, PTL

\* verify never refuses a token whose key the provider has always published.
THEOREM KeySetStableKey == Spec => []StableKeyVerifies
<1>1. KeyInv => StableKeyVerifies
  BY Zenon DEF KeyInv
<1> QED  BY <1>1, KeySetInvariant, PTL

\* Every step leaves the cache with keys at least as new as before: the update
\* that stores its keys was served after the last one that did.
THEOREM KeySetCacheMonotone == Spec => CacheMonotone
<1>1. KeyInv /\ [Next]_vars => [cached' >= cached]_vars
  <2> SUFFICES ASSUME KeyInv, Next PROVE cached' >= cached
    BY Zenon
  <2>1. cached \in Int
    BY DEF KeyInv, TypeOK, Version
  <2>2. ASSUME NEW u \in Verifies, Store(u) PROVE cached' >= cached
    BY <2>1, <2>2 DEF Store, KeyInv, UpdateNewer
  <2>3. ASSUME NEW v \in Verifies, NEW r, Return(v, r) PROVE cached' = cached
    BY Zenon, <2>3 DEF Return, cacheVars
  <2>4. ASSUME NEW v \in Verifies, Malformed(v) \/ Verify(v) PROVE cached' = cached
    BY Zenon, <2>3, <2>4 DEF Malformed, Verify, KeysFromCache, VerifyCached, NotExpired, Refresh,
       KeysFromRemote, WaitCancelled, WaitFailed, WaitDone, cacheVars
  <2>5. ASSUME NEW u \in Verifies, Provider(u) \/ Done(u) \/ Cancel(u)
        PROVE  cached' = cached
    BY Zenon, <2>5 DEF Provider, Serve, Received, FetchFails, Done, Cancel, cacheVars
  <2>6. Tick \/ Rotate => cached' = cached
    BY Zenon DEF Tick, Rotate, cacheVars
  <2> QED  BY <2>1, <2>2, <2>4, <2>5, <2>6 DEF Next, Update
<1> QED  BY <1>1, KeySetInvariant, PTL DEF Spec, CacheMonotone

-----------------------------------------------------------------------------
(* The encoder cache.                                                      *)

Encoder == [build : Nat, wait : BOOLEAN]
BuildRecord == [type : Types, elems : Seq(Encoder), done : BOOLEAN]
AnyType == Types \cup {CHOOSE t \in Types : TRUE}
Goroutine == [pc : {"idle", "lookup", "insert", "build", "publish", "call"},
              type : AnyType, stack : Seq(Nat), enc : Encoder, depth : Nat]

CacheTyped ==
  /\ encoderCache \in [Types -> Seq(Encoder)]
  /\ builds \in Seq(BuildRecord)
  /\ go \in [Goroutines -> Goroutine]

\* The three parts of EncodersServe.
CachedOk(t) == \A i \in 1..Len(encoderCache[t]) : Serves(encoderCache[t][i], t)
BuildOk(b) ==
  /\ Len(builds[b].elems) <= Len(Elems[builds[b].type])
  /\ builds[b].done => Len(builds[b].elems) = Len(Elems[builds[b].type])
  /\ \A i \in 1..Len(builds[b].elems) : Serves(builds[b].elems[i], Elems[builds[b].type][i])
CallOk(p) == go[p].pc = "call" => \E t \in Types : Serves(go[p].enc, t)

\* Each build is on one stack, once: nobody else completes it.
On(s) == {s[i] : i \in 1..Len(s)}
Once(s) == \A i, j \in 1..Len(s) : s[i] = s[j] => i = j
Held(p) == On(go[p].stack) \subseteq 1..Len(builds) /\ Once(go[p].stack)
Apart(p, q) == p # q => On(go[p].stack) \cap On(go[q].stack) = {}

\* The next encoder that build b waits for is that of type t.
Wants(b, t) ==
  /\ ~builds[b].done
  /\ Len(builds[b].elems) < Len(Elems[builds[b].type])
  /\ t = Elems[builds[b].type][Len(builds[b].elems) + 1]

\* A build waits for the one above it, and the last one for the type that is
\* looked up.
Chain(s) == \A i \in 1..(Len(s) - 1) : Wants(s[i], builds[s[i + 1]].type)
TopOk(g) ==
  LET top == g.stack[Len(g.stack)]
  IN  /\ g.pc \in {"lookup", "insert"} => g.type \in Types /\ (g.stack # <<>> => Wants(top, g.type))
      /\ g.pc = "build" => g.stack # <<>> /\ ~builds[top].done
      /\ g.pc = "publish" => g.stack # <<>> /\ builds[top].done
      /\ g.pc \in {"idle", "call"} => g.stack = <<>>

CacheInv ==
  /\ CacheTyped
  /\ \A t \in Types : CachedOk(t)
  /\ \A b \in 1..Len(builds) : BuildOk(b)
  /\ \A p \in Goroutines : CallOk(p) /\ Held(p) /\ Chain(go[p].stack) /\ TopOk(go[p])
  /\ \A p, q \in Goroutines : Apart(p, q)

With(s, k, r) == [s EXCEPT ![k] = r]

-----------------------------------------------------------------------------
\* The invariant contains what is claimed of the encoders.
LEMMA CacheInvServes ==
  ASSUME CacheInv PROVE EncodersServe
BY Zenon DEF CacheInv, CachedOk, BuildOk, CallOk, EncodersServe

\* At first nothing is cached and nothing is built.
LEMMA CacheStarts ==
  ASSUME CacheInit PROVE CacheInv
<1> DEFINE e == [build |-> 0, wait |-> FALSE]
           g == [pc |-> "idle", type |-> CHOOSE t \in Types : TRUE, stack |-> <<>>,
                 enc |-> e, depth |-> 0]
<1>1. e \in Encoder
  BY DEF Encoder
<1>2. g.pc = "idle" /\ g.stack = <<>>
  BY Zenon
<1>3. g \in Goroutine
  BY <1>1 DEF Goroutine, AnyType
<1>4. \A p \in Goroutines : go[p] = g
  BY Zenon DEF CacheInit
<1> HIDE DEF e, g
<1>5. 1..Len(<<>>) = {} /\ 1..(Len(<<>>) - 1) = {}
  OBVIOUS
<1>6. CacheTyped
  <2>1. <<>> \in Seq(Encoder) /\ <<>> \in Seq(BuildRecord)
    BY EmptySeq
  <2>2. go \in [Goroutines -> Goroutine]
    BY Zenon, <1>3 DEF CacheInit, g, e
  <2> QED  BY Zenon, <2>1, <2>2 DEF CacheInit, CacheTyped
<1>7. \A t \in Types : CachedOk(t)
  BY Zenon, <1>5 DEF CacheInit, CachedOk
<1>8. \A b \in 1..Len(builds) : BuildOk(b)
  BY Zenon, <1>5 DEF CacheInit
<1>9. On(<<>>) = {} /\ Once(<<>>) /\ Chain(<<>>)
  BY Zenon, <1>5 DEF On, Once, Chain
<1>10. \A p \in Goroutines : CallOk(p) /\ Held(p) /\ Chain(go[p].stack) /\ TopOk(go[p])
  BY Zenon, <1>2, <1>4, <1>9 DEF CallOk, Held, TopOk
<1>11. \A p, q \in Goroutines : Apart(p, q)
  BY Zenon, <1>2, <1>4, <1>9 DEF Apart
<1> QED  BY Zenon, <1>6, <1>7, <1>8, <1>10, <1>11 DEF CacheInv

\* Encoders go on serving their types while builds are added and completed.
LEMMA ServesKept ==
  ASSUME 1..Len(builds) \subseteq 1..Len(builds'),
         \A b \in 1..Len(builds) :
           builds'[b].type = builds[b].type /\ (builds[b].done => builds'[b].done)
  PROVE  \A e, t : Serves(e, t) => Serves(e, t)'
BY Zenon DEF Serves

\* A sequence with one more element.
LEMMA Appended ==
  ASSUME NEW S, NEW s \in Seq(S), NEW r \in S
  PROVE  /\ Append(s, r) \in Seq(S) /\ Len(Append(s, r)) = Len(s) + 1
         /\ Append(s, r)[Len(s) + 1] = r
         /\ \A b \in 1..Len(s) : Append(s, r)[b] = s[b]
         /\ 1..(Len(s) + 1) = 1..Len(s) \cup {Len(s) + 1}
         /\ Len(s) + 1 \notin 1..Len(s) /\ Len(s) + 1 \in Nat
BY AppendProperties

\* The places of a sequence that is not empty.
LEMMA Places ==
  ASSUME NEW S, NEW s \in Seq(S)
  PROVE  /\ s # <<>> => Len(s) \in 1..Len(s) /\ s[Len(s)] \in On(s)
         /\ \A i \in 1..(Len(s) - 1) : i \in 1..Len(s) /\ i + 1 \in 1..Len(s) /\ i # Len(s)
BY DEF On

\* One build is replaced: the others stay.
LEMMA BuildReplaced ==
  ASSUME builds \in Seq(BuildRecord), NEW k \in 1..Len(builds), NEW r \in BuildRecord,
         builds' = With(builds, k, r)
  PROVE  /\ builds' \in Seq(BuildRecord) /\ Len(builds') = Len(builds) /\ builds'[k] = r
         /\ \A b \in 1..Len(builds) : b # k => builds'[b] = builds[b]
BY ExceptSeq DEF With

\* A build gets the encoder of its next part ...
LEMMA AddPart ==
  ASSUME builds \in Seq(BuildRecord), NEW k \in 1..Len(builds), NEW enc \in Encoder,
         builds' = [builds EXCEPT ![k].elems = Append(@, enc)]
  PROVE  /\ builds' \in Seq(BuildRecord) /\ Len(builds') = Len(builds)
         /\ \A b \in 1..Len(builds) : b # k => builds'[b] = builds[b]
         /\ builds'[k].type = builds[k].type /\ builds'[k].done = builds[k].done
         /\ builds'[k].elems = Append(builds[k].elems, enc)
<1> DEFINE more == Append(builds[k].elems, enc)
           r == [builds[k] EXCEPT !.elems = more]
<1>1. builds[k] \in BuildRecord
  BY ElementOfSeq
<1>6. more \in Seq(Encoder)
  BY <1>1, AppendProperties DEF BuildRecord
<1> HIDE DEF more
<1>2. /\ r \in BuildRecord /\ r.type = builds[k].type
      /\ r.done = builds[k].done /\ r.elems = more
  BY Zenon, <1>1, <1>6 DEF BuildRecord
<1>3. builds' = With(builds, k, r)
  BY Zenon DEF With, more
<1> HIDE DEF r
<1>4. /\ builds' \in Seq(BuildRecord) /\ Len(builds') = Len(builds) /\ builds'[k] = r
      /\ \A b \in 1..Len(builds) : b # k => builds'[b] = builds[b]
  BY Zenon, <1>2, <1>3, BuildReplaced
<1> QED  BY Zenon, <1>2, <1>4 DEF more

\* ... or is done.
LEMMA SetDone ==
  ASSUME builds \in Seq(BuildRecord), NEW k \in 1..Len(builds),
         builds' = [builds EXCEPT ![k].done = TRUE]
  PROVE  /\ builds' \in Seq(BuildRecord) /\ Len(builds') = Len(builds)
         /\ \A b \in 1..Len(builds) : b # k => builds'[b] = builds[b]
         /\ builds'[k].type = builds[k].type /\ builds'[k].done
         /\ builds'[k].elems = builds[k].elems
<1> DEFINE r == [builds[k] EXCEPT !.done = TRUE]
<1>1. builds[k] \in BuildRecord
  BY ElementOfSeq
<1>2. /\ r \in BuildRecord /\ r.type = builds[k].type
      /\ r.done /\ r.elems = builds[k].elems
  BY Zenon, <1>1 DEF BuildRecord
<1>3. builds' = With(builds, k, r)
  BY Zenon DEF With
<1> HIDE DEF r
<1>4. /\ builds' \in Seq(BuildRecord) /\ Len(builds') = Len(builds) /\ builds'[k] = r
      /\ \A b \in 1..Len(builds) : b # k => builds'[b] = builds[b]
  BY Zenon, <1>2, <1>3, BuildReplaced
<1> QED  BY Zenon, <1>2, <1>4

\* ... and a new one starts without any.
LEMMA AddBuild ==
  ASSUME builds \in Seq(BuildRecord), NEW t \in Types,
         builds' = Append(builds, [type |-> t, elems |-> <<>>, done |-> FALSE])
  PROVE  /\ builds' \in Seq(BuildRecord) /\ Len(builds') = Len(builds) + 1
         /\ \A b \in 1..Len(builds) : builds'[b] = builds[b]
         /\ builds'[Len(builds) + 1].type = t /\ builds'[Len(builds) + 1].elems = <<>>
         /\ ~builds'[Len(builds) + 1].done
<1> DEFINE r == [type |-> t, elems |-> <<>>, done |-> FALSE]
<1>1. <<>> \in Seq(Encoder)
  BY EmptySeq
<1>2. r \in BuildRecord /\ r.type = t /\ r.elems = <<>> /\ ~r.done
  BY Zenon, <1>1 DEF BuildRecord
<1>3. builds' = Append(builds, r)
  BY Zenon
<1> HIDE DEF r
<1> QED  BY <1>2, <1>3, Appended

\* What a build that does not change waits for.
LEMMA WantsKept ==
  ASSUME NEW b, builds'[b] = builds[b]
  PROVE  \A t : Wants(b, t) => Wants(b, t)'
BY Zenon DEF Wants

\* What holds of a goroutine whose builds do not change.
LEMMA OthersKept ==
  ASSUME CacheInv, NEW q \in Goroutines, go'[q] = go[q],
         1..Len(builds) \subseteq 1..Len(builds'),
         \A b \in 1..Len(builds) :
           builds'[b].type = builds[b].type /\ (builds[b].done => builds'[b].done),
         \A b \in On(go[q].stack) : builds'[b] = builds[b]
  PROVE  CallOk(q)' /\ Held(q)' /\ Chain(go[q].stack)' /\ TopOk(go[q])'
<1> DEFINE s == go[q].stack
<1>1. s \in Seq(Nat)
  BY Zenon DEF CacheInv, CacheTyped, Goroutine
<1>2. CallOk(q) /\ Held(q) /\ Chain(s) /\ TopOk(go[q])
  BY Zenon DEF CacheInv
<1>3. s' = s
  BY Zenon
<1>4. CallOk(q)'
  BY Zenon, <1>2, ServesKept DEF CallOk
<1>5. Held(q)'
  BY Zenon, <1>2 DEF Held
<1>6. /\ s # <<>> => s[Len(s)] \in On(s)
      /\ \A i \in 1..(Len(s) - 1) : i \in 1..Len(s) /\ i + 1 \in 1..Len(s)
  BY Zenon, <1>1, Places
<1> HIDE DEF s
<1>7. \A i \in 1..Len(s) : builds'[s[i]] = builds[s[i]]
  BY Zenon DEF On, s
<1>8. Chain(s)'
  BY ZenonT(60), <1>2, <1>3, <1>6, <1>7, WantsKept DEF Chain
<1>9. TopOk(go[q])'
  BY ZenonT(60), <1>2, <1>3, <1>6, WantsKept DEF TopOk, s
<1> QED  BY Zenon, <1>3, <1>4, <1>5, <1>8, <1>9 DEF s

\* A step of goroutine p that changes none but its own builds and starts new
\* ones: what is left to show is about p.
LEMMA OneMoves ==
  ASSUME CacheInv, NEW p \in Goroutines, NEW g \in Goroutine, go' = [go EXCEPT ![p] = g],
         encoderCache' \in [Types -> Seq(Encoder)], \A t \in Types : CachedOk(t)',
         builds' \in Seq(BuildRecord), 1..Len(builds) \subseteq 1..Len(builds'),
         \A b \in 1..Len(builds) :
           builds'[b].type = builds[b].type /\ (builds[b].done => builds'[b].done),
         \A b \in 1..Len(builds) : b \notin On(go[p].stack) => builds'[b] = builds[b],
         \A b \in 1..Len(builds') : BuildOk(b)',
         On(g.stack) \subseteq 1..Len(builds'), Once(g.stack),
         \A b \in On(g.stack) : b \in On(go[p].stack) \/ b \notin 1..Len(builds),
         g.pc = "call" => \E t \in Types : Serves(g.enc, t)', NEW s, s = g.stack, Chain(s)', TopOk(g)'
  PROVE  CacheInv'
<1>1. CacheTyped /\ \A q \in Goroutines : Held(q) /\ Apart(p, q) /\ Apart(q, p)
  BY Zenon DEF CacheInv
<1>2. /\ go' \in [Goroutines -> Goroutine] /\ go'[p] = g
      /\ \A q \in Goroutines : q # p => go'[q] = go[q]
  BY Zenon, <1>1 DEF CacheTyped
<1>3. CacheTyped'
  BY Zenon, <1>2 DEF CacheTyped
<1>4. ASSUME NEW q \in Goroutines, q # p
      PROVE  \A b \in On(go[q].stack) : builds'[b] = builds[b]
  BY Zenon, <1>1, <1>4 DEF Held, Apart
<1>5. ASSUME NEW q \in Goroutines
      PROVE  (CallOk(q) /\ Held(q) /\ Chain(go[q].stack) /\ TopOk(go[q]))'
  <2>1. CASE q # p
    BY Zenon, <1>2, <1>4, <2>1, OthersKept
  <2>2. CASE q = p
    <3>1. CallOk(p)'
      BY Zenon, <1>2 DEF CallOk
    <3>2. Held(p)'
      BY Zenon, <1>2 DEF Held
    <3>3. Chain(go[p].stack)'
      BY Zenon, <1>2
    <3>4. TopOk(go[p])'
      BY Zenon, <1>2
    <3> QED  BY Zenon, <2>2, <3>1, <3>2, <3>3, <3>4
  <2> QED  BY Zenon, <2>1, <2>2
<1>6. ASSUME NEW q \in Goroutines, NEW r \in Goroutines
      PROVE  Apart(q, r)'
  <2>1. Apart(q, r)
    BY Zenon DEF CacheInv
  <2>2. CASE q # p /\ r # p
    BY Zenon, <1>2, <2>1, <2>2 DEF Apart
  <2>3. ASSUME NEW o \in Goroutines, o # p
        PROVE  On(g.stack) \cap On(go[o].stack) = {}
    BY Zenon, <1>1, <2>3 DEF Held, Apart
  <2>4. CASE q = p /\ r # p
    BY Zenon, <1>2, <2>3, <2>4 DEF Apart
  <2>5. CASE r = p /\ q # p
    BY ZenonT(60), <1>2, <2>3, <2>5 DEF Apart
  <2>6. CASE q = r
    BY Zenon, <2>6 DEF Apart
  <2> QED  BY Zenon, <2>2, <2>4, <2>5, <2>6
<1> QED  BY Zenon, <1>3, <1>5, <1>6 DEF CacheInv

-----------------------------------------------------------------------------
\* The build that gets the encoder it waited for is still well made.
LEMMA PartOk ==
  ASSUME builds \in Seq(BuildRecord), NEW k \in 1..Len(builds), NEW enc \in Encoder,
         NEW t \in Types, Serves(enc, t), BuildOk(k), Wants(k, t),
         builds'[k].type = builds[k].type, builds'[k].done = builds[k].done,
         builds'[k].elems = Append(builds[k].elems, enc),
         \A e, u : Serves(e, u) => Serves(e, u)'
  PROVE  BuildOk(k)'
<1>1. builds[k] \in BuildRecord
  BY ElementOfSeq
<1>2. PICK old \in Seq(Encoder) : old = builds[k].elems
  BY Zenon, <1>1 DEF BuildRecord
<1>3. PICK els \in Seq(Types) : els = Elems[builds[k].type]
  BY Zenon, <1>1, ElemsAssumption DEF BuildRecord
<1>4. PICK new : new = Append(old, enc)
  BY Zenon
<1>5. /\ Len(new) = Len(old) + 1 /\ new[Len(old) + 1] = enc /\ \A i \in 1..Len(old) : new[i] = old[i]
      /\ 1..Len(new) = 1..Len(old) \cup {Len(old) + 1}
  BY <1>4
<1>6. Len(old) < Len(els) /\ (\A i \in 1..Len(old) : Serves(old[i], els[i])) /\ Serves(enc, els[Len(old) + 1])
  BY Zenon, <1>2, <1>3 DEF BuildOk, Wants
<1>10. Len(new) <= Len(els)
  BY <1>5, <1>6
<1>7. \A i \in 1..Len(new) : Serves(new[i], els[i])
  BY Zenon, <1>5, <1>6
<1>8. ~builds'[k].done
  BY Zenon DEF Wants
<1>9. builds'[k].elems = new /\ Elems[builds'[k].type] = els
  BY Zenon, <1>2, <1>3, <1>4
<1> QED  BY Zenon, <1>7, <1>8, <1>9, <1>10 DEF BuildOk

\* typeEncoder returns an encoder of type t, which is what Marshal called it for
\* or what the build on top of the stack waits for.
LEMMA Returns ==
  ASSUME CacheInv, NEW p \in Goroutines, NEW f \in Seq(Nat),
         On(f) \subseteq On(go[p].stack), Once(f), Chain(f),
         NEW enc \in Encoder, NEW t \in Types, Serves(enc, t),
         f # <<>> => Wants(f[Len(f)], t), returnTo(p, f, enc, builds),
         encoderCache' \in [Types -> Seq(Encoder)],
         \A u \in Types : \A i \in 1..Len(encoderCache'[u]) : Serves(encoderCache'[u][i], u)
  PROVE  CacheInv'
<1>1. /\ CacheTyped /\ On(f) \subseteq 1..Len(builds) /\ go[p] \in Goroutine
      /\ \A b \in 1..Len(builds) : BuildOk(b)
  BY Zenon DEF CacheInv, CacheTyped, Held
<1>2. CASE f = <<>>
  <2>1. PICK g \in Goroutine : g = [go[p] EXCEPT !.pc = "call", !.stack = f, !.enc = enc] /\ g.pc = "call" /\ g.stack = f /\ g.enc = enc
    <3> DEFINE h == [go[p] EXCEPT !.pc = "call", !.stack = f, !.enc = enc]
    <3>1. h \in Goroutine /\ h.pc = "call" /\ h.stack = f /\ h.enc = enc
      BY Zenon, <1>1 DEF Goroutine
    <3> HIDE DEF h
    <3>2. PICK g \in Goroutine : g = h
      BY Zenon, <3>1
    <3> QED  BY Zenon, <3>1, <3>2 DEF h
  <2>2. go' = [go EXCEPT ![p] = g] /\ builds' = builds
    BY Zenon, <1>2, <2>1 DEF returnTo
  <2>3. \A e, u : Serves(e, u) => Serves(e, u)'
    BY Zenon, <2>2 DEF Serves
  <2>4. \A u \in Types : CachedOk(u)'
    BY Zenon, <2>3 DEF CachedOk
  <2>5. \A b \in 1..Len(builds) : BuildOk(b)'
    BY Zenon, <1>1, <2>2, <2>3 DEF BuildOk
  <2>6. TopOk(g)'
    BY Zenon, <1>2, <2>1 DEF TopOk
  <2>7. Chain(f)'
    <3>1. 1..(Len(f) - 1) = {}
      BY <1>2
    <3> QED  BY Zenon, <3>1 DEF Chain
  <2> QED  BY Zenon, <1>1, <2>1, <2>2, <2>3, <2>4, <2>5, <2>6, <2>7, OneMoves DEF CacheTyped
<1>3. CASE f # <<>>
  <2> DEFINE k == f[Len(f)]
  <2>1. PICK g \in Goroutine : g = [go[p] EXCEPT !.pc = "build", !.stack = f] /\ g.pc = "build" /\ g.stack = f
    <3> DEFINE h == [go[p] EXCEPT !.pc = "build", !.stack = f]
    <3>1. h \in Goroutine /\ h.pc = "build" /\ h.stack = f
      BY Zenon, <1>1 DEF Goroutine
    <3> HIDE DEF h
    <3>2. PICK g \in Goroutine : g = h
      BY Zenon, <3>1
    <3> QED  BY Zenon, <3>1, <3>2 DEF h
  <2>2. go' = [go EXCEPT ![p] = g] /\ builds' = [builds EXCEPT ![k].elems = Append(@, enc)]
    BY Zenon, <1>3, <2>1 DEF returnTo
  <2>3. k \in On(f) /\ Len(f) \in 1..Len(f) /\ \A i \in 1..(Len(f) - 1) : i \in 1..Len(f) /\ i + 1 \in 1..Len(f) /\ i # Len(f)
    BY Zenon, <1>3, Places
  <2>4. k \in 1..Len(builds) /\ Wants(k, t) /\ BuildOk(k)
    BY Zenon, <1>1, <1>3, <2>3
  <2>5. /\ builds' \in Seq(BuildRecord) /\ Len(builds') = Len(builds)
        /\ \A b \in 1..Len(builds) : b # k => builds'[b] = builds[b]
        /\ builds'[k].type = builds[k].type /\ builds'[k].done = builds[k].done
        /\ builds'[k].elems = Append(builds[k].elems, enc)
    <3> HIDE DEF k
    <3> QED  BY Zenon, <1>1, <2>2, <2>4, AddPart DEF CacheTyped
  <2> HIDE DEF k
  <2>6. \A b \in 1..Len(builds) :
          builds'[b].type = builds[b].type /\ (builds[b].done => builds'[b].done)
    BY Zenon, <2>5
  <2>7. \A e, u : Serves(e, u) => Serves(e, u)'
    BY Zenon, <2>5, <2>6, ServesKept
  <2>8. \A u \in Types : CachedOk(u)'
    BY Zenon, <2>7 DEF CachedOk
  <2>9. \A b \in 1..Len(builds') : BuildOk(b)'
    <3>1. BuildOk(k)'
      BY Zenon, <1>1, <2>4, <2>5, <2>7, PartOk DEF CacheTyped
    <3>2. ASSUME NEW b \in 1..Len(builds), b # k
          PROVE  BuildOk(b)'
      BY Zenon, <1>1, <2>5, <2>7, <3>2 DEF BuildOk
    <3> QED  BY Zenon, <2>5, <3>1, <3>2
  <2>10. TopOk(g)'
    BY Zenon, <1>3, <2>1, <2>4, <2>5 DEF TopOk, Wants, k
  <2>11. Chain(f)'
    <3>1. \A i \in 1..(Len(f) - 1) : f[i] # k /\ f[i] \in 1..Len(builds) /\ f[i + 1] \in 1..Len(builds)
      BY Zenon, <1>1, <2>3 DEF Once, On, k
    <3> QED  BY Zenon, <2>5, <2>6, <3>1, WantsKept DEF Chain
  <2>12. \A b \in 1..Len(builds) : b \notin On(go[p].stack) => builds'[b] = builds[b]
    BY Zenon, <2>3, <2>5
  <2> QED  BY ZenonT(60), <1>1, <2>1, <2>2, <2>5, <2>6, <2>8, <2>9, <2>10, <2>11, <2>12, OneMoves
<1> QED  BY Zenon, <1>2, <1>3

\* What the goroutine that moves knows.
LEMMA Mover ==
  ASSUME CacheInv, NEW p \in Goroutines
  PROVE  /\ go[p] \in Goroutine /\ go[p].stack \in Seq(Nat)
         /\ builds \in Seq(BuildRecord) /\ encoderCache \in [Types -> Seq(Encoder)]
         /\ On(go[p].stack) \subseteq 1..Len(builds) /\ Once(go[p].stack)
         /\ Chain(go[p].stack) /\ TopOk(go[p]) /\ CallOk(p)
         /\ \A t \in Types : CachedOk(t)
         /\ \A b \in 1..Len(builds) : BuildOk(b)
BY Zenon DEF CacheInv, CacheTyped, Goroutine, Held

\* A step that only moves the goroutine, its stack kept.
LEMMA OnlyMoves ==
  ASSUME CacheInv, NEW p \in Goroutines, NEW g \in Goroutine, go' = [go EXCEPT ![p] = g],
         UNCHANGED <<encoderCache, builds>>, g.stack = go[p].stack, TopOk(g),
         g.pc = "call" => \E t \in Types : Serves(g.enc, t)
  PROVE  CacheInv'
<1>1. encoderCache' = encoderCache /\ builds' = builds
  BY Zenon
<1>2. \A e, t : Serves(e, t) => Serves(e, t)'
  BY Zenon, <1>1 DEF Serves
<1>3. \A b, t : Wants(b, t) => Wants(b, t)'
  BY Zenon, <1>1 DEF Wants
<1>4. PICK s : s = g.stack
  BY Zenon
<1>5. Chain(s)'
  <2>1. Chain(s)
    BY Zenon, <1>4, Mover
  <2> QED  BY Zenon, <1>1, <1>3, <2>1 DEF Chain
<1>6. TopOk(g)'
  BY Zenon, <1>1, <1>3 DEF TopOk
<1>7. (\A t \in Types : CachedOk(t)') /\ (\A b \in 1..Len(builds) : BuildOk(b)')
  <2>1. (\A t \in Types : CachedOk(t)) /\ (\A b \in 1..Len(builds) : BuildOk(b))
    BY Zenon, Mover
  <2>2. \A t \in Types : CachedOk(t)'
    BY Zenon, <1>1, <1>2, <2>1 DEF CachedOk
  <2>3. \A b \in 1..Len(builds) : BuildOk(b)'
    BY Zenon, <1>1, <1>2, <2>1 DEF BuildOk
  <2> QED  BY Zenon, <2>2, <2>3
<1>8. g.pc = "call" => \E t \in Types : Serves(g.enc, t)'
  BY Zenon, <1>2
<1>9. /\ builds \in Seq(BuildRecord) /\ encoderCache \in [Types -> Seq(Encoder)]
      /\ On(go[p].stack) \subseteq 1..Len(builds) /\ Once(go[p].stack)
  BY Zenon, Mover
<1> QED  BY Zenon, <1>1, <1>4, <1>5, <1>6, <1>7, <1>8, <1>9, OneMoves

\* The steps of typeEncoder and of the call.  Marshal starts with a lookup ...
LEMMA MarshalStep ==
  ASSUME CacheInv, NEW p \in Goroutines, NEW t \in Types, marshal(p, t)
  PROVE  CacheInv'
<1> DEFINE h == [go[p] EXCEPT !.pc = "lookup", !.type = t, !.depth = MaxDepth]
<1>1. go[p] \in Goroutine /\ TopOk(go[p]) /\ go[p].pc = "idle"
  BY Zenon, Mover DEF marshal
<1>2. go[p].stack = <<>>
  BY Zenon, <1>1 DEF TopOk
<1>3. h \in Goroutine /\ h.pc = "lookup" /\ h.stack = go[p].stack /\ h.type = t
  BY Zenon, <1>1, ElemsAssumption DEF Goroutine, AnyType
<1>4. go' = [go EXCEPT ![p] = h] /\ UNCHANGED <<encoderCache, builds>>
  BY Zenon DEF marshal
<1> HIDE DEF h
<1>5. TopOk(h)
  BY Zenon, <1>2, <1>3 DEF TopOk
<1> QED  BY Zenon, <1>3, <1>4, <1>5, OnlyMoves

\* ... which returns what is cached, or goes on to build ...
LEMMA LookupStep ==
  ASSUME CacheInv, NEW p \in Goroutines, Lookup(p)
  PROVE  CacheInv'
<1>1. /\ go[p] \in Goroutine /\ TopOk(go[p]) /\ go[p].pc = "lookup"
      /\ encoderCache \in [Types -> Seq(Encoder)]
  BY Zenon, Mover DEF Lookup
<1>2. /\ go[p].type \in Types
      /\ go[p].stack # <<>> => Wants(go[p].stack[Len(go[p].stack)], go[p].type)
  BY Zenon, <1>1 DEF TopOk
<1> DEFINE hit == encoderCache[go[p].type]
<1>3. CASE hit = <<>>
  <2> DEFINE h == [go[p] EXCEPT !.pc = "insert"]
  <2>1. h \in Goroutine /\ h.pc = "insert" /\ h.stack = go[p].stack /\ h.type = go[p].type
    BY Zenon, <1>1 DEF Goroutine
  <2>2. go' = [go EXCEPT ![p] = h] /\ UNCHANGED <<encoderCache, builds>>
    BY Zenon, <1>3 DEF Lookup, Go
  <2> HIDE DEF h
  <2>3. TopOk(h)
    BY Zenon, <1>2, <2>1 DEF TopOk
  <2> QED  BY Zenon, <2>1, <2>2, <2>3, OnlyMoves
<1>4. CASE hit # <<>>
  <2>1. hit \in Seq(Encoder) /\ CachedOk(go[p].type)
    BY Zenon, <1>1, <1>2, Mover
  <2>2. hit[1] \in Encoder /\ 1 \in 1..Len(hit)
    <3> HIDE DEF hit
    <3> QED  BY <1>4, <2>1
  <2>3. Serves(hit[1], go[p].type)
    BY Zenon, <2>1, <2>2 DEF CachedOk
  <2>4. returnTo(p, go[p].stack, hit[1], builds) /\ encoderCache' = encoderCache
    BY Zenon, <1>4 DEF Lookup
  <2> HIDE DEF hit
  <2>5. \A u \in Types : \A i \in 1..Len(encoderCache'[u]) : Serves(encoderCache'[u][i], u)
    BY Zenon, <2>4, Mover DEF CachedOk
  <2>6. /\ go[p].stack \in Seq(Nat) /\ Once(go[p].stack) /\ Chain(go[p].stack)
        /\ On(go[p].stack) \subseteq On(go[p].stack)
    BY Zenon, Mover
  <2> QED  BY Zenon, <1>1, <1>2, <2>2, <2>3, <2>4, <2>5, <2>6, Returns
<1> QED  BY Zenon, <1>3, <1>4

IsPush(s, b, u) ==
  /\ u \in Seq(Nat) /\ u # <<>> /\ u[Len(u)] = b
  /\ On(u) = On(s) \cup {b} /\ Once(u)
  /\ \A i \in 1..(Len(u) - 1) : i \in 1..Len(s) /\ u[i] = s[i] /\ u[i] \in On(s)
  /\ \A i \in 1..(Len(u) - 1) : \/ i \in 1..(Len(s) - 1) /\ u[i + 1] = s[i + 1]
                                \/ s # <<>> /\ i = Len(s) /\ u[i + 1] = b

\* A stack with a build pushed ...
LEMMA Pushed ==
  ASSUME NEW s \in Seq(Nat), NEW b \in Nat, b \notin On(s), Once(s), NEW u, u = Append(s, b)
  PROVE  IsPush(s, b, u)
<1>1. /\ u \in Seq(Nat) /\ Len(u) = Len(s) + 1 /\ u[Len(s) + 1] = b
      /\ \A i \in 1..Len(s) : u[i] = s[i]
      /\ 1..Len(u) = 1..Len(s) \cup {Len(s) + 1} /\ Len(s) + 1 \notin 1..Len(s)
  OBVIOUS
<1>2. u # <<>> /\ u[Len(u)] = b /\ 1..(Len(u) - 1) = 1..Len(s)
  BY <1>1
<1>3. On(u) = On(s) \cup {b}
  BY <1>1 DEF On
<1>4. \A i \in 1..Len(s) : u[i] \in On(s)
  BY Zenon, <1>1 DEF On
<1>5. Once(u)
  BY <1>1, <1>4 DEF Once
<1>6. \A i \in 1..Len(s) : \/ i \in 1..(Len(s) - 1) /\ i + 1 \in 1..Len(s)
                           \/ s # <<>> /\ i = Len(s)
  OBVIOUS
<1>7. \A i \in 1..(Len(u) - 1) : i \in 1..Len(s) /\ u[i] = s[i] /\ u[i] \in On(s)
  BY Zenon, <1>1, <1>2, <1>4
<1>8. \A i \in 1..(Len(u) - 1) : \/ i \in 1..(Len(s) - 1) /\ u[i + 1] = s[i + 1]
                                 \/ s # <<>> /\ i = Len(s) /\ u[i + 1] = b
  BY Zenon, <1>1, <1>2, <1>6
<1> QED  BY Zenon, <1>1, <1>2, <1>3, <1>5, <1>7, <1>8 DEF IsPush

\* ... and without its last one.
LEMMA Popped ==
  ASSUME NEW s \in Seq(Nat), s # <<>>, NEW f, f = SubSeq(s, 1, Len(s) - 1)
  PROVE  /\ f \in Seq(Nat) /\ On(f) \subseteq On(s) /\ (Once(s) => Once(f))
         /\ \A i \in 1..(Len(f) - 1) : i \in 1..(Len(s) - 1) /\ f[i] = s[i] /\ f[i + 1] = s[i + 1]
         /\ f # <<>> => Len(f) \in 1..(Len(s) - 1) /\ f[Len(f)] = s[Len(f)] /\ Len(f) + 1 = Len(s)
<1>1. f \in Seq(Nat) /\ Len(f) = Len(s) - 1 /\ \A i \in 1..Len(f) : f[i] = s[i]
  <2>1. Len(s) - 1 \in Nat
    OBVIOUS
  <2>2. PICK n \in Nat : n = Len(s) - 1
    BY Zenon, <2>1
  <2>3. n < Len(s) /\ f = SubSeq(s, 1, n)
    BY <2>2
  <2> QED  BY <2>2, <2>3
<1>2. 1..Len(f) \subseteq 1..Len(s)
  BY <1>1
<1>3. On(f) \subseteq On(s)
  BY Zenon, <1>1, <1>2 DEF On
<1>4. ASSUME Once(s) PROVE Once(f)
  <2>1. ASSUME NEW i \in 1..Len(f), NEW j \in 1..Len(f), f[i] = f[j]
        PROVE  i = j
    <3>1. i \in 1..Len(s) /\ j \in 1..Len(s) /\ s[i] = s[j]
      BY Zenon, <1>1, <1>2, <2>1
    <3> QED  BY Zenon, <1>4, <3>1 DEF Once
  <2> QED  BY Zenon, <2>1 DEF Once
<1>5. \A i \in 1..(Len(f) - 1) : i \in 1..(Len(s) - 1) /\ i \in 1..Len(f) /\ i + 1 \in 1..Len(f)
  BY <1>1
<1>6. f # <<>> => Len(f) \in 1..(Len(s) - 1) /\ Len(f) \in 1..Len(f) /\ Len(f) + 1 = Len(s)
  BY <1>1
<1> QED  BY Zenon, <1>1, <1>3, <1>4, <1>5, <1>6

\* ... caching an encoder that waits for the build on top of the stack ...
LEMMA InsertStep ==
  ASSUME CacheInv, NEW p \in Goroutines, Insert(p)
  PROVE  CacheInv'
<1>1. /\ go[p] \in Goroutine /\ go[p].stack \in Seq(Nat) /\ TopOk(go[p]) /\ go[p].pc = "insert"
      /\ encoderCache \in [Types -> Seq(Encoder)] /\ builds \in Seq(BuildRecord)
      /\ Once(go[p].stack) /\ Chain(go[p].stack) /\ On(go[p].stack) \subseteq 1..Len(builds)
  BY Zenon, Mover DEF Insert
<1>2. PICK t \in Types : t = go[p].type
  BY Zenon, <1>1 DEF TopOk
<1>3. PICK s \in Seq(Nat) : s = go[p].stack
  BY Zenon, <1>1
<1>4. s # <<>> => Wants(s[Len(s)], t)
  BY Zenon, <1>1, <1>2, <1>3 DEF TopOk
<1>5. PICK b \in Nat : /\ b = Len(builds) + 1 /\ b \notin 1..Len(builds)
                       /\ 1..b = 1..Len(builds) \cup {b}
  <2>1. Len(builds) \in Nat
    BY <1>1
  <2>2. \A n \in Nat : n + 1 \in Nat /\ n + 1 \notin 1..n /\ 1..(n + 1) = 1..n \cup {n + 1}
    OBVIOUS
  <2> QED  BY Zenon, <2>1, <2>2
<1>6. PICK u : u = Append(s, b)
  BY Zenon
<1>6a. IsPush(s, b, u)
  <2>1. b \notin On(s) /\ Once(s)
    BY Zenon, <1>1, <1>3, <1>5
  <2> QED  BY Zenon, <1>6, <2>1, Pushed
<1>7. /\ u \in Seq(Nat) /\ u # <<>> /\ u[Len(u)] = b
      /\ On(u) = On(s) \cup {b} /\ Once(u)
      /\ \A i \in 1..(Len(u) - 1) : i \in 1..Len(s) /\ u[i] = s[i] /\ u[i] \in On(s)
      /\ \A i \in 1..(Len(u) - 1) : \/ i \in 1..(Len(s) - 1) /\ u[i + 1] = s[i + 1]
                                    \/ s # <<>> /\ i = Len(s) /\ u[i + 1] = b
  BY Zenon, <1>6a DEF IsPush
<1>8. /\ builds' \in Seq(BuildRecord) /\ Len(builds') = b
      /\ \A c \in 1..Len(builds) : builds'[c] = builds[c]
      /\ builds'[b].type = t /\ builds'[b].elems = <<>> /\ ~builds'[b].done
  <2>1. builds' = Append(builds, [type |-> t, elems |-> <<>>, done |-> FALSE])
    BY Zenon, <1>2 DEF Insert
  <2> QED  BY Zenon, <1>1, <1>5, <2>1, AddBuild
<1>9. PICK g \in Goroutine : /\ g = [go[p] EXCEPT !.pc = "build", !.stack = u]
                             /\ g.pc = "build" /\ g.stack = u
  <2> DEFINE h == [go[p] EXCEPT !.pc = "build", !.stack = u]
  <2>1. h \in Goroutine /\ h.pc = "build" /\ h.stack = u
    BY Zenon, <1>1, <1>7 DEF Goroutine
  <2> HIDE DEF h
  <2>2. PICK g \in Goroutine : g = h
    BY Zenon, <2>1
  <2> QED  BY Zenon, <2>1, <2>2 DEF h
<1>10. go' = [go EXCEPT ![p] = g]
  BY Zenon, <1>3, <1>5, <1>6, <1>9 DEF Insert
<1>11. \A e, v : Serves(e, v) => Serves(e, v)'
  BY Zenon, <1>5, <1>8, ServesKept
<1>12. encoderCache' \in [Types -> Seq(Encoder)] /\ \A v \in Types : CachedOk(v)'
  <2> DEFINE e == [build |-> b, wait |-> TRUE]
  <2>1. e \in Encoder /\ e.build = b /\ e.wait
    BY Zenon DEF Encoder
  <2>2. encoderCache' = [encoderCache EXCEPT ![t] = <<e>>]
    BY Zenon, <1>2, <1>5 DEF Insert
  <2> HIDE DEF e
  <2>3. <<e>> \in Seq(Encoder) /\ 1..Len(<<e>>) = {1} /\ <<e>>[1] = e
    BY <2>1
  <2>4. encoderCache' \in [Types -> Seq(Encoder)]
    BY Zenon, <1>1, <2>2, <2>3
  <2>5. encoderCache'[t] = <<e>> /\ \A v \in Types : v # t => encoderCache'[v] = encoderCache[v]
    BY Zenon, <1>1, <2>2
  <2>6. Serves(e, t)'
    <3>1. b \in 1..Len(builds')
      BY Zenon, <1>5, <1>8
    <3> QED  BY Zenon, <1>8, <2>1, <3>1 DEF Serves
  <2>7. CachedOk(t)'
    BY Zenon, <2>3, <2>5, <2>6 DEF CachedOk
  <2>8. ASSUME NEW v \in Types, v # t
        PROVE  CachedOk(v)'
    <3>1. CachedOk(v)
      BY Zenon, Mover
    <3> QED  BY Zenon, <1>11, <2>5, <2>8, <3>1 DEF CachedOk
  <2> QED  BY Zenon, <2>4, <2>7, <2>8
<1>13. \A c \in 1..Len(builds') : BuildOk(c)'
  <2>1. BuildOk(b)'
    <3>1. Elems[t] \in Seq(Types)
      BY Zenon, ElemsAssumption
    <3>2. Len(<<>>) <= Len(Elems[t]) /\ 1..Len(<<>>) = {}
      BY <3>1
    <3> QED  BY Zenon, <1>8, <3>2 DEF BuildOk
  <2>2. ASSUME NEW c \in 1..Len(builds)
        PROVE  BuildOk(c)'
    <3>1. BuildOk(c)
      BY Zenon, Mover
    <3> QED  BY Zenon, <1>8, <1>11, <3>1 DEF BuildOk
  <2> QED  BY Zenon, <1>5, <1>8, <2>1, <2>2
<1>14. Chain(u)'
  <2>1. \A i \in 1..(Len(s) - 1) : s[i + 1] \in 1..Len(builds)
    BY Zenon, <1>1, <1>3, Places DEF On
  <2>2. \A i \in 1..(Len(u) - 1) : Wants(u[i], builds'[u[i + 1]].type)
    <3> SUFFICES ASSUME NEW i \in 1..(Len(u) - 1)
                 PROVE  Wants(u[i], builds'[u[i + 1]].type)
      OBVIOUS
    <3>1. CASE i \in 1..(Len(s) - 1) /\ u[i + 1] = s[i + 1]
      <4>1. Wants(s[i], builds[s[i + 1]].type) /\ builds'[s[i + 1]] = builds[s[i + 1]]
        BY Zenon, <1>1, <1>3, <1>8, <2>1, <3>1 DEF Chain
      <4> QED  BY Zenon, <1>7, <3>1, <4>1
    <3>2. CASE s # <<>> /\ i = Len(s) /\ u[i + 1] = b
      BY Zenon, <1>4, <1>7, <1>8, <3>2
    <3> QED  BY Zenon, <1>7, <3>1, <3>2
  <2>3. \A i \in 1..(Len(u) - 1) : builds'[u[i]] = builds[u[i]]
    BY Zenon, <1>1, <1>3, <1>7, <1>8
  <2> QED  BY Zenon, <2>2, <2>3, WantsKept DEF Chain
<1>15. TopOk(g)'
  BY Zenon, <1>7, <1>8, <1>9 DEF TopOk
<1>16. /\ On(g.stack) \subseteq 1..Len(builds') /\ Once(g.stack)
       /\ \A c \in On(g.stack) : c \in On(go[p].stack) \/ c \notin 1..Len(builds)
  BY ZenonT(60), <1>1, <1>3, <1>5, <1>7, <1>8, <1>9
<1>17. 1..Len(builds) \subseteq 1..Len(builds')
  BY Zenon, <1>5, <1>8
<1> QED  BY Zenon, <1>8, <1>9, <1>10, <1>12, <1>13, <1>14, <1>15, <1>16, <1>17, OneMoves

\* ... asking for the next part, or being done ...
LEMMA BuildStep ==
  ASSUME CacheInv, NEW p \in Goroutines, Build(p)
  PROVE  CacheInv'
<1>1. /\ go[p] \in Goroutine /\ TopOk(go[p]) /\ go[p].pc = "build"
      /\ encoderCache \in [Types -> Seq(Encoder)] /\ builds \in Seq(BuildRecord)
      /\ Once(go[p].stack) /\ Chain(go[p].stack) /\ On(go[p].stack) \subseteq 1..Len(builds)
  BY Zenon, Mover DEF Build
<1>2. PICK s \in Seq(Nat) : s = go[p].stack
  BY Zenon, Mover
<1>3. s # <<>> /\ ~builds[s[Len(s)]].done
  BY Zenon, <1>1, <1>2 DEF TopOk
<1>4. PICK k \in 1..Len(builds) : k = s[Len(s)] /\ k \in On(s)
  BY Zenon, <1>1, <1>2, <1>3, Places
<1>5. Building(p) = k
  BY Zenon, <1>2, <1>4 DEF Building
<1>6. BuildOk(k) /\ builds[k] \in BuildRecord
  <2>1. builds[k] \in BuildRecord
    BY <1>1, ElementOfSeq
  <2> QED  BY Zenon, <2>1, Mover
<1>7. PICK els \in Seq(Types) : els = Elems[builds[k].type]
  BY Zenon, <1>6, ElemsAssumption DEF BuildRecord
<1>8. PICK n \in Nat : n = Len(builds[k].elems)
  <2>1. builds[k].elems \in Seq(Encoder)
    BY Zenon, <1>6 DEF BuildRecord
  <2>2. Len(builds[k].elems) \in Nat
    BY <2>1
  <2> QED  BY Zenon, <2>2
<1>9. CASE n < Len(els)
  <2>1. PICK t \in Types : t = els[n + 1]
    BY <1>9
  <2>2. Wants(k, t)
    BY Zenon, <1>3, <1>4, <1>7, <1>8, <1>9, <2>1 DEF Wants
  <2> DEFINE h == [go[p] EXCEPT !.pc = "lookup", !.type = t]
  <2>3. h \in Goroutine /\ h.pc = "lookup" /\ h.stack = go[p].stack /\ h.type = t
    BY Zenon, <1>1 DEF Goroutine, AnyType
  <2>4. go' = [go EXCEPT ![p] = h] /\ UNCHANGED <<encoderCache, builds>>
    BY Zenon, <1>5, <1>7, <1>8, <1>9, <2>1 DEF Build
  <2> HIDE DEF h
  <2>5. TopOk(h)
    BY Zenon, <1>2, <1>4, <2>2, <2>3 DEF TopOk
  <2> QED  BY Zenon, <2>3, <2>4, <2>5, OnlyMoves
<1>10. CASE ~(n < Len(els))
  <2>1. PICK g \in Goroutine : g = [go[p] EXCEPT !.pc = "publish"] /\ g.pc = "publish" /\ g.stack = s
    <3> DEFINE h == [go[p] EXCEPT !.pc = "publish"]
    <3>1. h \in Goroutine /\ h.pc = "publish" /\ h.stack = s
      BY Zenon, <1>1, <1>2 DEF Goroutine
    <3> HIDE DEF h
    <3>2. PICK g \in Goroutine : g = h
      BY Zenon, <3>1
    <3> QED  BY Zenon, <3>1, <3>2 DEF h
  <2>2. /\ go' = [go EXCEPT ![p] = g] /\ builds' = [builds EXCEPT ![k].done = TRUE]
        /\ encoderCache' = encoderCache
    BY Zenon, <1>5, <1>7, <1>8, <1>10, <2>1 DEF Build, Go
  <2>3. /\ builds' \in Seq(BuildRecord) /\ Len(builds') = Len(builds)
        /\ \A b \in 1..Len(builds) : b # k => builds'[b] = builds[b]
        /\ builds'[k].type = builds[k].type /\ builds'[k].done
        /\ builds'[k].elems = builds[k].elems
    BY Zenon, <1>1, <2>2, SetDone
  <2>4. \A b \in 1..Len(builds) :
          builds'[b].type = builds[b].type /\ (builds[b].done => builds'[b].done)
    BY Zenon, <2>3
  <2>5. \A e, u : Serves(e, u) => Serves(e, u)'
    BY Zenon, <2>3, <2>4, ServesKept
  <2>6. \A u \in Types : CachedOk(u)'
    <3>1. \A u \in Types : CachedOk(u)
      BY Zenon, Mover
    <3> QED  BY Zenon, <2>2, <2>5, <3>1 DEF CachedOk
  <2>7. \A b \in 1..Len(builds') : BuildOk(b)'
    <3>1. n <= Len(els)
      BY Zenon, <1>6, <1>7, <1>8 DEF BuildOk
    <3>2. n = Len(els)
      BY <1>10, <3>1
    <3>3. BuildOk(k)'
      BY Zenon, <1>6, <1>7, <1>8, <2>3, <2>5, <3>1, <3>2 DEF BuildOk
    <3>4. ASSUME NEW b \in 1..Len(builds), b # k
          PROVE  BuildOk(b)'
      <4>1. BuildOk(b)
        BY Zenon, Mover
      <4> QED  BY Zenon, <2>3, <2>5, <3>4, <4>1 DEF BuildOk
    <3> QED  BY Zenon, <2>3, <3>3, <3>4
  <2>8. TopOk(g)'
    BY Zenon, <1>3, <1>4, <2>1, <2>3 DEF TopOk
  <2>9. Chain(s)'
    <3>1. Len(s) \in 1..Len(s) /\ \A i \in 1..(Len(s) - 1) : i \in 1..Len(s) /\ i + 1 \in 1..Len(s) /\ i # Len(s)
      BY Zenon, <1>3, Places
    <3>2. \A i \in 1..Len(s) : s[i] \in 1..Len(builds)
      BY Zenon, <1>1, <1>2 DEF On
    <3>3. \A i \in 1..(Len(s) - 1) : s[i] # k
      BY Zenon, <1>1, <1>2, <1>4, <3>1 DEF Once
    <3>4. \A i \in 1..(Len(s) - 1) : Wants(s[i], builds[s[i + 1]].type)
      BY Zenon, <1>1, <1>2 DEF Chain
    <3> QED  BY Zenon, <2>3, <2>4, <3>1, <3>2, <3>3, <3>4, WantsKept DEF Chain
  <2>10. \A b \in 1..Len(builds) : b \notin On(go[p].stack) => builds'[b] = builds[b]
    BY Zenon, <1>2, <1>4, <2>3
  <2>11. /\ On(g.stack) \subseteq 1..Len(builds') /\ Once(g.stack)
         /\ \A b \in On(g.stack) : b \in On(go[p].stack)
    BY Zenon, <1>1, <1>2, <2>1, <2>3
  <2> QED  BY ZenonT(60), <1>1, <2>1, <2>2, <2>3, <2>4, <2>6, <2>7, <2>8, <2>9, <2>10, <2>11, OneMoves
<1> QED  BY Zenon, <1>9, <1>10

\* ... and replacing the encoder that waits by the one that is done ...
LEMMA PublishStep ==
  ASSUME CacheInv, NEW p \in Goroutines, Publish(p)
  PROVE  CacheInv'
<1>1. /\ go[p] \in Goroutine /\ TopOk(go[p]) /\ go[p].pc = "publish"
      /\ encoderCache \in [Types -> Seq(Encoder)] /\ builds \in Seq(BuildRecord)
      /\ Once(go[p].stack) /\ Chain(go[p].stack) /\ On(go[p].stack) \subseteq 1..Len(builds)
  BY Zenon, Mover DEF Publish
<1>2. PICK s \in Seq(Nat) : s = go[p].stack
  BY Zenon, Mover
<1>3. s # <<>> /\ builds[s[Len(s)]].done
  BY Zenon, <1>1, <1>2 DEF TopOk
<1>4. PICK k \in 1..Len(builds) : k = s[Len(s)]
  BY Zenon, <1>1, <1>2, <1>3, Places
<1>5. Building(p) = k
  BY Zenon, <1>2, <1>4 DEF Building
<1>6. PICK t \in Types : t = builds[k].type
  <2>1. builds[k] \in BuildRecord
    BY <1>1, ElementOfSeq
  <2> QED  BY Zenon, <2>1 DEF BuildRecord
<1>7. PICK f : f = SubSeq(s, 1, Len(s) - 1)
  BY Zenon
<1>8. /\ f \in Seq(Nat) /\ On(f) \subseteq On(s) /\ (Once(s) => Once(f))
      /\ \A i \in 1..(Len(f) - 1) : i \in 1..(Len(s) - 1) /\ f[i] = s[i] /\ f[i + 1] = s[i + 1]
      /\ f # <<>> => Len(f) \in 1..(Len(s) - 1) /\ f[Len(f)] = s[Len(f)] /\ Len(f) + 1 = Len(s)
  BY ZenonT(60), <1>3, <1>7, Popped
<1>9. Chain(f) /\ (f # <<>> => Wants(f[Len(f)], t))
  <2>1. \A i \in 1..(Len(s) - 1) : Wants(s[i], builds[s[i + 1]].type)
    BY Zenon, <1>1, <1>2 DEF Chain
  <2>2. Chain(f)
    BY Zenon, <1>8, <2>1 DEF Chain
  <2>3. f # <<>> => Wants(f[Len(f)], t)
    BY Zenon, <1>4, <1>6, <1>8, <2>1
  <2> QED  BY Zenon, <2>2, <2>3
<1>10. PICK e \in Encoder : e = [build |-> k, wait |-> FALSE] /\ e.build = k /\ ~e.wait
  <2>1. k \in Nat
    OBVIOUS
  <2> DEFINE d == [build |-> k, wait |-> FALSE]
  <2>2. d \in Encoder /\ d.build = k /\ ~d.wait
    BY Zenon, <2>1 DEF Encoder
  <2> HIDE DEF d
  <2> QED  BY Zenon, <2>2 DEF d
<1>11. Serves(e, t)
  BY Zenon, <1>3, <1>4, <1>6, <1>10 DEF Serves
<1>12. encoderCache' = [encoderCache EXCEPT ![t] = <<e>>] /\ returnTo(p, f, e, builds)
  BY Zenon, <1>2, <1>5, <1>6, <1>7, <1>10 DEF Publish
<1>13. <<e>> \in Seq(Encoder) /\ 1..Len(<<e>>) = {1} /\ <<e>>[1] = e
  OBVIOUS
<1>14. /\ encoderCache' \in [Types -> Seq(Encoder)] /\ encoderCache'[t] = <<e>>
       /\ \A u \in Types : u # t => encoderCache'[u] = encoderCache[u]
  BY Zenon, <1>1, <1>12, <1>13
<1>15. \A u \in Types : \A i \in 1..Len(encoderCache'[u]) : Serves(encoderCache'[u][i], u)
  <2>1. \A u \in Types : CachedOk(u)
    BY Zenon, Mover
  <2>2. ASSUME NEW u \in Types, u # t
        PROVE  \A i \in 1..Len(encoderCache'[u]) : Serves(encoderCache'[u][i], u)
    BY Zenon, <1>14, <2>1, <2>2 DEF CachedOk
  <2>3. \A i \in 1..Len(encoderCache'[t]) : Serves(encoderCache'[t][i], t)
    BY Zenon, <1>11, <1>13, <1>14
  <2> QED  BY Zenon, <2>2, <2>3
<1> QED  BY Zenon, <1>1, <1>2, <1>8, <1>9, <1>11, <1>12, <1>14, <1>15, Returns

\* ... and the call goes on to the encoder of a part.
LEMMA CallStep ==
  ASSUME CacheInv, NEW p \in Goroutines, Call(p)
  PROVE  CacheInv'
<1>1. /\ go[p] \in Goroutine /\ TopOk(go[p]) /\ go[p].pc = "call" /\ CallOk(p)
      /\ builds \in Seq(BuildRecord) /\ UNCHANGED <<encoderCache, builds>>
  BY Zenon, Mover DEF Call
<1>2. go[p].stack = <<>>
  BY Zenon, <1>1 DEF TopOk
<1>3. CASE go' = Go(p, "idle")
  <2> DEFINE h == [go[p] EXCEPT !.pc = "idle"]
  <2>1. h \in Goroutine /\ h.pc = "idle" /\ h.stack = go[p].stack
    BY Zenon, <1>1 DEF Goroutine
  <2>2. go' = [go EXCEPT ![p] = h]
    BY Zenon, <1>3 DEF Go
  <2> HIDE DEF h
  <2>3. TopOk(h)
    BY Zenon, <1>2, <2>1 DEF TopOk
  <2> QED  BY Zenon, <1>1, <2>1, <2>2, <2>3, OnlyMoves
<1>4. ASSUME go[p].depth # 0, NEW i \in 1..Len(builds[go[p].enc.build].elems),
             go' = [go EXCEPT ![p] = [@ EXCEPT !.enc = builds[go[p].enc.build].elems[i],
                                               !.depth = go[p].depth - 1]]
      PROVE  CacheInv'
  <2>1. PICK b \in 1..Len(builds) : b = go[p].enc.build
    BY Zenon, <1>1 DEF CallOk, Serves
  <2>2. builds[b] \in BuildRecord
    BY <1>1, ElementOfSeq
  <2>3. builds[b].elems \in Seq(Encoder) /\ Elems[builds[b].type] \in Seq(Types)
    BY Zenon, <2>2, ElemsAssumption DEF BuildRecord
  <2>4. PICK e \in Encoder : e = builds[b].elems[i]
    <3>1. i \in 1..Len(builds[b].elems)
      BY Zenon, <1>4, <2>1
    <3>2. builds[b].elems[i] \in Encoder
      BY <2>3, <3>1, ElementOfSeq
    <3> QED  BY Zenon, <3>2
  <2>5. BuildOk(b)
    BY Zenon, Mover
  <2>6. PICK t \in Types : Serves(e, t)
    <3>1. Len(builds[b].elems) <= Len(Elems[builds[b].type]) /\ i \in 1..Len(builds[b].elems)
      BY Zenon, <1>4, <2>1, <2>5 DEF BuildOk
    <3>2. Elems[builds[b].type][i] \in Types
      BY <2>3, <3>1
    <3> QED  BY Zenon, <2>4, <2>5, <3>1, <3>2 DEF BuildOk
  <2>7. go[p].depth \in Nat
    BY Zenon, <1>1 DEF Goroutine
  <2>8. PICK d \in Nat : d = go[p].depth - 1
    <3>1. go[p].depth - 1 \in Nat
      BY <1>4, <2>7
    <3> QED  BY Zenon, <3>1
  <2> DEFINE h == [go[p] EXCEPT !.enc = e, !.depth = d]
  <2>9. h \in Goroutine /\ h.pc = "call" /\ h.stack = go[p].stack /\ h.enc = e
    BY Zenon, <1>1 DEF Goroutine
  <2>10. go' = [go EXCEPT ![p] = h]
    BY Zenon, <1>4, <2>1, <2>4, <2>8
  <2> HIDE DEF h
  <2>11. TopOk(h)
    BY Zenon, <1>2, <2>9 DEF TopOk
  <2> QED  BY Zenon, <1>1, <2>6, <2>9, <2>10, <2>11, OnlyMoves
<1> QED  BY Zenon, <1>3, <1>4 DEF Call

-----------------------------------------------------------------------------
\* The invariant is inductive.
LEMMA CacheInductive ==
  ASSUME CacheInv, [CacheNext]_encoderVars
  PROVE  CacheInv'
<1>1. CASE CacheNext
  BY Zenon, <1>1, MarshalStep, LookupStep, InsertStep, BuildStep, PublishStep, CallStep
     DEF CacheNext, Work
<1>2. CASE UNCHANGED encoderVars
  <2>1. encoderCache' = encoderCache /\ builds' = builds /\ go' = go
    BY Zenon, <1>2 DEF encoderVars
  <2>2. \A e, t : Serves(e, t) => Serves(e, t)'
    BY Zenon, <2>1 DEF Serves
  <2>3. CacheTyped'
    BY Zenon, <2>1 DEF CacheInv, CacheTyped
  <2>4. \A t \in Types : CachedOk(t)'
    BY Zenon, <2>1, <2>2 DEF CacheInv, CachedOk
  <2>5. \A b \in 1..Len(builds') : BuildOk(b)'
    <3>1. \A b \in 1..Len(builds) : BuildOk(b)
      BY Zenon DEF CacheInv
    <3> QED  BY Zenon, <2>1, <2>2, <3>1 DEF BuildOk
  <2>6. \A q \in Goroutines : (CallOk(q) /\ Held(q) /\ Chain(go[q].stack) /\ TopOk(go[q]))'
    BY Zenon, <2>1, OthersKept
  <2>7. \A q, r \in Goroutines : Apart(q, r)'
    BY Zenon, <2>1 DEF CacheInv, Apart
  <2> QED  BY Zenon, <2>3, <2>4, <2>5, <2>6, <2>7 DEF CacheInv
<1> QED  BY Zenon, <1>1, <1>2

\* However many goroutines call Marshal at once, on whatever types, and however
\* the types recurse: what typeEncoder has cached for a type (encode.go:318-350),
\* what it has put into an encoder and what Marshal calls is an encoder of the
\* right type, and one that does not wait is complete.
THEOREM CacheServes == CacheSpec => []EncodersServe
<1>1. CacheInit => CacheInv
  BY CacheStarts
<1>2. CacheInv /\ [CacheNext]_encoderVars => CacheInv'
  BY CacheInductive
<1>3. CacheInv => EncodersServe
  BY CacheInvServes
<1> QED  BY <1>1, <1>2, <1>3, PTL DEF CacheSpec

-----------------------------------------------------------------------------
(* The ciphers: counting.                                                  *)

\* What holds of 0, and of the next number, holds of all up to n.
LEMMA Counting ==
  ASSUME NEW S, NEW n \in Nat, 0 \in S, \A t \in 0..(n - 1) : t \in S => t + 1 \in S
  PROVE  0..n \subseteq S
<1> DEFINE I == (0..n) \ S
           R == OpToRel(<, Nat)
<1>1. SUFFICES ASSUME I # {} PROVE FALSE
  OBVIOUS
<1>2. IsWellFoundedOn(R, Nat)
  BY Zenon, NatLessThanWellFounded
<1>3. \A x, y \in Nat : <<y, x>> \in R <=> y < x
  BY DEF OpToRel
<1>4. I \subseteq Nat
  OBVIOUS
<1> HIDE DEF R
<1>5. PICK i \in I : \A h \in I : ~(<<h, i>> \in R)
  BY Zenon, <1>1, <1>2, <1>4, WFMin
<1>6. \A h \in I : ~(h < i)
  BY Zenon, <1>3, <1>4, <1>5
<1>7. i \in 1..n
  BY <1>5
<1>8. i - 1 \in S
  BY <1>6, <1>7
<1> QED  BY <1>5, <1>7, <1>8

\* The traces of a loop of n iterations.
Traces(S, start, n, step) ==
  {f \in [0..n -> S] : f[0] = start /\ \A t \in 1..n : f[t] = step[<<f[t - 1], t>>]}

\* A loop has a trace: its states are determined one by one.
LEMMA LoopRuns ==
  ASSUME NEW S, NEW start \in S, NEW n \in Nat, NEW step \in [S \X (1..n) -> S]
  PROVE  \E f : f \in Traces(S, start, n, step)
<1> DEFINE Runs(m) == \E f \in [0..m -> S] : f[0] = start /\ \A t \in 1..m : f[t] = step[<<f[t - 1], t>>]
           G == {m \in 0..n : Runs(m)}
<1>1. 0 \in G
  <2>1. [t \in 0..0 |-> start] \in [0..0 -> S]
    OBVIOUS
  <2>2. [t \in 0..0 |-> start][0] = start
    OBVIOUS
  <2>3. \A t \in 1..0 : FALSE
    OBVIOUS
  <2>4. Runs(0)
    BY Zenon, <2>1, <2>2, <2>3
  <2> QED  BY <2>4
<1>2. ASSUME NEW m \in 0..(n - 1), m \in G PROVE m + 1 \in G
  <2>1. PICK f \in [0..m -> S] : f[0] = start /\ \A t \in 1..m : f[t] = step[<<f[t - 1], t>>]
    BY Zenon, <1>2
  <2> DEFINE next == step[<<f[m], m + 1>>]
             g == [t \in 0..(m + 1) |-> IF t = m + 1 THEN next ELSE f[t]]
  <2>2. m \in 0..m /\ m + 1 \in 1..n /\ m + 1 \in 0..n
    OBVIOUS
  <2>3. next \in S
    BY Zenon, <2>2
  <2> HIDE DEF next
  <2>4. \A t \in 0..(m + 1) : t # m + 1 => t \in 0..m
    OBVIOUS
  <2>5. g \in [0..(m + 1) -> S]
    BY Zenon, <2>3, <2>4
  <2>6. \A t \in 0..m : g[t] = f[t]
    OBVIOUS
  <2>7. g[m + 1] = next
    OBVIOUS
  <2> HIDE DEF g
  <2>8. ASSUME NEW t \in 1..(m + 1) PROVE g[t] = step[<<g[t - 1], t>>]
    <3>1. t - 1 \in 0..m
      OBVIOUS
    <3>2. CASE t = m + 1
      <4>1. t - 1 = m
        BY <3>2
      <4> QED  BY Zenon, <3>1, <3>2, <4>1, <2>6, <2>7 DEF next
    <3>3. CASE t # m + 1
      <4>1. t \in 1..m /\ t \in 0..m
        BY <3>3
      <4> QED  BY Zenon, <3>1, <4>1, <2>1, <2>6
    <3> QED  BY Zenon, <3>2, <3>3
  <2>9. 0 \in 0..m
    OBVIOUS
  <2>10. Runs(m + 1)
    BY Zenon, <2>1, <2>5, <2>6, <2>8, <2>9
  <2> QED  BY Zenon, <2>2, <2>10
<1>3. n \in 0..n
  OBVIOUS
<1> HIDE DEF G
<1>4. 0..n \subseteq G
  BY Zenon, <1>1, <1>2, Counting
<1>5. Runs(n)
  BY Zenon, <1>3, <1>4 DEF G
<1> QED  BY Zenon, <1>5 DEF Traces

-----------------------------------------------------------------------------
(* Buffers.                                                                *)

\* A quotient and a remainder are the only ones.
LEMMA Dividing ==
  ASSUME NEW b \in Nat \ {0}, NEW q \in Nat, NEW r \in 0..(b - 1)
  PROVE  (b * q + r) \div b = q /\ (b * q + r) % b = r
OBVIOUS

\* Division with a remainder.
LEMMA Divided ==
  ASSUME NEW b \in Nat \ {0}, NEW x \in Nat
  PROVE  \E q \in Nat, r \in 0..(b - 1) : x = b * q + r /\ x \div b = q /\ x % b = r
<1> DEFINE G == {y \in Nat : \E q \in Nat, r \in 0..(b - 1) : y = b * q + r}
<1>1. 0 \in G
  <2>1. 0 \in 0..(b - 1) /\ 0 = b * 0 + 0
    OBVIOUS
  <2> QED  BY <2>1
<1>2. ASSUME NEW y \in 0..(x - 1), y \in G PROVE y + 1 \in G
  <2>1. PICK q \in Nat, r \in 0..(b - 1) : y = b * q + r
    BY Zenon, <1>2
  <2>2. CASE r < b - 1
    <3>1. r + 1 \in 0..(b - 1) /\ y + 1 = b * q + (r + 1)
      BY <2>1, <2>2
    <3> QED  BY <3>1
  <2>3. CASE r = b - 1
    <3>1. q + 1 \in Nat /\ 0 \in 0..(b - 1) /\ y + 1 = b * (q + 1) + 0
      BY <2>1, <2>3
    <3>2. y + 1 \in Nat
      OBVIOUS
    <3> QED  BY Zenon, <3>1, <3>2
  <2> QED  BY <2>2, <2>3
<1> HIDE DEF G
<1>3. 0..x \subseteq G
  BY Zenon, <1>1, <1>2, Counting
<1>4. x \in G
  BY <1>3
<1>5. PICK q \in Nat, r \in 0..(b - 1) : x = b * q + r
  BY Zenon, <1>4 DEF G
<1>6. (b * q + r) \div b = q /\ (b * q + r) % b = r
  BY Zenon, Dividing
<1>7. x \div b = q /\ x % b = r
  BY Zenon, <1>5, <1>6
<1> QED  BY Zenon, <1>5, <1>7

\* The padded text is whole blocks, and unpadBuffer removes the padding.
LEMMA PaddingUndone ==
  ASSUME NEW p \in Seq(Nat)
  PROVE  /\ Len(padBuffer(p)) % BlockSize = 0
         /\ unpadBuffer(padBuffer(p)) = [err |-> FALSE, s |-> p]
<1> DEFINE B == BlockSize
           L == Len(p)
           m == B - (L % B)
           tail == [j \in 1..m |-> m]
           s == padBuffer(p)
<1>1. B \in Nat \ {0} /\ L \in Nat
  BY CipherAssumption
<1>2. PICK q \in Nat, r \in 0..(B - 1) : L = B * q + r /\ L \div B = q /\ L % B = r
  BY Zenon, <1>1, Divided
<1>3. m = B - r /\ m \in 1..B
  BY <1>1, <1>2
<1>4. s = p \o tail
  BY Zenon DEF padBuffer, Repeat
<1> HIDE DEF L, B, m, s
<1>5. tail \in Seq(Nat) /\ Len(tail) = m /\ \A j \in 1..m : tail[j] = m
  BY <1>1, <1>3
<1> HIDE DEF tail
<1>6. /\ s \in Seq(Nat) /\ Len(s) = L + m
      /\ \A j \in 1..L : s[j] = p[j]
      /\ \A j \in (L + 1)..(L + m) : s[j] = m
  <2>1. /\ p \o tail \in Seq(Nat) /\ Len(p \o tail) = Len(p) + Len(tail)
        /\ \A j \in 1..Len(p) : (p \o tail)[j] = p[j]
        /\ \A j \in (Len(p) + 1)..(Len(p) + Len(tail)) : (p \o tail)[j] = tail[j - Len(p)]
    <3>1. p \in Seq(Nat) /\ tail \in Seq(Nat)
      BY Zenon, <1>5
    <3> QED  BY SMT, <3>1
  <2>2. \A j \in (L + 1)..(L + m) : j - L \in 1..m
    BY <1>1, <1>3
  <2> QED  BY Zenon, <1>4, <1>5, <2>1, <2>2 DEF L
<1>7. Len(s) % B = 0
  <2>1. L + m = B * (q + 1) + 0
    BY <1>1, <1>2, <1>3
  <2>2. q + 1 \in Nat /\ 0 \in 0..(B - 1)
    BY <1>1
  <2>3. (B * (q + 1) + 0) % B = 0
    BY Zenon, <1>1, <2>2, Dividing
  <2> QED  BY Zenon, <1>6, <2>1, <2>3
<1>8. s[Len(s)] = m /\ Len(s) # 0 /\ m # 0 /\ ~(m > B) /\ ~(m > Len(s))
  BY <1>1, <1>3, <1>6
<1>9. \A j \in (Len(s) - m + 1)..Len(s) : s[j] = m
  BY <1>1, <1>3, <1>6
<1>10. SubSeq(s, 1, Len(s) - m) = p
  BY <1>1, <1>3, <1>6 DEF L
<1>11. unpadBuffer(s) = [err |-> FALSE, s |-> SubSeq(s, 1, Len(s) - m)]
  BY Zenon, <1>7, <1>8, <1>9 DEF unpadBuffer, B
<1> QED  BY Zenon, <1>7, <1>10, <1>11 DEF s, B

\* Open returns what was sealed.
LEMMA SealedOpens ==
  ASSUME NEW nonce \in Nonces, NEW p \in Plaintexts, NEW data \in Data
  PROVE  Open(nonce, Seal(nonce, p, data), data) = [err |-> FALSE, s |-> p]
<1> DEFINE c == CBCEncrypt(nonce, padBuffer(p))
           tag == computeAuthTag(data, nonce, c)
           sealed == [ciphertext |-> c, tag |-> tag]
<1>1. p \in Seq(Nat)
  BY CipherAssumption
<1>2. /\ Len(padBuffer(p)) % BlockSize = 0
      /\ unpadBuffer(padBuffer(p)) = [err |-> FALSE, s |-> p]
  BY Zenon, <1>1, PaddingUndone
<1>3. Len(c) = Len(padBuffer(p)) /\ CBCDecrypt(nonce, c) = padBuffer(p)
  BY Zenon, CipherAssumption
<1>4. Seal(nonce, p, data) = sealed
  BY Zenon DEF Seal
<1> HIDE DEF c, tag
<1>5. sealed.ciphertext = c /\ sealed.tag = tag
  OBVIOUS
<1> HIDE DEF sealed
<1>6. ~(Len(c) % BlockSize > 0)
  <2>1. Len(c) % BlockSize = 0
    BY Zenon, <1>2, <1>3
  <2> QED  BY <2>1
<1>7. Open(nonce, sealed, data) = unpadBuffer(CBCDecrypt(nonce, c))
  BY Zenon, <1>5, <1>6 DEF Open, tag
<1> QED  BY Zenon, <1>2, <1>3, <1>4, <1>7

\* The first part of a buffer of three.
LEMMA FirstPart ==
  ASSUME NEW s \in Seq(Nat), NEW t \in Seq(Nat), NEW u \in Seq(Nat)
  PROVE  /\ s \o t \o u \in Seq(Nat) /\ Len(s \o t \o u) = Len(s) + Len(t) + Len(u)
         /\ SubSeq(s \o t \o u, 1, Len(s)) = s
<1> DEFINE a == s \o t
<1>1. a \in Seq(Nat) /\ Len(a) = Len(s) + Len(t) /\ \A i \in 1..Len(s) : a[i] = s[i]
  OBVIOUS
<1> HIDE DEF a
<1> DEFINE b == a \o u
<1>2. b \in Seq(Nat) /\ Len(b) = Len(a) + Len(u) /\ \A i \in 1..Len(a) : b[i] = a[i]
  <2>1. a \in Seq(Nat)
    BY Zenon, <1>1
  <2> QED  BY <2>1
<1> HIDE DEF b
<1>3. \A i \in 1..Len(s) : b[i] = s[i]
  <2>1. \A i \in 1..Len(s) : i \in 1..Len(a)
    BY <1>1
  <2> QED  BY Zenon, <1>1, <1>2, <2>1
<1>4. SubSeq(b, 1, Len(s)) = s
  <2>1. Len(s) \in 0..Len(b)
    BY <1>1, <1>2
  <2>2. /\ SubSeq(b, 1, Len(s)) \in Seq(Nat) /\ Len(SubSeq(b, 1, Len(s))) = Len(s)
        /\ \A i \in 1..Len(s) : SubSeq(b, 1, Len(s))[i] = b[i]
    <3> DEFINE k == Len(s)
    <3>1. b \in Seq(Nat) /\ k \in 0..Len(b)
      BY Zenon, <1>2, <2>1
    <3> HIDE DEF k
    <3>2. /\ SubSeq(b, 1, k) \in Seq(Nat) /\ Len(SubSeq(b, 1, k)) = k
          /\ \A i \in 1..k : SubSeq(b, 1, k)[i] = b[i]
      BY <3>1
    <3> QED  BY Zenon, <3>2 DEF k
  <2> DEFINE h == SubSeq(b, 1, Len(s))
  <2>3. h \in Seq(Nat) /\ Len(h) = Len(s) /\ \A i \in 1..Len(h) : h[i] = s[i]
    BY Zenon, <1>3, <2>2
  <2> HIDE DEF h
  <2>4. h = s
    BY Zenon, <2>3, SeqEqual
  <2> QED  BY Zenon, <2>4 DEF h
<1>5. Len(b) = Len(s) + Len(t) + Len(u)
  BY Zenon, <1>1, <1>2
<1> QED  BY Zenon, <1>2, <1>4, <1>5 DEF a, b

\* Another cut of the same bytes has other data, of another length, and the length
\* is in the tag.
LEMMA OtherCutRefused ==
  ASSUME NEW nonce \in Nonces, NEW p \in Plaintexts, NEW data \in Data,
         NEW cut \in Cuts(data \o nonce \o Seal(nonce, p, data).ciphertext, Len(nonce)),
         cut.data # data
  PROVE  Open(cut.nonce, [Seal(nonce, p, data) EXCEPT !.ciphertext = cut.ciphertext], cut.data).err
<1> DEFINE c == CBCEncrypt(nonce, padBuffer(p))
           tag == computeAuthTag(data, nonce, c)
           sealed == [ciphertext |-> c, tag |-> tag]
           s == data \o nonce \o c
           n == Len(nonce)
<1>1. data \in Seq(Nat) /\ nonce \in Seq(Nat) /\ c \in Seq(Nat)
  BY Zenon, CipherAssumption
<1>2. Seal(nonce, p, data) = sealed
  BY Zenon DEF Seal
<1>3. sealed.ciphertext = c
  BY <1>2
<1>4. s \in Seq(Nat) /\ SubSeq(s, 1, Len(data)) = data /\ Len(s) = Len(data) + n + Len(c)
  BY Zenon, <1>1, FirstPart
<1> HIDE DEF c
<1>5. PICK d \in 0..(Len(s) - n) :
        cut = [data |-> SubSeq(s, 1, d), nonce |-> SubSeq(s, d + 1, d + n), ciphertext |-> SubSeq(s, d + n + 1, Len(s))]
  <2>1. cut \in Cuts(s, n)
    BY Zenon, <1>2, <1>3
  <2> HIDE DEF s, n
  <2> QED  BY Zenon, <2>1 DEF Cuts
<1> HIDE DEF s
<1>6. cut.data = SubSeq(s, 1, d)
  BY Zenon, <1>5
<1>7. d # Len(data)
  BY Zenon, <1>4, <1>6
<1>8. Len(cut.data) = d
  <2>1. s \in Seq(Nat) /\ Len(s) \in Nat /\ n \in Nat
    BY Zenon, <1>1, <1>4, LenProperties
  <2> HIDE DEF n
  <2>2. d \in 0..Len(s)
    BY <2>1
  <2>3. Len(SubSeq(s, 1, d)) = d
    BY <2>1, <2>2
  <2> QED  BY Zenon, <1>6, <2>3
<1>9. Len(cut.data) * 8 # Len(data) * 8
  BY <1>1, <1>7, <1>8
<1> DEFINE other == [sealed EXCEPT !.ciphertext = cut.ciphertext]
           real == computeAuthTag(cut.data, cut.nonce, other.ciphertext)
<1>10. other.tag = tag
  OBVIOUS
<1>11. tag.bits = Len(data) * 8 /\ real.bits = Len(cut.data) * 8
  BY DEF computeAuthTag
<1> HIDE DEF tag, real
<1>12. other.tag # real
  BY Zenon, <1>9, <1>10, <1>11
<1>13. Open(cut.nonce, other, cut.data) = [err |-> TRUE, s |-> <<>>]
  <2> HIDE DEF other
  <2> QED  BY Zenon, <1>12 DEF Open, real
<1> HIDE DEF other
<1>14. Open(cut.nonce, other, cut.data).err
  BY <1>13
<1> QED  BY Zenon, <1>2, <1>14 DEF other

-----------------------------------------------------------------------------
(* Key wrapping.                                                           *)

\* The states of the loops over n units.
LoopStates(n) == {s \in [a : Unit, r : Seq(Unit)] : Len(s.r) = n}

\* A round takes one of the units.
LEMMA RoundUnit ==
  ASSUME NEW n \in Nat, NEW t \in 1..(6 * n)
  PROVE  ((t - 1) % n) + 1 \in 1..n
<1>1. n > 0
  OBVIOUS
<1> QED  BY <1>1

\* A round of KeyUnwrap undoes the round of KeyWrap with the same number.
LEMMA RoundUndone ==
  ASSUME NEW cek \in WrapKeys, NEW t \in 1..(6 * Len(cek)), NEW s \in LoopStates(Len(cek))
  PROVE  /\ WrapRound(s, t) \in LoopStates(Len(cek))
         /\ UnwrapRound(WrapRound(s, t), t) = s
<1> DEFINE n == Len(cek)
           k == ((t - 1) % n) + 1
           b == PairEncrypt(<<s.a, s.r[k]>>)
           x == XorCount(b[1], t)
           r == [s.r EXCEPT ![k] = b[2]]
<1>1. cek \in Seq(Unit) /\ n \in Nat
  BY CipherAssumption
<1>2. k \in 1..n
  BY <1>1, RoundUnit
<1>3. s \in [a : Unit, r : Seq(Unit)] /\ Len(s.r) = n
  BY DEF LoopStates
<1>4. s.a \in Unit /\ s.r \in Seq(Unit) /\ s = [a |-> s.a, r |-> s.r]
  BY <1>3
<1> HIDE DEF k, n
<1>5. s.r[k] \in Unit
  BY <1>2, <1>3, <1>4
<1>6. b \in Unit \X Unit /\ PairDecrypt(b) = <<s.a, s.r[k]>>
  BY Zenon, <1>4, <1>5, CipherAssumption
<1> HIDE DEF b
<1>7. b[1] \in Unit /\ b[2] \in Unit /\ b = <<b[1], b[2]>>
  BY <1>6
<1>8. x \in Unit /\ XorCount(x, t) = b[1]
  BY Zenon, <1>7, CipherAssumption
<1>9. r \in Seq(Unit) /\ Len(r) = n /\ r[k] = b[2]
  BY <1>2, <1>3, <1>4, <1>7, ExceptSeq
<1>10. WrapRound(s, t) = [a |-> x, r |-> r]
  BY Zenon, <1>3 DEF WrapRound, k, b
<1>11. WrapRound(s, t) \in LoopStates(n)
  BY <1>8, <1>9, <1>10 DEF LoopStates
<1>12. [r EXCEPT ![k] = s.r[k]] = s.r
  <2> DEFINE q == [r EXCEPT ![k] = s.r[k]]
  <2>1. \A j \in 1..n : j # k => r[j] = s.r[j]
    BY <1>2, <1>3, <1>4, <1>7, ExceptSeq
  <2> HIDE DEF r
  <2>2. /\ q \in Seq(Unit) /\ Len(q) = n
        /\ \A j \in 1..n : q[j] = IF j = k THEN s.r[k] ELSE r[j]
    BY <1>2, <1>5, <1>9, ExceptSeq
  <2> HIDE DEF q
  <2>3. \A j \in 1..n : q[j] = s.r[j]
    BY Zenon, <2>1, <2>2
  <2>4. q = s.r
    BY Zenon, <2>2, <2>3, <1>3, <1>4, SeqEqual
  <2> QED  BY Zenon, <2>4 DEF q
<1>13. UnwrapRound([a |-> x, r |-> r], t) = [a |-> s.a, r |-> s.r]
  <2> DEFINE w == [a |-> x, r |-> r]
             d == PairDecrypt(<<XorCount(w.a, t), w.r[k]>>)
  <2>1. w.a = x /\ w.r = r
    OBVIOUS
  <2>2. d = <<s.a, s.r[k]>>
    BY Zenon, <2>1, <1>6, <1>7, <1>8, <1>9
  <2>3. d[1] = s.a /\ d[2] = s.r[k]
    BY <2>2
  <2>4. ((t - 1) % Len(w.r)) + 1 = k
    BY Zenon, <2>1, <1>9 DEF k
  <2> HIDE DEF w, r, x
  <2>5. UnwrapRound(w, t) = [a |-> d[1], r |-> [w.r EXCEPT ![k] = d[2]]]
    BY Zenon, <2>4 DEF UnwrapRound
  <2> HIDE DEF d
  <2>6. UnwrapRound(w, t) = [a |-> s.a, r |-> [r EXCEPT ![k] = s.r[k]]]
    BY Zenon, <2>1, <2>3, <2>5
  <2> QED  BY Zenon, <2>6, <1>12 DEF w
<1> QED  BY Zenon, <1>4, <1>10, <1>11, <1>13 DEF n

\* The loop of KeyWrap, from the default IV and the key on.
LEMMA WrapRuns ==
  ASSUME NEW cek \in WrapKeys
  PROVE  LET f == WrapLoop(cek)
             n == Len(cek)
         IN  /\ f = [t \in 0..(6 * n) |-> IF t = 0 THEN [a |-> DefaultIV, r |-> cek] ELSE WrapRound(f[t - 1], t)]
             /\ \A t \in 0..(6 * n) : f[t] \in LoopStates(n)
<1> DEFINE n == Len(cek)
           N == 6 * n
           S == LoopStates(n)
           start == [a |-> DefaultIV, r |-> cek]
           step == [p \in S \X (1..N) |-> WrapRound(p[1], p[2])]
           Good(f) == f = [t \in 0..N |-> IF t = 0 THEN start ELSE WrapRound(f[t - 1], t)]
<1>1. cek \in Seq(Unit) /\ n \in Nat /\ N \in Nat
  BY CipherAssumption
<1>2. start \in S
  BY <1>1, CipherAssumption DEF LoopStates
<1>3. \A s \in S, t \in 1..N : WrapRound(s, t) \in S
  BY Zenon, RoundUndone
<1> HIDE DEF S, N, n, start
<1>4. step \in [S \X (1..N) -> S]
  BY <1>3
<1>5. \A s \in S, t \in 1..N : step[<<s, t>>] = WrapRound(s, t)
  OBVIOUS
<1> HIDE DEF step
<1>. PICK f : f \in Traces(S, start, N, step)
  BY Zenon, <1>1, <1>2, <1>4, LoopRuns
<1>6. f \in [0..N -> S] /\ f[0] = start /\ \A t \in 1..N : f[t] = step[<<f[t - 1], t>>]
  BY Zenon DEF Traces
<1>7. \A t \in 0..N : f[t] = IF t = 0 THEN start ELSE WrapRound(f[t - 1], t)
  <2> SUFFICES ASSUME NEW t \in 0..N, t # 0 PROVE f[t] = WrapRound(f[t - 1], t)
    BY Zenon, <1>6
  <2>1. t \in 1..N /\ t - 1 \in 0..N
    BY <1>1
  <2>2. f[t - 1] \in S
    BY Zenon, <1>6, <2>1
  <2> QED  BY Zenon, <1>5, <1>6, <2>1, <2>2
<1>8. Good(f)
  BY <1>6, <1>7
<1> DEFINE g == WrapLoop(cek)
<1>9. g = CHOOSE h : Good(h)
  BY Zenon DEF WrapLoop, start, N, n
<1> HIDE DEF Good, g
<1>10. Good(g)
  BY Zenon, <1>8, <1>9
<1>11. \A t \in 0..N : g[t] \in S
  <2> DEFINE G == {t \in 0..N : g[t] \in S}
  <2>1. g[0] = start /\ \A t \in 1..N : g[t] = WrapRound(g[t - 1], t)
    BY <1>1, <1>10 DEF Good
  <2>2. 0 \in G
    BY <1>1, <1>2, <2>1
  <2>3. ASSUME NEW t \in 0..(N - 1), t \in G PROVE t + 1 \in G
    <3>1. t + 1 \in 1..N /\ (t + 1) - 1 = t /\ t + 1 \in 0..N
      BY <1>1
    <3> QED  BY Zenon, <1>3, <2>1, <2>3, <3>1
  <2> HIDE DEF G
  <2>4. 0..N \subseteq G
    BY Zenon, <1>1, <2>2, <2>3, Counting
  <2> QED  BY Zenon, <2>4 DEF G
<1> QED  BY Zenon, <1>10, <1>11 DEF Good, g, S, N, n, start

\* Unwrapping a wrapped key runs the loop of KeyWrap backwards.
LEMMA UnwrapRuns ==
  ASSUME NEW cek \in WrapKeys
  PROVE  UnwrapLoop(KeyWrap(cek))[0] = [a |-> DefaultIV, r |-> cek]
<1> DEFINE n == Len(cek)
           N == 6 * n
           S == LoopStates(n)
           f == WrapLoop(cek)
           end == f[N]
           c == KeyWrap(cek)
<1>1. cek \in Seq(Unit) /\ n \in Nat /\ N \in Nat
  BY CipherAssumption
<1>2. /\ f = [t \in 0..N |-> IF t = 0 THEN [a |-> DefaultIV, r |-> cek] ELSE WrapRound(f[t - 1], t)]
      /\ \A t \in 0..N : f[t] \in S
  BY Zenon, WrapRuns
<1> HIDE DEF f
<1>3. end \in S
  BY <1>1, <1>2
<1>4. c = <<end.a>> \o end.r
  BY Zenon DEF KeyWrap, f
<1>5. end.a \in Unit /\ end.r \in Seq(Unit) /\ Len(end.r) = n
  BY <1>3 DEF LoopStates
<1>0. end = [a |-> end.a, r |-> end.r]
  BY <1>3 DEF LoopStates
<1> HIDE DEF end, c
<1>6. c \in Seq(Unit) /\ Len(c) = 1 + n /\ c[1] = end.a /\ \A j \in 1..n : c[1 + j] = end.r[j]
  <2>1. <<end.a>> \in Seq(Unit) /\ Len(<<end.a>>) = 1 /\ <<end.a>>[1] = end.a
    BY <1>5
  <2> DEFINE u == <<end.a>>
  <2> HIDE DEF u
  <2>2. u \in Seq(Unit) /\ Len(u) = 1 /\ u[1] = end.a
    BY Zenon, <2>1 DEF u
  <2>3. /\ u \o end.r \in Seq(Unit) /\ Len(u \o end.r) = Len(u) + Len(end.r)
        /\ \A i \in 1..Len(u) : (u \o end.r)[i] = u[i]
        /\ \A i \in 1..Len(end.r) : (u \o end.r)[Len(u) + i] = end.r[i]
    <3>1. u \in Seq(Unit) /\ end.r \in Seq(Unit)
      BY Zenon, <1>5, <2>2
    <3> QED  BY SMT, <3>1
  <2>4. c \in Seq(Unit) /\ Len(c) = 1 + n /\ c[1] = u[1] /\ \A i \in 1..n : c[1 + i] = end.r[i]
    BY <1>1, <1>4, <1>5, <2>2, <2>3 DEF u
  <2> QED  BY Zenon, <2>2, <2>4
<1>7. Tail(c) = end.r
  <2>1. c # <<>>
    BY <1>1, <1>6
  <2>2. Tail(c) \in Seq(Unit) /\ Len(Tail(c)) = n /\ \A i \in 1..n : Tail(c)[i] = c[1 + i]
    BY <1>1, <1>6, <2>1, HeadTailProperties
  <2>3. Len(Tail(c)) = Len(end.r) /\ \A i \in 1..Len(Tail(c)) : Tail(c)[i] = end.r[i]
    BY Zenon, <1>5, <1>6, <2>2
  <2> QED  BY Zenon, <1>5, <2>2, <2>3, SeqEqual
<1> DEFINE begin == [a |-> c[1], r |-> Tail(c)]
           Good(h) == h = [t \in 0..N |-> IF t = N THEN begin ELSE UnwrapRound(h[t + 1], t + 1)]
           g == UnwrapLoop(c)
<1>8. \A t \in 0..(N - 1) : f[t] = UnwrapRound(f[t + 1], t + 1)
  <2> SUFFICES ASSUME NEW t \in 0..(N - 1) PROVE f[t] = UnwrapRound(f[t + 1], t + 1)
    OBVIOUS
  <2>1. t + 1 \in 1..N /\ t \in 0..N /\ t + 1 # 0 /\ (t + 1) - 1 = t /\ t + 1 \in 0..N
    BY <1>1
  <2>2. f[t + 1] = WrapRound(f[t], t + 1)
    BY <1>2, <2>1
  <2>3. f[t] \in LoopStates(Len(cek)) /\ t + 1 \in 1..(6 * Len(cek))
    BY Zenon, <1>2, <2>1
  <2> QED  BY Zenon, <2>2, <2>3, RoundUndone
<1>9. f[N] = begin
  BY Zenon, <1>0, <1>6, <1>7 DEF end
<1>10. Good(f)
  <2>1. \A t \in 0..N : t # N => t \in 0..(N - 1)
    BY <1>1
  <2>2. \A t \in 0..N : f[t] = IF t = N THEN begin ELSE UnwrapRound(f[t + 1], t + 1)
    BY Zenon, <2>1, <1>8, <1>9
  <2>3. f = [t \in 0..N |-> f[t]]
    BY <1>2
  <2> QED  BY Zenon, <2>2, <2>3
<1>11. g = CHOOSE h : Good(h)
  <2>1. Len(c) - 1 = n
    BY <1>1, <1>6
  <2> QED  BY ZenonT(60), <2>1 DEF UnwrapLoop
<1> HIDE DEF Good, g, begin, n, N
<1>12. Good(g)
  BY Zenon, <1>10, <1>11
<1>13. g[N] = f[N] /\ \A t \in 0..(N - 1) : g[t] = UnwrapRound(g[t + 1], t + 1)
  <2>1. N \in 0..N /\ \A t \in 0..(N - 1) : t \in 0..N /\ t # N
    BY <1>1
  <2>2. \A t \in 0..N : g[t] = IF t = N THEN begin ELSE UnwrapRound(g[t + 1], t + 1)
    BY Zenon, <1>12 DEF Good
  <2> QED  BY Zenon, <1>9, <2>1, <2>2
\* The two agree from the end of KeyWrap's loop downwards.
<1>14. g[0] = f[0]
  <2> DEFINE G == {t \in 0..N : g[N - t] = f[N - t]}
  <2>1. 0 \in G
    BY <1>1, <1>13
  <2>2. ASSUME NEW t \in 0..(N - 1), t \in G PROVE t + 1 \in G
    <3> DEFINE u == N - (t + 1)
    <3>1. u \in 0..(N - 1) /\ u + 1 = N - t /\ t + 1 \in 0..N
      BY <1>1
    <3>2. g[u + 1] = f[u + 1]
      BY <2>2, <3>1
    <3>3. g[u] = f[u]
      BY Zenon, <1>8, <1>13, <3>1, <3>2
    <3> QED  BY Zenon, <3>1, <3>3
  <2>3. 0..N \subseteq G
    <3> HIDE DEF G
    <3> QED  BY Zenon, <1>1, <2>1, <2>2, Counting
  <2>4. N \in 0..N /\ N - N = 0
    BY <1>1
  <2>5. g[N - N] = f[N - N]
    BY Zenon, <2>3, <2>4
  <2> QED  BY Zenon, <2>4, <2>5
<1>15. f[0] = [a |-> DefaultIV, r |-> cek]
  BY <1>1, <1>2
<1> QED  BY Zenon, <1>14, <1>15 DEF g, c

\* KeyUnwrap returns the key that KeyWrap wrapped, and no error.
LEMMA KeyUnwrapped ==
  ASSUME NEW cek \in WrapKeys
  PROVE  KeyUnwrap(KeyWrap(cek)) = [err |-> FALSE, cek |-> cek]
<1>1. UnwrapLoop(KeyWrap(cek))[0] = [a |-> DefaultIV, r |-> cek]
  BY Zenon, UnwrapRuns
<1> DEFINE end == UnwrapLoop(KeyWrap(cek))[0]
<1>2. end.a = DefaultIV /\ end.r = cek
  BY <1>1
<1>3. KeyUnwrap(KeyWrap(cek)) = [err |-> end.a # DefaultIV, cek |-> end.r]
  BY Zenon DEF KeyUnwrap
<1>4. (end.a # DefaultIV) = FALSE
  BY Zenon, <1>2
<1> HIDE DEF end
<1> QED  BY Zenon, <1>2, <1>3, <1>4

-----------------------------------------------------------------------------
(* The KDF.                                                                *)

HashByte == Nat \X Nat

\* The j-th byte of the stream.
StreamByte(j) == <<((j - 1) \div HashSize) + 1, ((j - 1) % HashSize) + 1>>

\* s is the stream from behind its first `from` bytes on.
Streams(s, from) == s \in Seq(HashByte) /\ \A j \in 1..Len(s) : s[j] = StreamByte(from + j)

\* What was read, and then the cache, are what the hashes up to i - 1 make.
KdfOk(c) == /\ c = [i |-> c.i, cache |-> c.cache, out |-> c.out]
            /\ c.i \in Nat \ {0}
            /\ Streams(c.out, 0) /\ Streams(c.cache, Len(c.out))
            /\ Len(c.out) + Len(c.cache) = HashSize * (c.i - 1)

\* The stream is one: a piece of it after another, and a piece of a piece.
LEMMA StreamsOn ==
  ASSUME NEW from \in Nat, NEW s, NEW t, Streams(s, from), Streams(t, from + Len(s))
  PROVE  Streams(s \o t, from) /\ Len(s \o t) = Len(s) + Len(t)
<1>1. s \in Seq(HashByte) /\ t \in Seq(HashByte)
  BY Zenon DEF Streams
<1>2. s \o t \in Seq(HashByte) /\ Len(s \o t) = Len(s) + Len(t) /\ Len(s) \in Nat /\ Len(t) \in Nat
  BY <1>1
<1>3. ASSUME NEW j \in 1..Len(s \o t) PROVE (s \o t)[j] = StreamByte(from + j)
  <2>1. CASE j <= Len(s)
    <3>1. j \in 1..Len(s)
      BY <1>2, <2>1
    <3>2. (s \o t)[j] = s[j]
      BY <1>1, <3>1
    <3> QED  BY Zenon, <3>1, <3>2 DEF Streams
  <2>2. CASE ~(j <= Len(s))
    <3>1. j - Len(s) \in 1..Len(t) /\ (from + Len(s)) + (j - Len(s)) = from + j
      BY <1>2, <2>2
    <3>2. (s \o t)[j] = t[j - Len(s)]
      BY <1>1, <1>2, <2>2
    <3>3. t[j - Len(s)] = StreamByte((from + Len(s)) + (j - Len(s)))
      BY Zenon, <3>1 DEF Streams
    <3> QED  BY Zenon, <3>1, <3>2, <3>3
  <2> QED  BY Zenon, <2>1, <2>2
<1> QED  BY Zenon, <1>2, <1>3 DEF Streams

LEMMA StreamsCut ==
  ASSUME NEW from \in Nat, NEW s, Streams(s, from), NEW n \in 0..Len(s)
  PROVE  /\ Streams(SubSeq(s, 1, n), from) /\ Len(SubSeq(s, 1, n)) = n
         /\ Streams(SubSeq(s, n + 1, Len(s)), from + n) /\ Len(SubSeq(s, n + 1, Len(s))) = Len(s) - n
<1>1. s \in Seq(HashByte)
  BY Zenon DEF Streams
<1> DEFINE h == SubSeq(s, 1, n)
           t == SubSeq(s, n + 1, Len(s))
<1>2. h \in Seq(HashByte) /\ Len(h) = n /\ \A j \in 1..n : h[j] = s[j] /\ j \in 1..Len(s)
  BY <1>1
<1>3. t \in Seq(HashByte) /\ Len(t) = Len(s) - n /\ \A j \in 1..(Len(s) - n) : t[j] = s[n + j]
  BY <1>1
<1> HIDE DEF h, t
<1>4. Streams(h, from)
  BY Zenon, <1>2 DEF Streams
<1>5. \A j \in 1..(Len(s) - n) : n + j \in 1..Len(s) /\ from + (n + j) = (from + n) + j
  BY <1>1
<1>6. \A j \in 1..Len(t) : t[j] = StreamByte((from + n) + j)
  BY Zenon, <1>3, <1>5 DEF Streams
<1>7. Streams(t, from + n)
  BY Zenon, <1>3, <1>6 DEF Streams
<1> QED  BY Zenon, <1>2, <1>3, <1>4, <1>7 DEF h, t

\* The bytes of the hashes i, i + 1, ... are the stream from behind those before.
LEMMA FreshStreams ==
  ASSUME NEW i \in Nat \ {0}, NEW k \in Nat
  PROVE  LET fresh == [x \in 1..(k * HashSize) |-> Hash(i + ((x - 1) \div HashSize))[((x - 1) % HashSize) + 1]]
         IN  Streams(fresh, HashSize * (i - 1)) /\ Len(fresh) = k * HashSize
<1> DEFINE H == HashSize
           fresh == [x \in 1..(k * H) |-> Hash(i + ((x - 1) \div H))[((x - 1) % H) + 1]]
<1>1. H \in Nat \ {0} /\ k * H \in Nat
  BY CipherAssumption
<1>2. ASSUME NEW x \in 1..(k * H)
      PROVE  fresh[x] = StreamByte(H * (i - 1) + x) /\ fresh[x] \in HashByte
  <2>0. x - 1 \in Nat
    BY <1>1
  <2>1. PICK q \in Nat, r \in 0..(H - 1) : x - 1 = H * q + r /\ (x - 1) \div H = q /\ (x - 1) % H = r
    BY Zenon, <1>1, <2>0, Divided
  <2>2. fresh[x] = Hash(i + q)[r + 1]
    BY Zenon, <2>1
  <2> HIDE DEF fresh
  <2>3. (H * (i - 1) + x) - 1 = H * ((i - 1) + q) + r /\ (i - 1) + q \in Nat /\ (i - 1) + q + 1 = i + q
    BY <1>1, <2>1
  <2>4. ((H * (i - 1) + x) - 1) \div H = (i - 1) + q /\ ((H * (i - 1) + x) - 1) % H = r
    <3> DEFINE Q == (i - 1) + q
    <3>1. Q \in Nat
      BY Zenon, <2>3
    <3> HIDE DEF Q
    <3>2. (H * Q + r) \div H = Q /\ (H * Q + r) % H = r
      BY Zenon, <1>1, <3>1, Dividing
    <3> QED  BY Zenon, <2>3, <3>2 DEF Q
  <2>5. StreamByte(H * (i - 1) + x) = <<i + q, r + 1>>
    BY Zenon, <2>3, <2>4 DEF StreamByte
  <2>6. r + 1 \in 1..H /\ i + q \in Nat /\ r + 1 \in Nat
    BY <1>1, <2>1
  <2>7. Hash(i + q)[r + 1] = <<i + q, r + 1>>
    BY Zenon, <2>6 DEF Hash
  <2>8. <<i + q, r + 1>> \in HashByte
    BY <2>6 DEF HashByte
  <2> QED  BY Zenon, <2>2, <2>5, <2>7, <2>8
<1>3. DOMAIN fresh = 1..(k * H)
  OBVIOUS
<1>4. fresh = [x \in 1..(k * H) |-> fresh[x]]
  OBVIOUS
<1> HIDE DEF fresh
<1>5. fresh \in [1..(k * H) -> HashByte]
  BY Zenon, <1>2, <1>4
<1> DEFINE m == k * H
<1> HIDE DEF m
<1>6. fresh \in Seq(HashByte) /\ Len(fresh) = m
  <2>1. fresh \in [1..m -> HashByte] /\ m \in Nat
    BY Zenon, <1>1, <1>5 DEF m
  <2> QED  BY <2>1
<1>7. Streams(fresh, H * (i - 1))
  BY Zenon, <1>2, <1>6 DEF Streams, m
<1> QED  BY Zenon, <1>6, <1>7 DEF fresh, m

\* A read goes on where the last one ended.
LEMMA ReadGoesOn ==
  ASSUME NEW c, KdfOk(c), NEW n \in Nat
  PROVE  KdfOk(KdfRead(c, n))
<1> DEFINE H == HashSize
           held == IF Len(c.cache) < n THEN Len(c.cache) ELSE n
           missing == n - held
           hashes == (missing + H - 1) \div H
           fresh == [x \in 1..(hashes * H) |-> Hash(c.i + ((x - 1) \div H))[((x - 1) % H) + 1]]
           all == c.cache \o fresh
           from == Len(c.out)
           d == KdfRead(c, n)
<1>1. H \in Nat \ {0}
  BY CipherAssumption
<1>2. /\ c.i \in Nat \ {0} /\ Streams(c.out, 0) /\ Streams(c.cache, from)
      /\ from + Len(c.cache) = H * (c.i - 1)
  BY Zenon DEF KdfOk
<1>3. from \in Nat /\ Len(c.cache) \in Nat
  BY <1>2 DEF Streams
<1>4. d = [i |-> c.i + hashes, cache |-> SubSeq(all, n + 1, Len(all)), out |-> c.out \o SubSeq(all, 1, n)]
  BY Zenon DEF KdfRead
<1> HIDE DEF from, d, H
<1>5. held \in Nat /\ missing \in Nat /\ missing + H - 1 \in Nat /\ n <= Len(c.cache) + missing
  BY <1>1, <1>3
<1> HIDE DEF held, missing
<1>6. hashes \in Nat /\ missing <= hashes * H
  <2>1. PICK q \in Nat, r \in 0..(H - 1) :
          missing + H - 1 = H * q + r /\ (missing + H - 1) \div H = q /\ (missing + H - 1) % H = r
    BY Zenon, <1>1, <1>5, Divided
  <2>2. missing <= q * H
    BY <1>1, <1>5, <2>1
  <2> QED  BY Zenon, <2>1, <2>2
<1> HIDE DEF hashes
<1>7. Streams(fresh, H * (c.i - 1)) /\ Len(fresh) = hashes * H
  BY Zenon, <1>2, <1>6, FreshStreams DEF H
<1> HIDE DEF fresh
<1> DEFINE made == hashes * H
<1>8. made \in Nat /\ missing <= made /\ H * (c.i - 1) + made = H * ((c.i + hashes) - 1)
  BY <1>1, <1>2, <1>6
<1> HIDE DEF made
<1>9. Streams(all, from) /\ Len(all) = Len(c.cache) + made
  <2>1. Streams(fresh, from + Len(c.cache)) /\ Streams(c.cache, from)
    BY Zenon, <1>2, <1>7
  <2>2. Streams(c.cache \o fresh, from) /\ Len(c.cache \o fresh) = Len(c.cache) + Len(fresh)
    <3>1. from \in Nat
      BY Zenon, <1>3
    <3> QED  BY SMT, <2>1, <3>1, StreamsOn
  <2> QED  BY Zenon, <1>7, <2>2 DEF made
<1> HIDE DEF all
<1>10. /\ Streams(SubSeq(all, 1, n), from) /\ Len(SubSeq(all, 1, n)) = n
       /\ Streams(SubSeq(all, n + 1, Len(all)), from + n) /\ Len(SubSeq(all, n + 1, Len(all))) = Len(all) - n
  <2>1. n \in 0..Len(all)
    BY <1>3, <1>5, <1>8, <1>9
  <2>2. from \in Nat /\ Streams(all, from)
    BY Zenon, <1>3, <1>9
  <2> QED  BY ZenonT(60), <2>1, <2>2, StreamsCut
<1> DEFINE piece == SubSeq(all, 1, n)
           rest == SubSeq(all, n + 1, Len(all))
<1> HIDE DEF piece, rest
<1>11. Streams(c.out \o piece, 0) /\ Len(c.out \o piece) = from + n
  <2>1. Streams(piece, 0 + Len(c.out)) /\ Len(piece) = n
    <3>1. 0 + Len(c.out) = from
      BY <1>3 DEF from
    <3> QED  BY Zenon, <1>10, <3>1 DEF piece
  <2>2. Streams(c.out \o piece, 0) /\ Len(c.out \o piece) = Len(c.out) + Len(piece)
    <3>1. 0 \in Nat /\ Streams(c.out, 0) /\ Streams(piece, 0 + Len(c.out))
      BY Zenon, <1>2, <2>1
    <3> QED  BY SMT, <3>1, StreamsOn
  <2> QED  BY Zenon, <2>1, <2>2 DEF from
<1>12. d.i = c.i + hashes /\ d.cache = rest /\ d.out = c.out \o piece /\ d = [i |-> d.i, cache |-> d.cache, out |-> d.out]
  BY Zenon, <1>4 DEF piece, rest
<1>13. c.i + hashes \in Nat \ {0} /\ (from + n) + (Len(all) - n) = H * ((c.i + hashes) - 1)
  <2> DEFINE before == H * (c.i - 1)
             after == H * ((c.i + hashes) - 1)
  <2>1. before \in Nat /\ before + made = after /\ from + Len(c.cache) = before
    BY <1>1, <1>2, <1>8
  <2> HIDE DEF before, after
  <2>2. (from + n) + (Len(all) - n) = after
    <3> DEFINE x == Len(all)
               y == Len(c.cache)
    <3>1. from \in Nat /\ y \in Nat /\ made \in Nat /\ x = y + made /\ from + y = before /\ before + made = after
      BY Zenon, <1>3, <1>8, <1>9, <2>1
    <3> HIDE DEF x, y
    <3>2. (from + n) + (x - n) = after
      BY <3>1
    <3> QED  BY Zenon, <3>2 DEF x
  <2>3. c.i + hashes \in Nat \ {0}
    BY <1>2, <1>6
  <2> QED  BY Zenon, <2>2, <2>3 DEF after
<1>14. Streams(rest, from + n) /\ Len(rest) = Len(all) - n
  BY Zenon, <1>10 DEF rest
<1>15. /\ d.i \in Nat \ {0} /\ Streams(d.out, 0) /\ Streams(d.cache, Len(d.out))
       /\ Len(d.out) + Len(d.cache) = H * (d.i - 1)
  BY Zenon, <1>11, <1>12, <1>13, <1>14
<1> QED  BY Zenon, <1>12, <1>15 DEF KdfOk, d, H

-----------------------------------------------------------------------------
(* The two ends.                                                           *)

\* What was done is what its fields say.
WorkOk == \/ work = NoWork
          \/ \E nonce \in Nonces, p \in Plaintexts, data \in Data :
               work = [op |-> "seal", nonce |-> nonce, plaintext |-> p, data |-> data, sealed |-> Seal(nonce, p, data)]
          \/ \E cek \in WrapKeys : work = [op |-> "wrap", cek |-> cek, wrapped |-> KeyWrap(cek)]

CipherInv == WorkOk /\ KdfOk(kdf)

\* The reader's invariant, and that results are of the operations they name.
THEOREM CiphersHold == CipherSpec => []CipherInv
<1>1. CipherInit => CipherInv
  <2> SUFFICES ASSUME CipherInit PROVE CipherInv
    OBVIOUS
  <2>1. WorkOk
    BY Zenon DEF CipherInit, WorkOk
  <2>2. kdf = [i |-> 1, cache |-> <<>>, out |-> <<>>]
    BY Zenon DEF CipherInit, NewConcatKDF
  <2>3. kdf.i = 1 /\ kdf.cache = <<>> /\ kdf.out = <<>>
    BY <2>2
  <2>4. \A from \in Nat : Streams(<<>>, from)
    <3>1. <<>> \in Seq(HashByte) /\ \A j \in 1..Len(<<>>) : FALSE
      OBVIOUS
    <3> QED  BY Zenon, <3>1 DEF Streams
  <2>5. Len(<<>>) = 0 /\ 0 \in Nat /\ 1 \in Nat \ {0} /\ 0 + 0 = HashSize * (1 - 1)
    BY CipherAssumption
  <2>6. KdfOk(kdf)
    BY Zenon, <2>2, <2>3, <2>4, <2>5 DEF KdfOk
  <2> QED  BY Zenon, <2>1, <2>6 DEF CipherInv
<1>2. CipherInv /\ [CipherNext]_cipherVars => CipherInv'
  <2> SUFFICES ASSUME CipherInv, [CipherNext]_cipherVars PROVE CipherInv'
    OBVIOUS
  <2> USE DEF CipherInv
  <2>1. ASSUME NEW nonce \in Nonces, NEW p \in Plaintexts, NEW data \in Data, SealStep(nonce, p, data)
        PROVE  CipherInv'
    <3>1. WorkOk'
      BY Zenon, <2>1 DEF SealStep, WorkOk
    <3> QED  BY Zenon, <2>1, <3>1 DEF SealStep
  <2>2. ASSUME NEW cek \in WrapKeys, WrapStep(cek) PROVE CipherInv'
    <3>1. WorkOk'
      BY Zenon, <2>2 DEF WrapStep, WorkOk
    <3> QED  BY Zenon, <2>2, <3>1 DEF WrapStep
  <2>3. ASSUME NEW n \in 0..MaxRead, ReadStep(n) PROVE CipherInv'
    <3>1. n \in Nat
      OBVIOUS
    <3>2. KdfOk(KdfRead(kdf, n))
      BY Zenon, <3>1, ReadGoesOn
    <3> QED  BY Zenon, <2>3, <3>2 DEF ReadStep, WorkOk
  <2>4. CASE UNCHANGED cipherVars
    BY Zenon, <2>4 DEF cipherVars, WorkOk
  <2> QED  BY Zenon, <2>1, <2>2, <2>3, <2>4 DEF CipherNext
<1> QED  BY <1>1, <1>2, PTL DEF CipherSpec

\* Open returns what Seal sealed and refuses it cut in another way, KeyUnwrap returns
\* the key that was wrapped, and the KDF gives one stream (jose/cipher).
THEOREM CipherEndsAgree == CipherSpec => []EndsAgree
<1>1. CipherInv => EndsAgree
  <2> SUFFICES ASSUME CipherInv PROVE EndsAgree
    OBVIOUS
  <2>1. ASSUME work.op = "seal"
        PROVE  LET s == work.sealed
               IN  /\ Open(work.nonce, s, work.data) = [err |-> FALSE, s |-> work.plaintext]
                   /\ \A c \in Cuts(work.data \o work.nonce \o s.ciphertext, Len(work.nonce)) :
                        c.data # work.data => Open(c.nonce, [s EXCEPT !.ciphertext = c.ciphertext], c.data).err
    <3>1. PICK nonce \in Nonces, p \in Plaintexts, data \in Data :
            work = [op |-> "seal", nonce |-> nonce, plaintext |-> p, data |-> data, sealed |-> Seal(nonce, p, data)]
      BY <2>1 DEF CipherInv, WorkOk, NoWork
    <3>2. /\ work.nonce = nonce /\ work.plaintext = p /\ work.data = data
          /\ work.sealed = Seal(nonce, p, data)
      BY Zenon, <3>1
    <3>3. Open(nonce, Seal(nonce, p, data), data) = [err |-> FALSE, s |-> p]
      BY Zenon, SealedOpens
    <3>4. \A c \in Cuts(data \o nonce \o Seal(nonce, p, data).ciphertext, Len(nonce)) :
            c.data # data => Open(c.nonce, [Seal(nonce, p, data) EXCEPT !.ciphertext = c.ciphertext], c.data).err
      BY Zenon, OtherCutRefused
    <3> QED  BY Zenon, <3>2, <3>3, <3>4
  <2>2. ASSUME work.op = "wrap"
        PROVE  KeyUnwrap(work.wrapped) = [err |-> FALSE, cek |-> work.cek]
    <3>1. PICK cek \in WrapKeys : work = [op |-> "wrap", cek |-> cek, wrapped |-> KeyWrap(cek)]
      BY <2>2 DEF CipherInv, WorkOk, NoWork
    <3>2. work.cek = cek /\ work.wrapped = KeyWrap(cek)
      BY Zenon, <3>1
    <3> QED  BY Zenon, <3>2, KeyUnwrapped
  <2>3. \A j \in DOMAIN kdf.out : kdf.out[j] = <<((j - 1) \div HashSize) + 1, ((j - 1) % HashSize) + 1>>
    <3>1. kdf.out \in Seq(HashByte) /\ \A j \in 1..Len(kdf.out) : kdf.out[j] = StreamByte(0 + j)
      BY Zenon DEF CipherInv, KdfOk, Streams
    <3>2. DOMAIN kdf.out = 1..Len(kdf.out) /\ \A j \in 1..Len(kdf.out) : 0 + j = j
      BY <3>1
    <3> QED  BY Zenon, <3>1, <3>2 DEF StreamByte
  <2> QED  BY Zenon, <2>1, <2>2, <2>3 DEF EndsAgree
<1> QED  BY <1>1, CiphersHold, PTL
=============================================================================
