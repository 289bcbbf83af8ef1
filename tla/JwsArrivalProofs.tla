-------------------------- MODULE JwsArrivalProofs --------------------------
(***************************************************************************)
(* SignedArrives of ObjectProps, for any set of jobs, keys, headers and    *)
(* nonces: an object that was not tampered with parses, verifies with the  *)
(* public key of each of its signers, and shows the reader the header the  *)
(* signer wrote.                                                           *)
(***************************************************************************)
EXTENDS JwsProofs

\* The algorithms of a kind of keys.
Supports(kty, alg) ==
  /\ kty = "RSA" => alg \in {"RS256", "PS256"}
  /\ kty = "EC" => alg \in {"ES256", "ES384"}
  /\ kty = "OKP" => alg = "EdDSA"
  /\ kty = "oct" => alg \in {"HS256", "HS384"}

\* The key of a signer that the header tells.
ToldKey(key) == IF key.kty = "oct" THEN JWS!NoKey ELSE JWS!JSONWebKey(JWS!Public(key), key.KeyID)

\* A signer without error supports the algorithm and tells the public key.
LEMMA KeySignerTells ==
  ASSUME NEW alg, NEW key, ~JWS!newKeySigner(alg, key).err
  PROVE  LET r == JWS!newKeySigner(alg, key)
         IN  /\ Supports(key.kty, alg) /\ DOMAIN r = {"err", "sigAlg", "key", "publicKey"}
             /\ key.kty \in KeyTypes
             /\ r.publicKey = IF key.kty = "oct" THEN JWS!NoKey ELSE JWS!JSONWebKey(JWS!Public(key), "")
<1> DEFINE r == JWS!newKeySigner(alg, key)
<1>0. ~r.err
  BY Zenon
<1>1. ASSUME NEW supported, NEW public, r = JWS!SignerIf(supported, alg, key, public)
      PROVE  supported /\ r.publicKey = public /\ DOMAIN r = {"err", "sigAlg", "key", "publicKey"}
  <2> HIDE DEF r
  <2>2. CASE supported
    BY <1>1, <2>2 DEF JWS!SignerIf
  <2>3. CASE ~supported
    <3>1. r = [err |-> TRUE]
      BY Zenon, <1>1, <2>3 DEF JWS!SignerIf, JWS!NoRecipient
    <3> QED  BY <1>0, <3>1
  <2> QED  BY Zenon, <2>2, <2>3
<1>2. CASE key.kty = "oct"
  <2>1. r = JWS!SignerIf(alg \in {"HS256", "HS384"}, alg, key, JWS!NoKey)
    BY Zenon, <1>2 DEF JWS!newKeySigner, JWS!newSymmetricSigner
  <2> HIDE DEF r
  <2> QED  BY Zenon, <1>1, <1>2, <2>1 DEF Supports, KeyTypes, r
<1>3. CASE key.kty = "RSA" /\ key.priv
  <2>1. r = JWS!SignerIf(alg \in {"RS256", "PS256"}, alg, key, JWS!JSONWebKey(JWS!Public(key), ""))
    BY Zenon, <1>3 DEF JWS!newKeySigner, JWS!newRSASigner
  <2> HIDE DEF r
  <2> QED  BY Zenon, <1>1, <1>3, <2>1 DEF Supports, KeyTypes, r
<1>4. CASE key.kty = "EC" /\ key.priv
  <2>1. r = JWS!SignerIf(alg \in {"ES256", "ES384"}, alg, key, JWS!JSONWebKey(JWS!Public(key), ""))
    BY Zenon, <1>4 DEF JWS!newKeySigner, JWS!newECDSASigner
  <2> HIDE DEF r
  <2> QED  BY Zenon, <1>1, <1>4, <2>1 DEF Supports, KeyTypes, r
<1>5. CASE key.kty = "OKP" /\ key.priv
  <2>1. r = JWS!SignerIf(alg = "EdDSA", alg, key, JWS!JSONWebKey(JWS!Public(key), ""))
    BY Zenon, <1>5 DEF JWS!newKeySigner, JWS!newEd25519Signer
  <2> HIDE DEF r
  <2> QED  BY Zenon, <1>1, <1>5, <2>1 DEF Supports, KeyTypes, r
<1>6. CASE ~(\/ key.kty = "oct"
             \/ key.kty = "RSA" /\ key.priv
             \/ key.kty = "EC" /\ key.priv
             \/ key.kty = "OKP" /\ key.priv)
  <2>1. r = [err |-> TRUE]
    BY Zenon, <1>6 DEF JWS!newKeySigner, JWS!NoRecipient
  <2> HIDE DEF r
  <2> QED  BY <1>0, <2>1
<1> QED  BY Zenon, <1>2, <1>3, <1>4, <1>5, <1>6

\* The public part of what a JSONWebKey holds, under its key id.
LEMMA HeldPublic ==
  ASSUME NEW key \in AnyKey, NEW kid
  PROVE  /\ JWS!Held(key).kty = key.kty
         /\ JWS!JSONWebKey(JWS!JSONWebKey(JWS!Public(JWS!Held(key)), ""), kid) = JWS!JSONWebKey(JWS!Public(key), kid)
<1>1. DOMAIN key = {"kty", "id", "crv", "priv", "size", "jwk", "KeyID"}
  BY DEF AnyKey
<1> QED  BY Zenon, <1>1 DEF JWS!JSONWebKey, JWS!Public, JWS!Held

LEMMA RecipientTells ==
  ASSUME NEW alg, NEW key \in GoKey, ~JWS!makeJWSRecipient(alg, key).err
  PROVE  LET r == JWS!makeJWSRecipient(alg, key)
         IN  Supports(key.kty, alg) /\ r.publicKey = ToldKey(key) /\ key.kty \in KeyTypes
<1>0. key \in AnyKey /\ (~key.jwk => key.KeyID = "")
  BY Zenon DEF GoKey
<1>1. CASE ~key.jwk
  <2>1. JWS!makeJWSRecipient(alg, key) = JWS!newKeySigner(alg, key)
    BY Zenon, <1>1 DEF JWS!makeJWSRecipient
  <2>2. key.KeyID = ""
    BY Zenon, <1>0, <1>1
  <2> QED  BY ZenonT(60), <2>1, <2>2, KeySignerTells DEF ToldKey
<1>2. CASE key.jwk
  <2> DEFINE r == JWS!newJWKSigner(alg, key)
             held == JWS!Held(key)
             inner == JWS!newKeySigner(alg, held)
             public == JWS!JSONWebKey(inner.publicKey, key.KeyID)
  <2>1. JWS!makeJWSRecipient(alg, key) = r /\ ~r.err
    BY Zenon, <1>2 DEF JWS!makeJWSRecipient
  <2>2. /\ held.kty = key.kty
        /\ JWS!JSONWebKey(JWS!JSONWebKey(JWS!Public(held), ""), key.KeyID) = JWS!JSONWebKey(JWS!Public(key), key.KeyID)
    BY Zenon, <1>0, HeldPublic
  <2>3. r = CASE inner.err -> JWS!NoRecipient
              [] ~inner.err /\ key.kty = "oct" -> inner
              [] ~inner.err /\ key.kty # "oct" ->
                   IF JWS!IsPublic(public) THEN [inner EXCEPT !.publicKey = public] ELSE JWS!NoRecipient
    BY Zenon DEF JWS!newJWKSigner
  <2> HIDE DEF r, held, public
  <2>4. r # JWS!NoRecipient
    BY <2>1 DEF JWS!NoRecipient
  <2>5. ~inner.err
    BY Zenon, <2>3, <2>4
  <2>6. /\ Supports(held.kty, alg) /\ DOMAIN inner = {"err", "sigAlg", "key", "publicKey"} /\ held.kty \in KeyTypes
        /\ inner.publicKey = IF held.kty = "oct" THEN JWS!NoKey ELSE JWS!JSONWebKey(JWS!Public(held), "")
    BY Zenon, <2>5, KeySignerTells
  <2> HIDE DEF inner
  <2>7. CASE key.kty = "oct"
    <3>1. r = inner
      BY Zenon, <2>3, <2>5, <2>7
    <3> QED  BY Zenon, <2>1, <2>2, <2>6, <2>7, <3>1 DEF ToldKey
  <2>8. CASE key.kty # "oct"
    <3>1. r = [inner EXCEPT !.publicKey = public]
      BY Zenon, <2>3, <2>4, <2>5, <2>8
    <3>2. r.publicKey = public
      BY <2>6, <3>1
    <3> QED  BY Zenon, <2>1, <2>2, <2>6, <2>8, <3>2 DEF ToldKey, public
  <2> QED  BY Zenon, <2>7, <2>8
<1> QED  BY Zenon, <1>1, <1>2

-----------------------------------------------------------------------------
(* Headers.                                                                *)

LEMMA ListIs == \A s : JWS!List(s).t = "list" /\ JWS!List(s).v = s
BY Zenon DEF JWS!List, JWS!Value

LEMMA KeyValueIs == \A k : JWS!KeyValue(k).t = "key" /\ JWS!KeyValue(k).key = JWS!MarshalJSON(k)
BY Zenon DEF JWS!KeyValue, JWS!Value

LEMMA StrIs == \A s : JWS!Str(s).t = "string" /\ JWS!Str(s).v = s
BY Zenon DEF JWS!Str, JWS!Value

\* The header before the extra headers: who signs, and then the nonce.
Who(r, opts) ==
  LET alg == JWS!set(JWS!EmptyHeader, "alg", JWS!Str(r.sigAlg))
  IN  CASE r.publicKey = JWS!NoKey -> alg
        [] r.publicKey # JWS!NoKey /\ opts.EmbedJWK -> JWS!set(alg, "jwk", JWS!KeyValue(r.publicKey))
        [] r.publicKey # JWS!NoKey /\ ~opts.EmbedJWK -> JWS!set(alg, "kid", JWS!Str(r.publicKey.KeyID))
Once(r, opts) ==
  IF opts.nonce = "none" THEN Who(r, opts) ELSE JWS!set(Who(r, opts), "nonce", JWS!Str(opts.nonce))

LEMMA WhoIs ==
  ASSUME NEW r, NEW opts
  PROVE  LET w == Who(r, opts)
             public == r.publicKey
         IN  /\ "alg" \in DOMAIN w /\ w["alg"] = JWS!Str(r.sigAlg)
             /\ "crit" \notin DOMAIN w /\ "nonce" \notin DOMAIN w
             /\ "jwk" \in DOMAIN w <=> public # JWS!NoKey /\ opts.EmbedJWK
             /\ "jwk" \in DOMAIN w => w["jwk"] = JWS!KeyValue(public)
             /\ "kid" \in DOMAIN w <=> public # JWS!NoKey /\ ~opts.EmbedJWK
             /\ "kid" \in DOMAIN w => w["kid"] = JWS!Str(public.KeyID)
<1> DEFINE w == Who(r, opts)
           alg == JWS!set(JWS!EmptyHeader, "alg", JWS!Str(r.sigAlg))
           public == r.publicKey
           jwk == JWS!set(alg, "jwk", JWS!KeyValue(public))
           kid == JWS!set(alg, "kid", JWS!Str(public.KeyID))
           Only(h, k) == /\ "alg" \in DOMAIN h /\ h["alg"] = JWS!Str(r.sigAlg)
                         /\ "crit" \notin DOMAIN h /\ "nonce" \notin DOMAIN h
                         /\ "jwk" \in DOMAIN h <=> k = "jwk"
                         /\ "kid" \in DOMAIN h <=> k = "kid"
<1>1. Only(alg, "alg")
  <2>1. \A x : x \notin DOMAIN JWS!EmptyHeader
    BY Zenon DEF JWS!EmptyHeader
  <2>2. alg = JWS!set(JWS!EmptyHeader, "alg", JWS!Str(r.sigAlg))
    BY Zenon
  <2> HIDE DEF alg
  <2>3. (\A x : x \in DOMAIN alg <=> x \in DOMAIN JWS!EmptyHeader \/ x = "alg") /\ alg["alg"] = JWS!Str(r.sigAlg)
    BY Zenon, <2>2 DEF JWS!set
  <2>4. \A x : x \in DOMAIN alg <=> x = "alg"
    BY Zenon, <2>1, <2>3
  <2>5. "crit" \notin DOMAIN alg /\ "nonce" \notin DOMAIN alg /\ "jwk" \notin DOMAIN alg /\ "kid" \notin DOMAIN alg
    BY <2>4
  <2> QED  BY Zenon, <2>3, <2>4, <2>5
<1> HIDE DEF alg
<1>2. Only(jwk, "jwk") /\ jwk["jwk"] = JWS!KeyValue(public)
  <2>0. jwk = JWS!set(alg, "jwk", JWS!KeyValue(public))
    BY Zenon
  <2> HIDE DEF jwk
  <2>1. /\ \A x : x \in DOMAIN jwk <=> x \in DOMAIN alg \/ x = "jwk"
        /\ jwk["jwk"] = JWS!KeyValue(public) /\ \A x \in DOMAIN alg : x # "jwk" => jwk[x] = alg[x]
    BY Zenon, <2>0 DEF JWS!set
  <2> QED  BY Zenon, <1>1, <2>1
<1>3. Only(kid, "kid") /\ kid["kid"] = JWS!Str(public.KeyID)
  <2>0. kid = JWS!set(alg, "kid", JWS!Str(public.KeyID))
    BY Zenon
  <2> HIDE DEF kid
  <2>1. /\ \A x : x \in DOMAIN kid <=> x \in DOMAIN alg \/ x = "kid"
        /\ kid["kid"] = JWS!Str(public.KeyID) /\ \A x \in DOMAIN alg : x # "kid" => kid[x] = alg[x]
    BY Zenon, <2>0 DEF JWS!set
  <2> QED  BY Zenon, <1>1, <2>1
<1>4. /\ public = JWS!NoKey => w = alg
      /\ public # JWS!NoKey /\ opts.EmbedJWK => w = jwk
      /\ public # JWS!NoKey /\ ~opts.EmbedJWK => w = kid
  BY Zenon DEF Who, alg
<1> HIDE DEF w, jwk, kid, public
<1> SUFFICES /\ "alg" \in DOMAIN w /\ w["alg"] = JWS!Str(r.sigAlg)
             /\ "crit" \notin DOMAIN w /\ "nonce" \notin DOMAIN w
             /\ "jwk" \in DOMAIN w <=> public # JWS!NoKey /\ opts.EmbedJWK
             /\ "jwk" \in DOMAIN w => w["jwk"] = JWS!KeyValue(public)
             /\ "kid" \in DOMAIN w <=> public # JWS!NoKey /\ ~opts.EmbedJWK
             /\ "kid" \in DOMAIN w => w["kid"] = JWS!Str(public.KeyID)
  BY Zenon DEF w, public
<1>5. CASE public = JWS!NoKey
  BY Zenon, <1>1, <1>4, <1>5
<1>6. CASE public # JWS!NoKey /\ opts.EmbedJWK
  BY Zenon, <1>2, <1>4, <1>6
<1>7. CASE public # JWS!NoKey /\ ~opts.EmbedJWK
  BY Zenon, <1>3, <1>4, <1>7
<1> QED  BY Zenon, <1>5, <1>6, <1>7

\* What the header of a signature says, when the extra headers are plain ones.
PlainExtra(extra) ==
  /\ DOMAIN extra \cap {"alg", "jwk", "nonce"} = {}
  /\ "crit" \in DOMAIN extra => extra["crit"] = JWS!List("")
  /\ "kid" \in DOMAIN extra => extra["kid"].t = "string"
Says(p, alg, public, opts) ==
  /\ p = [x \in DOMAIN p |-> p[x]]
  /\ "alg" \in DOMAIN p /\ p["alg"] = JWS!Str(alg)
  /\ "crit" \in DOMAIN p => p["crit"] = JWS!List("")
  /\ "nonce" \in DOMAIN p <=> opts.nonce # "none"
  /\ "nonce" \in DOMAIN p => p["nonce"] = JWS!Str(opts.nonce)
  /\ "jwk" \in DOMAIN p <=> public # JWS!NoKey /\ opts.EmbedJWK
  /\ "jwk" \in DOMAIN p => p["jwk"] = JWS!KeyValue(public)
  /\ "kid" \in DOMAIN p => p["kid"].t = "string"
  /\ public # JWS!NoKey /\ ~opts.EmbedJWK =>
       /\ "kid" \in DOMAIN p
       /\ p["kid"].v = IF "kid" \in DOMAIN opts.ExtraHeaders THEN opts.ExtraHeaders["kid"].v ELSE public.KeyID

LEMMA ProtectedSays ==
  ASSUME NEW r, NEW opts, PlainExtra(opts.ExtraHeaders)
  PROVE  Says(JWS!protectedHeader(r, opts), r.sigAlg, r.publicKey, opts)
<1> DEFINE p == JWS!protectedHeader(r, opts)
           w == Who(r, opts)
           o == Once(r, opts)
           e == opts.ExtraHeaders
           public == r.publicKey
<1>1. p = JWS!Over(o, e)
  BY Zenon DEF JWS!protectedHeader, Once, Who
<1>2. /\ p = [x \in DOMAIN p |-> p[x]]
      /\ \A x : x \in DOMAIN p <=> x \in DOMAIN o \/ x \in DOMAIN e
      /\ \A x \in DOMAIN e : p[x] = e[x]
      /\ \A x \in DOMAIN o : x \notin DOMAIN e => p[x] = o[x]
  BY Zenon, <1>1 DEF JWS!Over
<1>3. /\ \A x : x # "nonce" => (x \in DOMAIN o <=> x \in DOMAIN w) /\ (x \in DOMAIN w => o[x] = w[x])
      /\ "nonce" \in DOMAIN o <=> opts.nonce # "none"
      /\ "nonce" \in DOMAIN o => o["nonce"] = JWS!Str(opts.nonce)
  <2>0. "nonce" \notin DOMAIN w
    BY Zenon, WhoIs
  <2>1. CASE opts.nonce = "none"
    <3>1. o = w
      BY Zenon, <2>1 DEF Once
    <3> HIDE DEF o, w
    <3> QED  BY Zenon, <2>0, <2>1, <3>1
  <2>2. CASE opts.nonce # "none"
    <3>1. o = JWS!set(w, "nonce", JWS!Str(opts.nonce))
      BY Zenon, <2>2 DEF Once
    <3> HIDE DEF o, w
    <3>2. /\ \A x : x \in DOMAIN o <=> x \in DOMAIN w \/ x = "nonce"
          /\ o["nonce"] = JWS!Str(opts.nonce) /\ \A x \in DOMAIN w : x # "nonce" => o[x] = w[x]
      BY Zenon, <3>1 DEF JWS!set
    <3> QED  BY Zenon, <2>2, <3>2
  <2> QED  BY Zenon, <2>1, <2>2
<1>4. /\ "alg" \in DOMAIN w /\ w["alg"] = JWS!Str(r.sigAlg)
      /\ "crit" \notin DOMAIN w
      /\ "jwk" \in DOMAIN w <=> public # JWS!NoKey /\ opts.EmbedJWK
      /\ "jwk" \in DOMAIN w => w["jwk"] = JWS!KeyValue(public)
      /\ "kid" \in DOMAIN w <=> public # JWS!NoKey /\ ~opts.EmbedJWK
      /\ "kid" \in DOMAIN w => w["kid"] = JWS!Str(public.KeyID)
  BY Zenon, WhoIs
<1>5. /\ "alg" \notin DOMAIN e /\ "jwk" \notin DOMAIN e /\ "nonce" \notin DOMAIN e
      /\ "crit" \in DOMAIN e => e["crit"] = JWS!List("")
      /\ "kid" \in DOMAIN e => e["kid"].t = "string"
  BY Zenon DEF PlainExtra
<1>6. \A s : JWS!Str(s).t = "string" /\ JWS!Str(s).v = s
  BY Zenon, StrIs
<1> HIDE DEF p, w, o, e, public
<1>7. /\ "alg" \in DOMAIN p /\ p["alg"] = JWS!Str(r.sigAlg)
      /\ "crit" \in DOMAIN p => p["crit"] = JWS!List("")
  BY Zenon, <1>2, <1>3, <1>4, <1>5
<1>8. /\ "nonce" \in DOMAIN p <=> opts.nonce # "none"
      /\ "nonce" \in DOMAIN p => p["nonce"] = JWS!Str(opts.nonce)
  BY Zenon, <1>2, <1>3, <1>5
<1>9. /\ "jwk" \in DOMAIN p <=> public # JWS!NoKey /\ opts.EmbedJWK
      /\ "jwk" \in DOMAIN p => p["jwk"] = JWS!KeyValue(public)
  BY Zenon, <1>2, <1>3, <1>4, <1>5
<1>10. CASE "kid" \in DOMAIN e
  <2>1. "kid" \in DOMAIN p /\ p["kid"] = e["kid"]
    BY Zenon, <1>2, <1>10
  <2> QED  BY Zenon, <1>2, <1>5, <1>7, <1>8, <1>9, <1>10, <2>1 DEF Says, p, e, public
<1>11. CASE "kid" \notin DOMAIN e
  <2>1. /\ "kid" \in DOMAIN p <=> public # JWS!NoKey /\ ~opts.EmbedJWK
        /\ "kid" \in DOMAIN p => p["kid"] = JWS!Str(public.KeyID)
    BY Zenon, <1>2, <1>3, <1>4, <1>11
  <2>2. "kid" \in DOMAIN p => p["kid"].t = "string" /\ p["kid"].v = public.KeyID
    BY Zenon, <1>6, <2>1
  <2> QED  BY Zenon, <1>2, <1>7, <1>8, <1>9, <1>11, <2>1, <2>2 DEF Says, p, e, public
<1> QED  BY Zenon, <1>10, <1>11

\* An unprotected header that a reader takes.
PlainHeader(h) ==
  /\ "crit" \notin DOMAIN h /\ "jwk" \notin DOMAIN h /\ "nonce" \notin DOMAIN h
  /\ "kid" \in DOMAIN h => h["kid"].t = "string"

\* What a reader finds under the names it knows is what the protected header says.
Keeps(m, p, x) == (x \in DOMAIN m <=> x \in DOMAIN p) /\ (x \in DOMAIN p => m[x] = p[x])
Found(m, p) ==
  /\ m # JWS!NilHeader
  /\ Keeps(m, p, "alg") /\ Keeps(m, p, "crit") /\ Keeps(m, p, "nonce") /\ Keeps(m, p, "jwk")
  /\ "kid" \in DOMAIN m => m["kid"].t = "string"

LEMMA MergeEmpty ==
  ASSUME NEW p, p = [x \in DOMAIN p |-> p[x]], "alg" \in DOMAIN p
  PROVE  JWS!merge(JWS!EmptyHeader, p) = p /\ p # JWS!NilHeader
<1>1. p # JWS!NilHeader
  <2>1. DOMAIN JWS!NilHeader = {"nil"}
    BY Zenon DEF JWS!NilHeader
  <2> QED  BY <2>1
<1>2. \A x : x \notin DOMAIN JWS!EmptyHeader
  BY Zenon DEF JWS!EmptyHeader
<1>3. \A x : ~JWS!isSet(JWS!EmptyHeader, x)
  BY Zenon, <1>2 DEF JWS!isSet, JWS!Has
<1> DEFINE m == JWS!merge(JWS!EmptyHeader, p)
           D == DOMAIN JWS!EmptyHeader \cup DOMAIN p
<1>4. m = [k \in D |-> IF JWS!isSet(JWS!EmptyHeader, k) \/ k \notin DOMAIN p THEN JWS!EmptyHeader[k] ELSE p[k]]
  BY Zenon, <1>1 DEF JWS!merge
<1>5. D = DOMAIN p
  BY Zenon, <1>2
<1> HIDE DEF D, m
<1>6. m = [k \in DOMAIN p |-> p[k]]
  BY Zenon, <1>3, <1>4, <1>5
<1> QED  BY Zenon, <1>1, <1>6 DEF m

LEMMA MergedFound ==
  ASSUME NEW sig, NEW alg, NEW public, NEW opts, Says(sig.protected, alg, public, opts), alg # "",
         PlainHeader(sig.header)
  PROVE  /\ Found(JWS!mergedHeaders(sig), sig.protected)
         /\ sig.header = JWS!NilHeader => JWS!mergedHeaders(sig) = sig.protected
<1> DEFINE p == sig.protected
           h == sig.header
           m == JWS!mergedHeaders(sig)
<1>1. JWS!merge(JWS!EmptyHeader, p) = p /\ p # JWS!NilHeader
  BY Zenon, MergeEmpty DEF Says
<1>2. m = JWS!merge(p, h)
  BY Zenon, <1>1 DEF JWS!mergedHeaders
<1>3. /\ "alg" \in DOMAIN p /\ p["alg"] = JWS!Str(alg)
      /\ "kid" \in DOMAIN p => p["kid"].t = "string"
  BY Zenon DEF Says
<1>4. /\ "crit" \notin DOMAIN h /\ "jwk" \notin DOMAIN h /\ "nonce" \notin DOMAIN h
      /\ "kid" \in DOMAIN h => h["kid"].t = "string"
  BY Zenon DEF PlainHeader
<1>5. JWS!isSet(p, "alg")
  <2>1. p["alg"].v = alg
    BY Zenon, <1>3, StrIs
  <2> QED  BY Zenon, <1>1, <1>3, <2>1 DEF JWS!isSet, JWS!Has
<1> HIDE DEF p, h, m
<1>6. CASE h = JWS!NilHeader
  <2>1. m = p
    BY Zenon, <1>2, <1>6 DEF JWS!merge
  <2>2. Found(m, p)
    BY Zenon, <1>1, <1>3, <2>1 DEF Found, Keeps
  <2> QED  BY Zenon, <2>1, <2>2 DEF m, p
<1>7. CASE h # JWS!NilHeader
  <2>1. m = [k \in DOMAIN p \cup DOMAIN h |-> IF JWS!isSet(p, k) \/ k \notin DOMAIN h THEN p[k] ELSE h[k]]
    BY Zenon, <1>2, <1>7 DEF JWS!merge
  <2>2. /\ \A k : k \in DOMAIN m <=> k \in DOMAIN p \/ k \in DOMAIN h
        /\ \A k \in DOMAIN m : m[k] = IF JWS!isSet(p, k) \/ k \notin DOMAIN h THEN p[k] ELSE h[k]
    BY Zenon, <2>1
  <2>3. \A k : k \notin DOMAIN h => Keeps(m, p, k)
    BY Zenon, <2>2 DEF Keeps
  <2>4. Keeps(m, p, "alg") /\ "alg" \in DOMAIN m
    BY Zenon, <1>3, <1>5, <2>2 DEF Keeps
  <2>5. m # JWS!NilHeader
    <3>1. DOMAIN JWS!NilHeader = {"nil"}
      BY Zenon DEF JWS!NilHeader
    <3>2. "alg" \notin DOMAIN JWS!NilHeader
      BY Zenon, <3>1
    <3> QED  BY Zenon, <2>4, <3>2
  <2>6. "kid" \in DOMAIN m => m["kid"].t = "string"
    <3>1. CASE "kid" \in DOMAIN m /\ (JWS!isSet(p, "kid") \/ "kid" \notin DOMAIN h)
      <4>1. m["kid"] = p["kid"]
        BY Zenon, <2>2, <3>1
      <4>2. "kid" \in DOMAIN p
        BY Zenon, <2>2, <3>1 DEF JWS!isSet, JWS!Has
      <4> QED  BY Zenon, <1>3, <4>1, <4>2
    <3>2. CASE "kid" \in DOMAIN m /\ ~JWS!isSet(p, "kid") /\ "kid" \in DOMAIN h
      <4>1. m["kid"] = h["kid"]
        BY Zenon, <2>2, <3>2
      <4> QED  BY Zenon, <1>4, <3>2, <4>1
    <3> QED  BY Zenon, <3>1, <3>2
  <2>7. Found(m, p)
    BY Zenon, <1>4, <2>3, <2>4, <2>5, <2>6 DEF Found
  <2> QED  BY Zenon, <1>7, <2>7 DEF m, p, h
<1> QED  BY Zenon, <1>6, <1>7

-----------------------------------------------------------------------------
(* What the reader makes of the headers.                                   *)

\* A key that a header can hold: it is read back, and taken for a public one.
ReadsBack(public) ==
  LET read == JWS!UnmarshalJSON(JWS!MarshalJSON(public))
  IN  ~read.err /\ read.key = public /\ JWS!Valid(public) /\ JWS!IsPublic(public)

\* Public keys by their fields.
PublicKeys(kty, id, crv, size, jwk, kid) ==
  [kty : {kty}, id : {id}, crv : {crv}, priv : {FALSE}, size : {size}, jwk : jwk, KeyID : {kid}]

LEMMA PublicFields ==
  ASSUME NEW key \in AnyKey, NEW kid
  PROVE  JWS!JSONWebKey(JWS!Public(key), kid) =
           [kty |-> key.kty, id |-> key.id, crv |-> key.crv, priv |-> FALSE, size |-> key.size,
            jwk |-> TRUE, KeyID |-> kid]
<1> DEFINE public == JWS!Public(key)
           web == JWS!JSONWebKey(public, kid)
<1>1. key \in [kty : {key.kty}, id : {key.id}, crv : {key.crv}, priv : BOOLEAN, size : {key.size},
               jwk : BOOLEAN, KeyID : {key.KeyID}]
  BY DEF AnyKey
<1>2. public \in PublicKeys(key.kty, key.id, key.crv, key.size, BOOLEAN, key.KeyID)
  BY Zenon, <1>1 DEF JWS!Public, PublicKeys
<1> HIDE DEF public
<1>3. web \in PublicKeys(key.kty, key.id, key.crv, key.size, {TRUE}, kid)
  BY Zenon, <1>2 DEF JWS!JSONWebKey, PublicKeys
<1> HIDE DEF web
<1>4. web = [kty |-> key.kty, id |-> key.id, crv |-> key.crv, priv |-> FALSE, size |-> key.size,
             jwk |-> TRUE, KeyID |-> kid]
  BY Zenon, <1>3 DEF PublicKeys
<1> QED  BY Zenon, <1>4 DEF public, web

LEMMA KeyReadBack ==
  ASSUME NEW key \in AnyKey, key.kty \in {"EC", "RSA"}
  PROVE  ReadsBack(ToldKey(key)) /\ ToldKey(key) # JWS!NoKey
<1> DEFINE public == ToldKey(key)
           raw == JWS!MarshalJSON(public)
           read == JWS!UnmarshalJSON(raw)
           kty == key.kty
           kid == key.KeyID
<1>1. public = [kty |-> kty, id |-> key.id, crv |-> key.crv, priv |-> FALSE, size |-> key.size,
                jwk |-> TRUE, KeyID |-> kid]
  <2>1. key.kty # "oct"
    OBVIOUS
  <2>2. public = JWS!JSONWebKey(JWS!Public(key), key.KeyID)
    BY Zenon, <2>1 DEF ToldKey
  <2> QED  BY Zenon, <2>2, PublicFields
<1> HIDE DEF public
<1>2. /\ public.kty = kty /\ public.id = key.id /\ public.crv = key.crv /\ ~public.priv
      /\ public.size = key.size /\ public.KeyID = kid
  BY Zenon, <1>1
<1>3. "d" \notin JWS!PublicMembers(kty)
  <2>1. kty = "EC" \/ kty = "RSA"
    BY Zenon
  <2>2. CASE kty = "EC"
    <3>1. JWS!PublicMembers(kty) = {"crv", "x", "y"}
      BY Zenon, <2>2 DEF JWS!PublicMembers
    <3> QED  BY <3>1
  <2>3. CASE kty = "RSA"
    <3>1. JWS!PublicMembers(kty) = {"n", "e"}
      BY Zenon, <2>3 DEF JWS!PublicMembers
    <3> QED  BY <3>1
  <2> QED  BY Zenon, <2>1, <2>2, <2>3
<1> DEFINE members == JWS!PublicMembers(kty)
           value == <<key.id, key.crv, key.size>>
<1>4. raw = [kty |-> kty, kid |-> kid, value |-> value, members |-> members]
  <2>1. members \cup (IF public.priv THEN JWS!PrivateMembers(kty) ELSE {}) = members
    BY Zenon, <1>2
  <2> QED  BY Zenon, <1>2, <2>1 DEF JWS!MarshalJSON
<1> HIDE DEF raw, value, members
<1>5. raw.kty = kty /\ raw.kid = kid /\ raw.value = value /\ raw.members = members
  BY <1>4
<1>6. value[1] = key.id /\ value[2] = key.crv /\ value[3] = key.size
  BY DEF value
<1> DEFINE go == JWS!RawKey(kty, key.id, key.crv, FALSE, key.size)
           held == JWS!JSONWebKey(go, kid)
           needed == members \cup {}
<1>7. read = [err |-> ~needed \subseteq members, key |-> held]
  <2> DEFINE private == "d" \in raw.members
  <2>1. private = FALSE
    <3>1. "d" \notin raw.members
      BY Zenon, <1>3, <1>5 DEF members
    <3> QED  BY <3>1
  <2>2. read = [err |-> ~(JWS!PublicMembers(raw.kty) \cup IF private THEN JWS!PrivateMembers(raw.kty) ELSE {})
                          \subseteq raw.members,
                key |-> JWS!JSONWebKey(JWS!RawKey(raw.kty, raw.value[1], raw.value[2], private, raw.value[3]), raw.kid)]
    BY Zenon DEF JWS!UnmarshalJSON
  <2> HIDE DEF private, read
  <2> QED  BY Zenon, <1>5, <1>6, <2>1, <2>2 DEF members
<1>8. needed \subseteq members
  BY Zenon
<1>9. held = public
  <2> DEFINE none == ""
  <2>1. go \in PublicKeys(kty, key.id, key.crv, key.size, BOOLEAN, none)
    BY Zenon DEF JWS!RawKey, PublicKeys
  <2> HIDE DEF go, none
  <2>2. held \in PublicKeys(kty, key.id, key.crv, key.size, {TRUE}, kid)
    BY Zenon, <2>1 DEF JWS!JSONWebKey, PublicKeys
  <2> HIDE DEF held
  <2>3. held = [kty |-> kty, id |-> key.id, crv |-> key.crv, priv |-> FALSE, size |-> key.size,
                jwk |-> TRUE, KeyID |-> kid]
    BY Zenon, <2>2 DEF PublicKeys
  <2> QED  BY Zenon, <1>1, <2>3
<1> HIDE DEF needed, held, read
<1>10. ~read.err /\ read.key = public
  BY Zenon, <1>7, <1>8, <1>9
<1>11. JWS!Valid(public) /\ JWS!IsPublic(public)
  BY Zenon, <1>2 DEF JWS!Valid, JWS!IsPublic
<1>12. public # JWS!NoKey
  BY <1>1 DEF JWS!NoKey
<1> QED  BY Zenon, <1>10, <1>11, <1>12 DEF ReadsBack, read, raw, public

\* The headers a signer made are read without error, and say the same.
LEMMA HeaderRead ==
  ASSUME NEW m, NEW p, NEW alg, NEW public, NEW opts, Says(p, alg, public, opts), Found(m, p),
         public # JWS!NoKey /\ opts.EmbedJWK => ReadsBack(public)
  PROVE  LET h == JWS!sanitizedHeader(m)
         IN  /\ ~h.err /\ h.Algorithm = alg /\ JWS!getAlgorithm(m) = alg
             /\ h.Nonce = IF opts.nonce = "none" THEN "" ELSE opts.nonce
             /\ h.JSONWebKey = IF public # JWS!NoKey /\ opts.EmbedJWK THEN public ELSE JWS!NoKey
             /\ h.KeyID = JWS!getString(m, "kid")
             /\ ~JWS!getCritical(m).err /\ ~JWS!getCritical(m).critical
<1> DEFINE h == JWS!sanitizedHeader(m)
           jwk == JWS!getKey(m, "jwk")
           wrong == jwk.err \/ \E k \in {"kid", "alg", "nonce"} \cap DOMAIN m : m[k].t # "string"
           extra == [k \in DOMAIN m \ {"kid", "alg", "nonce", "jwk"} |-> m[k]]
<1>1. m # JWS!NilHeader
  BY Zenon DEF Found
<1>2. "alg" \in DOMAIN m /\ m["alg"] = JWS!Str(alg)
  BY Zenon DEF Found, Keeps, Says
<1>3. /\ "nonce" \in DOMAIN m <=> opts.nonce # "none"
      /\ "nonce" \in DOMAIN m => m["nonce"] = JWS!Str(opts.nonce)
  BY Zenon DEF Found, Keeps, Says
<1>4. /\ "jwk" \in DOMAIN m <=> public # JWS!NoKey /\ opts.EmbedJWK
      /\ "jwk" \in DOMAIN m => m["jwk"] = JWS!KeyValue(public)
  BY Zenon DEF Found, Keeps, Says
<1>5. "crit" \in DOMAIN m => m["crit"] = JWS!List("")
  BY Zenon DEF Found, Keeps, Says
<1>6. "kid" \in DOMAIN m => m["kid"].t = "string"
  BY Zenon DEF Found
<1>7. JWS!getAlgorithm(m) = alg
  BY Zenon, <1>1, <1>2, StrIs DEF JWS!getAlgorithm, JWS!getString, JWS!Has
<1>8. JWS!getNonce(m) = IF opts.nonce = "none" THEN "" ELSE opts.nonce
  BY Zenon, <1>1, <1>3, StrIs DEF JWS!getNonce, JWS!getString, JWS!Has
<1>9. ~JWS!getCritical(m).err /\ ~JWS!getCritical(m).critical
  <2>1. CASE "crit" \notin DOMAIN m
    BY Zenon, <2>1 DEF JWS!getCritical, JWS!Has
  <2>2. CASE "crit" \in DOMAIN m
    <3> DEFINE none == ""
               crit == JWS!getCritical(m)
               t == m["crit"].t
               v == m["crit"].v
    <3>1. t = "list" /\ v = none
      BY Zenon, <1>5, <2>2, ListIs
    <3>2. crit = [err |-> t # "list", critical |-> v # none]
      BY Zenon, <1>1, <2>2 DEF JWS!getCritical, JWS!Has
    <3> HIDE DEF none, crit, t, v
    <3>3. ~crit.err /\ ~crit.critical
      BY Zenon, <3>1, <3>2
    <3> QED  BY Zenon, <3>3 DEF crit
  <2> QED  BY Zenon, <2>1, <2>2
<1>10. ~jwk.err /\ jwk.key = IF public # JWS!NoKey /\ opts.EmbedJWK THEN public ELSE JWS!NoKey
  <2>1. CASE "jwk" \notin DOMAIN m
    <3>1. jwk = [err |-> FALSE, key |-> JWS!NoKey]
      BY Zenon, <2>1 DEF JWS!getKey, JWS!Has
    <3> HIDE DEF jwk
    <3>2. ~jwk.err /\ jwk.key = JWS!NoKey
      BY Zenon, <3>1
    <3> QED  BY Zenon, <1>4, <2>1, <3>2
  <2>2. CASE "jwk" \in DOMAIN m
    <3>1. m["jwk"].t = "key" /\ m["jwk"].key = JWS!MarshalJSON(public)
      BY Zenon, <1>4, <2>2, KeyValueIs
    <3>2. jwk = JWS!UnmarshalJSON(JWS!MarshalJSON(public))
      BY Zenon, <1>1, <2>2, <3>1 DEF JWS!getKey, JWS!Has
    <3> HIDE DEF jwk
    <3> QED  BY Zenon, <1>4, <2>2, <3>2 DEF ReadsBack
  <2> QED  BY Zenon, <2>1, <2>2
<1>11. h = [err |-> wrong, KeyID |-> JWS!getString(m, "kid"), Algorithm |-> JWS!getAlgorithm(m),
            Nonce |-> JWS!getNonce(m), JSONWebKey |-> jwk.key, ExtraHeaders |-> extra]
  BY Zenon DEF JWS!sanitizedHeader
<1>12. ~wrong
  <2>1. m["alg"].t = "string" /\ ("nonce" \in DOMAIN m => m["nonce"].t = "string")
    BY Zenon, <1>2, <1>3, StrIs
  <2> HIDE DEF jwk
  <2> QED  BY Zenon, <1>6, <1>10, <2>1
<1> HIDE DEF h, wrong, jwk, extra
<1>13. /\ h.err = wrong /\ h.KeyID = JWS!getString(m, "kid") /\ h.Algorithm = JWS!getAlgorithm(m)
       /\ h.Nonce = JWS!getNonce(m) /\ h.JSONWebKey = jwk.key
  BY Zenon, <1>11
<1> QED  BY Zenon, <1>7, <1>8, <1>9, <1>10, <1>12, <1>13 DEF h

\* What a signer puts into the header of its signature.
LEMMA SignedBySays ==
  ASSUME NEW job, job.sigs \in SignerArgs, ~SignedBy(job).err, PlainExtra(job.opts.ExtraHeaders),
         NEW i \in DOMAIN job.sigs
  PROVE  LET by == job.sigs[i]
         IN  /\ Says(SignedBy(job).Signatures[i].protected, by.alg, ToldKey(by.key), job.opts)
             /\ Supports(by.key.kty, by.alg) /\ by.key.kty \in KeyTypes /\ by.key \in GoKey
<1> DEFINE a == job.sigs[i].alg
           k == job.sigs[i].key
           r == JobSigner(job, i)
           p == SignedBy(job).Signatures[i].protected
<1>1. k \in GoKey /\ k \in AnyKey
  BY Zenon, SignerArg
<1>2. r = JWS!makeJWSRecipient(a, k) /\ ~r.err
  BY Zenon, SignedByParts DEF JobSigner
<1>3. p = JWS!protectedHeader(r, job.opts)
  <2>1. SignedBy(job).Signatures = [j \in DOMAIN job.sigs |-> JobSignature(job, j)]
    BY Zenon, SignedByParts
  <2>2. SignedBy(job).Signatures[i] = JobSignature(job, i)
    BY Zenon, <2>1
  <2> QED  BY Zenon, <2>2, JobSignatureIs DEF JobHeader
<1> HIDE DEF a, k, r, p
<1>4. r.sigAlg = a
  BY Zenon, <1>1, <1>2, RecipientIs
<1>5. Supports(k.kty, a) /\ r.publicKey = ToldKey(k) /\ k.kty \in KeyTypes
  BY Zenon, <1>1, <1>2, RecipientTells
<1>6. Says(p, a, ToldKey(k), job.opts)
  BY Zenon, <1>3, <1>4, <1>5, ProtectedSays
<1> QED  BY Zenon, <1>1, <1>5, <1>6 DEF a, k, p

-----------------------------------------------------------------------------
(* What is on the way when no part was exchanged.                          *)

Carries(m, t) ==
  /\ DOMAIN t.signatures = DOMAIN m.obj.Signatures
  /\ \A j \in DOMAIN t.signatures :
       /\ t.signatures[j].protected = m.obj.Signatures[j].protected
       /\ t.signatures[j].signature = m.obj.Signatures[j].Signature
  /\ t.payload # JWS!NoBuffer => JWS!Octets(JWS!bytes(t.payload)) = JWS!Octets(m.job.payload)

CarriedInv ==
  /\ wire # Nothing => /\ wire.of \in DOMAIN made /\ wire.exchanged \in Nat
                       /\ wire.exchanged = 0 => Carries(made[wire.of], wire.text)
  /\ got # Nothing => got.of = wire.of

SentInv == protocol = "jws" => JwsInv /\ CarriedInv

\* A buffer keeps the octets.
LEMMA BufferKeeps ==
  ASSUME NEW data
  PROVE  /\ JWS!Octets(JWS!bytes(JWS!newBuffer(JWS!Octets(data)))) = JWS!Octets(data)
         /\ LET b == JWS!ThroughJSON(JWS!newBuffer(data))
            IN  b # JWS!NoBuffer => JWS!Octets(JWS!bytes(b)) = JWS!Octets(data)
<1> DEFINE Box(d) == [data |-> d]
<1>0. JWS!None # JWS!Nil
  BY Zenon DEF JWS!None, JWS!Nil
<1>1. \A d : Box(d) # JWS!NoBuffer /\ Box(d).data = d
  BY DEF JWS!NoBuffer
<1>2. \A d : d # JWS!Nil => JWS!newBuffer(d) = Box(d)
  BY Zenon DEF JWS!newBuffer
<1>3. \A d : JWS!bytes(Box(d)) = d
  BY Zenon, <1>1 DEF JWS!bytes
<1>4. \A d : JWS!Octets(d) # JWS!Nil /\ JWS!Octets(JWS!Octets(d)) = JWS!Octets(d)
  BY Zenon, <1>0 DEF JWS!Octets
<1>5. JWS!ThroughJSON(Box(JWS!None)) = Box(JWS!Nil) /\ JWS!ThroughJSON(JWS!NoBuffer) = JWS!NoBuffer
  BY Zenon, <1>1 DEF JWS!ThroughJSON
<1>6. \A d : d # JWS!None => JWS!ThroughJSON(Box(d)) = Box(d)
  <2>1. \A d : d # JWS!None => Box(d) # Box(JWS!None)
    BY Zenon, <1>1
  <2> QED  BY Zenon, <2>1 DEF JWS!ThroughJSON
<1>7. JWS!Octets(JWS!Nil) = JWS!None /\ JWS!Octets(JWS!None) = JWS!None
  BY Zenon, <1>0 DEF JWS!Octets
<1> HIDE DEF Box
<1> DEFINE b == JWS!ThroughJSON(JWS!newBuffer(data))
<1>8. JWS!Octets(JWS!bytes(JWS!newBuffer(JWS!Octets(data)))) = JWS!Octets(data)
  BY Zenon, <1>2, <1>3, <1>4
<1>9. CASE data = JWS!Nil
  <2>1. b = JWS!NoBuffer
    BY Zenon, <1>5, <1>9 DEF JWS!newBuffer
  <2> QED  BY Zenon, <1>8, <2>1
<1>10. CASE data = JWS!None
  <2>1. b = Box(JWS!Nil)
    BY Zenon, <1>0, <1>2, <1>5, <1>10
  <2> QED  BY Zenon, <1>3, <1>7, <1>8, <1>10, <2>1
<1>11. CASE data # JWS!Nil /\ data # JWS!None
  <2>1. b = Box(data)
    BY Zenon, <1>2, <1>6, <1>11
  <2> QED  BY Zenon, <1>3, <1>8, <2>1
<1> QED  BY Zenon, <1>9, <1>10, <1>11

\* A text carries what it is the text of.
LEMMA TextCarries ==
  ASSUME protocol = "jws", NEW obj, SignedObject(obj), NEW compact, Text(obj, compact) # NoText
  PROVE  LET t == Text(obj, compact)
         IN  /\ DOMAIN t.signatures = DOMAIN obj.Signatures
             /\ \A j \in DOMAIN t.signatures :
                  /\ t.signatures[j].protected = obj.Signatures[j].protected
                  /\ t.signatures[j].signature = obj.Signatures[j].Signature
             /\ t.payload # JWS!NoBuffer => JWS!Octets(JWS!bytes(t.payload)) = JWS!Octets(obj.payload)
<1> DEFINE t == Text(obj, compact)
           s == obj.Signatures
           Raw(x) == JWS!rawSignatureInfo(x)
<1>0. \A x : Raw(x).protected = x.protected /\ Raw(x).signature = x.Signature
  BY Zenon DEF JWS!rawSignatureInfo
<1> HIDE DEF Raw
<1>1. CASE compact
  <2>1. t = JWS!CompactSerialize(obj) /\ t # NoText
    BY Zenon, <1>1 DEF Text
  <2>2. PICK n \in Nat \ {0} : s = [j \in 1..n |-> s[j]]
    BY Zenon DEF SignedObject, Numbered
  <2> HIDE DEF t
  <2> DEFINE buffer == JWS!newBuffer(JWS!Octets(obj.payload))
  <2>3. Len(s) = 1 /\ t = [form |-> "compact", payload |-> buffer, signatures |-> <<Raw(s[1])>>]
    BY Zenon, <2>1 DEF JWS!CompactSerialize, JWS!NoText, NoText, Raw
  <2>4. DOMAIN s = 1..1
    BY Zenon, <2>2, <2>3, NumberedLen
  <2>5. JWS!Octets(JWS!bytes(buffer)) = JWS!Octets(obj.payload)
    BY Zenon, BufferKeeps
  <2> HIDE DEF buffer
  <2>6. t.payload = buffer /\ DOMAIN t.signatures = 1..1 /\ t.signatures[1] = Raw(s[1])
    BY <2>3
  <2>7. \A j \in DOMAIN t.signatures : t.signatures[j] = Raw(s[j])
    BY <2>6
  <2> HIDE DEF s
  <2> QED  BY Zenon, <1>0, <2>4, <2>5, <2>6, <2>7 DEF t, s
<1>2. CASE ~compact
  <2>1. t = JWS!FullSerialize(obj)
    BY Zenon, <1>2 DEF Text
  <2> HIDE DEF t
  <2> DEFINE buffer == JWS!ThroughJSON(JWS!newBuffer(obj.payload))
             parts == [i \in DOMAIN s |-> Raw(s[i])]
             form == IF Len(s) = 1 THEN "flat" ELSE "full"
  <2>2. t = [form |-> form, payload |-> buffer, signatures |-> parts]
    BY Zenon, <2>1 DEF JWS!FullSerialize, Raw
  <2>3. buffer # JWS!NoBuffer => JWS!Octets(JWS!bytes(buffer)) = JWS!Octets(obj.payload)
    BY Zenon, BufferKeeps
  <2>4. DOMAIN parts = DOMAIN s /\ \A j \in DOMAIN s : parts[j] = Raw(s[j])
    BY Zenon
  <2> HIDE DEF buffer, parts, form
  <2>5. t.payload = buffer /\ t.signatures = parts
    BY Zenon, <2>2
  <2> HIDE DEF s
  <2> QED  BY Zenon, <1>0, <2>3, <2>4, <2>5 DEF t, s
<1> QED  BY Zenon, <1>1, <1>2

\* What the reader makes of a text, and when it refuses it.
ReadPart(s) == [protected |-> s.protected, header |-> s.header, original |-> s.protected, Signature |-> s.signature]
ShownHeader(t, s) ==
  JWS!sanitizedHeader(JWS!mergedHeaders(
    IF t.form = "full" THEN [ReadPart(s) EXCEPT !.header = JWS!NilHeader] ELSE ReadPart(s)))
Refused(t, s) ==
  \/ JWS!getNonce(s.header) # ""
  \/ ShownHeader(t, s).err
  \/ LET jwk == ShownHeader(t, s).JSONWebKey IN jwk # JWS!NoKey /\ ~(JWS!Valid(jwk) /\ JWS!IsPublic(jwk))

LEMMA SanitizedIs ==
  ASSUME NEW t
  PROVE  LET obj == JWS!sanitized(t)
             s == t.signatures
         IN  /\ obj.err <=> t.payload = JWS!NoBuffer \/ \E i \in DOMAIN s : Refused(t, s[i])
             /\ obj.payload = JWS!bytes(t.payload)
             /\ obj.Signatures = [i \in DOMAIN s |-> ReadPart(s[i])]
             /\ obj.Headers = [i \in DOMAIN s |-> ShownHeader(t, s[i])]
<1> DEFINE obj == JWS!sanitized(t)
           s == t.signatures
           refused == t.payload = JWS!NoBuffer \/ \E i \in DOMAIN s : Refused(t, s[i])
           sigs == [i \in DOMAIN s |-> ReadPart(s[i])]
           headers == [i \in DOMAIN s |-> ShownHeader(t, s[i])]
           payload == JWS!bytes(t.payload)
<1>1. obj = [err |-> refused, payload |-> payload, Signatures |-> sigs, Headers |-> headers]
  BY Zenon DEF JWS!sanitized, ReadPart, ShownHeader, Refused
<1> HIDE DEF obj, refused, sigs, headers, payload
<1>2. (obj.err <=> refused) /\ obj.payload = payload /\ obj.Signatures = sigs /\ obj.Headers = headers
  BY <1>1
<1> QED  BY Zenon, <1>2 DEF obj, refused, sigs, headers, payload

\* A step that puts on the wire a text that carries what was made keeps the invariant.
LEMMA CarriedStep ==
  ASSUME made' = made, got' = Nothing, NEW m \in DOMAIN made, NEW text, NEW n \in Nat,
         wire' = OnWire(m, text, n), n = 0 => Carries(made[m], text)
  PROVE  CarriedInv'
<1>1. wire'.of = m /\ wire'.text = text /\ wire'.exchanged = n
  BY Zenon DEF OnWire
<1>2. Carries(made[m], text) => Carries(made[wire.of], wire.text)'
  BY Zenon, <1>1 DEF Carries
<1>3. Nothing' = Nothing
  BY Zenon DEF Nothing
<1> QED  BY Zenon, <1>1, <1>2, <1>3 DEF CarriedInv

\* The text of what was made ...
LEMMA SendCarries ==
  ASSUME protocol = "jws", JwsInv, NEW i \in DOMAIN made, NEW compact \in BOOLEAN, Send(i, compact)
  PROVE  CarriedInv'
<1> DEFINE obj == made[i].obj
           text == Text(obj, compact)
<1>1. /\ wire = Nothing /\ wire' = OnWire(i, text, 0) /\ text # NoText /\ made' = made /\ got' = got
  BY Zenon DEF Send
<1>2. got' = Nothing
  BY Zenon, <1>1 DEF JwsInv
<1>3. SignedObject(obj)
  BY Zenon, MadeSigned
<1>4. obj.payload = made[i].job.payload
  BY Zenon, MadeObject, SignedByIs DEF JwsInv
<1>5. Carries(made[i], text)
  <2>1. /\ DOMAIN text.signatures = DOMAIN obj.Signatures
        /\ \A j \in DOMAIN text.signatures :
             /\ text.signatures[j].protected = obj.Signatures[j].protected
             /\ text.signatures[j].signature = obj.Signatures[j].Signature
        /\ text.payload # JWS!NoBuffer => JWS!Octets(JWS!bytes(text.payload)) = JWS!Octets(obj.payload)
    BY Zenon, <1>1, <1>3, TextCarries
  <2> HIDE DEF text
  <2> QED  BY Zenon, <1>4, <2>1 DEF Carries
<1>6. 0 \in Nat
  OBVIOUS
<1> HIDE DEF text
<1> QED  BY Zenon, <1>1, <1>2, <1>5, <1>6, CarriedStep

\* ... and the text of what was read.
LEMMA ForwardCarries ==
  ASSUME protocol = "jws", JwsInv, CarriedInv, NEW compact \in BOOLEAN, Forward(compact)
  PROVE  CarriedInv'
<1> DEFINE obj == got.obj
           text == Text(obj, compact)
           t == wire.text
           m == made[wire.of]
<1>1. /\ got # Nothing /\ wire' = OnWire(got.of, text, wire.exchanged) /\ text # NoText
      /\ made' = made /\ got' = Nothing /\ ~obj.err
  BY Zenon DEF Forward
<1>2. obj = JWS!sanitized(t) /\ JwsText(t) /\ wire # Nothing
  BY Zenon, <1>1 DEF JwsInv
<1>3. got.of = wire.of /\ wire.of \in DOMAIN made /\ wire.exchanged \in Nat /\ (wire.exchanged = 0 => Carries(m, t))
  BY Zenon, <1>1, <1>2 DEF CarriedInv
<1>4. /\ SignedObject(obj) /\ obj.payload = JWS!bytes(t.payload)
      /\ DOMAIN obj.Signatures = DOMAIN t.signatures
      /\ \A i \in DOMAIN t.signatures :
           obj.Signatures[i] = [protected |-> t.signatures[i].protected, header |-> t.signatures[i].header,
                                original |-> t.signatures[i].protected, Signature |-> t.signatures[i].signature]
  BY Zenon, <1>2, ReadOk
<1>5. \A i \in DOMAIN t.signatures : /\ obj.Signatures[i].protected = t.signatures[i].protected
                                      /\ obj.Signatures[i].Signature = t.signatures[i].signature
  <2> SUFFICES ASSUME NEW i \in DOMAIN t.signatures
               PROVE  /\ obj.Signatures[i].protected = t.signatures[i].protected
                      /\ obj.Signatures[i].Signature = t.signatures[i].signature
    BY Zenon
  <2> DEFINE sig == obj.Signatures[i]
             part == t.signatures[i]
  <2>1. sig = [protected |-> part.protected, header |-> part.header, original |-> part.protected,
               Signature |-> part.signature]
    BY Zenon, <1>4
  <2> HIDE DEF sig, part
  <2>2. sig.protected = part.protected /\ sig.Signature = part.signature
    BY Zenon, <2>1
  <2> QED  BY Zenon, <2>2 DEF sig, part
<1>6. t.payload # JWS!NoBuffer
  BY Zenon, <1>1, <1>2, SanitizedIs
<1>7. /\ DOMAIN text.signatures = DOMAIN obj.Signatures
      /\ \A j \in DOMAIN text.signatures :
           /\ text.signatures[j].protected = obj.Signatures[j].protected
           /\ text.signatures[j].signature = obj.Signatures[j].Signature
      /\ text.payload # JWS!NoBuffer => JWS!Octets(JWS!bytes(text.payload)) = JWS!Octets(obj.payload)
  BY Zenon, <1>1, <1>4, TextCarries
<1> HIDE DEF obj, text, t
<1>8. wire.exchanged = 0 => Carries(m, text)
  <2> SUFFICES ASSUME Carries(m, t)
               PROVE  Carries(m, text)
    BY Zenon, <1>3
  <2> HIDE DEF m
  <2>1. DOMAIN text.signatures = DOMAIN m.obj.Signatures
    BY Zenon, <1>4, <1>7 DEF Carries
  <2>2. \A j \in DOMAIN text.signatures : /\ text.signatures[j].protected = m.obj.Signatures[j].protected
                                          /\ text.signatures[j].signature = m.obj.Signatures[j].Signature
    BY Zenon, <1>4, <1>5, <1>7 DEF Carries
  <2>3. text.payload # JWS!NoBuffer => JWS!Octets(JWS!bytes(text.payload)) = JWS!Octets(m.job.payload)
    BY Zenon, <1>4, <1>6, <1>7 DEF Carries
  <2> QED  BY Zenon, <2>1, <2>2, <2>3 DEF Carries
<1> QED  BY Zenon, <1>1, <1>3, <1>8, CarriedStep

\* An unprotected header changes neither the protected ones nor the signatures.
LEMMA HeaderCarries ==
  ASSUME protocol = "jws", JwsInv, CarriedInv, AddHeader
  PROVE  CarriedInv'
<1> DEFINE t == wire.text
           m == made[wire.of]
           Added(i, h) == [t EXCEPT !.signatures[i].header = h]
<1>1. wire # Nothing /\ got = Nothing /\ made' = made /\ got' = got
  BY Zenon DEF AddHeader
<1>2. \E h \in Unprotected[theme], i \in DOMAIN t.signatures : wire' = OnWire(wire.of, Added(i, h), wire.exchanged)
  BY Zenon DEF AddHeader
<1>3. JwsText(t)
  BY Zenon, <1>1 DEF JwsInv
<1>4. wire.of \in DOMAIN made /\ wire.exchanged \in Nat /\ (wire.exchanged = 0 => Carries(m, t))
  BY Zenon, <1>1 DEF CarriedInv
<1>5. ASSUME NEW h, NEW i \in DOMAIN t.signatures, Carries(m, t)
      PROVE  Carries(m, Added(i, h))
  <2> DEFINE u == Added(i, h)
             part == [t.signatures[i] EXCEPT !.header = h]
  <2>1. DOMAIN t = {"form", "payload", "signatures"} /\ DOMAIN t.signatures[i] = {"protected", "header", "signature"}
    BY Zenon, <1>3 DEF JwsText, SignaturePart
  <2>2. u.payload = t.payload /\ u.signatures = [t.signatures EXCEPT ![i] = part]
    BY <2>1
  <2>3. part.protected = t.signatures[i].protected /\ part.signature = t.signatures[i].signature
    BY <2>1
  <2> HIDE DEF u, part
  <2>4. DOMAIN u.signatures = DOMAIN t.signatures
    BY Zenon, <2>2
  <2>5. \A j \in DOMAIN t.signatures : /\ u.signatures[j].protected = t.signatures[j].protected
                                        /\ u.signatures[j].signature = t.signatures[j].signature
    BY Zenon, <2>2, <2>3
  <2> HIDE DEF t, m
  <2>6. Carries(m, u)
    BY Zenon, <1>5, <2>2, <2>4, <2>5 DEF Carries
  <2> QED  BY Zenon, <2>6 DEF u
<1> HIDE DEF Added, t
<1>6. PICK h \in Unprotected[theme], i \in DOMAIN t.signatures : wire' = OnWire(wire.of, Added(i, h), wire.exchanged)
  BY Zenon, <1>2
<1> DEFINE text == Added(i, h)
<1>7. wire.exchanged = 0 => Carries(m, text)
  BY Zenon, <1>4, <1>5
<1>8. wire' = OnWire(wire.of, text, wire.exchanged) /\ got' = Nothing
  BY Zenon, <1>1, <1>6
<1> HIDE DEF text
<1> QED  BY Zenon, <1>1, <1>4, <1>7, <1>8, CarriedStep

LEMMA SentStep ==
  ASSUME SentInv, [TokensNext]_tokenVars
  PROVE  SentInv'
<1>1. theme' = theme /\ protocol' = protocol
  BY Zenon DEF TokensNext, tokenVars, Make, Send, Exchange, AddHeader, Receive, Forward, protocol
<1> SUFFICES ASSUME protocol = "jws", JwsInv, CarriedInv
             PROVE  CarriedInv'
  <2>1. SignedInv'
    BY Zenon, SignedStep DEF SignedInv, SentInv
  <2> QED  BY Zenon, <1>1, <2>1 DEF SignedInv, SentInv
<1>0. Nothing' = Nothing
  BY Zenon DEF Nothing
<1>2. CASE \E job \in Jobs[theme] : Make(job)
  <2>1. wire' = Nothing /\ got' = Nothing
    BY Zenon, <1>2 DEF Make, JwsInv
  <2> QED  BY Zenon, <1>0, <2>1 DEF CarriedInv
<1>3. CASE \E i \in DOMAIN made, compact \in BOOLEAN : Send(i, compact)
  BY Zenon, <1>3, SendCarries
<1>4. CASE Exchange
  <2>1. wire # Nothing /\ got = Nothing /\ made' = made /\ got' = got
    BY Zenon, <1>4 DEF Exchange
  <2>2. PICK text : wire' = OnWire(wire.of, text, wire.exchanged + 1)
    BY Zenon, <1>4 DEF Exchange
  <2>3. wire.of \in DOMAIN made /\ wire.exchanged \in Nat
    BY Zenon, <2>1 DEF CarriedInv
  <2>4. wire.exchanged + 1 \in Nat /\ wire.exchanged + 1 # 0
    BY <2>3
  <2> QED  BY Zenon, <2>1, <2>2, <2>3, <2>4, CarriedStep
<1>5. CASE AddHeader
  BY Zenon, <1>5, HeaderCarries
<1>6. CASE Receive
  <2>1. wire # Nothing /\ made' = made /\ wire' = wire /\ got' = [of |-> wire.of, obj |-> Parsed(wire.text)]
    BY Zenon, <1>6 DEF Receive
  <2>2. got'.of = wire.of
    BY Zenon, <2>1
  <2>3. Carries(made[wire.of], wire.text) => Carries(made[wire.of], wire.text)'
    BY Zenon, <2>1 DEF Carries
  <2> QED  BY Zenon, <2>1, <2>2, <2>3 DEF CarriedInv
<1>7. CASE \E compact \in BOOLEAN : Forward(compact)
  BY ZenonT(60), <1>7, ForwardCarries
<1>8. CASE UNCHANGED tokenVars
  <2>1. made' = made /\ wire' = wire /\ got' = got
    BY Zenon, <1>8 DEF tokenVars
  <2>2. Carries(made[wire.of], wire.text) => Carries(made[wire.of], wire.text)'
    BY Zenon, <2>1 DEF Carries
  <2> QED  BY Zenon, <1>0, <2>1, <2>2 DEF CarriedInv
<1> QED  BY Zenon, <1>2, <1>3, <1>4, <1>5, <1>6, <1>7, <1>8 DEF TokensNext

-----------------------------------------------------------------------------
(* What arrives.                                                           *)

LEMMA ToldIs ==
  ASSUME NEW key \in AnyKey, key.kty # "oct"
  PROVE  ToldKey(key) # JWS!NoKey /\ ToldKey(key).KeyID = key.KeyID
<1> DEFINE public == ToldKey(key)
<1>1. public = [kty |-> key.kty, id |-> key.id, crv |-> key.crv, priv |-> FALSE, size |-> key.size,
                jwk |-> TRUE, KeyID |-> key.KeyID]
  BY Zenon, PublicFields DEF ToldKey
<1> HIDE DEF public
<1>2. public.KeyID = key.KeyID
  BY Zenon, <1>1
<1>3. public # JWS!NoKey
  BY <1>1 DEF JWS!NoKey
<1> QED  BY Zenon, <1>2, <1>3 DEF public

\* The part of a signature, with any plain unprotected header, is read.
LEMMA PartReads ==
  ASSUME NEW t, NEW s, NEW alg, NEW public, NEW opts, Says(s.protected, alg, public, opts), alg # "",
         PlainHeader(s.header), public # JWS!NoKey /\ opts.EmbedJWK => ReadsBack(public)
  PROVE  LET sig == ReadPart(s)
             m == JWS!mergedHeaders(sig)
             h == ShownHeader(t, s)
         IN  /\ ~Refused(t, s)
             /\ JWS!getAlgorithm(m) = alg /\ ~JWS!getCritical(m).err /\ ~JWS!getCritical(m).critical
             /\ s.header = JWS!NilHeader =>
                  /\ h.Algorithm = alg /\ h.Nonce = IF opts.nonce = "none" THEN "" ELSE opts.nonce
                  /\ h.JSONWebKey = IF public # JWS!NoKey /\ opts.EmbedJWK THEN public ELSE JWS!NoKey
                  /\ h.KeyID = JWS!getString(s.protected, "kid")
<1> DEFINE sig == ReadPart(s)
           bare == [sig EXCEPT !.header = JWS!NilHeader]
           read == IF t.form = "full" THEN bare ELSE sig
           p == s.protected
           h == ShownHeader(t, s)
<1>1. sig.protected = p /\ sig.header = s.header
  BY Zenon DEF ReadPart
<1>2. bare.protected = p /\ bare.header = JWS!NilHeader
  BY Zenon DEF ReadPart
<1>3. h = JWS!sanitizedHeader(JWS!mergedHeaders(read))
  BY Zenon DEF ShownHeader
<1>4. PlainHeader(JWS!NilHeader)
  <2>1. DOMAIN JWS!NilHeader = {"nil"}
    BY Zenon DEF JWS!NilHeader
  <2> QED  BY Zenon, <2>1 DEF PlainHeader
<1> HIDE DEF sig, bare, p, h
<1>5. read.protected = p /\ PlainHeader(read.header) /\ (s.header = JWS!NilHeader => read.header = JWS!NilHeader)
  BY Zenon, <1>1, <1>2, <1>4
<1>6. Says(p, alg, public, opts)
  BY Zenon DEF p
<1> HIDE DEF read
<1>7. /\ Found(JWS!mergedHeaders(read), p)
      /\ s.header = JWS!NilHeader => JWS!mergedHeaders(read) = p
  BY Zenon, <1>5, <1>6, MergedFound
<1>8. Found(JWS!mergedHeaders(sig), p)
  BY Zenon, <1>1, <1>6, MergedFound
<1> DEFINE m == JWS!mergedHeaders(sig)
           r == JWS!mergedHeaders(read)
<1> HIDE DEF m, r
<1>9. JWS!getAlgorithm(m) = alg /\ ~JWS!getCritical(m).err /\ ~JWS!getCritical(m).critical
  BY Zenon, <1>6, <1>8, HeaderRead DEF m
<1>10. /\ ~h.err /\ h.Algorithm = alg /\ h.Nonce = IF opts.nonce = "none" THEN "" ELSE opts.nonce
       /\ h.JSONWebKey = IF public # JWS!NoKey /\ opts.EmbedJWK THEN public ELSE JWS!NoKey
       /\ h.KeyID = JWS!getString(r, "kid")
  <2>1. h = JWS!sanitizedHeader(r) /\ Found(r, p)
    BY Zenon, <1>3, <1>7 DEF r
  <2> QED  BY Zenon, <1>6, <2>1, HeaderRead
<1>11. JWS!getNonce(s.header) = ""
  BY Zenon DEF PlainHeader, JWS!getNonce, JWS!getString, JWS!Has
<1>12. ~Refused(t, s)
  BY Zenon, <1>10, <1>11 DEF Refused, ReadsBack, h
<1> QED  BY Zenon, <1>7, <1>9, <1>10, <1>12 DEF sig, h, m, r, p

\* The key of a signer verifies what it signed.
LEMMA KeyVerifies ==
  ASSUME NEW key, key.kty \in KeyTypes, NEW alg, Supports(key.kty, alg), NEW input
  PROVE  JWS!verifyPayload(key, input, JWS!Signed(key, input, alg), alg)
<1>1. CASE key.kty = "RSA"
  BY Zenon, <1>1 DEF JWS!verifyPayload, JWS!rsaVerifyPayload, Supports
<1>2. CASE key.kty = "EC"
  BY Zenon, <1>2 DEF JWS!verifyPayload, JWS!ecVerifyPayload, Supports
<1>3. CASE key.kty = "OKP"
  BY Zenon, <1>3 DEF JWS!verifyPayload, JWS!edVerifyPayload, Supports
<1>4. CASE key.kty = "oct"
  BY Zenon, <1>4 DEF JWS!verifyPayload, JWS!hmacVerifyPayload, Supports
<1> QED  BY Zenon, <1>1, <1>2, <1>3, <1>4 DEF KeyTypes

LEMMA VerifyKeyOf ==
  ASSUME NEW key \in GoKey
  PROVE  VerifyKey(key).kty = key.kty /\ VerifyKey(key).id = key.id /\ ~VerifyKey(key).priv
<1>1. key \in AnyKey /\ (key.kty = "oct" => ~key.priv)
  BY Zenon DEF GoKey
<1>2. DOMAIN key = {"kty", "id", "crv", "priv", "size", "jwk", "KeyID"}
  BY <1>1 DEF AnyKey
<1> QED  BY <1>1, <1>2 DEF VerifyKey, Public

LEMMA SomeAlgorithm ==
  ASSUME NEW kty \in KeyTypes, NEW alg, Supports(kty, alg)
  PROVE  alg # ""
BY Zenon DEF KeyTypes, Supports

\* VerifyMulti with a key that verifies some signature.
LEMMA VerifyMultiFinds ==
  ASSUME NEW obj, Numbered(obj.Signatures), NEW key, ~key.priv, NEW j \in DOMAIN obj.Signatures,
         JWS!verifySignature(obj, obj.Signatures[j], key)
  PROVE  ~JWS!VerifyMulti(obj, key).err
<1> DEFINE r == JWS!VerifyMulti(obj, key)
           good == {k \in DOMAIN obj.Signatures : JWS!verifySignature(obj, obj.Signatures[k], key)}
           i == JWS!FirstOf(good)
<1>1. r = IF JWS!newVerifierFails(key) \/ i = 0 THEN [err |-> TRUE, index |-> 0, payload |-> JWS!Nil]
          ELSE [err |-> FALSE, index |-> i, payload |-> obj.payload]
  BY Zenon DEF JWS!VerifyMulti
<1>2. PICK n \in Nat \ {0} : obj.Signatures = [k \in 1..n |-> obj.Signatures[k]]
  BY Zenon DEF Numbered
<1>3. DOMAIN obj.Signatures = 1..n /\ good \subseteq DOMAIN obj.Signatures /\ j \in good
  BY Zenon, <1>2
<1> HIDE DEF good
<1>4. good \subseteq Nat /\ 0 \notin good
  BY <1>3
<1>5. i \in good
  BY Zenon, <1>3, <1>4, FirstIn
<1>6. ~(JWS!newVerifierFails(key) \/ i = 0)
  BY Zenon, <1>4, <1>5 DEF JWS!newVerifierFails
<1> HIDE DEF r, i
<1>7. r = [err |-> FALSE, index |-> i, payload |-> obj.payload]
  BY Zenon, <1>1, <1>6
<1>8. ~r.err
  BY Zenon, <1>7
<1> QED  BY Zenon, <1>8 DEF r

LEMMA VerifyFinds ==
  ASSUME NEW obj, Len(obj.Signatures) = 1, NEW key, ~key.priv, JWS!verifySignature(obj, obj.Signatures[1], key)
  PROVE  ~JWS!Verify(obj, key).err
<1> DEFINE r == JWS!Verify(obj, key)
<1>1. ~(Len(obj.Signatures) > 1)
  OBVIOUS
<1>2. r = [err |-> FALSE, payload |-> obj.payload]
  BY Zenon, <1>1 DEF JWS!Verify, JWS!newVerifierFails
<1> HIDE DEF r
<1>3. ~r.err
  BY Zenon, <1>2
<1> QED  BY Zenon, <1>3 DEF r

\* A part of a text that holds the signature of a signer, and a header a reader takes.
SignedPart(s, by, opts, payload) ==
  /\ Says(s.protected, by.alg, ToldKey(by.key), opts) /\ PlainHeader(s.header)
  /\ Supports(by.key.kty, by.alg) /\ by.key.kty \in KeyTypes /\ by.key \in GoKey
  /\ s.signature = [id |-> by.key.id, alg |-> by.alg, input |-> JWS!Input(s.protected, payload)]
  /\ ToldKey(by.key) # JWS!NoKey /\ opts.EmbedJWK => ReadsBack(ToldKey(by.key))

\* What is on the wire after no exchange, when the limits are kept: each part says
\* what the signer put there, and is verified by the signer's key alone.
LEMMA WhatArrives ==
  ASSUME protocol = "jws", JwsInv, CarriedInv, got # Nothing, wire.exchanged = 0,
         Readable(made[got.of].job, wire.text)
  PROVE  LET job == made[got.of].job
             t == wire.text
             obj == got.obj
         IN  /\ DOMAIN t.signatures = DOMAIN job.sigs /\ Numbered(t.signatures)
             /\ obj = JWS!sanitized(t) /\ JWS!Octets(obj.payload) = JWS!Octets(job.payload)
             /\ t.payload # JWS!NoBuffer
             /\ \A i \in DOMAIN job.sigs : SignedPart(t.signatures[i], job.sigs[i], job.opts, job.payload)
<1> DEFINE m == made[wire.of]
           job == m.job
           t == wire.text
           obj == got.obj
           extra == job.opts.ExtraHeaders
<1>1. wire # Nothing /\ obj = JWS!sanitized(t) /\ JwsText(t)
  BY Zenon DEF JwsInv
<1>2. wire.of \in DOMAIN made /\ got.of = wire.of /\ Carries(m, t)
  BY Zenon, <1>1 DEF CarriedInv
<1>3. job.sigs \in SignerArgs /\ ~SignedBy(job).err /\ m.obj = SignedBy(job)
  BY Zenon, <1>2, MadeObject DEF JwsInv
<1>4. Readable(job, t)
  BY Zenon, <1>2
<1>5. /\ t.payload # NoBuffer
      /\ \A i \in DOMAIN job.sigs : ~(job.opts.EmbedJWK /\ job.sigs[i].key.kty = "OKP")
      /\ DOMAIN extra \cap {"alg", "jwk", "nonce"} = {}
      /\ "crit" \in DOMAIN extra => extra["crit"] = List("")
      /\ "kid" \in DOMAIN extra => extra["kid"].t = "string"
      /\ \A i \in DOMAIN t.signatures :
           LET h == t.signatures[i].header
           IN  DOMAIN h \cap {"crit", "jwk", "nonce"} = {} /\ ("kid" \in DOMAIN h => h["kid"].t = "string")
  BY Zenon, <1>4 DEF Readable
<1> HIDE DEF m, t, obj
<1>6. t.payload # JWS!NoBuffer
  BY Zenon, <1>5 DEF NoBuffer, JWS!NoBuffer
<1>7. PlainExtra(extra)
  BY Zenon, <1>5 DEF PlainExtra, List, JWS!List, Value, JWS!Value, NoKey, JWS!NoKey
<1>8. \A i \in DOMAIN t.signatures : PlainHeader(t.signatures[i].header)
  BY Zenon, <1>5 DEF PlainHeader
<1>9. JWS!Octets(obj.payload) = JWS!Octets(job.payload)
  BY Zenon, <1>1, <1>2, <1>6, ReadOk DEF Carries
<1>10. /\ DOMAIN m.obj.Signatures = DOMAIN job.sigs
       /\ \A i \in DOMAIN job.sigs :
            m.obj.Signatures[i].Signature =
              [id |-> job.sigs[i].key.id, alg |-> job.sigs[i].alg,
               input |-> JWS!Input(m.obj.Signatures[i].protected, job.payload)]
  BY Zenon, <1>3, SignedByIs
<1>11. DOMAIN t.signatures = DOMAIN job.sigs
  BY Zenon, <1>2, <1>10 DEF Carries
<1>12. Numbered(t.signatures)
  BY Zenon, <1>1 DEF JwsText
<1>13. ASSUME NEW i \in DOMAIN job.sigs
       PROVE  SignedPart(t.signatures[i], job.sigs[i], job.opts, job.payload)
  <2> DEFINE by == job.sigs[i]
             s == t.signatures[i]
             o == m.obj.Signatures[i]
  <2>1. s.protected = o.protected /\ s.signature = o.Signature
    BY Zenon, <1>2, <1>11 DEF Carries
  <2>2. PlainHeader(s.header)
    BY Zenon, <1>8, <1>11
  <2>3. /\ Says(o.protected, by.alg, ToldKey(by.key), job.opts)
        /\ Supports(by.key.kty, by.alg) /\ by.key.kty \in KeyTypes /\ by.key \in GoKey
    BY Zenon, <1>3, <1>7, SignedBySays
  <2>4. o.Signature = [id |-> by.key.id, alg |-> by.alg, input |-> JWS!Input(o.protected, job.payload)]
    BY Zenon, <1>10
  <2>5. ~(job.opts.EmbedJWK /\ by.key.kty = "OKP")
    BY Zenon, <1>5
  <2> HIDE DEF by, s, o
  <2>6. ToldKey(by.key) # JWS!NoKey /\ job.opts.EmbedJWK => ReadsBack(ToldKey(by.key))
    <3> SUFFICES ASSUME ToldKey(by.key) # JWS!NoKey, job.opts.EmbedJWK
                 PROVE  ReadsBack(ToldKey(by.key))
      BY Zenon
    <3>1. by.key \in AnyKey
      BY Zenon, <2>3 DEF GoKey
    <3>2. by.key.kty \in {"EC", "RSA"}
      BY Zenon, <2>3, <2>5 DEF ToldKey, KeyTypes
    <3> QED  BY Zenon, <3>1, <3>2, KeyReadBack
  <2> QED  BY Zenon, <2>1, <2>2, <2>3, <2>4, <2>6 DEF by, s, SignedPart
<1> QED  BY Zenon, <1>1, <1>2, <1>6, <1>9, <1>11, <1>12, <1>13 DEF m, t, obj

\* The i-th part of a text with the payload is one that a signer signed.
SignedPartOf(t, i, by, opts, payload) ==
  /\ i \in DOMAIN t.signatures /\ SignedPart(t.signatures[i], by, opts, payload)
  /\ JWS!Octets(JWS!sanitized(t).payload) = JWS!Octets(payload)

\* Of the i-th signature of the object read from t: it verifies with the signer's
\* key, and only with a key of its identity.
VerifiesBy(t, i, by, key) ==
  LET obj == JWS!sanitized(t)
  IN  /\ key.kty = by.key.kty /\ key.id = by.key.id => JWS!verifySignature(obj, obj.Signatures[i], key)
      /\ JWS!verifySignature(obj, obj.Signatures[i], key) => key.id = by.key.id

\* The signature of each signer verifies with its key, and what verifies with a key
\* is a signature by it.
LEMMA ArrivedVerifies ==
  ASSUME NEW t, NEW i, NEW by, NEW opts, NEW payload, SignedPartOf(t, i, by, opts, payload),
         NEW key, key.kty \in KeyTypes
  PROVE  VerifiesBy(t, i, by, key)
<1> DEFINE obj == JWS!sanitized(t)
           s == t.signatures[i]
           sig == obj.Signatures[i]
           m == JWS!mergedHeaders(sig)
           input == JWS!Input(s.protected, payload)
<1>1. sig = ReadPart(s)
  <2>1. obj.Signatures = [j \in DOMAIN t.signatures |-> ReadPart(t.signatures[j])]
    BY Zenon, SanitizedIs
  <2>2. i \in DOMAIN t.signatures
    BY Zenon DEF SignedPartOf
  <2> HIDE DEF obj
  <2> QED  BY Zenon, <2>1, <2>2
<1>2. /\ Says(s.protected, by.alg, ToldKey(by.key), opts) /\ PlainHeader(s.header)
      /\ Supports(by.key.kty, by.alg) /\ by.key.kty \in KeyTypes
      /\ s.signature = [id |-> by.key.id, alg |-> by.alg, input |-> input]
      /\ ToldKey(by.key) # JWS!NoKey /\ opts.EmbedJWK => ReadsBack(ToldKey(by.key))
  BY Zenon DEF SignedPartOf, SignedPart
<1>3. JWS!Octets(obj.payload) = JWS!Octets(payload)
  BY Zenon DEF SignedPartOf
<1> HIDE DEF obj, s, sig
<1>4. sig.protected = s.protected /\ sig.original = s.protected /\ sig.Signature = s.signature
  BY Zenon, <1>1 DEF ReadPart
<1>5. by.alg # ""
  BY Zenon, <1>2, SomeAlgorithm
<1>6. JWS!getAlgorithm(m) = by.alg /\ ~JWS!getCritical(m).err /\ ~JWS!getCritical(m).critical
  BY Zenon, <1>1, <1>2, <1>5, PartReads
<1>7. JWS!computeAuthData(obj, sig) = input
  <2>1. JWS!computeAuthData(obj, sig) = JWS!Input(s.protected, obj.payload)
    BY Zenon, <1>4 DEF JWS!computeAuthData
  <2> QED  BY Zenon, <1>3, <2>1 DEF JWS!Input
<1> HIDE DEF input, m
<1>8. JWS!verifySignature(obj, sig, key) <=> JWS!verifyPayload(key, input, s.signature, by.alg)
  BY Zenon, <1>4, <1>6, <1>7 DEF JWS!verifySignature, m
<1>9. ASSUME key.kty = by.key.kty, key.id = by.key.id
      PROVE  JWS!verifySignature(obj, sig, key)
  <2>1. s.signature = JWS!Signed(key, input, by.alg)
    BY Zenon, <1>2, <1>9 DEF JWS!Signed
  <2> QED  BY Zenon, <1>2, <1>8, <1>9, <2>1, KeyVerifies
<1>10. ASSUME JWS!verifySignature(obj, sig, key)
       PROVE  key.id = by.key.id
  <2>1. s.signature = JWS!Signed(key, input, by.alg)
    BY Zenon, <1>8, <1>10, PayloadVerified
  <2>2. [id |-> by.key.id, alg |-> by.alg, input |-> input] = [id |-> key.id, alg |-> by.alg, input |-> input]
    BY Zenon, <1>2, <2>1 DEF JWS!Signed
  <2> QED  BY Zenon, <2>2
<1> QED  BY Zenon, <1>9, <1>10 DEF obj, sig, VerifiesBy

\* The header the reader is shown.
LEMMA ShownArrives ==
  ASSUME NEW job, NEW i, NEW t, NEW s, SignedPart(s, job.sigs[i], job.opts, job.payload), s.header = JWS!NilHeader
  PROVE  HeaderArrives(job, i, ShownHeader(t, s))
<1> DEFINE by == job.sigs[i]
           key == by.key
           opts == job.opts
           extra == opts.ExtraHeaders
           h == ShownHeader(t, s)
           p == s.protected
           told == ToldKey(key)
<1>1. /\ Says(p, by.alg, told, opts) /\ PlainHeader(s.header) /\ Supports(key.kty, by.alg) /\ key.kty \in KeyTypes
      /\ key \in GoKey /\ (told # JWS!NoKey /\ opts.EmbedJWK => ReadsBack(told))
  BY Zenon DEF SignedPart
<1>2. by.alg # ""
  BY Zenon, <1>1, SomeAlgorithm
<1>3. /\ h.Algorithm = by.alg /\ h.Nonce = IF opts.nonce = "none" THEN "" ELSE opts.nonce
      /\ h.JSONWebKey = IF told # JWS!NoKey /\ opts.EmbedJWK THEN told ELSE JWS!NoKey
      /\ h.KeyID = JWS!getString(p, "kid")
  BY ZenonT(60), <1>1, <1>2, PartReads
<1>4. key \in AnyKey
  BY Zenon, <1>1 DEF GoKey
<1>5. key.kty # "oct" => told # JWS!NoKey /\ told.KeyID = key.KeyID /\ told = JWS!JSONWebKey(JWS!Public(key), key.KeyID)
  BY Zenon, <1>4, ToldIs DEF ToldKey
<1> HIDE DEF h, told, p
<1>6. JWS!JSONWebKey(JWS!Public(key), key.KeyID) = JSONWebKey(Public(key), key.KeyID)
  BY Zenon DEF JWS!JSONWebKey, JWS!Public, JSONWebKey, Public
<1>7. Has(extra, "kid") <=> "kid" \in DOMAIN extra
  <2>1. "kid" \notin DOMAIN NilHeader
    <3>1. DOMAIN NilHeader = {"nil"}
      BY Zenon DEF NilHeader
    <3> QED  BY <3>1
  <2> QED  BY Zenon, <2>1 DEF Has
<1>8. ASSUME key.kty # "oct", ~opts.EmbedJWK
      PROVE  h.KeyID = IF Has(extra, "kid") THEN extra["kid"].v ELSE key.KeyID
  <2>1. /\ "kid" \in DOMAIN p /\ p["kid"].t = "string"
        /\ p["kid"].v = IF "kid" \in DOMAIN extra THEN extra["kid"].v ELSE told.KeyID
    BY Zenon, <1>1, <1>5, <1>8 DEF Says
  <2>2. p # JWS!NilHeader
    BY Zenon, <1>1, MergeEmpty DEF Says
  <2>3. h.KeyID = p["kid"].v
    BY Zenon, <1>3, <2>1, <2>2 DEF JWS!getString, JWS!Has
  <2> QED  BY Zenon, <1>5, <1>7, <1>8, <2>1, <2>3
<1>9. key.kty # "oct" /\ opts.EmbedJWK => h.JSONWebKey = JSONWebKey(Public(key), key.KeyID)
  BY Zenon, <1>3, <1>5, <1>6
<1> QED  BY Zenon, <1>3, <1>8, <1>9 DEF HeaderArrives, h

LEMMA Arrives ==
  ASSUME protocol = "jws", JwsInv, CarriedInv
  PROVE  SignedArrives
<1> SUFFICES ASSUME got # Nothing, wire.exchanged = 0, Readable(made[got.of].job, wire.text)
             PROVE  LET job == made[got.of].job
                    IN  /\ ~got.obj.err
                        /\ \A i \in DOMAIN job.sigs :
                             LET key == VerifyKey(job.sigs[i].key)
                                 multi == JWS!VerifyMulti(got.obj, key)
                                 one == JWS!Verify(got.obj, key)
                             IN  /\ ~multi.err /\ Octets(multi.payload) = Octets(job.payload)
                                 /\ job.sigs[multi.index].key.id = key.id
                                 /\ Len(job.sigs) = 1 => ~one.err /\ Octets(one.payload) = Octets(job.payload)
                                 /\ wire.text.signatures[i].header = NilHeader =>
                                      HeaderArrives(job, i, got.obj.Headers[i])
  BY Zenon DEF SignedArrives
<1> DEFINE job == made[got.of].job
           t == wire.text
           obj == got.obj
           By(i) == job.sigs[i]
           S(i) == t.signatures[i]
           Good(i) == SignedPart(S(i), By(i), job.opts, job.payload)
<1>1. /\ DOMAIN t.signatures = DOMAIN job.sigs /\ Numbered(t.signatures)
      /\ obj = JWS!sanitized(t) /\ JWS!Octets(obj.payload) = JWS!Octets(job.payload) /\ t.payload # JWS!NoBuffer
      /\ \A i \in DOMAIN job.sigs : Good(i)
  BY Zenon, WhatArrives
<1> HIDE DEF job, t, obj
<1>2. \A i \in DOMAIN job.sigs : ~Refused(t, t.signatures[i])
  <2> SUFFICES ASSUME NEW i \in DOMAIN job.sigs
               PROVE  ~Refused(t, S(i))
    BY Zenon
  <2>1. Good(i)
    BY Zenon, <1>1
  <2> DEFINE told == ToldKey(By(i).key)
  <2>2. /\ Says(S(i).protected, By(i).alg, told, job.opts) /\ PlainHeader(S(i).header)
        /\ Supports(By(i).key.kty, By(i).alg) /\ By(i).key.kty \in KeyTypes
        /\ told # JWS!NoKey /\ job.opts.EmbedJWK => ReadsBack(told)
    BY Zenon, <2>1 DEF SignedPart
  <2>3. By(i).alg # ""
    BY Zenon, <2>2, SomeAlgorithm
  <2> HIDE DEF told
  <2> QED  BY Zenon, <2>2, <2>3, PartReads
<1>3. ~obj.err
  BY Zenon, <1>1, <1>2, SanitizedIs
<1>4. /\ obj.Signatures = [i \in DOMAIN t.signatures |-> ReadPart(t.signatures[i])]
      /\ obj.Headers = [i \in DOMAIN t.signatures |-> ShownHeader(t, t.signatures[i])]
  BY Zenon, <1>1, SanitizedIs
<1>5. DOMAIN obj.Signatures = DOMAIN job.sigs /\ Numbered(obj.Signatures)
  <2>1. DOMAIN obj.Signatures = DOMAIN t.signatures
    BY Zenon, <1>4
  <2>2. PICK n \in Nat \ {0} : t.signatures = [j \in 1..n |-> t.signatures[j]]
    BY Zenon, <1>1 DEF Numbered
  <2>3. DOMAIN t.signatures = 1..n
    BY Zenon, <2>2
  <2>4. obj.Signatures = [j \in 1..n |-> obj.Signatures[j]]
    BY Zenon, <1>4, <2>3
  <2> QED  BY Zenon, <1>1, <2>1, <2>2, <2>4 DEF Numbered
<1>6. ASSUME NEW i \in DOMAIN job.sigs
      PROVE  LET key == VerifyKey(job.sigs[i].key)
                 multi == JWS!VerifyMulti(obj, key)
                 one == JWS!Verify(obj, key)
             IN  /\ ~multi.err /\ Octets(multi.payload) = Octets(job.payload)
                 /\ job.sigs[multi.index].key.id = key.id
                 /\ Len(job.sigs) = 1 => ~one.err /\ Octets(one.payload) = Octets(job.payload)
                 /\ t.signatures[i].header = NilHeader => HeaderArrives(job, i, obj.Headers[i])
  <2> DEFINE key == VerifyKey(By(i).key)
             multi == JWS!VerifyMulti(obj, key)
             one == JWS!Verify(obj, key)
  <2>1. Good(i)
    BY Zenon, <1>1
  <2>2. key.kty = By(i).key.kty /\ key.id = By(i).key.id /\ ~key.priv /\ key.kty \in KeyTypes
    BY Zenon, <2>1, VerifyKeyOf DEF SignedPart
  <2> HIDE DEF key
  <2>3. ASSUME NEW j \in DOMAIN job.sigs
        PROVE  /\ key.kty = By(j).key.kty /\ key.id = By(j).key.id => JWS!verifySignature(obj, obj.Signatures[j], key)
               /\ JWS!verifySignature(obj, obj.Signatures[j], key) => key.id = By(j).key.id
    <3>1. Good(j)
      BY Zenon, <1>1
    <3>2. j \in DOMAIN t.signatures /\ JWS!Octets(JWS!sanitized(t).payload) = JWS!Octets(job.payload)
      BY Zenon, <1>1
    <3>3. SignedPartOf(t, j, By(j), job.opts, job.payload)
      BY Zenon, <3>1, <3>2 DEF SignedPartOf
    <3>4. VerifiesBy(t, j, By(j), key)
      BY Zenon, <2>2, <3>3, ArrivedVerifies
    <3> QED  BY Zenon, <1>1, <3>4 DEF VerifiesBy
  <2>4. JWS!verifySignature(obj, obj.Signatures[i], key)
    BY Zenon, <2>2, <2>3
  <2>5. ~multi.err
    BY Zenon, <1>5, <2>2, <2>4, VerifyMultiFinds
  <2>6. /\ multi.index \in DOMAIN obj.Signatures /\ multi.payload = obj.payload
        /\ JWS!verifySignature(obj, obj.Signatures[multi.index], key)
    BY Zenon, <1>5, <2>5, VerifyMultiIs
  <2> HIDE DEF multi, one
  <2>7. job.sigs[multi.index].key.id = key.id
    BY Zenon, <1>5, <2>3, <2>6
  <2>8. Octets(multi.payload) = Octets(job.payload)
    BY Zenon, <1>1, <2>6, OneOctets
  <2>9. ASSUME Len(job.sigs) = 1
        PROVE  ~one.err /\ Octets(one.payload) = Octets(job.payload)
    <3>1. job.sigs \in SignerArgs
      BY ZenonT(60), MadeObject DEF JwsInv, CarriedInv, job
    <3>2. DOMAIN job.sigs = 1..1
      BY <2>9, <3>1 DEF SignerArgs
    <3>3. PICK n \in Nat \ {0} : obj.Signatures = [j \in 1..n |-> obj.Signatures[j]]
      BY Zenon, <1>5 DEF Numbered
    <3>4. Len(obj.Signatures) = n /\ DOMAIN obj.Signatures = 1..n
      BY Zenon, <3>3, NumberedLen
    <3>5. n = 1 /\ i = 1
      <4>1. 1..n = 1..1 /\ i \in 1..1
        BY Zenon, <1>5, <3>2, <3>4
      <4>2. n \in 1..n
        OBVIOUS
      <4>3. n \in 1..1
        BY Zenon, <4>1, <4>2
      <4> QED  BY <4>1, <4>3
    <3>6. Len(obj.Signatures) = 1 /\ JWS!verifySignature(obj, obj.Signatures[1], key)
      BY Zenon, <2>4, <3>4, <3>5
    <3>7. ~one.err
      BY Zenon, <2>2, <3>6, VerifyFinds DEF one
    <3>8. one.payload = obj.payload
      BY Zenon, <3>7, VerifyIs DEF one
    <3> QED  BY Zenon, <1>1, <3>7, <3>8, OneOctets
  <2>10. ASSUME t.signatures[i].header = NilHeader
         PROVE  HeaderArrives(job, i, obj.Headers[i])
    <3>1. S(i).header = JWS!NilHeader
      BY Zenon, <2>10 DEF NilHeader, JWS!NilHeader, Str, JWS!Str, Value, JWS!Value, NoKey, JWS!NoKey
    <3>2. obj.Headers[i] = ShownHeader(t, S(i))
      BY Zenon, <1>1, <1>4
    <3>3. HeaderArrives(job, i, ShownHeader(t, S(i)))
      BY Zenon, <2>1, <3>1, ShownArrives
    <3> QED  BY Zenon, <3>2, <3>3
  <2> QED  BY Zenon, <2>5, <2>7, <2>8, <2>9, <2>10 DEF key, multi, one
<1> QED  BY Zenon, <1>3, <1>6 DEF job, t, obj

\* As long as no part is exchanged, what is on the wire is what was signed.
THEOREM SentHolds == TokensSpec => []SentInv
<1>1. TokensInit => SentInv
  <2> SUFFICES ASSUME TokensInit
               PROVE  JwsInv /\ CarriedInv
    BY Zenon DEF SentInv
  <2>1. theme \in Themes /\ made = <<>> /\ wire = Nothing /\ got = Nothing
    BY ZenonT(60) DEF TokensInit
  <2> HIDE DEF JwsMade
  <2>2. made \in Seq(JwsMade)
    BY <2>1
  <2> QED  BY Zenon, <2>1, <2>2 DEF JwsInv, CarriedInv
<1>2. SentInv /\ [TokensNext]_tokenVars => SentInv'
  BY Zenon, SentStep
<1> QED  BY PTL, <1>1, <1>2 DEF TokensSpec

\* Whatever form a signed object is sent in, however often it is forwarded and
\* whatever unprotected headers it gets, every signer's key verifies the payload,
\* and the headers are those of the signer.
THEOREM SignedObjectsArrive == TokensSpec => []SignedArrives
<1>1. SentInv => SignedArrives
  <2>1. protocol # "jws" => SignedArrives
    BY Zenon DEF SignedArrives
  <2> QED  BY Zenon, <2>1, Arrives DEF SentInv
<1> QED  BY PTL, <1>1, SentHolds
=============================================================================
