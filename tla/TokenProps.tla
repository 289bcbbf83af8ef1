----------------------------- MODULE TokenProps -----------------------------
(***************************************************************************)
(* What the packages built on JWS and JWE promise: what was claimed        *)
(* arrives, and nothing else is accepted.                                  *)
(***************************************************************************)
EXTENDS ObjectProps, JoseJwt, OidcVerify

CONSTANTS Parsers,        \* values of jwt.Parser
          KeyFuncs,       \* key functions of jwt's callers
          Times,          \* values of the clock, in milliseconds
          Leeways,        \* leeways of jose/jwt's callers, in milliseconds
          Signers,        \* [sigs, opts] of jose/jwt's signed builders
          Encrypters      \* [enc, rcpt, opts] of its encrypted builders

ASSUME TimesAssumption == Times \subseteq Nat /\ Leeways \subseteq Nat

-----------------------------------------------------------------------------
(* Tokens and their claims.                                                *)

Fails(b) == b.err \/ Refused(b.given)
Holds(b, token) == ~token.err /\ token.claims = b.given

\* A builder's object, and what a text of it, compact or full, is read as.
SignedBack(b, sig, key) ==
  IF Fails(b) THEN sig.err
  ELSE Holds(b, OpenSigned(sig, key)) /\ \A compact \in BOOLEAN : Holds(b, ParseSigned(SignedText(sig, compact), key))
SealedBack(b, enc, key) ==
  IF Fails(b) THEN enc.err
  ELSE Holds(b, OpenSealed(enc, key)) /\ \A compact \in BOOLEAN : Holds(b, ParseEncrypted(SealedText(enc, compact), key))
NestedBack(b, enc, decryptionKey, key) ==
  IF Fails(b) THEN enc.err
  ELSE /\ Holds(b, OpenNested(enc, decryptionKey, key))
       /\ \A compact \in BOOLEAN : Holds(b, ParseSignedAndEncrypted(SealedText(enc, compact), decryptionKey, key))

AllBack(b, signer, opts, ctx, decryptionKey, key) ==
  /\ SignedBack(b, sign(b, signer, opts), key)
  /\ SealedBack(b, encrypt(b, ctx), decryptionKey)
  /\ getString(ctx.ExtraHeaders, "cty") = "JWT" =>
       NestedBack(b, signAndEncrypt(b, signer, opts, ctx), decryptionKey, key)

\* A builder that had no error gives tokens whose claims are exactly those it was
\* given, the later ones over the earlier, whatever other builders were derived
\* from it or from the ones it came from since; signed, encrypted or nested; as it
\* comes from Token, in the compact and in the full form (builder.go and jwt.go of
\* jose/jwt).  One that had an error, or has a claim JSON cannot express, gives none.
\* (Builders have an instance of their own, in which no other object is made.)
ClaimsArrive ==
  made = <<>> => \A b \in {builders[i] : i \in DOMAIN builders}, s \in Signers, e \in Encrypters :
    AllBack(b, JWS!NewMultiSigner(s.sigs), s.opts, JWE!NewEncrypter(e.enc, e.rcpt, e.opts),
            DecryptKey(e.rcpt.key), VerifyKey(s.sigs[1].key))

Bits(claims, now) ==
  {bit \in {"Expired", "IssuedAt", "NotValidYet"} :
     LET c == claims[CASE bit = "Expired" -> "exp" [] bit = "IssuedAt" -> "iat" [] bit = "NotValidYet" -> "nbf"]
     IN  c.t # "text" /\ c.v # 0 /\ IF bit = "Expired" THEN now >= UnixTime(c.v + 1) ELSE now < UnixTime(c.v)}

KeyKind(method) == CASE method = "HS256" -> "bytes" [] method \in {"RS256", "PS256"} -> "rsa"
                     [] method = "ES256" -> "ecdsa" [] method = "none" -> "unsafeNoneMagicConstant"

\* Parser.ParseWithClaims (jwt/parser.go) calls a token valid only if its claims
\* are those of a token that was signed by that method with the key that the
\* caller's key function answers, or the caller answered the constant for
\* unsigned tokens; and if no claim forbids the time, unless that check is off.
\* A token that arrives as it was made gets every claim error that applies and
\* no other.  (With UseJSONNumber a time with a fraction counts as absent.)
TokenJudged ==
  protocol = "jwt" /\ got # Nothing =>
    \A p \in Parsers, standard \in BOOLEAN, keyFunc \in KeyFuncs, now \in Times :
      LET text == got.obj.text
          r == JWT!ParseWithClaims(p, text, standard, keyFunc, now)
          key == keyFunc[text.alg]
          fractions == p.UseJSONNumber /\ \E c \in DOMAIN text.claims : text.claims[c].t = "fraction"
          bits == IF p.SkipClaimsValidation THEN {} ELSE Bits(text.claims, now)
          own == key.id = made[got.of].job.key.id /\ key.kind = KeyKind(text.alg) /\ ~key.priv
      IN  /\ r.Valid =>
               /\ \/ text.alg = "none" /\ key.kind = "unsafeNoneMagicConstant"
                  \/ \E m \in DOMAIN made : /\ made[m].job.claims = text.claims
                                            /\ made[m].job.method = text.alg /\ made[m].job.key.id = key.id
               /\ p.ValidMethods # {} => text.alg \in p.ValidMethods
               /\ ~fractions => bits = {}
          /\ /\ wire.exchanged = 0 /\ own /\ (p.ValidMethods # {} => text.alg \in p.ValidMethods)
             /\ ~fractions /\ ~(standard /\ \E c \in DOMAIN text.claims : text.claims[c].t # "number")
             => r.Errors = bits /\ r.Valid = (bits = {})

\* A token with an expiry, as it is read back, is in force from the same moment
\* whichever package judges it, Validate of jose/jwt (validation.go) without leeway
\* or Valid of jwt (claims.go) with the time of issue left aside; jose/jwt ends it at
\* the expiry, jwt, which drops the fraction of the clock's second (claims.go:34,
\* map_claims.go:72), less than a second later; and a leeway moves both ends of the
\* interval of jose/jwt by as much.
AgreedWindow ==
  protocol = "jwt" /\ got # Nothing =>
    LET c == got.obj.text.claims
        claims == [Issuer |-> "", Subject |-> "", ID |-> "", Audience |-> {},
                   NotBefore |-> c.nbf.v, Expiry |-> c.exp.v]
        At(t) == [Issuer |-> "", Subject |-> "", ID |-> "", Audience |-> {}, Time |-> t]
    IN  c.exp.t = "number" /\ c.exp.v # 0 /\ c.nbf.t = "number" =>
          \A now \in Times :
            LET judged == JWT!ClaimErrors(c, FALSE, now) \ {"IssuedAt"} = {}
                begun == UnixTime(c.nbf.v) <= now
                ending == UnixTime(c.exp.v) < now /\ now < UnixTime(c.exp.v + 1)
            IN  /\ judged <=> ValidateWithLeeway(claims, At(now), 0) \/ (begun /\ ending)
                /\ ending => ~ValidateWithLeeway(claims, At(now), 0)
                /\ \A leeway \in Leeways :
                     ValidateWithLeeway(claims, At(now), leeway) <=>
                       UnixTime(c.nbf.v) - leeway <= now /\ now <= UnixTime(c.exp.v) + leeway

-----------------------------------------------------------------------------
(* ID tokens.                                                              *)

IsIDToken == protocol = "jws" /\ got # Nothing /\ "claims" \in DOMAIN made[got.of].job.payload

\* The second segment of the raw token: that of the compact form, and of a JSON
\* text whatever stands between its first two dots.
Segments == IF wire.text.form = "compact" THEN {bytes(wire.text.payload)}
            ELSE {made[m].job.payload : m \in DOMAIN made}

\* IDTokenVerifier.Verify (oidc/verify.go) returns claims only if a key of the
\* verifier's key set signed exactly these claims, for this issuer and client,
\* and they have not expired; and, if its configuration names algorithms, only if
\* they were signed with one of them, whatever other verifiers share the
\* configuration.  That of a verifier from a Provider does, RS256 when there was none,
\* and with it that of every verifier that was given the same configuration.
IDTokenChecked ==
  IsIDToken => \A i \in DOMAIN verifiers, segment \in Segments, now \in Times :
    LET v == verifiers[i]
        config == configs[v.config]
    IN  Verify(v, [text |-> wire.text, segment |-> segment], now) =>
          \E m \in DOMAIN made :
            LET job == made[m].job
            IN  /\ job.payload = segment
                /\ \E s \in DOMAIN job.sigs :
                     /\ \E k \in DOMAIN v.keySet : v.keySet[k].id = job.sigs[s].key.id
                     /\ v.made = "Provider" \/ config.SupportedSigningAlgs # {} => job.sigs[s].alg \in config.SupportedSigningAlgs
                /\ job.payload.claims.iss \in
                     {v.issuer} \cup IF v.issuer = Google THEN {"accounts.google.com"} ELSE {}
                /\ config.SkipClientIDCheck \/ config.ClientID \in job.payload.claims.aud
                /\ config.SkipExpiryCheck \/ now <= UnixTime(job.payload.claims.exp)
=============================================================================
