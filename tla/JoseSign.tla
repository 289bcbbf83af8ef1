------------------------------ MODULE JoseSign ------------------------------
(***************************************************************************)
(* JWS: signers and verification (jose/signing.go), the signature methods  *)
(* of asymmetric.go and symmetric.go, serialisation and parsing (jws.go).  *)
(***************************************************************************)
EXTENDS Jose

\* What a key signs, as the record of what went into it.  Two algorithms stand for
\* each family.
Signed(key, input, alg) == [id |-> key.id, alg |-> alg, input |-> input]

\* An EC key of another curve than the algorithm's is an error, and only then.
ecSignPayload(key, input, alg) ==
  [err |-> key.crv # (IF alg = "ES256" THEN "P-256" ELSE "P-384"), Signature |-> Signed(key, input, alg)]
signPayload(key, input, alg) ==
  IF key.kty = "EC" THEN ecSignPayload(key, input, alg)
  ELSE [err |-> FALSE, Signature |-> Signed(key, input, alg)]

rsaVerifyPayload(key, input, signature, alg) ==
  alg \in {"RS256", "PS256"} /\ signature = Signed(key, input, alg)
\* The sizes of the signatures tell the algorithms apart.
ecVerifyPayload(key, input, signature, alg) ==
  alg \in {"ES256", "ES384"} /\ signature = Signed(key, input, alg)
edVerifyPayload(key, input, signature, alg) == alg = "EdDSA" /\ signature = Signed(key, input, alg)
hmacVerifyPayload(key, input, mac, alg) ==
  alg \in {"HS256", "HS384"} /\ mac = Signed(key, input, alg)

verifyPayload(key, input, signature, alg) ==
  CASE key.kty = "RSA" -> rsaVerifyPayload(key, input, signature, alg)
    [] key.kty = "EC" -> ecVerifyPayload(key, input, signature, alg)
    [] key.kty = "OKP" -> edVerifyPayload(key, input, signature, alg)
    [] key.kty = "oct" -> hmacVerifyPayload(key, input, signature, alg)

-----------------------------------------------------------------------------
(* Signers.                                                                *)

NoRecipient == [err |-> TRUE]
SignerIf(supported, alg, key, publicKey) ==
  IF supported THEN [err |-> FALSE, sigAlg |-> alg, key |-> key, publicKey |-> publicKey] ELSE NoRecipient

newRSASigner(alg, key) == SignerIf(alg \in {"RS256", "PS256"}, alg, key, JSONWebKey(Public(key), ""))
newECDSASigner(alg, key) == SignerIf(alg \in {"ES256", "ES384"}, alg, key, JSONWebKey(Public(key), ""))
newEd25519Signer(alg, key) == SignerIf(alg = "EdDSA", alg, key, JSONWebKey(Public(key), ""))
newSymmetricSigner(alg, key) == SignerIf(alg \in {"HS256", "HS384"}, alg, key, NoKey)

newKeySigner(alg, key) ==
  CASE key.kty = "oct" -> newSymmetricSigner(alg, key)
    [] key.kty = "RSA" /\ key.priv -> newRSASigner(alg, key)
    [] key.kty = "EC" /\ key.priv -> newECDSASigner(alg, key)
    [] key.kty = "OKP" /\ key.priv -> newEd25519Signer(alg, key)
    [] OTHER -> NoRecipient

newJWKSigner(alg, jwk) ==
  LET recipient == newKeySigner(alg, Held(jwk))
      public == JSONWebKey(recipient.publicKey, jwk.KeyID)
  IN  CASE recipient.err -> NoRecipient
        [] ~recipient.err /\ jwk.kty = "oct" -> recipient
        [] ~recipient.err /\ jwk.kty # "oct" ->
             IF IsPublic(public) THEN [recipient EXCEPT !.publicKey = public] ELSE NoRecipient

makeJWSRecipient(alg, key) == IF key.jwk THEN newJWKSigner(alg, key) ELSE newKeySigner(alg, key)

NewMultiSigner(sigs) ==
  LET rs == [i \in DOMAIN sigs |-> makeJWSRecipient(sigs[i].alg, sigs[i].key)]
  IN  [err |-> \E i \in DOMAIN rs : rs[i].err, recipients |-> rs]

\* The header of one signature: a JWK or a key id, then a nonce, then the extra
\* headers over everything.
protectedHeader(r, opts) ==
  LET alg == set(EmptyHeader, "alg", Str(r.sigAlg))
      who == CASE r.publicKey = NoKey -> alg
               [] r.publicKey # NoKey /\ opts.EmbedJWK -> set(alg, "jwk", KeyValue(r.publicKey))
               [] r.publicKey # NoKey /\ ~opts.EmbedJWK -> set(alg, "kid", Str(r.publicKey.KeyID))
      once == IF opts.nonce = "none" THEN who ELSE set(who, "nonce", Str(opts.nonce))
  IN  Over(once, opts.ExtraHeaders)

\* header.payload in base64, which is what is signed.
Input(protected, payload) == <<protected, Octets(payload)>>

signatureOf(r, protected, payload) ==
  LET info == signPayload(r.key, Input(protected, payload), r.sigAlg)
  IN  [err |-> info.err, protected |-> protected, header |-> NilHeader, original |-> NilHeader,
       Signature |-> info.Signature]

signedObject(opts, payload, signatures) ==
  [err |-> opts.nonce = "error" \/ \E i \in DOMAIN signatures : signatures[i].err,
   payload |-> payload, Signatures |-> signatures]

Sign(signer, opts, payload) ==
  signedObject(opts, payload,
               [i \in DOMAIN signer.recipients |->
                  signatureOf(signer.recipients[i], protectedHeader(signer.recipients[i], opts), payload)])

-----------------------------------------------------------------------------
(* Texts.                                                                  *)

rawSignatureInfo(sig) ==
  [protected |-> sig.protected, header |-> sig.header, signature |-> sig.Signature]

CompactSerialize(obj) ==
  IF Len(obj.Signatures) # 1 \/ obj.Signatures[1].header # NilHeader
       \/ obj.Signatures[1].protected = NilHeader
  THEN NoText
  ELSE [form |-> "compact", payload |-> newBuffer(Octets(obj.payload)),
        signatures |-> <<rawSignatureInfo(obj.Signatures[1])>>]

\* One signature is flattened, several are a list.
FullSerialize(obj) ==
  [form |-> IF Len(obj.Signatures) = 1 THEN "flat" ELSE "full",
   payload |-> ThroughJSON(newBuffer(obj.payload)),
   signatures |-> [i \in DOMAIN obj.Signatures |-> rawSignatureInfo(obj.Signatures[i])]]

mergedHeaders(sig) == merge(merge(EmptyHeader, sig.protected), sig.header)

\* rawJSONWebSignature.sanitized.  In a list of signatures, Header is made before
\* the unprotected header is attached.
sanitized(text) ==
  LET Parsed(s) == [protected |-> s.protected, header |-> s.header, original |-> s.protected,
                    Signature |-> s.signature]
      Header(s) == sanitizedHeader(mergedHeaders(
                     IF text.form = "full" THEN [Parsed(s) EXCEPT !.header = NilHeader] ELSE Parsed(s)))
      Refused(s) == \/ getNonce(s.header) # ""
                    \/ Header(s).err
                    \/ LET jwk == Header(s).JSONWebKey IN jwk # NoKey /\ ~(Valid(jwk) /\ IsPublic(jwk))
      sigs == text.signatures
  IN  [err |-> text.payload = NoBuffer \/ \E i \in DOMAIN sigs : Refused(sigs[i]),
       payload |-> bytes(text.payload),
       Signatures |-> [i \in DOMAIN sigs |-> Parsed(sigs[i])],
       Headers |-> [i \in DOMAIN sigs |-> Header(sigs[i])]]

-----------------------------------------------------------------------------
(* Verification.                                                           *)

newVerifierFails(key) == key.priv

\* The protected header as it was received, if it was.
computeAuthData(obj, sig) ==
  Input(IF sig.original # NilHeader THEN sig.original ELSE sig.protected, obj.payload)

verifySignature(obj, sig, key) ==
  LET headers == mergedHeaders(sig)
      crit == getCritical(headers)
  IN  /\ ~crit.err /\ ~crit.critical
      /\ verifyPayload(key, computeAuthData(obj, sig), sig.Signature, getAlgorithm(headers))

Verify(obj, key) ==
  IF newVerifierFails(key) \/ Len(obj.Signatures) > 1 \/ ~verifySignature(obj, obj.Signatures[1], key)
  THEN [err |-> TRUE, payload |-> Nil] ELSE [err |-> FALSE, payload |-> obj.payload]

\* A plausible slip: the first signature is returned, whichever verified.
VerifyAny(obj, key) ==
  IF newVerifierFails(key) \/ \A i \in DOMAIN obj.Signatures : ~verifySignature(obj, obj.Signatures[i], key)
  THEN [err |-> TRUE, index |-> 0, payload |-> Nil] ELSE [err |-> FALSE, index |-> 1, payload |-> obj.payload]

\* The first signature that verifies.
VerifyMulti(obj, key) ==
  LET i == FirstOf({j \in DOMAIN obj.Signatures : verifySignature(obj, obj.Signatures[j], key)})
  IN  IF newVerifierFails(key) \/ i = 0 THEN [err |-> TRUE, index |-> 0, payload |-> Nil]
      ELSE [err |-> FALSE, index |-> i, payload |-> obj.payload]
=============================================================================
