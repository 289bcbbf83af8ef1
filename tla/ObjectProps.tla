---------------------------- MODULE ObjectProps ----------------------------
(***************************************************************************)
(* What JWS and JWE promise: what was signed or sealed arrives, and        *)
(* nothing else is accepted.                                               *)
(***************************************************************************)
EXTENDS Tokens

\* The key that verifies, or decrypts, what key signed, or encrypted.
VerifyKey(key) == IF key.kty = "oct" THEN key ELSE Public(key)
DecryptKey(key) == IF key.kty = "oct" THEN key ELSE [key EXCEPT !.priv = TRUE]

-----------------------------------------------------------------------------
(* JWS and JWE.                                                            *)

\* The documented limits of a JWS: critical headers are refused, an embedded key
\* must be public and valid, a nonce must be protected, a key id is a string;
\* extra headers replace the ones Sign sets.  The JSON form of a nil payload has
\* no payload.
Readable(job, text) ==
  LET extra == job.opts.ExtraHeaders
  IN  /\ text.payload # NoBuffer
      /\ \A i \in DOMAIN job.sigs : ~(job.opts.EmbedJWK /\ job.sigs[i].key.kty = "OKP")
      /\ DOMAIN extra \cap {"alg", "jwk", "nonce"} = {}
      /\ "crit" \in DOMAIN extra => extra["crit"] = List("")
      /\ "kid" \in DOMAIN extra => extra["kid"].t = "string"
      /\ \A i \in DOMAIN text.signatures :
           LET h == text.signatures[i].header
           IN  /\ DOMAIN h \cap {"crit", "jwk", "nonce"} = {}
               /\ "kid" \in DOMAIN h => h["kid"].t = "string"

\* The header of the i-th signature tells the reader what the signer put there.
HeaderArrives(job, i, header) ==
  LET key == job.sigs[i].key
  IN  /\ header.Nonce = IF job.opts.nonce = "none" THEN "" ELSE job.opts.nonce
      /\ header.Algorithm = job.sigs[i].alg
      /\ key.kty # "oct" =>
           IF job.opts.EmbedJWK THEN header.JSONWebKey = JSONWebKey(Public(key), key.KeyID)
           ELSE header.KeyID = IF Has(job.opts.ExtraHeaders, "kid")
                               THEN job.opts.ExtraHeaders["kid"].v ELSE key.KeyID

\* Whatever form a signed object is sent in, however often it is read and
\* serialised again, and whatever unprotected headers it gets on the way, every
\* signer's key verifies the payload (Sign, FullSerialize, CompactSerialize,
\* ParseSigned, Verify and VerifyMulti in signing.go and jws.go), VerifyMulti
\* names a signature of that key, and the headers are those of the signer.
SignedArrives ==
  protocol = "jws" /\ got # Nothing /\ wire.exchanged = 0 =>
    LET job == made[got.of].job
    IN  Readable(job, wire.text) =>
          /\ ~got.obj.err
          /\ \A i \in DOMAIN job.sigs :
               LET key == VerifyKey(job.sigs[i].key)
                   multi == JWS!VerifyMulti(got.obj, key)
                   one == JWS!Verify(got.obj, key)
               IN  /\ ~multi.err /\ Octets(multi.payload) = Octets(job.payload)
                   /\ job.sigs[multi.index].key.id = key.id
                   /\ Len(job.sigs) = 1 => ~one.err /\ Octets(one.payload) = Octets(job.payload)
                   /\ wire.text.signatures[i].header = NilHeader =>
                        HeaderArrives(job, i, got.obj.Headers[i])

\* The limits of a JWE: an empty plaintext is sealed but not opened unless it is
\* compressed, the compact form drops the additional data, the JSON form takes
\* empty data for none; a critical header is refused, a nonce must be protected, a
\* key id is a string; extra headers replace the ones Encrypt sets; headers of the
\* message go before those of a recipient; and no key agreement has data of the two
\* parties (apu and apv), which the sender does not use and the reader would.
Openable(job, text) ==
  LET headers == DOMAIN text.protected \cup DOMAIN text.unprotected
      agreement == \E i \in DOMAIN job.rcpts : job.rcpts[i].key.kty = "EC"
  IN  /\ job.plaintext \in {Nil, None} => job.opts.Compression
      /\ job.aad = bytes(text.aad)
      /\ "crit" \notin headers /\ ~Has(text.unprotected, "nonce")
      /\ DOMAIN job.opts.ExtraHeaders \cap {"alg", "enc", "epk", "iv", "tag"} = {}
      /\ \A h \in {text.protected, text.unprotected} : "kid" \in DOMAIN h => h["kid"].t = "string"
      /\ Len(job.rcpts) > 1 => DOMAIN text.unprotected \cap {"alg", "epk", "iv", "tag"} = {}
      /\ agreement => headers \cap {"apu", "apv"} = {}

\* Every recipient opens what was sealed, in each form, after each forwarding and
\* with unprotected headers that were added on the way (EncryptWithAuthData,
\* ParseEncrypted, Decrypt and DecryptMulti in crypter.go and jwe.go).
SealedArrives ==
  protocol = "jwe" /\ got # Nothing /\ wire.exchanged = 0 =>
    LET job == made[got.of].job
    IN  Openable(job, wire.text) =>
          /\ ~got.obj.err
          /\ \A i \in DOMAIN job.rcpts :
               LET key == DecryptKey(job.rcpts[i].key)
                   multi == JWE!DecryptMulti(got.obj, key)
                   one == JWE!Decrypt(got.obj, key)
               IN  /\ ~multi.err /\ Octets(multi.pt) = Octets(job.plaintext)
                   /\ Len(job.rcpts) = 1 => ~one.err /\ Octets(one.pt) = Octets(job.plaintext)

SignedSo(obj, index, id, payload) ==
  \E m \in DOMAIN made : \E i \in DOMAIN made[m].job.sigs :
    /\ made[m].job.sigs[i].key.id = id
    /\ Octets(made[m].job.payload) = Octets(payload)
    /\ made[m].obj.Signatures[i].protected = obj.Signatures[index].protected
    /\ obj.Headers[index].Nonce = getNonce(made[m].obj.Signatures[i].protected)

SealedSo(obj, id, pt) ==
  \E m \in DOMAIN made :
    /\ \E i \in DOMAIN made[m].job.rcpts : made[m].job.rcpts[i].key.id = id
    /\ Octets(made[m].job.plaintext) = Octets(pt)
    /\ made[m].obj.protected = obj.protected /\ made[m].obj.aad = obj.aad

\* Whatever parts of two messages stand in the text that is read, and whatever
\* unprotected headers, a payload that Verify or VerifyMulti accepts was signed
\* by a holder of the key, together with the protected header and the nonce the
\* reader is shown ...
AcceptedWasSigned ==
  got # Nothing /\ protocol = "jws" /\ ~got.obj.err =>
    \A m \in DOMAIN made : \A i \in DOMAIN made[m].job.sigs :
      LET key == VerifyKey(made[m].job.sigs[i].key)
          multi == JWS!VerifyMulti(got.obj, key)
          one == JWS!Verify(got.obj, key)
      IN  /\ ~multi.err => SignedSo(got.obj, multi.index, key.id, multi.payload)
          /\ ~one.err => SignedSo(got.obj, 1, key.id, one.payload)

\* ... and a plaintext that Decrypt or DecryptMulti returns was sealed for that
\* key with that protected header and additional data.
AcceptedWasSealed ==
  got # Nothing /\ protocol = "jwe" /\ ~got.obj.err =>
    \A m \in DOMAIN made : \A i \in DOMAIN made[m].job.rcpts :
      LET key == DecryptKey(made[m].job.rcpts[i].key)
          multi == JWE!DecryptMulti(got.obj, key)
          one == JWE!Decrypt(got.obj, key)
      IN  /\ ~multi.err => SealedSo(got.obj, key.id, multi.pt)
          /\ ~one.err => SealedSo(got.obj, key.id, one.pt)

\* What is accepted was made: AcceptedWasSigned and AcceptedWasSealed together
\* (Verify and VerifyMulti in signing.go, Decrypt and DecryptMulti in crypter.go).
AcceptedWasMade == AcceptedWasSigned /\ AcceptedWasSealed
=============================================================================
