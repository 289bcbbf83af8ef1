------------------------------ MODULE JoseJwt ------------------------------
(***************************************************************************)
(* Package jose/jwt: the builders of signed, encrypted and nested tokens   *)
(* (builder.go), the tokens read back (jwt.go), and the validation of      *)
(* claims (claims.go, validation.go).                                      *)
(*                                                                         *)
(* Builders are values that share maps: a builder refers to its payload, a *)
(* map on the heap.  `given` is a history variable, the claims a builder   *)
(* was given in order.                                                     *)
(***************************************************************************)
EXTENDS JoseObjects, Integers

CONSTANTS ClaimArgs,      \* arguments of Claims: [kind, claims]
          MaxBuilders     \* bound on the builders made

VARIABLES heap, builders

jwtVars == <<heap, builders>>

NoClaims == [c \in {} |-> ""]

\* A value that json.Marshal refuses, such as a func.
Unencodable == "func"
Refused(claims) == \E k \in DOMAIN claims : claims[k] = Unencodable

\* A struct is marshalled and decoded again, which may fail: omitempty drops its zero
\* values.  A map is taken as it is.
normalize(arg) == [k \in {n \in DOMAIN arg.claims : arg.kind = "map" \/ arg.claims[n] # ""} |-> arg.claims[k]]
InvalidClaims(arg) == arg.kind = "other" \/ (arg.kind = "struct" /\ Refused(arg.claims))

JwtInit == heap = <<>> /\ builders = <<[payload |-> 0, err |-> FALSE, given |-> NoClaims]>>
Payload(b) == IF b.payload = 0 THEN NoClaims ELSE heap[b.payload]

\* builder.claims: an error stays, an argument that is neither map nor struct is one.
NewBuilder(b) == builders' = Append(builders, b)

\* A plausible slip: the claims are added to the map the builder has.
MergeInPlace(b, m) ==
  LET p == IF b.payload = 0 THEN Len(heap) + 1 ELSE b.payload
  IN  /\ heap' = IF b.payload = 0 THEN Append(heap, m) ELSE [heap EXCEPT ![p] = Over(heap[p], m)]
      /\ NewBuilder([payload |-> p, err |-> FALSE, given |-> Over(b.given, m)])

\* builder.merge: into a new map.
mergeClaims(b, m) ==
  /\ heap' = Append(heap, Over(Payload(b), m))
  /\ NewBuilder([payload |-> Len(heap) + 1, err |-> FALSE, given |-> Over(b.given, m)])

Claims(b, arg) ==
  /\ Len(builders) < MaxBuilders
  /\ \/ /\ b.err \/ InvalidClaims(arg)
        /\ NewBuilder([payload |-> 0, err |-> TRUE, given |-> NoClaims])
        /\ UNCHANGED heap
     \/ ~b.err /\ ~InvalidClaims(arg) /\ mergeClaims(b, normalize(arg))

JwtNext == \E i \in DOMAIN builders, arg \in ClaimArgs : Claims(builders[i], arg)
JwtSpec == JwtInit /\ [][JwtNext]_jwtVars

-----------------------------------------------------------------------------
(* Tokens: sign and encrypt of the builders, and reading them back.        *)

\* json.Marshal of the payload, which fails when there is a value it refuses.
Marshalled(b) == [json |-> Payload(b)]
NoObject == [err |-> TRUE]

sign(b, signer, opts) ==
  IF b.err \/ Refused(Payload(b)) THEN NoObject ELSE JWS!Sign(signer, opts, Marshalled(b))
encrypt(b, ctx) == IF b.err \/ Refused(Payload(b)) THEN NoObject ELSE JWE!Encrypt(ctx, Marshalled(b), Nil, 1)

\* CompactSerialize and FullSerialize of the builders.
SignedText(sig, compact) ==
  IF sig.err THEN NoText ELSE IF compact THEN JWS!CompactSerialize(sig) ELSE JWS!FullSerialize(sig)
SealedText(enc, compact) ==
  IF enc.err THEN NoText ELSE IF compact THEN JWE!CompactSerialize(enc) ELSE JWE!FullSerialize(enc)

\* What is encrypted is the compact form of what was signed.  SignedAndEncrypted wants
\* the content type among the encrypter's options.
encryptText(text, ctx) == IF text = NoText THEN NoObject ELSE JWE!Encrypt(ctx, [text |-> text], Nil, 1)
signAndEncrypt(b, signer, opts, ctx) ==
  IF getString(ctx.ExtraHeaders, "cty") # "JWT" THEN NoObject
  ELSE encryptText(SignedText(sign(b, signer, opts), TRUE), ctx)

NoToken == [err |-> TRUE, claims |-> NoClaims]
\* JSONWebToken.Claims: what the key opens, decoded.
Decoded(opened) == IF opened.err \/ "json" \notin DOMAIN opened.payload THEN NoToken
                   ELSE [err |-> FALSE, claims |-> opened.payload.json]

\* A token is read from a text, or is the one Token of a builder returned.
OpenSigned(sig, key) == IF sig.err THEN NoToken ELSE Decoded(JWS!Verify(sig, key))
ParseSigned(text, key) == OpenSigned(JWS!sanitized(text), key)

Opened(d) == [err |-> d.err, payload |-> d.pt]
OpenSealed(enc, key) == IF enc.err THEN NoToken ELSE Decoded(Opened(JWE!Decrypt(enc, key)))
ParseEncrypted(text, key) == OpenSealed(JWE!sanitized(text), key)

OpenInner(d, key) == IF d.err \/ "text" \notin DOMAIN d.pt THEN NoToken ELSE ParseSigned(d.pt.text, key)
OpenNested(enc, decryptionKey, key) == IF enc.err THEN NoToken ELSE OpenInner(JWE!Decrypt(enc, decryptionKey), key)
\* The reader takes the content type in any case of letters.
ToUpper(s) == IF s = "jwt" THEN "JWT" ELSE s
OpenTyped(enc, decryptionKey, key) ==
  IF enc.err \/ ToUpper(getString(enc.Header.ExtraHeaders, "cty")) # "JWT" THEN NoToken
  ELSE OpenNested(enc, decryptionKey, key)
ParseSignedAndEncrypted(text, decryptionKey, key) == OpenTyped(JWE!sanitized(text), decryptionKey, key)

-----------------------------------------------------------------------------
(* Validation.  A claim is a number of seconds, 0 one that is not there.   *)
(* An Expected time of -1 is the zero time.                                *)

\* A plausible slip: the leeway is given only to the expiry.
LeewayLate(c, e, leeway) ==
  /\ e.Issuer # "" => e.Issuer = c.Issuer
  /\ e.Audience \subseteq c.Audience
  /\ e.Time # -1 => e.Time >= UnixTime(c.NotBefore) /\ e.Time - leeway <= UnixTime(c.Expiry)

ValidateWithLeeway(c, e, leeway) ==
  /\ e.Issuer # "" => e.Issuer = c.Issuer
  /\ e.Subject # "" => e.Subject = c.Subject
  /\ e.ID # "" => e.ID = c.ID
  /\ e.Audience \subseteq c.Audience
  /\ e.Time # -1 => e.Time + leeway >= UnixTime(c.NotBefore)
  /\ e.Time # -1 => e.Time - leeway <= UnixTime(c.Expiry)
=============================================================================
