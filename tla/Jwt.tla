-------------------------------- MODULE Jwt --------------------------------
(***************************************************************************)
(* Package jwt: tokens and their text (token.go), signing methods          *)
(* (hmac.go, rsa.go, rsa_pss.go, ecdsa.go, none.go, signing_method.go),    *)
(* the parser (parser.go) and the claims it validates (claims.go,          *)
(* map_claims.go).  Signatures are symbolic; a text is its segments.       *)
(***************************************************************************)
EXTENDS Integers, Sequences, FiniteSets

\* The methods init functions register; one stands for each family.
Methods == {"HS256", "RS256", "PS256", "ES256", "none"}

NoSignature == [by |-> "", method |-> "", input |-> <<>>]

Signed(method, input, key) == [by |-> key.id, method |-> method, input |-> input]
SignIf(fits, sig) == IF fits THEN [err |-> FALSE, sig |-> sig] ELSE [err |-> TRUE]

\* Each method wants a key of its own type: []byte, or half of a key pair.
hmacSign(input, key) == SignIf(key.kind = "bytes", Signed("HS256", input, key))
rsaSign(input, key) == SignIf(key.kind = "rsa" /\ key.priv, Signed("RS256", input, key))
pssSign(input, key) == SignIf(key.kind = "rsa" /\ key.priv, Signed("PS256", input, key))
\* An ecdsa key is of the method's curve, and the hash functions are available.
ecdsaSign(input, key) == SignIf(key.kind = "ecdsa" /\ key.priv, Signed("ES256", input, key))
noneSign(key) == SignIf(key.kind = "unsafeNoneMagicConstant", NoSignature)

Sign(method, input, key) ==
  CASE method = "HS256" -> hmacSign(input, key)
    [] method = "RS256" -> rsaSign(input, key)
    [] method = "PS256" -> pssSign(input, key)
    [] method = "ES256" -> ecdsaSign(input, key)
    [] method = "none" -> noneSign(key)

hmacVerify(input, sig, key) == key.kind = "bytes" /\ sig = Signed("HS256", input, key)
rsaVerify(input, sig, key) == key.kind = "rsa" /\ ~key.priv /\ sig = Signed("RS256", input, key)
pssVerify(input, sig, key) == key.kind = "rsa" /\ ~key.priv /\ sig = Signed("PS256", input, key)
ecdsaVerify(input, sig, key) == key.kind = "ecdsa" /\ ~key.priv /\ sig = Signed("ES256", input, key)
noneVerify(sig, key) == key.kind = "unsafeNoneMagicConstant" /\ sig = NoSignature

VerifySignature(method, input, sig, key) ==
  CASE method = "HS256" -> hmacVerify(input, sig, key)
    [] method = "RS256" -> rsaVerify(input, sig, key)
    [] method = "PS256" -> pssVerify(input, sig, key)
    [] method = "ES256" -> ecdsaVerify(input, sig, key)
    [] method = "none" -> noneVerify(sig, key)

-----------------------------------------------------------------------------
(* Claims: exp, iat and nbf.  A claim is a number, one with a fraction, or *)
(* of another type ("text"); the number 0 is a claim that is not there.    *)

verifyExp(exp, now) == exp = 0 \/ now <= exp
verifyIat(iat, now) == iat = 0 \/ now >= iat
verifyNbf(nbf, now) == nbf = 0 \/ now >= nbf

\* MapClaims takes what is not a number for absent.  A float64 is truncated; a
\* json.Number with a fraction, or beyond an int64, has no Int64, and its error is
\* dropped.
Number(claim, useNumber) ==
  IF claim.t = "number" \/ (claim.t = "fraction" /\ ~useNumber) THEN claim.v ELSE 0

\* Unix: the seconds of a time in milliseconds.
Unix(t) == t \div 1000

\* A plausible slip: the first claim that fails decides the error.
FirstFailure(c, useNumber, time) ==
  LET now == Unix(time)
  IN  CASE ~verifyExp(Number(c.exp, useNumber), now) -> {"Expired"}
        [] verifyExp(Number(c.exp, useNumber), now) /\ ~verifyIat(Number(c.iat, useNumber), now) -> {"IssuedAt"}
        [] OTHER -> IF verifyNbf(Number(c.nbf, useNumber), now) THEN {} ELSE {"NotValidYet"}

\* The bits set in ValidationError.Errors when the clock shows the second now ...
ErrorsAt(c, useNumber, now) ==
  (IF verifyExp(Number(c.exp, useNumber), now) THEN {} ELSE {"Expired"})
    \cup (IF verifyIat(Number(c.iat, useNumber), now) THEN {} ELSE {"IssuedAt"})
    \cup (IF verifyNbf(Number(c.nbf, useNumber), now) THEN {} ELSE {"NotValidYet"})

\* ... and Claims.Valid, which leaves out what is less than a second.
ClaimErrors(c, useNumber, time) == ErrorsAt(c, useNumber, Unix(time))

-----------------------------------------------------------------------------
(* Tokens and the parser.                                                  *)

\* NewWithClaims and SignedString
SignedString(method, claims, key) ==
  LET s == Sign(method, <<method, claims>>, key)
  IN  IF s.err THEN [err |-> TRUE]
      ELSE [err |-> FALSE, text |-> [form |-> "compact", segments |-> 3, alg |-> method, claims |-> claims, sig |-> s.sig]]

Failure(e) == [Valid |-> FALSE, Errors |-> {e}]

\* Parser.ParseWithClaims.  standard: into a StandardClaims, whose fields are
\* integers.  keyFunc is a function of the alg header; a key of kind "error" is the
\* error it returns.  ValidMethods is nil when it is empty.  Claims are of the two
\* types of the package: what Valid of a caller's own type returns is left out.
ParseWithClaims(p, text, standard, keyFunc, time) ==
  LET malformed == text.segments # 3 \/ (standard /\ \E c \in DOMAIN text.claims : text.claims[c].t # "number")
      key == keyFunc[text.alg]
      failed == IF p.SkipClaimsValidation THEN {} ELSE ClaimErrors(text.claims, p.UseJSONNumber, time)
      forged == ~VerifySignature(text.alg, <<text.alg, text.claims>>, text.sig, key)
      errors == failed \cup IF forged THEN {"SignatureInvalid"} ELSE {}
  IN  CASE malformed -> Failure("Malformed")
        [] ~malformed /\ text.alg \notin Methods -> Failure("Unverifiable")
        [] ~malformed /\ text.alg \in Methods ->
             CASE p.ValidMethods # {} /\ text.alg \notin p.ValidMethods -> Failure("SignatureInvalid")
               [] ~(p.ValidMethods # {} /\ text.alg \notin p.ValidMethods) ->
                    IF key.kind = "error" THEN Failure("Unverifiable")
                    ELSE [Valid |-> errors = {}, Errors |-> errors]
=============================================================================
