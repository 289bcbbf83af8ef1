------------------------------- MODULE Tokens -------------------------------
(***************************************************************************)
(* JWS and JWE objects on their way (packages jose and jwt).  An object is *)
(* made, serialised, sent, read and perhaps serialised again by the reader.*)
(* On the way a text may get an unprotected header, as RFC 7515 and 7516   *)
(* allow, or parts of it may be exchanged for the same parts of another    *)
(* text: a fault, which Verify and Decrypt must notice.                    *)
(*                                                                         *)
(* `protocol` is "jws", "jwe" or "jwt", the last for package jwt.  A job   *)
(* is the arguments of the calls that make an object.                      *)
(***************************************************************************)
EXTENDS JoseObjects, Integers

CONSTANTS Themes,         \* sets of inputs that are explored together
          Jobs,           \* Jobs[t]: the jobs of theme t
          Protocol,       \* Protocol[t]
          MaxMade,        \* MaxMade[t]: bound on the objects made
          MaxExchanges,   \* bound on the parts exchanged
          Unprotected     \* Unprotected[t]: unprotected headers that are added on the way

JWT == INSTANCE Jwt

\* Claims of package jwt.
Claim == [t : {"number", "fraction", "text"}, v : Int]
ClaimSet == [exp : Claim, iat : Claim, nbf : Claim]

\* A raw key has no key id, and a symmetric one no private part.
GoKey == {k \in AnyKey : (~k.jwk => k.KeyID = "") /\ (k.kty = "oct" => ~k.priv)}

\* The keys and algorithms a signer, or an encrypter, is made of: one at least.
SignerArgs == Seq([alg : STRING, key : GoKey]) \ {<<>>}
EncrypterArgs == Seq([alg : STRING, key : AnyKey, KeyID : STRING]) \ {<<>>}

ASSUME JobsAssumption ==
  \A t \in Themes : \A job \in Jobs[t] :
    /\ Protocol[t] = "jws" => job.sigs \in SignerArgs
    /\ Protocol[t] = "jwe" => job.rcpts \in EncrypterArgs /\ "zip" \notin DOMAIN job.opts.ExtraHeaders
    /\ Protocol[t] = "jwt" => job.claims \in ClaimSet /\ job.method \in JWT!Methods

VARIABLES theme, made, wire, got

tokenVars == <<theme, made, wire, got>>

Nothing == [of |-> 0]
protocol == Protocol[theme]

TokensInit == theme \in Themes /\ made = <<>> /\ wire = Nothing /\ got = Nothing

-----------------------------------------------------------------------------
(* Making objects.                                                         *)

NotMade == [err |-> TRUE]
SignedBy(job) ==
  LET signer == JWS!NewMultiSigner(job.sigs)
  IN  IF signer.err THEN NotMade ELSE JWS!Sign(signer, job.opts, job.payload)
SealedBy(job, seed) ==
  LET ctx == IF job.multi THEN JWE!NewMultiEncrypter(job.enc, job.rcpts, job.opts)
             ELSE JWE!NewEncrypter(job.enc, job.rcpts[1], job.opts)
  IN  IF ctx.err THEN NotMade ELSE JWE!Encrypt(ctx, job.plaintext, job.aad, seed)

Object(job) ==
  CASE protocol = "jws" -> SignedBy(job)
    [] protocol = "jwe" -> SealedBy(job, Len(made) + 1)
    [] protocol = "jwt" -> JWT!SignedString(job.method, job.claims, job.key)

Make(job) ==
  /\ Len(made) < MaxMade[theme] /\ wire = Nothing
  /\ ~Object(job).err
  /\ made' = Append(made, [job |-> job, obj |-> Object(job)])
  /\ UNCHANGED <<theme, wire, got>>

-----------------------------------------------------------------------------
(* Texts.                                                                  *)

Text(obj, compact) ==
  CASE protocol = "jws" -> IF compact THEN JWS!CompactSerialize(obj) ELSE JWS!FullSerialize(obj)
    [] protocol = "jwe" -> IF compact THEN JWE!CompactSerialize(obj) ELSE JWE!FullSerialize(obj)
    [] protocol = "jwt" -> IF compact THEN obj.text ELSE NoText

OnWire(of, text, exchanged) == [of |-> of, text |-> text, exchanged |-> exchanged]

Send(i, compact) ==
  /\ wire = Nothing
  /\ Text(made[i].obj, compact) # NoText
  /\ wire' = OnWire(i, Text(made[i].obj, compact), 0)
  /\ UNCHANGED <<theme, made, got>>

\* The texts that differ from text in one part, which is that of other.
WithProtected(text, i, s) == [text EXCEPT !.signatures[i].protected = s.protected]
WithSignature(text, i, s) == [text EXCEPT !.signatures[i].signature = s.signature]
JwsExchanges(text, other) ==
  {[text EXCEPT !.payload = other.payload]}
    \cup UNION {{WithProtected(text, i, other.signatures[j]), WithSignature(text, i, other.signatures[j])} :
                  i \in DOMAIN text.signatures, j \in DOMAIN other.signatures}

WithKey(text, i, r) == [text EXCEPT !.recipients[i].encryptedKey = r.encryptedKey]
WithHeader(text, i, r) == [text EXCEPT !.recipients[i].header = r.header]
JweExchanges(text, other) ==
  {[text EXCEPT !.protected = other.protected], [text EXCEPT !.aad = other.aad],
   [text EXCEPT !.iv = other.iv], [text EXCEPT !.ciphertext = other.ciphertext],
   [text EXCEPT !.tag = other.tag],
   [text EXCEPT !.iv = other.iv, !.ciphertext = other.ciphertext, !.tag = other.tag]}
    \cup UNION {{WithKey(text, i, other.recipients[j]), WithHeader(text, i, other.recipients[j])} :
                  i \in DOMAIN text.recipients, j \in DOMAIN other.recipients}
JwtExchanges(text, other) ==
  {[text EXCEPT !.alg = other.alg], [text EXCEPT !.claims = other.claims],
   [text EXCEPT !.sig = other.sig], [text EXCEPT !.segments = @ - 1]}

Exchanges(text, other) ==
  CASE protocol = "jws" -> JwsExchanges(text, other)
    [] protocol = "jwe" -> JweExchanges(text, other)
    [] protocol = "jwt" -> JwtExchanges(text, other)

Exchange ==
  /\ wire # Nothing /\ got = Nothing /\ wire.exchanged < MaxExchanges
  /\ \E i \in DOMAIN made :
       LET other == Text(made[i].obj, wire.text.form = "compact")
       IN  /\ other # NoText
           /\ \E text \in Exchanges(wire.text, other) \ {wire.text} :
                wire' = OnWire(wire.of, text, wire.exchanged + 1)
  /\ UNCHANGED <<theme, made, got>>

\* An unprotected header for the message or for one signature or recipient.
AddHeader ==
  /\ wire # Nothing /\ got = Nothing /\ wire.text.form # "compact"
  /\ \E h \in Unprotected[theme] :
       \/ /\ protocol = "jws"
          /\ \E i \in DOMAIN wire.text.signatures :
               /\ wire.text.signatures[i].header = NilHeader
               /\ wire' = OnWire(wire.of, [wire.text EXCEPT !.signatures[i].header = h], wire.exchanged)
       \/ /\ protocol = "jwe" /\ wire.text.unprotected = NilHeader
          /\ wire' = OnWire(wire.of, [wire.text EXCEPT !.unprotected = h], wire.exchanged)
  /\ UNCHANGED <<theme, made, got>>

\* ParseSigned, ParseEncrypted.  Parsing of package jwt is in the property.
Parsed(text) ==
  CASE protocol = "jws" -> JWS!sanitized(text)
    [] protocol = "jwe" -> JWE!sanitized(text)
    [] protocol = "jwt" -> [err |-> FALSE, text |-> text]

Receive ==
  /\ wire # Nothing /\ got = Nothing
  /\ got' = [of |-> wire.of, obj |-> Parsed(wire.text)]
  /\ UNCHANGED <<theme, made, wire>>

\* The reader serialises what it read.
Forward(compact) ==
  /\ got # Nothing /\ protocol # "jwt"
  /\ ~got.obj.err
  /\ Text(got.obj, compact) # NoText
  /\ wire' = OnWire(got.of, Text(got.obj, compact), wire.exchanged)
  /\ got' = Nothing
  /\ UNCHANGED <<theme, made>>

TokensNext ==
  \/ \E job \in Jobs[theme] : Make(job)
  \/ \E i \in DOMAIN made, compact \in BOOLEAN : Send(i, compact)
  \/ Exchange
  \/ AddHeader
  \/ Receive
  \/ \E compact \in BOOLEAN : Forward(compact)

TokensSpec == TokensInit /\ [][TokensNext]_tokenVars
=============================================================================
