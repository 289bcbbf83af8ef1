---------------------------- MODULE TokenProofs ----------------------------
(***************************************************************************)
(* Signed tokens, for any jobs, keys, parsers, key sets and configurations *)
(* and any number of exchanged parts: that the parser of package jwt calls *)
(* valid only what was signed with the key it was given, and judges the    *)
(* times as jose/jwt does; that what an IDTokenVerifier returns was signed *)
(* with a key of its key set.  And that the builders of jose/jwt share no  *)
(* map, for any claims and number of builders.                             *)
(***************************************************************************)
EXTENDS TokenProps, JwsProofs

-----------------------------------------------------------------------------
(* Package jwt.                                                            *)

\* The signature and the text that SignedString gives a job.
SignResult(job) == JWT!Sign(job.method, <<job.method, job.claims>>, job.key)
TokenOf(job) == [form |-> "compact", segments |-> 3, alg |-> job.method, claims |-> job.claims,
                 sig |-> SignResult(job).sig]

JwtJob == {job \in Jobs[theme] : ~SignResult(job).err}
JwtMade == {[job |-> job, obj |-> [err |-> FALSE, text |-> TokenOf(job)]] : job \in JwtJob}

\* A text that was made of made ones: its signature is that of some job.
JwtText == [form : {"compact"}, segments : Int, alg : JWT!Methods, claims : ClaimSet,
            sig : {SignResult(made[m].job).sig : m \in DOMAIN made}]

WireOk ==
  /\ wire \in [of : DOMAIN made, text : JwtText, exchanged : Nat]
  /\ wire.exchanged = 0 => wire.text = made[wire.of].obj.text

JwtInv ==
  /\ theme \in Themes /\ made \in Seq(JwtMade)
  /\ wire # Nothing => WireOk
  /\ got # Nothing => wire # Nothing /\ got.of = wire.of /\ got.obj.text = wire.text

TokenInv == protocol = "jwt" => JwtInv

-----------------------------------------------------------------------------
(* Signatures.                                                             *)

\* What a method's Sign gives with a key it takes.
LEMMA SignatureOf ==
  ASSUME NEW job, job.method \in JWT!Methods, ~SignResult(job).err
  PROVE  SignResult(job).sig = IF job.method = "none" THEN JWT!NoSignature
                               ELSE JWT!Signed(job.method, <<job.method, job.claims>>, job.key)
<1> DEFINE input == <<job.method, job.claims>>
<1>0. ASSUME NEW fits, NEW sig, SignResult(job) = JWT!SignIf(fits, sig)
      PROVE  SignResult(job).sig = sig
  <2>1. CASE fits
    BY <1>0, <2>1 DEF JWT!SignIf
  <2>2. CASE ~fits
    <3>1. SignResult(job).err
      BY <1>0, <2>2 DEF JWT!SignIf
    <3> QED  BY Zenon, <3>1
  <2> QED  BY Zenon, <2>1, <2>2
<1>1. CASE job.method = "HS256"
  BY Zenon, <1>0, <1>1 DEF SignResult, JWT!Sign, JWT!hmacSign
<1>2. CASE job.method = "RS256"
  BY Zenon, <1>0, <1>2 DEF SignResult, JWT!Sign, JWT!rsaSign
<1>3. CASE job.method = "PS256"
  BY Zenon, <1>0, <1>3 DEF SignResult, JWT!Sign, JWT!pssSign
<1>4. CASE job.method = "ES256"
  BY Zenon, <1>0, <1>4 DEF SignResult, JWT!Sign, JWT!ecdsaSign
<1>5. CASE job.method = "none"
  BY Zenon, <1>0, <1>5 DEF SignResult, JWT!Sign, JWT!noneSign
<1> QED  BY Zenon, <1>1, <1>2, <1>3, <1>4, <1>5 DEF JWT!Methods

\* A signature that verifies is that of its method, or the caller wants none.
LEMMA VerifiedIs ==
  ASSUME NEW alg \in JWT!Methods, NEW input, NEW sig, NEW key,
         JWT!VerifySignature(alg, input, sig, key)
  PROVE  IF alg = "none" THEN key.kind = "unsafeNoneMagicConstant"
         ELSE sig = JWT!Signed(alg, input, key)
<1>1. CASE alg = "HS256"
  BY Zenon, <1>1 DEF JWT!VerifySignature, JWT!hmacVerify
<1>2. CASE alg = "RS256"
  BY Zenon, <1>2 DEF JWT!VerifySignature, JWT!rsaVerify
<1>3. CASE alg = "PS256"
  BY Zenon, <1>3 DEF JWT!VerifySignature, JWT!pssVerify
<1>4. CASE alg = "ES256"
  BY Zenon, <1>4 DEF JWT!VerifySignature, JWT!ecdsaVerify
<1>5. CASE alg = "none"
  BY Zenon, <1>5 DEF JWT!VerifySignature, JWT!noneVerify
<1> QED  BY Zenon, <1>1, <1>2, <1>3, <1>4, <1>5 DEF JWT!Methods

\* The signature of a job verifies for the claims, the method and the key of that
\* job only ...
LEMMA SignatureBinds ==
  ASSUME NEW job, job.method \in JWT!Methods, ~SignResult(job).err,
         NEW alg \in JWT!Methods, NEW claims, NEW key,
         JWT!VerifySignature(alg, <<alg, claims>>, SignResult(job).sig, key)
  PROVE  \/ alg = "none" /\ key.kind = "unsafeNoneMagicConstant"
         \/ job.claims = claims /\ job.method = alg /\ job.key.id = key.id
<1>1. CASE alg = "none"
  BY Zenon, <1>1, VerifiedIs
<1>2. CASE alg # "none"
  <2>1. SignResult(job).sig = JWT!Signed(alg, <<alg, claims>>, key)
    BY Zenon, <1>2, VerifiedIs
  <2>2. CASE job.method = "none"
    <3>1. JWT!NoSignature = JWT!Signed(alg, <<alg, claims>>, key)
      BY Zenon, <2>1, <2>2, SignatureOf
    <3>2. JWT!NoSignature.method = "" /\ JWT!Signed(alg, <<alg, claims>>, key).method = alg
      BY Zenon DEF JWT!NoSignature, JWT!Signed
    <3> QED  BY Zenon, <3>1, <3>2 DEF JWT!Methods
  <2>3. CASE job.method # "none"
    <3> DEFINE mine == <<job.method, job.claims>>
               theirs == <<alg, claims>>
    <3>1. JWT!Signed(job.method, mine, job.key) = JWT!Signed(alg, theirs, key)
      BY Zenon, <2>1, <2>3, SignatureOf
    <3> HIDE DEF mine, theirs
    <3>2. mine = theirs /\ job.key.id = key.id
      BY <3>1 DEF JWT!Signed
    <3>3. <<job.method, job.claims>> = <<alg, claims>>
      BY Zenon, <3>2 DEF mine, theirs
    <3>4. job.method = alg /\ job.claims = claims
      BY <3>3
    <3> QED  BY Zenon, <3>2, <3>4
  <2> QED  BY Zenon, <2>2, <2>3
<1> QED  BY Zenon, <1>1, <1>2

\* ... and for those it does.
LEMMA OwnVerifies ==
  ASSUME NEW job, job.method \in JWT!Methods, ~SignResult(job).err, NEW key,
         key.id = job.key.id, key.kind = KeyKind(job.method), ~key.priv
  PROVE  JWT!VerifySignature(job.method, <<job.method, job.claims>>, SignResult(job).sig, key)
<1> DEFINE input == <<job.method, job.claims>>
<1>1. JWT!Signed(job.method, input, job.key) = JWT!Signed(job.method, input, key)
  BY Zenon DEF JWT!Signed
<1>2. SignResult(job).sig = IF job.method = "none" THEN JWT!NoSignature
                            ELSE JWT!Signed(job.method, input, key)
  BY Zenon, <1>1, SignatureOf
<1> HIDE DEF input
<1>3. JWT!VerifySignature(job.method, input, SignResult(job).sig, key)
  <2>1. CASE job.method = "HS256"
    BY Zenon, <1>2, <2>1 DEF JWT!VerifySignature, JWT!hmacVerify, KeyKind
  <2>2. CASE job.method = "RS256"
    BY Zenon, <1>2, <2>2 DEF JWT!VerifySignature, JWT!rsaVerify, KeyKind
  <2>3. CASE job.method = "PS256"
    BY Zenon, <1>2, <2>3 DEF JWT!VerifySignature, JWT!pssVerify, KeyKind
  <2>4. CASE job.method = "ES256"
    BY Zenon, <1>2, <2>4 DEF JWT!VerifySignature, JWT!ecdsaVerify, KeyKind
  <2>5. CASE job.method = "none"
    BY Zenon, <1>2, <2>5 DEF JWT!VerifySignature, JWT!noneVerify, KeyKind
  <2> QED  BY Zenon, <2>1, <2>2, <2>3, <2>4, <2>5 DEF JWT!Methods
<1> QED  BY Zenon, <1>3 DEF input

-----------------------------------------------------------------------------
(* Claims.                                                                 *)

\* What a claim that is no fraction, or is read as a float64, counts as.
LEMMA NumberOf ==
  ASSUME NEW c \in Claim, NEW useNumber, ~(useNumber /\ c.t = "fraction")
  PROVE  JWT!Number(c, useNumber) = IF c.t # "text" THEN c.v ELSE 0
<1>1. c.t \in {"number", "fraction", "text"}
  BY DEF Claim
<1> QED  BY Zenon, <1>1 DEF JWT!Number

\* The second that the clock shows is past, or before, a claim.
LEMMA UnixOf ==
  ASSUME NEW t \in Nat, NEW v \in Int
  PROVE  /\ JWT!Unix(t) > v <=> t >= UnixTime(v + 1)
         /\ JWT!Unix(t) < v <=> t < UnixTime(v)
<1> DEFINE n == t \div 1000
<1>1. n \in Int /\ 1000 * n <= t /\ t < 1000 * n + 1000
  OBVIOUS
<1>2. JWT!Unix(t) = n
  BY DEF JWT!Unix
<1> HIDE DEF n
<1>3. JWT!Unix(t) > v <=> t >= UnixTime(v + 1)
  BY <1>1, <1>2 DEF UnixTime
<1>4. JWT!Unix(t) < v <=> t < UnixTime(v)
  BY <1>1, <1>2 DEF UnixTime
<1> QED  BY <1>3, <1>4

\* Claims.Valid sets the bits of the claims that forbid the time, and no other.
LEMMA ClaimsJudged ==
  ASSUME NEW claims \in ClaimSet, NEW useNumber, NEW now \in Nat,
         ~(useNumber /\ \E c \in DOMAIN claims : claims[c].t = "fraction")
  PROVE  JWT!ClaimErrors(claims, useNumber, now) = Bits(claims, now)
<1> DEFINE V(c) == IF c.t # "text" THEN c.v ELSE 0
<1>1. /\ claims.exp \in Claim /\ claims.iat \in Claim /\ claims.nbf \in Claim
      /\ claims.exp.v \in Int /\ claims.iat.v \in Int /\ claims.nbf.v \in Int
      /\ DOMAIN claims = {"exp", "iat", "nbf"}
  BY DEF ClaimSet, Claim
<1>2. \A f \in {"exp", "iat", "nbf"} : ~(useNumber /\ claims[f].t = "fraction")
  BY Zenon, <1>1
<1>3. /\ JWT!Number(claims.exp, useNumber) = V(claims.exp)
      /\ JWT!Number(claims.iat, useNumber) = V(claims.iat)
      /\ JWT!Number(claims.nbf, useNumber) = V(claims.nbf)
  BY Zenon, <1>1, <1>2, NumberOf
<1> DEFINE second == JWT!Unix(now)
           late == ~JWT!verifyExp(JWT!Number(claims.exp, useNumber), second)
           early == ~JWT!verifyIat(JWT!Number(claims.iat, useNumber), second)
           soon == ~JWT!verifyNbf(JWT!Number(claims.nbf, useNumber), second)
<1>4. second \in Int
  BY DEF JWT!Unix
<1>5. /\ second > claims.exp.v <=> now >= UnixTime(claims.exp.v + 1)
      /\ second < claims.iat.v <=> now < UnixTime(claims.iat.v)
      /\ second < claims.nbf.v <=> now < UnixTime(claims.nbf.v)
  BY Zenon, <1>1, UnixOf
<1>6. JWT!ClaimErrors(claims, useNumber, now) =
        (IF late THEN {"Expired"} ELSE {}) \cup (IF early THEN {"IssuedAt"} ELSE {})
          \cup (IF soon THEN {"NotValidYet"} ELSE {})
  BY Zenon DEF JWT!ClaimErrors, JWT!ErrorsAt
<1> HIDE DEF second
<1>7. /\ late <=> claims.exp.t # "text" /\ claims.exp.v # 0 /\ now >= UnixTime(claims.exp.v + 1)
      /\ early <=> claims.iat.t # "text" /\ claims.iat.v # 0 /\ now < UnixTime(claims.iat.v)
      /\ soon <=> claims.nbf.t # "text" /\ claims.nbf.v # 0 /\ now < UnixTime(claims.nbf.v)
  <2>1. late <=> claims.exp.t # "text" /\ claims.exp.v # 0 /\ second > claims.exp.v
    BY <1>1, <1>3, <1>4 DEF JWT!verifyExp
  <2>2. early <=> claims.iat.t # "text" /\ claims.iat.v # 0 /\ second < claims.iat.v
    BY <1>1, <1>3, <1>4 DEF JWT!verifyIat
  <2>3. soon <=> claims.nbf.t # "text" /\ claims.nbf.v # 0 /\ second < claims.nbf.v
    BY <1>1, <1>3, <1>4 DEF JWT!verifyNbf
  <2> QED  BY Zenon, <1>5, <2>1, <2>2, <2>3
<1> HIDE DEF late, early, soon
<1>8. \A bit : bit \in JWT!ClaimErrors(claims, useNumber, now) <=>
        \/ bit = "Expired" /\ late
        \/ bit = "IssuedAt" /\ early
        \/ bit = "NotValidYet" /\ soon
  BY Zenon, <1>6
<1>9. \A bit : bit \in Bits(claims, now) <=>
        \/ bit = "Expired" /\ late
        \/ bit = "IssuedAt" /\ early
        \/ bit = "NotValidYet" /\ soon
  BY ZenonT(60), <1>7 DEF Bits
<1> QED  BY Zenon, <1>8, <1>9

-----------------------------------------------------------------------------
(* The objects made, and the texts on their way.                           *)

\* What is known of a made token.
LEMMA MadeToken ==
  ASSUME protocol = "jwt", JwtInv, NEW m \in DOMAIN made
  PROVE  /\ made[m].job \in Jobs[theme] /\ ~SignResult(made[m].job).err
         /\ made[m].job.method \in JWT!Methods /\ made[m].job.claims \in ClaimSet
         /\ made[m].obj.text = TokenOf(made[m].job)
<1>1. made[m] \in JwtMade
  BY DEF JwtInv
<1>2. PICK job \in JwtJob : made[m] = [job |-> job, obj |-> [err |-> FALSE, text |-> TokenOf(job)]]
  BY Zenon, <1>1 DEF JwtMade
<1>3. made[m].job = job /\ made[m].obj.text = TokenOf(job)
  BY <1>2
<1>4. job \in Jobs[theme] /\ ~SignResult(job).err
  BY Zenon DEF JwtJob
<1>5. job.claims \in ClaimSet /\ job.method \in JWT!Methods
  BY Zenon, <1>4, JobsAssumption DEF JwtInv, protocol
<1> QED  BY Zenon, <1>3, <1>4, <1>5

\* The text of a made token is one that may be on the wire.
LEMMA MadeTokenText ==
  ASSUME protocol = "jwt", JwtInv, NEW m \in DOMAIN made
  PROVE  made[m].obj.text \in JwtText
<1> DEFINE sig == SignResult(made[m].job).sig
           sigs == {SignResult(made[k].job).sig : k \in DOMAIN made}
<1>1. sig \in sigs
  OBVIOUS
<1>2. /\ made[m].job.method \in JWT!Methods /\ made[m].job.claims \in ClaimSet
      /\ made[m].obj.text = TokenOf(made[m].job)
  BY Zenon, MadeToken
<1>3. made[m].obj.text = [form |-> "compact", segments |-> 3, alg |-> made[m].job.method,
                          claims |-> made[m].job.claims, sig |-> sig]
  BY Zenon, <1>2 DEF TokenOf
<1> HIDE DEF sig, sigs
<1>4. made[m].obj.text \in [form : {"compact"}, segments : Int, alg : JWT!Methods, claims : ClaimSet, sig : sigs]
  BY <1>1, <1>2, <1>3
<1> QED  BY Zenon, <1>4 DEF JwtText, sigs

\* A part exchanged for that of a made token leaves a text made of made ones.
LEMMA JwtExchangesOk ==
  ASSUME protocol = "jwt", JwtInv, NEW m \in DOMAIN made, NEW old \in JwtText,
         NEW text \in Exchanges(old, made[m].obj.text)
  PROVE  text \in JwtText
<1> DEFINE other == made[m].obj.text
           sigs == {SignResult(made[k].job).sig : k \in DOMAIN made}
<1>1. other \in JwtText
  BY Zenon, MadeTokenText
<1> HIDE DEF other
<1>2. \/ text = [old EXCEPT !.alg = other.alg] \/ text = [old EXCEPT !.claims = other.claims]
      \/ text = [old EXCEPT !.sig = other.sig] \/ text = [old EXCEPT !.segments = @ - 1]
  <2>1. text \in JwtExchanges(old, other)
    BY Zenon DEF Exchanges, other
  <2> QED  BY Zenon, <2>1 DEF JwtExchanges
<1>3. JwtText = [form : {"compact"}, segments : Int, alg : JWT!Methods, claims : ClaimSet, sig : sigs]
  BY Zenon DEF JwtText
<1> HIDE DEF sigs
<1>4. CASE text = [old EXCEPT !.alg = other.alg]
  BY <1>1, <1>3, <1>4
<1>5. CASE text = [old EXCEPT !.claims = other.claims]
  BY <1>1, <1>3, <1>5
<1>6. CASE text = [old EXCEPT !.sig = other.sig]
  BY <1>1, <1>3, <1>6
<1>7. CASE text = [old EXCEPT !.segments = @ - 1]
  BY <1>3, <1>7
<1> QED  BY Zenon, <1>2, <1>4, <1>5, <1>6, <1>7

\* Steps that leave the objects alone leave what may be on the wire alone.
LEMMA SameTokenTexts ==
  ASSUME UNCHANGED <<theme, made>>
  PROVE  JwtText' = JwtText /\ JwtMade' = JwtMade /\ protocol' = protocol
BY Zenon DEF JwtText, JwtMade, JwtJob, protocol

\* SignedString gives the token of its job.
LEMMA JwtMakeOk ==
  ASSUME protocol = "jwt", JwtInv, NEW job \in Jobs[theme], Make(job)
  PROVE  JwtInv'
<1> DEFINE new == [job |-> job, obj |-> [err |-> FALSE, text |-> TokenOf(job)]]
<1>1. /\ wire = Nothing /\ ~Object(job).err /\ made' = Append(made, [job |-> job, obj |-> Object(job)])
      /\ theme' = theme /\ wire' = wire /\ got' = got
  BY Zenon DEF Make
<1>2. Object(job) = JWT!SignedString(job.method, job.claims, job.key)
  BY Zenon DEF Object
<1>3. CASE SignResult(job).err
  <2>1. Object(job) = [err |-> TRUE]
    BY Zenon, <1>2, <1>3 DEF JWT!SignedString, SignResult
  <2> QED  BY <1>1, <2>1
<1>4. CASE ~SignResult(job).err
  <2>1. Object(job) = [err |-> FALSE, text |-> TokenOf(job)]
    BY Zenon, <1>2, <1>4 DEF JWT!SignedString, SignResult, TokenOf
  <2>2. new \in JwtMade
    BY Zenon, <1>4 DEF JwtMade, JwtJob
  <2>3. made' = Append(made, new)
    BY Zenon, <1>1, <2>1
  <2> HIDE DEF new
  <2>4. made' \in Seq(JwtMade)
    BY <2>2, <2>3 DEF JwtInv
  <2>5. JwtMade' = JwtMade
    BY Zenon, <1>1 DEF JwtMade, JwtJob
  <2>6. wire' = Nothing' /\ got' = Nothing'
    BY Zenon, <1>1 DEF JwtInv, Nothing
  <2>7. made' \in Seq(JwtMade)'
    BY Zenon, <2>4, <2>5
  <2> QED  BY Zenon, <1>1, <2>6, <2>7 DEF JwtInv
<1> QED  BY Zenon, <1>3, <1>4

LEMMA JwtSendOk ==
  ASSUME protocol = "jwt", JwtInv, NEW i \in DOMAIN made, NEW compact \in BOOLEAN, Send(i, compact)
  PROVE  JwtInv'
<1> DEFINE text == made[i].obj.text
<1>1. /\ wire = Nothing /\ wire' = OnWire(i, Text(made[i].obj, compact), 0)
      /\ Text(made[i].obj, compact) # NoText /\ theme' = theme /\ made' = made /\ got' = got
  BY Zenon DEF Send
<1>2. Text(made[i].obj, compact) = text
  BY Zenon, <1>1 DEF Text
<1>3. text \in JwtText
  BY Zenon, MadeTokenText
<1> HIDE DEF text
<1>4. /\ wire' \in [of : DOMAIN made, text : JwtText, exchanged : Nat]
      /\ wire'.of = i /\ wire'.text = text
  BY <1>1, <1>2, <1>3 DEF OnWire
<1>5. JwtText' = JwtText /\ JwtMade' = JwtMade
  BY Zenon, <1>1, SameTokenTexts
<1>6. WireOk'
  <2>1. wire' \in [of : DOMAIN made, text : JwtText, exchanged : Nat]'
    BY Zenon, <1>1, <1>4, <1>5
  <2>2. wire'.text = (made[wire.of].obj.text)'
    BY Zenon, <1>1, <1>4 DEF text
  <2> QED  BY Zenon, <2>1, <2>2 DEF WireOk
<1>7. got' = Nothing'
  BY Zenon, <1>1 DEF JwtInv, Nothing
<1> QED  BY Zenon, <1>1, <1>5, <1>6, <1>7 DEF JwtInv

LEMMA JwtExchangeOk ==
  ASSUME protocol = "jwt", JwtInv, Exchange
  PROVE  JwtInv'
<1>1. /\ wire # Nothing /\ got = Nothing
      /\ theme' = theme /\ made' = made /\ got' = got
  BY Zenon DEF Exchange
<1>2. WireOk
  BY Zenon, <1>1 DEF JwtInv
<1>3. wire.text.form = "compact"
  BY <1>2 DEF WireOk, JwtText
<1>4. PICK i \in DOMAIN made : \E text \in Exchanges(wire.text, Text(made[i].obj, TRUE)) :
        wire' = OnWire(wire.of, text, wire.exchanged + 1)
  BY Zenon, <1>3 DEF Exchange
<1>5. Text(made[i].obj, TRUE) = made[i].obj.text
  BY Zenon DEF Text
<1>6. PICK text \in Exchanges(wire.text, made[i].obj.text) :
        wire' = OnWire(wire.of, text, wire.exchanged + 1)
  BY Zenon, <1>4, <1>5
<1>7. wire.of \in DOMAIN made /\ wire.text \in JwtText /\ wire.exchanged \in Nat
  BY <1>2 DEF WireOk
<1>8. text \in JwtText
  BY Zenon, <1>6, <1>7, JwtExchangesOk
<1>9. wire' \in [of : DOMAIN made, text : JwtText, exchanged : Nat] /\ wire'.exchanged # 0
  BY <1>6, <1>7, <1>8 DEF OnWire
<1>10. JwtText' = JwtText /\ JwtMade' = JwtMade
  BY Zenon, <1>1, SameTokenTexts
<1>11. WireOk'
  <2>1. wire' \in [of : DOMAIN made, text : JwtText, exchanged : Nat]'
    BY Zenon, <1>1, <1>9, <1>10
  <2> QED  BY Zenon, <1>9, <2>1 DEF WireOk
<1>12. got' = Nothing'
  BY Zenon, <1>1 DEF Nothing
<1> QED  BY Zenon, <1>1, <1>10, <1>11, <1>12 DEF JwtInv

LEMMA JwtReceiveOk ==
  ASSUME protocol = "jwt", JwtInv, Receive
  PROVE  JwtInv'
<1>1. /\ wire # Nothing /\ got' = [of |-> wire.of, obj |-> Parsed(wire.text)]
      /\ theme' = theme /\ made' = made /\ wire' = wire
  BY Zenon DEF Receive
<1>2. Parsed(wire.text) = [err |-> FALSE, text |-> wire.text]
  BY Zenon DEF Parsed
<1>3. got'.of = wire'.of /\ got'.obj.text = wire'.text
  BY <1>1, <1>2
<1>4. JwtText' = JwtText /\ JwtMade' = JwtMade
  BY Zenon, <1>1, SameTokenTexts
<1>5. WireOk'
  <2>1. WireOk
    BY Zenon, <1>1 DEF JwtInv
  <2> QED  BY Zenon, <1>1, <1>4, <2>1 DEF WireOk
<1>6. wire' # Nothing'
  BY Zenon, <1>1 DEF Nothing
<1> QED  BY Zenon, <1>1, <1>3, <1>4, <1>5, <1>6 DEF JwtInv

\* A step keeps the invariant.
LEMMA TokenStep ==
  ASSUME TokenInv, [TokensNext]_tokenVars
  PROVE  TokenInv'
<1>1. theme' = theme /\ protocol' = protocol
  BY Zenon DEF TokensNext, tokenVars, Make, Send, Exchange, AddHeader, Receive, Forward, protocol
<1> SUFFICES ASSUME protocol = "jwt", JwtInv
             PROVE  JwtInv'
  BY Zenon, <1>1 DEF TokenInv
<1>2. CASE \E job \in Jobs[theme] : Make(job)
  BY Zenon, <1>2, JwtMakeOk
<1>3. CASE \E i \in DOMAIN made, compact \in BOOLEAN : Send(i, compact)
  BY Zenon, <1>3, JwtSendOk
<1>4. CASE Exchange
  BY Zenon, <1>4, JwtExchangeOk
<1>5. CASE AddHeader
  <2>1. wire # Nothing /\ wire.text.form # "compact"
    BY Zenon, <1>5 DEF AddHeader
  <2>2. wire.text.form = "compact"
    BY <2>1 DEF JwtInv, WireOk, JwtText
  <2> QED  BY Zenon, <2>1, <2>2
<1>6. CASE Receive
  BY Zenon, <1>6, JwtReceiveOk
<1>7. CASE \E compact \in BOOLEAN : Forward(compact)
  BY Zenon, <1>7 DEF Forward
<1>8. CASE UNCHANGED tokenVars
  BY ZenonT(60), <1>8 DEF tokenVars, JwtInv, WireOk, JwtText, JwtMade, JwtJob, Nothing
<1> QED  BY Zenon, <1>2, <1>3, <1>4, <1>5, <1>6, <1>7, <1>8 DEF TokensNext

-----------------------------------------------------------------------------
(* What the parser says of a text.                                         *)

Malformed(text, standard) ==
  text.segments # 3 \/ (standard /\ \E c \in DOMAIN text.claims : text.claims[c].t # "number")
Excluded(p, alg) == p.ValidMethods # {} /\ alg \notin p.ValidMethods
Stopped(p, text, standard, keyFunc) ==
  Malformed(text, standard) \/ Excluded(p, text.alg) \/ keyFunc[text.alg].kind = "error"
TimeErrors(p, claims, now) ==
  IF p.SkipClaimsValidation THEN {} ELSE JWT!ClaimErrors(claims, p.UseJSONNumber, now)
SignatureErrors(text, key) ==
  IF ~JWT!VerifySignature(text.alg, <<text.alg, text.claims>>, text.sig, key)
  THEN {"SignatureInvalid"} ELSE {}
Judged(r, errors) == r.Errors = errors /\ r.Valid = (errors = {})

\* ParseWithClaims returns before it verifies anything ...
LEMMA ParseStops ==
  ASSUME NEW p, NEW text, NEW standard, NEW keyFunc, NEW now,
         text.alg \in JWT!Methods, Stopped(p, text, standard, keyFunc)
  PROVE  ~JWT!ParseWithClaims(p, text, standard, keyFunc, now).Valid
<1> DEFINE r == JWT!ParseWithClaims(p, text, standard, keyFunc, now)
<1>1. ASSUME NEW e, r = JWT!Failure(e)
      PROVE  ~r.Valid
  <2> HIDE DEF r
  <2> QED  BY <1>1 DEF JWT!Failure
<1>2. CASE Malformed(text, standard)
  <2>1. r = JWT!Failure("Malformed")
    BY Zenon, <1>2 DEF JWT!ParseWithClaims, Malformed
  <2> QED  BY Zenon, <1>1, <2>1
<1>3. CASE ~Malformed(text, standard) /\ Excluded(p, text.alg)
  <2>1. r = JWT!Failure("SignatureInvalid")
    BY Zenon, <1>3 DEF JWT!ParseWithClaims, Malformed, Excluded
  <2> QED  BY Zenon, <1>1, <2>1
<1>4. CASE ~Malformed(text, standard) /\ ~Excluded(p, text.alg) /\ keyFunc[text.alg].kind = "error"
  <2>1. r = JWT!Failure("Unverifiable")
    BY Zenon, <1>4 DEF JWT!ParseWithClaims, Malformed, Excluded
  <2> QED  BY Zenon, <1>1, <2>1
<1> QED  BY Zenon, <1>2, <1>3, <1>4 DEF Stopped

\* ... or collects the errors of the claims and of the signature.
LEMMA ParseJudges ==
  ASSUME NEW p, NEW text, NEW standard, NEW keyFunc, NEW now,
         text.alg \in JWT!Methods, ~Stopped(p, text, standard, keyFunc)
  PROVE  Judged(JWT!ParseWithClaims(p, text, standard, keyFunc, now),
                TimeErrors(p, text.claims, now) \cup SignatureErrors(text, keyFunc[text.alg]))
<1> DEFINE r == JWT!ParseWithClaims(p, text, standard, keyFunc, now)
           errors == TimeErrors(p, text.claims, now) \cup SignatureErrors(text, keyFunc[text.alg])
<1>1. r = [Valid |-> errors = {}, Errors |-> errors]
  BY Zenon DEF JWT!ParseWithClaims, Stopped, Malformed, Excluded, TimeErrors, SignatureErrors
<1> HIDE DEF r, errors
<1>2. r.Errors = errors /\ r.Valid = (errors = {})
  BY <1>1
<1>3. Judged(r, errors)
  BY Zenon, <1>2 DEF Judged
<1> QED  BY Zenon, <1>3 DEF r, errors

\* Without fractions that a json.Number drops, the times are judged as they stand.
LEMMA TimesJudged ==
  ASSUME NEW p, NEW claims \in ClaimSet, NEW now \in Nat,
         ~(p.UseJSONNumber /\ \E c \in DOMAIN claims : claims[c].t = "fraction")
  PROVE  TimeErrors(p, claims, now) = IF p.SkipClaimsValidation THEN {} ELSE Bits(claims, now)
BY Zenon, ClaimsJudged DEF TimeErrors

\* The text that was read.
LEMMA TokenRead ==
  ASSUME protocol = "jwt", got # Nothing, JwtInv
  PROVE  LET text == got.obj.text
         IN  /\ text.alg \in JWT!Methods /\ text.claims \in ClaimSet
             /\ \E m \in DOMAIN made : text.sig = SignResult(made[m].job).sig
             /\ got.of \in DOMAIN made
             /\ wire.exchanged = 0 => text = TokenOf(made[got.of].job)
<1> DEFINE text == got.obj.text
           sigs == {SignResult(made[m].job).sig : m \in DOMAIN made}
<1>1. WireOk /\ got.of = wire.of /\ text = wire.text
  BY Zenon DEF JwtInv
<1>2. wire.of \in DOMAIN made /\ text \in JwtText
  BY <1>1 DEF WireOk
<1>3. text \in [form : {"compact"}, segments : Int, alg : JWT!Methods, claims : ClaimSet, sig : sigs]
  BY Zenon, <1>2 DEF JwtText
<1> HIDE DEF text, sigs
<1>4. text.alg \in JWT!Methods /\ text.claims \in ClaimSet /\ text.sig \in sigs
  BY <1>3
<1>5. \E m \in DOMAIN made : text.sig = SignResult(made[m].job).sig
  BY Zenon, <1>4 DEF sigs
<1>6. wire.exchanged = 0 => text = TokenOf(made[got.of].job)
  BY Zenon, <1>1, <1>2, MadeToken DEF WireOk
<1> QED  BY Zenon, <1>1, <1>2, <1>4, <1>5, <1>6 DEF text

\* What the parser calls valid was signed with the key it got, by that method, or
\* is unsigned at the caller's wish.
LEMMA ValidWasSigned ==
  ASSUME protocol = "jwt", got # Nothing, JwtInv,
         NEW p, NEW standard, NEW keyFunc, NEW now,
         JWT!ParseWithClaims(p, got.obj.text, standard, keyFunc, now).Valid
  PROVE  LET text == got.obj.text
             key == keyFunc[text.alg]
         IN  /\ \/ text.alg = "none" /\ key.kind = "unsafeNoneMagicConstant"
                \/ \E m \in DOMAIN made : /\ made[m].job.claims = text.claims
                                          /\ made[m].job.method = text.alg /\ made[m].job.key.id = key.id
             /\ ~Excluded(p, text.alg) /\ TimeErrors(p, text.claims, now) = {}
<1> DEFINE text == got.obj.text
           key == keyFunc[text.alg]
<1>1. text.alg \in JWT!Methods /\ \E m \in DOMAIN made : text.sig = SignResult(made[m].job).sig
  BY Zenon, TokenRead
<1>2. PICK m \in DOMAIN made : text.sig = SignResult(made[m].job).sig
  BY Zenon, <1>1
<1>3. JWT!ParseWithClaims(p, text, standard, keyFunc, now).Valid
  OBVIOUS
<1> HIDE DEF text
<1>4. ~Stopped(p, text, standard, keyFunc)
  BY Zenon, <1>1, <1>3, ParseStops
<1>5. TimeErrors(p, text.claims, now) \cup SignatureErrors(text, key) = {}
  BY Zenon, <1>1, <1>3, <1>4, ParseJudges DEF Judged
<1>6. TimeErrors(p, text.claims, now) = {} /\ SignatureErrors(text, key) = {}
  BY Zenon, <1>5
<1>7. JWT!VerifySignature(text.alg, <<text.alg, text.claims>>, text.sig, key)
  BY Zenon, <1>6 DEF SignatureErrors
<1> DEFINE job == made[m].job
<1>8. job.method \in JWT!Methods /\ ~SignResult(job).err /\ text.sig = SignResult(job).sig
  BY Zenon, <1>2, MadeToken
<1> HIDE DEF key, job
<1>9. JWT!VerifySignature(text.alg, <<text.alg, text.claims>>, SignResult(job).sig, key)
  BY Zenon, <1>7, <1>8
<1>10. \/ text.alg = "none" /\ key.kind = "unsafeNoneMagicConstant"
       \/ job.claims = text.claims /\ job.method = text.alg /\ job.key.id = key.id
  BY ZenonT(60), <1>1, <1>8, <1>9, SignatureBinds
<1> QED  BY Zenon, <1>4, <1>6, <1>10 DEF text, key, job, Stopped

\* A token that arrives as it was made gets the errors of its times and no other.
LEMMA OwnJudged ==
  ASSUME protocol = "jwt", got # Nothing, JwtInv, wire.exchanged = 0,
         NEW p, NEW standard, NEW keyFunc, NEW now,
         LET text == got.obj.text
             key == keyFunc[text.alg]
         IN  /\ key.id = made[got.of].job.key.id /\ key.kind = KeyKind(text.alg) /\ ~key.priv
             /\ ~Excluded(p, text.alg)
             /\ ~(standard /\ \E c \in DOMAIN text.claims : text.claims[c].t # "number")
  PROVE  Judged(JWT!ParseWithClaims(p, got.obj.text, standard, keyFunc, now),
                TimeErrors(p, got.obj.text.claims, now))
<1> DEFINE text == got.obj.text
           job == made[got.of].job
           key == keyFunc[text.alg]
<1>1. got.of \in DOMAIN made /\ text = TokenOf(job) /\ text.alg \in JWT!Methods
  BY Zenon, TokenRead
<1>2. job.method \in JWT!Methods /\ ~SignResult(job).err
  BY Zenon, <1>1, MadeToken
<1>3. /\ key.id = job.key.id /\ key.kind = KeyKind(text.alg) /\ ~key.priv /\ ~Excluded(p, text.alg)
      /\ ~(standard /\ \E c \in DOMAIN text.claims : text.claims[c].t # "number")
  BY Zenon
<1> HIDE DEF text, job
<1>4. text.segments = 3 /\ text.alg = job.method /\ text.claims = job.claims /\ text.sig = SignResult(job).sig
  BY Zenon, <1>1 DEF TokenOf
<1>5. KeyKind(text.alg) # "error"
  BY Zenon, <1>1 DEF KeyKind, JWT!Methods
<1>6. ~Stopped(p, text, standard, keyFunc)
  BY Zenon, <1>3, <1>4, <1>5 DEF Stopped, Malformed
<1> HIDE DEF key
<1>7. JWT!VerifySignature(job.method, <<job.method, job.claims>>, SignResult(job).sig, key)
  BY Zenon, <1>2, <1>3, <1>4, OwnVerifies
<1>8. SignatureErrors(text, key) = {}
  BY Zenon, <1>4, <1>7 DEF SignatureErrors
<1>9. TimeErrors(p, text.claims, now) \cup SignatureErrors(text, key) = TimeErrors(p, text.claims, now)
  BY Zenon, <1>8
<1>10. Judged(JWT!ParseWithClaims(p, text, standard, keyFunc, now),
              TimeErrors(p, text.claims, now) \cup SignatureErrors(text, key))
  BY Zenon, <1>1, <1>6, ParseJudges DEF key
<1>11. Judged(JWT!ParseWithClaims(p, text, standard, keyFunc, now), TimeErrors(p, text.claims, now))
  BY Zenon, <1>9, <1>10
<1> QED  BY Zenon, <1>11 DEF text

-----------------------------------------------------------------------------
(* The theorems.                                                           *)

\* In every state the tokens of package jwt are made of made ones.
THEOREM TokensHold == TokensSpec => []TokenInv
<1>1. TokensInit => TokenInv
  <2> SUFFICES ASSUME TokensInit PROVE JwtInv
    BY Zenon DEF TokenInv
  <2>1. made \in Seq(JwtMade)
    BY DEF TokensInit
  <2> QED  BY Zenon, <2>1 DEF TokensInit, JwtInv
<1>2. TokenInv /\ [TokensNext]_tokenVars => TokenInv'
  BY Zenon, TokenStep
<1> QED  BY <1>1, <1>2, PTL DEF TokensSpec

\* Parser.ParseWithClaims of package jwt calls valid only what was signed with the
\* key that its caller's key function answers, and judges the times as they
\* stand: for any jobs, parsers, key functions and times, and however many parts
\* were exchanged on the way.
THEOREM ParserJudges == TokensSpec => []TokenJudged
<1>1. TokenInv => TokenJudged
  <2> SUFFICES ASSUME protocol = "jwt", got # Nothing, JwtInv,
                      NEW p \in Parsers, NEW standard \in BOOLEAN, NEW keyFunc \in KeyFuncs, NEW now \in Times
               PROVE  LET text == got.obj.text
                          r == JWT!ParseWithClaims(p, text, standard, keyFunc, now)
                          key == keyFunc[text.alg]
                          fractions == p.UseJSONNumber /\ \E c \in DOMAIN text.claims : text.claims[c].t = "fraction"
                          bits == IF p.SkipClaimsValidation THEN {} ELSE Bits(text.claims, now)
                          own == key.id = made[got.of].job.key.id /\ key.kind = KeyKind(text.alg) /\ ~key.priv
                      IN  /\ r.Valid =>
                               /\ \/ text.alg = "none" /\ key.kind = "unsafeNoneMagicConstant"
                                  \/ \E m \in DOMAIN made : /\ made[m].job.claims = text.claims
                                                            /\ made[m].job.method = text.alg /\ made[m].job.key.id = key.id
                               /\ p.ValidMethods # {} => text.alg \in p.ValidMethods
                               /\ ~fractions => bits = {}
                          /\ /\ wire.exchanged = 0 /\ own /\ (p.ValidMethods # {} => text.alg \in p.ValidMethods)
                             /\ ~fractions /\ ~(standard /\ \E c \in DOMAIN text.claims : text.claims[c].t # "number")
                             => r.Errors = bits /\ r.Valid = (bits = {})
    BY Zenon DEF TokenInv, TokenJudged
  <2> DEFINE text == got.obj.text
             r == JWT!ParseWithClaims(p, text, standard, keyFunc, now)
             fractions == p.UseJSONNumber /\ \E c \in DOMAIN text.claims : text.claims[c].t = "fraction"
             bits == IF p.SkipClaimsValidation THEN {} ELSE Bits(text.claims, now)
  <2>1. now \in Nat /\ text.claims \in ClaimSet
    BY Zenon, TimesAssumption, TokenRead
  <2>2. ~fractions => TimeErrors(p, text.claims, now) = bits
    BY Zenon, <2>1, TimesJudged
  <2>3. r.Valid => /\ \/ text.alg = "none" /\ keyFunc[text.alg].kind = "unsafeNoneMagicConstant"
                      \/ \E m \in DOMAIN made :
                           /\ made[m].job.claims = text.claims
                           /\ made[m].job.method = text.alg /\ made[m].job.key.id = keyFunc[text.alg].id
                   /\ ~Excluded(p, text.alg)
                   /\ ~fractions => bits = {}
    BY ZenonT(60), <2>2, ValidWasSigned
  <2>4. ASSUME wire.exchanged = 0, ~fractions, ~Excluded(p, text.alg),
               keyFunc[text.alg].id = made[got.of].job.key.id, keyFunc[text.alg].kind = KeyKind(text.alg),
               ~keyFunc[text.alg].priv,
               ~(standard /\ \E c \in DOMAIN text.claims : text.claims[c].t # "number")
        PROVE  r.Errors = bits /\ r.Valid = (bits = {})
    <3>1. Judged(r, TimeErrors(p, text.claims, now))
      BY Zenon, <2>4, OwnJudged
    <3>2. Judged(r, bits)
      BY Zenon, <2>2, <2>4, <3>1
    <3> QED  BY Zenon, <3>2 DEF Judged
  <2> QED  BY Zenon, <2>3, <2>4 DEF Excluded
<1> QED  BY <1>1, TokensHold, PTL

\* A token with an expiry: Validate of jose/jwt and Valid of jwt (validation.go,
\* claims.go) agree on the moment it comes into force and on the second it ends, in
\* which only jwt takes it; and a leeway moves both ends of the interval of jose/jwt:
\* for any claims, times and leeways.
THEOREM WindowsAgree == TokensSpec => []AgreedWindow
<1>1. ASSUME NEW c \in ClaimSet, NEW now \in Nat, NEW leeway \in Nat,
             c.exp.t = "number", c.exp.v # 0, c.nbf.t = "number"
      PROVE  LET claims == [Issuer |-> "", Subject |-> "", ID |-> "", Audience |-> {},
                            NotBefore |-> c.nbf.v, Expiry |-> c.exp.v]
                 at == [Issuer |-> "", Subject |-> "", ID |-> "", Audience |-> {}, Time |-> now]
             IN  ValidateWithLeeway(claims, at, leeway) <=>
                   UnixTime(c.nbf.v) - leeway <= now /\ now <= UnixTime(c.exp.v) + leeway
  <2>1. c.nbf.v \in Int /\ c.exp.v \in Int
    BY DEF ClaimSet, Claim
  <2> QED  BY <2>1 DEF ValidateWithLeeway, UnixTime
<1>2. ASSUME NEW c \in ClaimSet, NEW now \in Nat,
             c.exp.t = "number", c.exp.v # 0, c.nbf.t = "number"
      PROVE  JWT!ClaimErrors(c, FALSE, now) \ {"IssuedAt"} = {} <=>
               UnixTime(c.nbf.v) <= now /\ now < UnixTime(c.exp.v + 1)
  <2>1. c.nbf.v \in Int /\ c.exp.v \in Int
    BY DEF ClaimSet, Claim
  <2>2. JWT!ClaimErrors(c, FALSE, now) = Bits(c, now)
    BY Zenon, ClaimsJudged
  <2>3. \A bit : bit \in Bits(c, now) \ {"IssuedAt"} <=>
          \/ bit = "Expired" /\ now >= UnixTime(c.exp.v + 1)
          \/ bit = "NotValidYet" /\ c.nbf.v # 0 /\ now < UnixTime(c.nbf.v)
    BY ZenonT(60), <1>2 DEF Bits
  <2>4. now >= UnixTime(c.exp.v + 1) <=> ~(now < UnixTime(c.exp.v + 1))
    BY <2>1 DEF UnixTime
  <2>5. c.nbf.v # 0 /\ now < UnixTime(c.nbf.v) <=> ~(UnixTime(c.nbf.v) <= now)
    BY <2>1 DEF UnixTime
  <2> QED  BY Zenon, <2>2, <2>3, <2>4, <2>5
<1>3. TokenInv => AgreedWindow
  <2> SUFFICES ASSUME protocol = "jwt", got # Nothing, JwtInv
               PROVE  AgreedWindow
    BY Zenon DEF TokenInv, AgreedWindow
  <2> DEFINE c == got.obj.text.claims
             claims == [Issuer |-> "", Subject |-> "", ID |-> "", Audience |-> {},
                        NotBefore |-> c.nbf.v, Expiry |-> c.exp.v]
             At(t) == [Issuer |-> "", Subject |-> "", ID |-> "", Audience |-> {}, Time |-> t]
             begun(now) == UnixTime(c.nbf.v) <= now
             ending(now) == UnixTime(c.exp.v) < now /\ now < UnixTime(c.exp.v + 1)
  <2>1. c \in ClaimSet /\ Times \subseteq Nat /\ Leeways \subseteq Nat
    BY Zenon, TokenRead, TimesAssumption
  <2>2. ASSUME c.exp.t = "number", c.exp.v # 0, c.nbf.t = "number", NEW now \in Times
        PROVE  /\ JWT!ClaimErrors(c, FALSE, now) \ {"IssuedAt"} = {} <=>
                    ValidateWithLeeway(claims, At(now), 0) \/ (begun(now) /\ ending(now))
               /\ ending(now) => ~ValidateWithLeeway(claims, At(now), 0)
               /\ \A leeway \in Leeways : ValidateWithLeeway(claims, At(now), leeway) <=>
                    UnixTime(c.nbf.v) - leeway <= now /\ now <= UnixTime(c.exp.v) + leeway
    <3>1. now \in Nat /\ 0 \in Nat /\ \A leeway \in Leeways : leeway \in Nat
      BY <2>1
    <3>2. \A leeway \in Leeways : ValidateWithLeeway(claims, At(now), leeway) <=>
            UnixTime(c.nbf.v) - leeway <= now /\ now <= UnixTime(c.exp.v) + leeway
      BY Zenon, <1>1, <2>1, <2>2, <3>1
    <3>3. ValidateWithLeeway(claims, At(now), 0) <=>
            UnixTime(c.nbf.v) - 0 <= now /\ now <= UnixTime(c.exp.v) + 0
      BY Zenon, <1>1, <2>1, <2>2, <3>1
    <3>4. c.nbf.v \in Int /\ c.exp.v \in Int
      <4> HIDE DEF c
      <4> QED  BY <2>1 DEF ClaimSet, Claim
    <3>5. /\ UnixTime(c.nbf.v) - 0 <= now <=> UnixTime(c.nbf.v) <= now
          /\ now <= UnixTime(c.exp.v) + 0 <=> now <= UnixTime(c.exp.v)
          /\ UnixTime(c.exp.v) < now <=> ~(now <= UnixTime(c.exp.v))
          /\ now <= UnixTime(c.exp.v) => now < UnixTime(c.exp.v + 1)
      <4> HIDE DEF c
      <4> QED  BY <3>1, <3>4 DEF UnixTime
    <3>6. JWT!ClaimErrors(c, FALSE, now) \ {"IssuedAt"} = {} <=>
            UnixTime(c.nbf.v) <= now /\ now < UnixTime(c.exp.v + 1)
      BY Zenon, <1>2, <2>1, <2>2, <3>1
    <3> QED  BY Zenon, <3>2, <3>3, <3>5, <3>6
  <2> QED  BY Zenon, <2>2 DEF AgreedWindow
<1> QED  BY <1>3, TokensHold, PTL

-----------------------------------------------------------------------------
(* ID tokens.                                                              *)

Issuers == {Google, "https://op"}
Makers == {"NewVerifier", "Provider"}

Configured(c) == DOMAIN c = ConfigNames /\ \A n \in ConfigNames : "SupportedSigningAlgs" \in DOMAIN c[n]

\* A verifier from a Provider has a configuration that names algorithms.
OidcInv ==
  /\ Configured(configs)
  /\ verifiers \in Seq([keySet : KeySets, config : ConfigNames, issuer : Issuers,
                        made : Makers])
  /\ \A i \in DOMAIN verifiers : verifiers[i].made = "Provider" =>
       configs[verifiers[i].config].SupportedSigningAlgs # {}

\* Provider.Verifier's default stays, whatever verifiers are made of the same
\* configuration later (verify.go).
THEOREM ConfigurationsHold == OidcSpec => []OidcInv
<1>1. OidcInit => OidcInv
  <2> SUFFICES ASSUME OidcInit
               PROVE  OidcInv
    OBVIOUS
  <2>1. configs \in [ConfigNames -> Config] /\ verifiers = <<>>
    BY Zenon, ConfigAssumption DEF OidcInit
  <2>2. Configured(configs)
    BY <2>1 DEF Configured, Config
  <2> QED  BY <2>1, <2>2 DEF OidcInv
<1>2. OidcInv /\ [OidcNext]_oidcVars => OidcInv'
  <2> SUFFICES ASSUME OidcInv, [OidcNext]_oidcVars
               PROVE  OidcInv'
    OBVIOUS
  <2> DEFINE V == [keySet : KeySets, config : ConfigNames, issuer : Issuers,
                   made : Makers]
             New(k, c, o, by) == [keySet |-> k, config |-> c, issuer |-> o, made |-> by]
  <2>1. ASSUME NEW k \in KeySets, NEW c \in ConfigNames, NEW o \in Issuers,
               NEW by \in Makers, verifiers' = Verifier(k, c, o, by),
               Configured(configs'),
               \A n \in ConfigNames :
                 configs[n].SupportedSigningAlgs # {} => configs'[n].SupportedSigningAlgs # {},
               by = "Provider" => configs'[c].SupportedSigningAlgs # {}
        PROVE  OidcInv'
    <3> DEFINE v == New(k, c, o, by)
    <3>1. v \in V /\ v.config = c /\ v.made = by
      OBVIOUS
    <3>2. verifiers' = Append(verifiers, v)
      BY Zenon, <2>1 DEF Verifier
    <3>3. verifiers \in Seq(V)
      BY Zenon DEF OidcInv
    <3> HIDE DEF v, V
    <3>4. verifiers' \in Seq(V)
      BY <3>1, <3>2, <3>3
    <3>5. \A i \in DOMAIN verifiers' : verifiers'[i] = v \/ (i \in DOMAIN verifiers /\ verifiers'[i] = verifiers[i])
      BY <3>2, <3>3
    <3>6. \A i \in DOMAIN verifiers : verifiers[i].config \in ConfigNames
      <4>1. \A x \in V : x.config \in ConfigNames
        BY DEF V
      <4>2. \A i \in DOMAIN verifiers : verifiers[i] \in V
        BY <3>3
      <4> QED  BY Zenon, <4>1, <4>2
    <3>7. ASSUME NEW i \in DOMAIN verifiers', verifiers'[i].made = "Provider"
          PROVE  configs'[verifiers'[i].config].SupportedSigningAlgs # {}
      <4>1. CASE verifiers'[i] = v
        BY Zenon, <2>1, <3>1, <3>7, <4>1
      <4>2. CASE i \in DOMAIN verifiers /\ verifiers'[i] = verifiers[i]
        <5>1. configs[verifiers[i].config].SupportedSigningAlgs # {}
          BY Zenon, <3>7, <4>2 DEF OidcInv
        <5> QED  BY Zenon, <2>1, <3>6, <4>2, <5>1
      <4> QED  BY Zenon, <3>5, <4>1, <4>2
    <3> QED  BY Zenon, <2>1, <3>4, <3>7 DEF OidcInv, V
  <2>2. ASSUME NEW k \in KeySets, NEW c \in ConfigNames, NEW o \in Issuers, NewVerifier(k, c, o)
        PROVE  OidcInv'
    <3>1. verifiers' = Verifier(k, c, o, "NewVerifier") /\ configs' = configs
      BY Zenon, <2>2 DEF NewVerifier
    <3>2. Configured(configs')
      BY Zenon, <3>1 DEF OidcInv
    <3>3. "NewVerifier" \in Makers /\ "NewVerifier" # "Provider"
      BY Zenon DEF Makers
    <3> QED  BY Zenon, <2>1, <3>1, <3>2, <3>3
  <2>3. ASSUME NEW k \in KeySets, NEW c \in ConfigNames, NEW o \in Issuers, ProviderVerifier(k, c, o)
        PROVE  OidcInv'
    <3>1. /\ verifiers' = Verifier(k, c, o, "Provider")
          /\ configs' = [configs EXCEPT ![c].SupportedSigningAlgs = IF @ = {} THEN {"RS256"} ELSE @]
      BY ZenonT(60), <2>3 DEF ProviderVerifier
    <3>2. Configured(configs)
      BY Zenon DEF OidcInv
    <3> DEFINE old == configs[c]
               algs == IF old.SupportedSigningAlgs = {} THEN {"RS256"} ELSE old.SupportedSigningAlgs
               new == [old EXCEPT !.SupportedSigningAlgs = algs]
    <3>3. configs' = [configs EXCEPT ![c] = new]
      BY Zenon, <3>1
    <3>4. algs # {}
      BY Zenon
    <3>5. "SupportedSigningAlgs" \in DOMAIN old
      BY Zenon, <3>2 DEF Configured
    <3> HIDE DEF old, algs
    <3>6. "SupportedSigningAlgs" \in DOMAIN new /\ new.SupportedSigningAlgs = algs
      BY Zenon, <3>5
    <3> HIDE DEF new
    <3>7. /\ DOMAIN configs' = ConfigNames /\ configs'[c] = new
          /\ \A n \in ConfigNames : configs'[n] = new \/ configs'[n] = configs[n]
      BY Zenon, <3>2, <3>3 DEF Configured
    <3>8. Configured(configs')
      BY ZenonT(60), <3>2, <3>6, <3>7 DEF Configured
    <3>9. configs'[c].SupportedSigningAlgs # {}
      BY Zenon, <3>4, <3>6, <3>7
    <3>10. \A n \in ConfigNames : configs[n].SupportedSigningAlgs # {} => configs'[n].SupportedSigningAlgs # {}
      BY Zenon, <3>4, <3>6, <3>7
    <3>11. "Provider" \in Makers
      BY Zenon DEF Makers
    <3> QED  BY Zenon, <2>1, <3>1, <3>8, <3>9, <3>10, <3>11
  <2>4. CASE UNCHANGED oidcVars
    BY Zenon, <2>4 DEF oidcVars, OidcInv
  <2> QED  BY Zenon, <2>2, <2>3, <2>4 DEF OidcNext, Issuers
<1> QED  BY PTL, <1>1, <1>2 DEF OidcSpec
\* The key set accepts a token by one of its keys, and returns the payload of it.
LEMMA KeySetVerified ==
  ASSUME NEW keySet, NEW jws, ~VerifyWith(keySet, jws).err
  PROVE  \E k \in DOMAIN keySet : /\ JWS!verifySignature(jws, jws.Signatures[1], keySet[k])
                                  /\ VerifyWith(keySet, jws).payload = jws.payload
<1> DEFINE r == VerifyWith(keySet, jws)
           keyID == jws.Headers[1].KeyID
           verified == {i \in DOMAIN keySet : (keyID = "" \/ keySet[i].KeyID = keyID) /\ ~JWS!Verify(jws, keySet[i]).err}
           k == CHOOSE i \in verified : TRUE
<1>1. r = IF verified = {} THEN [err |-> TRUE, payload |-> Nil] ELSE JWS!Verify(jws, keySet[k])
  BY ZenonT(60) DEF VerifyWith
<1>2. \A i \in verified : i \in DOMAIN keySet /\ ~JWS!Verify(jws, keySet[i]).err
  BY ZenonT(60)
<1>3. ~r.err
  BY Zenon
<1> HIDE DEF r, verified
<1>4. verified # {}
  <2>1. verified = {} => r = [err |-> TRUE, payload |-> Nil]
    BY Zenon, <1>1
  <2> QED  BY <1>3, <2>1
<1>5. k \in verified
  BY Zenon, <1>4
<1>6. r = JWS!Verify(jws, keySet[k])
  BY Zenon, <1>1, <1>4
<1> HIDE DEF k
<1>7. JWS!verifySignature(jws, jws.Signatures[1], keySet[k]) /\ r.payload = jws.payload
  BY Zenon, <1>2, <1>5, <1>6, VerifyIs
<1> QED  BY Zenon, <1>2, <1>5, <1>7 DEF r

\* A slice with claims is not nil, and so is all that has its octets.
LEMMA ClaimsDetermine ==
  ASSUME NEW segment, "claims" \in DOMAIN segment, NEW payload, Octets(payload) = Octets(segment)
  PROVE  payload = segment
<1>1. "claims" \notin DOMAIN Nil /\ "claims" \notin DOMAIN None
  BY DEF Nil, None
<1>2. segment # Nil /\ segment # None
  BY Zenon, <1>1
<1>3. Octets(segment) = segment
  BY Zenon, <1>2 DEF Octets
<1> QED  BY Zenon, <1>2, <1>3 DEF Octets

LEMMA KeySetKey ==
  ASSUME NEW s \in Seq(AnyKey), NEW k \in DOMAIN s
  PROVE  s[k].kty \in KeyTypes
<1> HIDE DEF AnyKey
<1>1. s[k] \in AnyKey
  OBVIOUS
<1> QED  BY <1>1 DEF AnyKey, KeyTypes

LEMMA VerifierOf ==
  ASSUME OidcInv, NEW i \in DOMAIN verifiers
  PROVE  verifiers[i].keySet \in Seq(AnyKey)
<1> DEFINE V == [keySet : KeySets, config : ConfigNames, issuer : Issuers, made : Makers]
<1>1. verifiers \in Seq(V)
  BY Zenon DEF OidcInv
<1> HIDE DEF V
<1>2. verifiers[i] \in V
  BY <1>1
<1>3. verifiers[i].keySet \in KeySets
  BY <1>2 DEF V
<1> QED  BY Zenon, <1>3, ConfigAssumption

\* The m-th token has these claims, signed with a key and an algorithm of the
\* verifier.
MadeFor(m, v, segment) ==
  /\ made[m].job.payload = segment
  /\ \E s \in DOMAIN made[m].job.sigs :
       /\ \E k \in DOMAIN v.keySet : v.keySet[k].id = made[m].job.sigs[s].key.id
       /\ configs[v.config].SupportedSigningAlgs # {} =>
            made[m].job.sigs[s].alg \in configs[v.config].SupportedSigningAlgs

\* What IDTokenVerifier.Verify accepts is a token that one signer made.
LEMMA TokenAccepted ==
  ASSUME protocol = "jws", JwsInv, wire # Nothing, NEW v, v.keySet \in Seq(AnyKey), NEW segment, NEW now,
         Verify(v, [text |-> wire.text, segment |-> segment], now)
  PROVE  \E m \in DOMAIN made : MadeFor(m, v, segment)
<1> DEFINE t == wire.text
           raw == [text |-> t, segment |-> segment]
           obj == JWS!sanitized(t)
           sig == obj.Signatures[1]
           alg == JWS!getAlgorithm(JWS!mergedHeaders(sig))
           algs == configs[v.config].SupportedSigningAlgs
           with == VerifyWith(v.keySet, obj)
<1>1. raw.text = t /\ raw.segment = segment
  OBVIOUS
<1>2. /\ ~obj.err /\ "claims" \in DOMAIN segment /\ Len(obj.Signatures) = 1
      /\ algs # {} => obj.Headers[1].Algorithm \in algs
      /\ ~with.err /\ SamePayload(with.payload, segment)
  <2>1. Verify(v, raw, now)
    BY ZenonT(60)
  <2> HIDE DEF raw, t
  <2> QED  BY ZenonT(60), <1>1, <2>1 DEF Verify
<1>3. JwsText(t)
  BY ZenonT(60) DEF JwsInv
<1>4. 1 \in DOMAIN t.signatures /\ DOMAIN obj.Signatures = DOMAIN t.signatures /\ Numbered(obj.Signatures)
  BY ZenonT(60), <1>3, ReadOk, NumberedFirst DEF SignedObject
<1>5. t.form # "full"
  <2> HIDE DEF t, obj
  <2>1. PICK n \in Nat \ {0} : obj.Signatures = [j \in 1..n |-> obj.Signatures[j]]
    BY ZenonT(60), <1>4 DEF Numbered
  <2>2. DOMAIN obj.Signatures = 1..1
    BY <1>2, <2>1, NumberedLen
  <2> QED  BY ZenonT(60), <1>3, <1>4, <2>2 DEF JwsText
<1>6. obj.Headers[1].Algorithm = alg
  BY ZenonT(60), <1>2, <1>3, <1>4, <1>5, ReadHeader
<1>7. PICK k \in DOMAIN v.keySet : JWS!verifySignature(obj, sig, v.keySet[k]) /\ with.payload = obj.payload
  BY ZenonT(60), <1>2, KeySetVerified
<1>8. PICK m \in DOMAIN made : \E s \in DOMAIN made[m].job.sigs :
        MadeBy(m, s, v.keySet[k].id, alg, sig.protected, obj.payload)
  BY ZenonT(60), <1>3, <1>4, <1>7, KeySetKey, VerifiedWasSigned
<1>9. PICK s \in DOMAIN made[m].job.sigs : MadeBy(m, s, v.keySet[k].id, alg, sig.protected, obj.payload)
  BY ZenonT(60), <1>8
<1> HIDE DEF obj, sig, alg, with
<1>10. /\ made[m].job.sigs[s].key.id = v.keySet[k].id /\ made[m].job.sigs[s].alg = alg
       /\ Octets(made[m].job.payload) = Octets(obj.payload)
  BY ZenonT(60), <1>9 DEF MadeBy
<1>11. made[m].job.payload = segment
  BY Zenon, <1>2, <1>7, <1>10, ClaimsDetermine DEF SamePayload
<1> QED  BY ZenonT(60), <1>2, <1>6, <1>10, <1>11 DEF MadeFor

\* Whatever tokens were signed, however their parts were put together, and
\* whatever verifiers share a configuration, Verify returns claims only if a key
\* of the key set signed them, for this issuer and client, in time, and with an
\* algorithm of the configuration, if it names any; and a Provider's does (verify.go).
THEOREM IDTokensChecked == TokensSpec /\ OidcSpec => []IDTokenChecked
<1>1. SignedInv /\ OidcInv => IDTokenChecked
  <2> SUFFICES ASSUME SignedInv, OidcInv, IsIDToken, NEW i \in DOMAIN verifiers, NEW segment \in Segments, NEW now \in Times,
                      Verify(verifiers[i], [text |-> wire.text, segment |-> segment], now)
               PROVE  LET v == verifiers[i]
                          config == configs[v.config]
                      IN  \E m \in DOMAIN made :
                            LET job == made[m].job
                            IN  /\ job.payload = segment
                                /\ \E s \in DOMAIN job.sigs :
                                     /\ \E k \in DOMAIN v.keySet : v.keySet[k].id = job.sigs[s].key.id
                                     /\ v.made = "Provider" \/ config.SupportedSigningAlgs # {} =>
                                          job.sigs[s].alg \in config.SupportedSigningAlgs
                                /\ job.payload.claims.iss \in
                                     {v.issuer} \cup IF v.issuer = Google THEN {"accounts.google.com"} ELSE {}
                                /\ config.SkipClientIDCheck \/ config.ClientID \in job.payload.claims.aud
                                /\ config.SkipExpiryCheck \/ now <= UnixTime(job.payload.claims.exp)
    BY Zenon DEF IDTokenChecked
  <2> DEFINE v == verifiers[i]
             config == configs[v.config]
             raw == [text |-> wire.text, segment |-> segment]
             c == segment.claims
  <2>1. JwsInv /\ wire # Nothing /\ protocol = "jws"
    BY Zenon DEF SignedInv, JwsInv, IsIDToken
  <2>2. v.keySet \in Seq(AnyKey)
    BY Zenon, VerifierOf
  <2>3. v.made = "Provider" => config.SupportedSigningAlgs # {}
    BY Zenon DEF OidcInv
  <2>4. PICK m \in DOMAIN made : MadeFor(m, v, segment)
    BY Zenon, <2>1, <2>2, TokenAccepted
  <2>5. raw.segment = segment
    OBVIOUS
  <2>6. /\ c.iss = v.issuer \/ (v.issuer = Google /\ c.iss = "accounts.google.com")
        /\ config.SkipClientIDCheck \/ config.ClientID \in c.aud
        /\ config.SkipExpiryCheck \/ now <= UnixTime(c.exp)
    <3>1. Verify(v, raw, now)
      BY Zenon
    <3> HIDE DEF raw, v
    <3> QED  BY Zenon, <2>5, <3>1 DEF Verify, Claimed
  <2>7. c.iss \in {v.issuer} \cup IF v.issuer = Google THEN {"accounts.google.com"} ELSE {}
    <3> HIDE DEF v, c
    <3> QED  BY Zenon, <2>6
  <2> HIDE DEF v, config
  <2>8. /\ made[m].job.payload = segment
        /\ \E s \in DOMAIN made[m].job.sigs :
             /\ \E k \in DOMAIN v.keySet : v.keySet[k].id = made[m].job.sigs[s].key.id
             /\ v.made = "Provider" \/ config.SupportedSigningAlgs # {} =>
                  made[m].job.sigs[s].alg \in config.SupportedSigningAlgs
    BY ZenonT(60), <2>3, <2>4 DEF MadeFor, config
  <2> QED  BY Zenon, <2>6, <2>7, <2>8 DEF v, config
<1> QED  BY PTL, <1>1, SignaturesHold, ConfigurationsHold

-----------------------------------------------------------------------------
(* Builders.                                                               *)

\* The map of each builder holds exactly the claims it was given.
BuildersInv ==
  /\ (\E S : heap \in Seq(S)) /\ (\E S : builders \in Seq(S))
  /\ \A i \in DOMAIN builders : /\ builders[i].payload \in 0..Len(heap)
                                /\ Payload(builders[i]) = builders[i].given

\* A step leaves the builders there are, and what their maps hold, as they are.
BuildersApart ==
  \A i \in DOMAIN builders : /\ i \in DOMAIN builders' /\ builders'[i] = builders[i]
                             /\ Payload(builders[i])' = Payload(builders[i])

\* A new builder leaves the others alone, and has a map of its own or none.
LEMMA BuilderAdded ==
  ASSUME BuildersInv, NEW b, NewBuilder(b), \/ heap' = heap
                                            \/ \E m : heap' = Append(heap, m),
         b.payload \in 0..Len(heap'), Payload(b)' = b.given
  PROVE  BuildersInv' /\ BuildersApart
<1>1. PICK B : builders \in Seq(B)
  BY Zenon DEF BuildersInv
<1>2. PICK H : heap \in Seq(H)
  BY Zenon DEF BuildersInv
<1>3. /\ builders' \in Seq(B \cup {b}) /\ DOMAIN builders' = DOMAIN builders \cup {Len(builders) + 1}
      /\ builders'[Len(builders) + 1] = b /\ \A i \in DOMAIN builders : builders'[i] = builders[i]
  BY <1>1 DEF NewBuilder
<1>4. /\ \E S : heap' \in Seq(S)
      /\ Len(heap) <= Len(heap') /\ Len(heap) \in Nat /\ Len(heap') \in Nat
      /\ \A p \in 1..Len(heap) : heap'[p] = heap[p]
  <2>1. CASE heap' = heap
    BY <1>2, <2>1
  <2>2. CASE \E m : heap' = Append(heap, m)
    <3>1. PICK m : heap' = Append(heap, m)
      BY Zenon, <2>2
    <3>2. heap' \in Seq(H \cup {m})
      BY <1>2, <3>1
    <3>3. /\ Len(heap) <= Len(heap') /\ Len(heap) \in Nat /\ Len(heap') \in Nat
          /\ \A p \in 1..Len(heap) : heap'[p] = heap[p]
      BY <1>2, <3>1
    <3> QED  BY Zenon, <3>2, <3>3
  <2> QED  BY Zenon, <2>1, <2>2
<1>5. ASSUME NEW i \in DOMAIN builders
      PROVE  /\ builders[i].payload \in 0..Len(heap') /\ Payload(builders[i]) = builders[i].given
             /\ Payload(builders[i])' = Payload(builders[i])
  <2> DEFINE p == builders[i].payload
  <2>1. p \in 0..Len(heap) /\ Payload(builders[i]) = builders[i].given
    BY Zenon DEF BuildersInv
  <2>2. builders'[i] = builders[i]
    BY Zenon, <1>3
  <2> HIDE DEF p
  <2>3. p \in 0..Len(heap') /\ (p # 0 => heap'[p] = heap[p])
    BY <1>4, <2>1
  <2>4. Payload(builders[i])' = Payload(builders[i])
    BY Zenon, <2>2, <2>3 DEF Payload, p
  <2> QED  BY Zenon, <2>1, <2>3, <2>4 DEF p
<1>6. ASSUME NEW i \in DOMAIN builders'
      PROVE  /\ builders'[i].payload \in 0..Len(heap')
             /\ Payload(builders[i])' = builders'[i].given
  <2>1. CASE i \in DOMAIN builders
    BY Zenon, <1>3, <1>5, <2>1
  <2>2. CASE i = Len(builders) + 1
    <3>1. builders'[i] = b
      BY Zenon, <1>3, <2>2
    <3>2. Payload(builders[i])' = Payload(b)'
      BY Zenon, <3>1 DEF Payload
    <3> QED  BY Zenon, <3>1, <3>2
  <2> QED  BY Zenon, <1>3, <2>1, <2>2
<1>7. BuildersInv'
  <2>1. \E S : builders' \in Seq(S)
    BY Zenon, <1>3
  <2> QED  BY Zenon, <1>4, <1>6, <2>1 DEF BuildersInv
<1>8. BuildersApart
  BY Zenon, <1>3, <1>5 DEF BuildersApart
<1> QED  BY Zenon, <1>7, <1>8

\* Claims makes a builder, with a new map or with an error.
LEMMA ClaimsStep ==
  ASSUME BuildersInv, NEW i \in DOMAIN builders, NEW arg, Claims(builders[i], arg)
  PROVE  BuildersInv' /\ BuildersApart
<1> DEFINE b == builders[i]
           m == normalize(arg)
<1>1. CASE NewBuilder([payload |-> 0, err |-> TRUE, given |-> NoClaims]) /\ heap' = heap
  <2> DEFINE n == [payload |-> 0, err |-> TRUE, given |-> NoClaims]
  <2>1. n.payload = 0 /\ n.given = NoClaims
    BY Zenon
  <2>2. Payload(n)' = n.given
    BY Zenon, <2>1 DEF Payload
  <2>3. 0 \in 0..Len(heap')
    <3>1. PICK H : heap \in Seq(H)
      BY Zenon DEF BuildersInv
    <3> QED  BY <1>1, <3>1
  <2>4. NewBuilder(n)
    BY Zenon, <1>1
  <2> HIDE DEF n
  <2> QED  BY Zenon, <1>1, <2>1, <2>2, <2>3, <2>4, BuilderAdded
<1>2. CASE mergeClaims(b, m)
  <2> DEFINE all == Over(Payload(b), m)
  <2>0. PICK n : n = [payload |-> Len(heap) + 1, err |-> FALSE, given |-> Over(b.given, m)]
    BY Zenon
  <2>1. heap' = Append(heap, all) /\ NewBuilder(n)
    BY Zenon, <1>2, <2>0 DEF mergeClaims
  <2>2. Payload(b) = b.given
    BY Zenon DEF BuildersInv
  <2>3. n.payload = Len(heap) + 1 /\ n.given = all
    <3>1. n.payload = Len(heap) + 1
      BY Zenon, <2>0
    <3>2. n.given = Over(b.given, m)
      BY Zenon, <2>0
    <3> QED  BY Zenon, <2>2, <3>1, <3>2
  <2> HIDE DEF all
  <2>4. n.payload # 0 /\ n.payload \in 0..Len(heap') /\ heap'[n.payload] = all
    <3>1. PICK H : heap \in Seq(H)
      BY Zenon DEF BuildersInv
    <3> QED  BY <2>1, <2>3, <3>1
  <2>5. Payload(n)' = n.given
    BY Zenon, <2>3, <2>4 DEF Payload
  <2> QED  BY Zenon, <2>1, <2>4, <2>5, BuilderAdded
<1> QED  BY Zenon, <1>1, <1>2 DEF Claims

LEMMA BuildersStep ==
  ASSUME BuildersInv, JwtNext
  PROVE  BuildersInv' /\ BuildersApart
BY Zenon, ClaimsStep DEF JwtNext

\* The map of claims of a builder (builder.go:154) is exactly what it was given,
\* the later claims over the earlier, whatever other builders are made from it or
\* from the ones it came from.
THEOREM BuildersHold == JwtSpec => []BuildersInv
<1>1. JwtInit => BuildersInv
  <2> SUFFICES ASSUME JwtInit PROVE BuildersInv
    BY Zenon
  <2> DEFINE b == [payload |-> 0, err |-> FALSE, given |-> NoClaims]
  <2>1. heap = <<>> /\ builders = <<b>>
    BY Zenon DEF JwtInit
  <2>2. b.payload = 0 /\ b.given = NoClaims
    BY Zenon
  <2>3. Payload(b) = b.given
    BY Zenon, <2>2 DEF Payload
  <2> HIDE DEF b
  <2>4. heap \in Seq({}) /\ builders \in Seq({b}) /\ DOMAIN builders = {1} /\ builders[1] = b /\ 0 \in 0..Len(heap)
    BY <2>1
  <2> QED  BY Zenon, <2>2, <2>3, <2>4 DEF BuildersInv
<1>2. BuildersInv /\ UNCHANGED jwtVars => BuildersInv'
  BY Zenon DEF BuildersInv, jwtVars, Payload
<1>3. BuildersInv /\ [JwtNext]_jwtVars => BuildersInv'
  BY Zenon, <1>2, BuildersStep
<1> QED  BY PTL, <1>1, <1>3 DEF JwtSpec

\* No call of Claims changes a builder there is or the map it refers to: merge
\* copies before it adds (builder.go:154).
THEOREM BuildersKept == JwtSpec => [][BuildersApart]_jwtVars
<1>1. BuildersInv /\ [JwtNext]_jwtVars => [BuildersApart]_jwtVars
  BY Zenon, BuildersStep
<1> QED  BY PTL, <1>1, BuildersHold DEF JwtSpec
=============================================================================
