------------------------------ MODULE MCTokens ------------------------------
(***************************************************************************)
(* Token instances for TLC.  Each theme is a family of inputs; the themes  *)
(* are explored one beside the other.                                      *)
(***************************************************************************)
EXTENDS TokenProps, JoseCipher, SequencesExt, Bitwise

-----------------------------------------------------------------------------
(* Keys.                                                                   *)

rsa == RawKey("RSA", "rsa", "", TRUE, 256)
rsa2 == RawKey("RSA", "rsa2", "", TRUE, 256)
ec == RawKey("EC", "ec", "P-256", TRUE, 0)
ec384 == RawKey("EC", "ec384", "P-384", TRUE, 0)
ed == RawKey("OKP", "ed", "Ed25519", TRUE, 0)
oct == RawKey("oct", "oct", "", FALSE, 32)
oct16 == RawKey("oct", "oct16", "", FALSE, 16)
oct20 == RawKey("oct", "oct20", "", FALSE, 20)

-----------------------------------------------------------------------------
(* Jobs of JWS.                                                            *)

By(alg, key) == [alg |-> alg, key |-> key]
Opts(embed, nonce, extra) == [EmbedJWK |-> embed, nonce |-> nonce, ExtraHeaders |-> extra]
SignJob(sigs, opts, payload) == [sigs |-> sigs, opts |-> opts, payload |-> payload]
OneSig == {<<By(a, k)>> : a \in {"RS256", "PS256", "ES256", "ES384", "EdDSA", "HS256"},
             k \in {rsa, JSONWebKey(rsa, "1"), JSONWebKey(ec, "2"), ec384, ed, JSONWebKey(ed, "3"),
                    oct, JSONWebKey(oct, "4"), Public(ec)}}
TwoSigs == {<<By("RS256", rsa), By("HS256", oct)>>, <<By("HS256", oct), By("ES256", JSONWebKey(ec, "2"))>>,
            <<By("PS256", rsa), By("RS256", rsa)>>, <<By("RS256", rsa), By("RS256", rsa2)>>}
ExtraHeaderSets == {EmptyHeader, [kid |-> Str("x")], [crit |-> List("x")], [crit |-> List("")],
                    [crit |-> Str("x")], [nonce |-> Str("m")]}
SignOpts == {Opts(e, n, EmptyHeader) : e \in BOOLEAN, n \in {"none", "n", "error"}}
              \cup {Opts(FALSE, "none", x) : x \in ExtraHeaderSets}
SignJobs == {SignJob(s, o, Named("p")) : s \in OneSig \cup TwoSigs, o \in SignOpts}
              \cup {SignJob(s, Opts(TRUE, "none", EmptyHeader), p) : s \in OneSig \cup TwoSigs, p \in {Nil, None}}

\* Two messages whose parts may be exchanged: same key, same payload, other nonce...
PairJobs == {SignJob(s, Opts(FALSE, n, EmptyHeader), Named(p)) :
               s \in {<<By("HS256", oct)>>, <<By("RS256", rsa), By("HS256", oct)>>},
               n \in {"n", "m"}, p \in {"p", "q"}}

-----------------------------------------------------------------------------
(* Jobs of JWE.                                                            *)

For(alg, key, kid) == [alg |-> alg, key |-> key, KeyID |-> kid]
EncOpts(zip, extra) == [Compression |-> zip, ExtraHeaders |-> extra]
SealJob(enc, rcpts, multi, opts, pt, aad) ==
  [enc |-> enc, rcpts |-> rcpts, multi |-> multi, opts |-> opts, plaintext |-> pt, aad |-> aad]
RSAFor == {For(a, Public(rsa), "") : a \in {"RSA1_5", "RSA-OAEP"}} \cup {For("RSA1_5", Public(rsa2), "r")}
ECFor == {For(a, k, "") : a \in {"ECDH-ES", "ECDH-ES+A128KW"},
                          k \in {JSONWebKey(Public(ec), "2"), Public(ec384)}}
OctFor == {For(a, k, "o") : a \in {"dir", "A128KW", "A128GCMKW"}, k \in {oct, oct16, oct20}}
Singles == {<<r>> : r \in RSAFor \cup ECFor \cup OctFor}
Pairs == {<<For("RSA1_5", Public(rsa2), "r"), For("RSA1_5", Public(rsa), "")>>,
          <<For("ECDH-ES+A128KW", Public(ec), "e"), For("ECDH-ES+A128KW", Public(ec384), "")>>,
          <<For("A128GCMKW", oct, ""), For("RSA-OAEP", Public(rsa), "r")>>,
          <<For("A128KW", oct16, ""), For("A128KW", oct, "o")>>,
          <<For("dir", oct, ""), For("A128KW", oct16, "")>>}
Plain == {Nil, None, Named("p")}
SealExtra == {[crit |-> List("x")], [cty |-> Str("JWT")], [apu |-> Str("u")], [alg |-> Str("dir")]}
SealJobs ==
  {SealJob(enc, r, FALSE, EncOpts(zip, EmptyHeader), pt, aad) :
     enc \in {"A128GCM", "A128CBC-HS256"}, r \in Singles, zip \in BOOLEAN,
     pt \in {None, Named("p")}, aad \in {Nil, Named("a")}}
    \cup {SealJob("A128GCM", r, FALSE, EncOpts(FALSE, x), Named("p"), Nil) : r \in Singles, x \in SealExtra}
    \cup {SealJob("A128GCM", r, TRUE, EncOpts(zip, EmptyHeader), pt, aad) :
            r \in {<<f>> : f \in ECFor} \cup Pairs, zip \in BOOLEAN, pt \in Plain, aad \in {Nil, None, Named("a")}}
SealPairs ==
  {SealJob("A128GCM", r, FALSE, EncOpts(zip, EmptyHeader), Named(pt), aad) :
     r \in {<<For("dir", oct16, "")>>, <<For("ECDH-ES", Public(ec), "")>>, <<For("RSA1_5", Public(rsa), "r")>>},
     zip \in {FALSE}, pt \in {"p", "q"}, aad \in {Named("a")}}
    \cup {SealJob("A128GCM", r, TRUE, EncOpts(TRUE, EmptyHeader), Named("p"), Named("b")) :
            r \in {<<For("A128GCMKW", oct16, ""), For("RSA1_5", Public(rsa), "r")>>}}

-----------------------------------------------------------------------------
(* Jobs of package jwt.                                                    *)

JwtKey(kind, id, priv) == [kind |-> kind, id |-> id, priv |-> priv]
NoneKey == JwtKey("unsafeNoneMagicConstant", "none", FALSE)
Number0(t, v) == [t |-> t, v |-> v]
ClaimSets == {[exp |-> Number0("number", e), iat |-> Number0("number", i), nbf |-> Number0("number", n)] :
                e \in 0..4, i \in {0, 3}, n \in {0, 2, 4}}
               \cup {[exp |-> Number0(t, 3), iat |-> Number0("number", 0), nbf |-> Number0("number", 1)] :
                       t \in {"fraction", "text"}}
SignableKeys == {JwtKey("bytes", "b", FALSE), JwtKey("rsa", "r", TRUE), JwtKey("ecdsa", "e", TRUE),
                 JwtKey("rsa", "s", TRUE), JwtKey("rsa", "r", FALSE), NoneKey}
JwtJobs == {[method |-> m, claims |-> c, key |-> k] :
              m \in {"HS256", "RS256", "PS256", "ES256", "none"}, c \in ClaimSets, k \in SignableKeys}
JwtPairs == {[method |-> m, claims |-> [exp |-> Number0("number", e), iat |-> Number0("number", 0),
                                        nbf |-> Number0("number", 0)], key |-> k] :
               m \in {"HS256", "RS256", "PS256", "none"}, e \in {2, 3},
               k \in {JwtKey("bytes", "b", FALSE), JwtKey("rsa", "r", TRUE), JwtKey("rsa", "s", TRUE), NoneKey}}

-----------------------------------------------------------------------------
(* ID tokens.                                                              *)

IDClaims(iss, aud) == [claims |-> [iss |-> iss, aud |-> {aud}, exp |-> 1]]
IDJobs == {SignJob(<<By(k[1], k[2])>>, Opts(FALSE, "none", EmptyHeader), p) :
             k \in {<<"RS256", JSONWebKey(rsa, "1")>>, <<"ES256", JSONWebKey(ec, "2")>>, <<"RS256", rsa2>>},
             p \in {IDClaims("https://op", "client"), IDClaims("accounts.google.com", "other")}}
            \ {SignJob(<<By("ES256", JSONWebKey(ec, "2"))>>, Opts(FALSE, "none", EmptyHeader),
                        IDClaims("accounts.google.com", "other")),
               SignJob(<<By("RS256", rsa2)>>, Opts(FALSE, "none", EmptyHeader),
                        IDClaims("https://op", "client"))}

-----------------------------------------------------------------------------
(* The constants.                                                          *)

MCThemes == {"sign", "exchange", "seal", "splice", "jwt", "jwtpair", "builder", "idtoken", "cipher"}
MCProtocol == [t \in MCThemes |-> CASE t \in {"sign", "exchange", "idtoken", "builder", "cipher"} -> "jws"
                                    [] t \in {"seal", "splice"} -> "jwe" [] t \in {"jwt", "jwtpair"} -> "jwt"]
MCJobs == [t \in MCThemes |->
             CASE t = "sign" -> SignJobs [] t = "exchange" -> PairJobs [] t = "seal" -> SealJobs
               [] t = "splice" -> SealPairs [] t = "jwt" -> JwtJobs [] t = "jwtpair" -> JwtPairs
               [] t \in {"builder", "cipher"} -> {} [] t = "idtoken" -> IDJobs]
MCMaxMade == [t \in MCThemes |-> IF t \in {"exchange", "splice", "jwtpair", "idtoken"} THEN 2 ELSE 1]
MCUnprotected == [t \in MCThemes |->
                    CASE t = "idtoken" -> {[kid |-> Str("1")]}
                      [] t = "exchange" -> {[alg |-> Str("RS256")], [nonce |-> Str("u")]}
                      [] t = "splice" -> {[alg |-> Str("HS256")], [zip |-> Str("DEF")]}
                      [] t = "seal" -> {[kid |-> Str("u")], [kid |-> List("u")], [alg |-> Str("HS256")],
                                        [zip |-> Str("DEF")], [nonce |-> Str("u")], [apu |-> Str("u")],
                                        [apv |-> Str("!")], [epk |-> KeyValue(Public(ec))], [iv |-> Str("u")],
                                        [crit |-> List("x")]}
                      [] OTHER -> {[kid |-> Str("u")], [alg |-> Str("HS256")], [nonce |-> Str("u")]}]

MCParsers == {[SkipClaimsValidation |-> s, UseJSONNumber |-> u, ValidMethods |-> v] :
                s \in BOOLEAN, u \in BOOLEAN, v \in {{}, {"HS256"}}}
Answers(bytes0, rsaKey, none) == [HS256 |-> bytes0, RS256 |-> rsaKey, PS256 |-> rsaKey,
                                  ES256 |-> JwtKey("ecdsa", "e", FALSE), none |-> none]
NoAnswer == JwtKey("error", "", FALSE)
\* A key for each method; the same RSA key whatever the method; the constant.
MCKeyFuncs == {Answers(JwtKey("bytes", "b", FALSE), JwtKey("rsa", "r", FALSE), NoAnswer),
               [m \in {"HS256", "RS256", "PS256", "ES256", "none"} |-> JwtKey("rsa", "r", FALSE)],
               Answers(NoAnswer, NoAnswer, NoneKey)}
MCTimes == {500 * n : n \in 0..11}
MCLeeways == {0, 500, 1000, 2000}
MCSigners == {[sigs |-> s, opts |-> Opts(FALSE, "none", EmptyHeader)] :
                s \in {<<By("RS256", rsa)>>, <<By("HS256", oct)>>}}
MCEncrypters == {[enc |-> "A128GCM", rcpt |-> For("dir", oct16, ""), opts |-> EncOpts(TRUE, EmptyHeader)],
                 [enc |-> "A128CBC-HS256", rcpt |-> For("RSA-OAEP", Public(rsa), ""),
                  opts |-> EncOpts(FALSE, [cty |-> Str("JWT")])]}
MCClaimArgs == {[kind |-> "map", claims |-> [a |-> "1"]], [kind |-> "map", claims |-> [a |-> "2", b |-> ""]],
                [kind |-> "struct", claims |-> [a |-> "", b |-> "3"]],
                [kind |-> "map", claims |-> [a |-> Unencodable]], [kind |-> "struct", claims |-> [b |-> Unencodable]],
                [kind |-> "other", claims |-> NoClaims]}
MCConfigNames == {"config"}
MCConfig(skip, algs) == [config |-> [ClientID |-> "client", SkipClientIDCheck |-> skip, SkipExpiryCheck |-> skip,
                                     SupportedSigningAlgs |-> algs]]
MCInitialConfigs == {MCConfig(FALSE, {}), MCConfig(TRUE, {"RS256"})}
MCKeySets == {<<JSONWebKey(Public(rsa), "1"), JSONWebKey(Public(ec), "2")>>}

MCPlaintexts == BoundedSeq({0, 2}, 4)
MCData == BoundedSeq({0, 1}, 3)
MCNonces == {<<0, 0>>, <<1, 3>>}
MCWrapKeys == BoundedSeq({0, 7, 15}, 3)
MCUnit == 0..15

\* Ciphers: permutations of blocks of 2 numbers of 0..3, and of pairs of units.
XorBlock(a, b) == [j \in 1..BlockSize |-> a[j] ^^ b[j]]
MCBlockEncrypt(b) == [j \in 1..BlockSize |-> (b[BlockSize + 1 - j] + j) % 4]
MCBlockDecrypt(b) == [j \in 1..BlockSize |-> (b[BlockSize + 1 - j] + j - BlockSize - 1) % 4]
BlockAt(s, n) == SubSeq(s, (n - 1) * BlockSize + 1, n * BlockSize)
MCCBCEncrypt(iv, s) ==
  LET out[n \in 0..(Len(s) \div BlockSize)] ==
        IF n = 0 THEN iv ELSE MCBlockEncrypt(XorBlock(BlockAt(s, n), out[n - 1]))
  IN  FlattenSeq([n \in 1..(Len(s) \div BlockSize) |-> out[n]])
MCCBCDecrypt(iv, s) ==
  FlattenSeq([n \in 1..(Len(s) \div BlockSize) |->
                XorBlock(MCBlockDecrypt(BlockAt(s, n)), IF n = 1 THEN iv ELSE BlockAt(s, n - 1))])
MCPairEncrypt(b) == <<b[2], (b[1] + 3 * b[2] + 1) % 16>>
MCPairDecrypt(b) == <<(b[2] - 3 * b[1] - 1) % 16, b[1]>>
MCXorCount(a, t) == a ^^ (t % 16)

-----------------------------------------------------------------------------
vars == <<tokenVars, jwtVars, oidcVars, cipherVars>>

MCInit == /\ TokensInit /\ JwtInit /\ OidcInit /\ CipherInit
          /\ theme # "idtoken" => configs = MCConfig(FALSE, {})

\* Verifiers are made before tokens come.
MCNext ==
  \/ TokensNext /\ UNCHANGED <<jwtVars, oidcVars, cipherVars>>
  \/ theme = "builder" /\ JwtNext /\ UNCHANGED <<tokenVars, oidcVars, cipherVars>>
  \/ theme = "idtoken" /\ made = <<>> /\ OidcNext /\ UNCHANGED <<tokenVars, jwtVars, cipherVars>>
  \/ theme = "cipher" /\ CipherNext /\ UNCHANGED <<tokenVars, jwtVars, oidcVars>>

MCSpec == MCInit /\ [][MCNext]_vars
=============================================================================
