----------------------------- MODULE OidcVerify -----------------------------
(***************************************************************************)
(* IDTokenVerifier.Verify (oidc/verify.go).  A raw ID token is a JWS text  *)
(* and, beside it, the bytes of its second segment: Verify reads the claims*)
(* from that segment, and the key set verifies the text as jose reads it.  *)
(* In the compact form the two are the same; a JSON text has a second      *)
(* segment only if two dots stand in it.  The key set is the sequence of   *)
(* keys it has; how it gets them is the subject of OidcKeySet.             *)
(*                                                                         *)
(* Configurations are shared: `configs` maps each *Config to its value.    *)
(***************************************************************************)
EXTENDS JoseObjects, Integers

CONSTANTS ConfigNames, InitialConfigs, KeySets, MaxVerifiers

Config == [ClientID : STRING, SkipClientIDCheck : BOOLEAN, SkipExpiryCheck : BOOLEAN,
           SupportedSigningAlgs : SUBSET STRING]

ASSUME ConfigAssumption == InitialConfigs \subseteq [ConfigNames -> Config] /\ KeySets \subseteq Seq(AnyKey)

VARIABLES configs, verifiers

oidcVars == <<configs, verifiers>>

Google == "https://accounts.google.com"

OidcInit == configs \in InitialConfigs /\ verifiers = <<>>

Verifier(keySet, config, issuer, made) ==
  Append(verifiers, [keySet |-> keySet, config |-> config, issuer |-> issuer, made |-> made])

\* NewVerifier takes the configuration as it is.
NewVerifier(keySet, config, issuer) ==
  /\ Len(verifiers) < MaxVerifiers
  /\ verifiers' = Verifier(keySet, config, issuer, "NewVerifier")
  /\ UNCHANGED configs

\* Provider.Verifier writes the default into the configuration it was given.
ProviderVerifier(keySet, config, issuer) ==
  /\ Len(verifiers) < MaxVerifiers
  /\ verifiers' = Verifier(keySet, config, issuer, "Provider")
  /\ configs' = [configs EXCEPT ![config].SupportedSigningAlgs = IF @ = {} THEN {"RS256"} ELSE @]

OidcNext == \E keySet \in KeySets, c \in ConfigNames, issuer \in {Google, "https://op"} :
              NewVerifier(keySet, c, issuer) \/ ProviderVerifier(keySet, c, issuer)

OidcSpec == OidcInit /\ [][OidcNext]_oidcVars

\* remoteKeySet.VerifySignature with the keys at hand: those of the key id, or all.
VerifyWith(keySet, jws) ==
  LET keyID == jws.Headers[1].KeyID
      verified == {i \in DOMAIN keySet : (keyID = "" \/ keySet[i].KeyID = keyID) /\ ~JWS!Verify(jws, keySet[i]).err}
  IN  IF verified = {} THEN [err |-> TRUE, payload |-> Nil]
      ELSE JWS!Verify(jws, keySet[CHOOSE i \in verified : TRUE])

\* The claims of the second segment.
Claimed(raw) == raw.segment.claims

\* A plausible slip: the two payloads are not compared.
AnyPayload(got, segment) == TRUE
SamePayload(got, segment) == Octets(got) = Octets(segment)

Verify(v, raw, now) ==
  LET jws == JWS!sanitized(raw.text)
      config == configs[v.config]
      t == Claimed(raw)
      got == VerifyWith(v.keySet, jws)
  IN  /\ ~jws.err
      /\ "claims" \in DOMAIN raw.segment
      /\ t.iss = v.issuer \/ (v.issuer = Google /\ t.iss = "accounts.google.com")
      /\ ~config.SkipClientIDCheck => config.ClientID # "" /\ config.ClientID \in t.aud
      /\ ~config.SkipExpiryCheck => now <= UnixTime(t.exp)
      /\ Len(jws.Signatures) = 1
      /\ config.SupportedSigningAlgs # {} => jws.Headers[1].Algorithm \in config.SupportedSigningAlgs
      /\ ~got.err
      /\ SamePayload(got.payload, raw.segment)
=============================================================================
