-------------------------------- MODULE Jose --------------------------------
(***************************************************************************)
(* What JWS and JWE of package jose share: keys and their JSON form        *)
(* (jwk.go), headers (shared.go), buffers and compression (encoding.go).   *)
(*                                                                         *)
(* Cryptography is symbolic: a signature or a ciphertext is the record of  *)
(* what went into it.  Base64 and JSON lose nothing but the difference of  *)
(* nil and empty, so a text is the record of its parts.  Byte slices are   *)
(* records: Nil, None (not nil, no bytes), a named one, or a derived one.  *)
(***************************************************************************)
EXTENDS Naturals, Sequences, FiniteSets

Nil == [b |-> "nil"]
None == [b |-> ""]
Named(n) == [b |-> n]
\* Base64 text, or a string conversion, of either gives None.
Octets(data) == IF data = Nil THEN None ELSE data

\* DEFLATE, the one algorithm; what is not the output of it is an error.
compress(data) == [deflate |-> Octets(data)]
decompress(alg, data) ==
  IF alg = "DEF" /\ "deflate" \in DOMAIN data THEN [err |-> FALSE, pt |-> data.deflate]
  ELSE [err |-> TRUE, pt |-> Nil]

\* newBuffer(nil) is a nil pointer, which the JSON leaves out.  An empty string is
\* read back as a buffer without data.
NoBuffer == [none |-> TRUE]
newBuffer(data) == IF data = Nil THEN NoBuffer ELSE [data |-> data]
bytes(buffer) == IF buffer = NoBuffer THEN Nil ELSE buffer.data
NoText == [form |-> "none"]
ThroughJSON(buffer) == IF buffer = [data |-> None] THEN [data |-> Nil] ELSE buffer

\* The index at which a loop over a sequence stops, 0 if it does at none.
FirstOf(indices) == IF indices = {} THEN 0 ELSE CHOOSE i \in indices : \A j \in indices : i <= j

-----------------------------------------------------------------------------
(* Keys.  A raw Go key, or with jwk a JSONWebKey that holds it; size is    *)
(* that of a symmetric key, crv the curve of an EC or an Ed25519 key.      *)

NoKey == [kty |-> "none"]
RawKey(kty, id, crv, priv, size) ==
  [kty |-> kty, id |-> id, crv |-> crv, priv |-> priv, size |-> size, jwk |-> FALSE, KeyID |-> ""]
AnyKey == [kty : {"RSA", "EC", "OKP", "oct"}, id : STRING, crv : STRING, priv : BOOLEAN, size : Nat,
           jwk : BOOLEAN, KeyID : STRING]
JSONWebKey(key, kid) == [key EXCEPT !.jwk = TRUE, !.KeyID = kid]
Held(key) == [key EXCEPT !.jwk = FALSE, !.KeyID = ""]
Public(key) == [key EXCEPT !.priv = FALSE]

\* Both name *ed25519.PublicKey, which no JSONWebKey holds: the key is a slice.
IsPublic(k) == ~k.priv /\ k.kty \in {"EC", "RSA"}
Valid(k) == k.kty \in {"EC", "RSA"}

\* The members of the JSON form: those of the public key, and the ones a private
\* key has besides.
PublicMembers(kty) == CASE kty = "EC" -> {"crv", "x", "y"} [] kty = "RSA" -> {"n", "e"}
                        [] kty = "OKP" -> {"crv", "x"} [] kty = "oct" -> {"k"}
PrivateMembers(kty) == CASE kty = "EC" -> {"d"} [] kty = "RSA" -> {"d", "p", "q"}
                         [] kty = "OKP" -> {"d"} [] kty = "oct" -> {}

MarshalJSON(k) ==
  [kty |-> k.kty, kid |-> k.KeyID, value |-> <<k.id, k.crv, k.size>>,
   members |-> PublicMembers(k.kty) \cup IF k.priv THEN PrivateMembers(k.kty) ELSE {}]

\* d decides whether a key is private.
UnmarshalJSON(raw) ==
  LET private == "d" \in raw.members
      needed == PublicMembers(raw.kty) \cup IF private THEN PrivateMembers(raw.kty) ELSE {}
      key == RawKey(raw.kty, raw.value[1], raw.value[2], private, raw.value[3])
  IN  [err |-> ~needed \subseteq raw.members, key |-> JSONWebKey(key, raw.kid)]

-----------------------------------------------------------------------------
(* Headers: functions from names to JSON values.  NilHeader is nil.        *)

Value(t, v, key) == [t |-> t, v |-> v, key |-> key]
Str(s) == Value("string", s, NoKey)
KeyValue(k) == Value("key", "", MarshalJSON(k))
List(name) == Value("list", name, NoKey)

NilHeader == [nil |-> Str("")]
EmptyHeader == [k \in {} |-> Str("")]
Has(h, k) == h # NilHeader /\ k \in DOMAIN h

set(h, k, v) == [x \in DOMAIN h \cup {k} |-> IF x = k THEN v ELSE h[x]]
\* Headers whose value is null, a nil pointer on which the code panics, are left out.
getString(h, k) == IF Has(h, k) /\ h[k].t = "string" THEN h[k].v ELSE ""
getAlgorithm(h) == getString(h, "alg")
getEncryption(h) == getString(h, "enc")
getCompression(h) == getString(h, "zip")
getNonce(h) == getString(h, "nonce")

\* A key of the header: missing, or not to be read.
getKey(h, k) ==
  CASE ~Has(h, k) -> [err |-> FALSE, key |-> NoKey]
    [] Has(h, k) -> IF h[k].t = "key" THEN UnmarshalJSON(h[k].key) ELSE [err |-> TRUE, key |-> NoKey]

\* Bytes of the header: missing or empty, or not base64, for which "!" stands.
getByteBuffer(h, k) ==
  CASE ~Has(h, k) -> [err |-> FALSE, data |-> Nil]
    [] Has(h, k) -> IF h[k].t # "string" \/ h[k].v = "!" THEN [err |-> TRUE, data |-> Nil]
                    ELSE [err |-> FALSE, data |-> IF h[k].v = "" THEN Nil ELSE Named(h[k].v)]

\* crit must be a list; none, and an empty one, is not critical.
getCritical(h) == IF ~Has(h, "crit") THEN [err |-> FALSE, critical |-> FALSE]
                  ELSE [err |-> h["crit"].t # "list", critical |-> h["crit"].v # ""]

\* The empty string does not count as set.
isSet(dst, k) == Has(dst, k) /\ ~(dst[k].t = "string" /\ dst[k].v = "")

merge(dst, src) ==
  IF src = NilHeader THEN dst
  ELSE [k \in DOMAIN dst \cup DOMAIN src |->
          IF isSet(dst, k) \/ k \notin DOMAIN src THEN dst[k] ELSE src[k]]

\* Entries of m replace those of h.
Over(h, m) == [k \in DOMAIN h \cup DOMAIN m |-> IF k \in DOMAIN m THEN m[k] ELSE h[k]]

\* rawHeader.sanitized: a known header of another type is an error.
sanitizedHeader(h) ==
  LET jwk == getKey(h, "jwk")
  IN  [err |-> jwk.err \/ \E k \in {"kid", "alg", "nonce"} \cap DOMAIN h : h[k].t # "string",
       KeyID |-> getString(h, "kid"), Algorithm |-> getAlgorithm(h), Nonce |-> getNonce(h),
       JSONWebKey |-> jwk.key,
       ExtraHeaders |-> [k \in DOMAIN h \ {"kid", "alg", "nonce", "jwk"} |-> h[k]]]
=============================================================================
