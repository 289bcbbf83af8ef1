------------------------------ MODULE JoseCrypt ------------------------------
(***************************************************************************)
(* JWE: encrypters and decryption (jose/crypter.go), key management and    *)
(* content ciphers of asymmetric.go and symmetric.go, serialisation and    *)
(* parsing (jwe.go).  A key is a record of what it was made from (of       *)
(* different length for keys of different origin) and its size; what is    *)
(* random is named by the number of the encryption, `seed`, and the        *)
(* recipient.                                                              *)
(***************************************************************************)
EXTENDS Jose, TLC

ContentEncryptions == {"A128GCM", "A128CBC-HS256"}
keySize(enc) == IF enc = "A128GCM" THEN 16 ELSE 32

AES == {16, 24, 32}
\* getAead: AES-GCM takes any AES key, whatever the name of the algorithm says;
\* CBC-HMAC halves the key.
getAead(enc, cek) == IF enc = "A128GCM" THEN cek.size \in AES ELSE cek.size \div 2 \in AES

Key(from, size) == [from |-> from, size |-> size]
Label(what, seed, i) == what \o ToString(<<seed, i>>)
\* DeriveECDHES, which both sides of the exchange compute; no data are empty data.
DeriveECDHES(alg, apuData, apvData, ephemeral, static, size) ==
  Key(<<alg, ephemeral, static, <<Octets(apuData), Octets(apvData)>>>>, size)

\* encrypt: iv, ciphertext and tag of one sealing.
encrypt(enc, cek, authData, plaintext, seed) ==
  LET s == [enc |-> enc, cek |-> cek, aad |-> authData, pt |-> Octets(plaintext), seed |-> seed]
  IN  [iv |-> s, ciphertext |-> s, tag |-> s]

\* decrypt.  Open appends to nil: the plaintext of nothing is nil, and no error.
\* An iv of another length, at which Open of AES-GCM panics, counts as an error.
decrypt(enc, cek, authData, parts) ==
  LET s == parts.ciphertext
  IN  IF /\ getAead(enc, cek) /\ parts.iv = s /\ parts.tag = s
         /\ s.cek = cek /\ s.aad = authData /\ s.enc = enc
      THEN [err |-> FALSE, pt |-> IF s.pt = None THEN Nil ELSE s.pt]
      ELSE [err |-> TRUE, pt |-> Nil]

-----------------------------------------------------------------------------
(* Encrypters.                                                             *)

Unsupported == [err |-> TRUE]
RecipientIf(supported, alg, key) ==
  IF supported THEN [err |-> FALSE, keyAlg |-> alg, key |-> Held(key), keyID |-> key.KeyID] ELSE Unsupported

newRSARecipient(alg, key) == RecipientIf(alg \in {"RSA1_5", "RSA-OAEP"}, alg, key)
newECDHRecipient(alg, key) == RecipientIf(alg \in {"ECDH-ES", "ECDH-ES+A128KW"}, alg, key)
newSymmetricRecipient(alg, key) == RecipientIf(alg \in {"dir", "A128GCMKW", "A128KW"}, alg, key)

\* A JSONWebKey, taken by its pointer, gives its KeyID besides.
makeJWERecipient(alg, key) ==
  CASE key.kty = "oct" -> newSymmetricRecipient(alg, key)
    [] key.kty = "RSA" /\ ~key.priv -> newRSARecipient(alg, key)
    [] key.kty = "EC" /\ ~key.priv -> newECDHRecipient(alg, key)
    [] OTHER -> Unsupported

NamedBy(info, rcpt) == IF info.err \/ rcpt.KeyID = "" THEN info ELSE [info EXCEPT !.keyID = rcpt.KeyID]

\* addRecipient: DIRECT and ECDH-ES are for one recipient only.
addRecipient(rcpt) ==
  IF rcpt.alg \in {"dir", "ECDH-ES"} THEN Unsupported
  ELSE NamedBy(makeJWERecipient(rcpt.alg, rcpt.key), rcpt)

NewEncrypter(enc, rcpt, opts) ==
  LET direct == rcpt.alg \in {"dir", "ECDH-ES"}
      info == IF direct THEN NamedBy(makeJWERecipient(rcpt.alg, rcpt.key), rcpt) ELSE addRecipient(rcpt)
  IN  [err |-> enc \notin ContentEncryptions \/ info.err, enc |-> enc, recipients |-> <<info>>,
       Compression |-> opts.Compression,
       ExtraHeaders |-> opts.ExtraHeaders]

\* The extra headers are not taken over.
NewMultiEncrypter(enc, rcpts, opts) ==
  LET infos == [i \in DOMAIN rcpts |-> addRecipient(rcpts[i])]
  IN  [err |-> enc \notin ContentEncryptions \/ rcpts = <<>> \/ \E i \in DOMAIN infos : infos[i].err,
       enc |-> enc, recipients |-> infos, Compression |-> opts.Compression, ExtraHeaders |-> EmptyHeader]

\* The ephemeral key of an exchange, as it stands in the header.
Ephemeral(seed, i, crv) == RawKey("EC", Label("epk", seed, i), crv, FALSE, 0)
epk(seed, i, crv) == set(EmptyHeader, "epk", KeyValue(Ephemeral(seed, i, crv)))

\* genKey: a key, and the header it needs.
ecGenKey(algID, key, size, seed, i) ==
  [cek |-> DeriveECDHES(algID, None, None, Ephemeral(seed, i, key.crv).id, key.id, size), header |-> epk(seed, i, key.crv)]
staticGenKey(key) == [cek |-> Key(<<key.id>>, key.size), header |-> EmptyHeader]
randomGenKey(size, seed) == [cek |-> Key(<<"cek", seed>>, size), header |-> EmptyHeader]

\* The generator NewEncrypter chooses.
genKey(ctx, seed) ==
  LET r == ctx.recipients[1]
  IN  CASE r.keyAlg = "dir" -> staticGenKey(r.key)
        [] r.keyAlg = "ECDH-ES" -> ecGenKey(ctx.enc, r.key, keySize(ctx.enc), seed, 0)
        [] r.keyAlg \notin {"dir", "ECDH-ES"} -> randomGenKey(keySize(ctx.enc), seed)

Wrapped(how, by, cek, i) == [wrap |-> how, by |-> by, cek |-> cek, i |-> i]
NoWrap == [wrap |-> ""]

recipientInfo(err, encryptedKey, header) == [err |-> err, encryptedKey |-> encryptedKey, header |-> header]

rsaEncryptKey(r, cek, name) ==
  recipientInfo(FALSE, Wrapped(r.keyAlg, Key(<<r.key.id>>, r.key.size), cek, name), EmptyHeader)

ecEncryptKey(r, cek, name, seed, i) ==
  LET kek == ecGenKey(r.keyAlg, r.key, 16, seed, i)
  IN  IF r.keyAlg = "ECDH-ES" THEN recipientInfo(FALSE, NoWrap, EmptyHeader)
      ELSE recipientInfo(FALSE, Wrapped("A128KW", kek.cek, cek, name), kek.header)

symmetricEncryptKey(r, cek, name) ==
  LET wrapped == Wrapped(r.keyAlg, Key(<<r.key.id>>, r.key.size), cek, name)
      bad == r.key.size \notin AES
  IN  CASE r.keyAlg = "dir" -> recipientInfo(FALSE, NoWrap, EmptyHeader)
        [] r.keyAlg = "A128GCMKW" ->
             recipientInfo(bad, wrapped, set(set(EmptyHeader, "iv", Str(name)), "tag", Str(name)))
        [] r.keyAlg = "A128KW" -> recipientInfo(bad, wrapped, EmptyHeader)

\* encryptKey of the i-th recipient.
encryptKey(r, cek, seed, i) ==
  LET name == Label("", seed, i)
  IN  CASE r.key.kty = "RSA" -> rsaEncryptKey(r, cek, name)
        [] r.key.kty = "EC" -> ecEncryptKey(r, cek, name, seed, i)
        [] r.key.kty = "oct" -> symmetricEncryptKey(r, cek, name)

\* A plausible slip: the additional data are left out.
HeaderOnly(obj) ==
  [protected |-> IF obj.original # NilHeader THEN obj.original ELSE obj.protected, aad |-> Nil]

\* The protected header as it was received, and the additional data unless nil.
computeAuthData(obj) ==
  [protected |-> IF obj.original # NilHeader THEN obj.original ELSE obj.protected, aad |-> obj.aad]

\* The header of a recipient: what its key needs, the algorithm, the key id.
recipientOf(info, r) ==
  LET alg == set(r.header, "alg", Str(info.keyAlg))
  IN  [r EXCEPT !.header = IF info.keyID = "" THEN alg ELSE set(alg, "kid", Str(info.keyID))]

\* The protected header.  That of a single recipient becomes part of it.
protectedOf(ctx, gen, rs) ==
  LET generated == merge(set(EmptyHeader, "enc", Str(ctx.enc)), gen.header)
      moved == IF Len(rs) = 1 THEN merge(generated, rs[1].header) ELSE generated
  IN  Over(IF ctx.Compression THEN set(moved, "zip", Str("DEF")) ELSE moved, ctx.ExtraHeaders)

sealedObject(head, parts) ==
  [err |-> head.err, protected |-> head.protected, unprotected |-> NilHeader, original |-> NilHeader,
   aad |-> head.aad, recipients |-> head.recipients,
   iv |-> parts.iv, ciphertext |-> parts.ciphertext, tag |-> parts.tag]

encryptFor(ctx, gen, rs, plaintext, aad, seed) ==
  LET head == [err |-> ~getAead(ctx.enc, gen.cek) \/ \E i \in DOMAIN rs : rs[i].err,
               protected |-> protectedOf(ctx, gen, rs), original |-> NilHeader, aad |-> aad,
               recipients |-> IF Len(rs) = 1 THEN <<[rs[1] EXCEPT !.header = NilHeader]>> ELSE rs]
  IN  sealedObject(head, encrypt(ctx.enc, gen.cek, computeAuthData(head),
                                 IF ctx.Compression THEN compress(plaintext) ELSE plaintext, seed))

encryptWith(ctx, gen, plaintext, aad, seed) ==
  LET Recipient(i) == recipientOf(ctx.recipients[i], encryptKey(ctx.recipients[i], gen.cek, seed, i))
  IN  encryptFor(ctx, gen, [i \in DOMAIN ctx.recipients |-> Recipient(i)], plaintext, aad, seed)

\* EncryptWithAuthData
Encrypt(ctx, plaintext, aad, seed) == encryptWith(ctx, genKey(ctx, seed), plaintext, aad, seed)

-----------------------------------------------------------------------------
(* Texts.                                                                  *)

rawRecipientInfo(r) == [header |-> r.header, encryptedKey |-> r.encryptedKey]

\* The additional data are not looked at, and are lost.
CompactSerialize(obj) ==
  IF Len(obj.recipients) # 1 \/ obj.unprotected # NilHeader \/ obj.protected = NilHeader
       \/ obj.recipients[1].header # NilHeader
  THEN NoText
  ELSE [form |-> "compact", protected |-> obj.protected, unprotected |-> NilHeader, aad |-> NoBuffer,
        recipients |-> <<rawRecipientInfo(obj.recipients[1])>>,
        iv |-> obj.iv, ciphertext |-> obj.ciphertext, tag |-> obj.tag]

FullSerialize(obj) ==
  [form |-> IF Len(obj.recipients) = 1 THEN "flat" ELSE "full", protected |-> obj.protected,
   unprotected |-> obj.unprotected, aad |-> ThroughJSON(newBuffer(obj.aad)),
   recipients |-> [i \in DOMAIN obj.recipients |-> rawRecipientInfo(obj.recipients[i])],
   iv |-> obj.iv, ciphertext |-> obj.ciphertext, tag |-> obj.tag]

mergedHeaders(obj, header) ==
  merge(merge(merge(EmptyHeader, obj.protected), obj.unprotected), header)

\* rawJSONWebEncryption.sanitized
sanitized(text) ==
  LET rs == text.recipients
      Header == sanitizedHeader(mergedHeaders(text, NilHeader))
      Lacking(r) == LET headers == mergedHeaders(text, r.header)
                    IN  getAlgorithm(headers) = "" \/ getEncryption(headers) = ""
  IN  [err |-> \/ getNonce(text.unprotected) # ""
               \/ Header.err
               \/ \E i \in DOMAIN rs : getNonce(rs[i].header) # "" \/ Lacking(rs[i]),
       Header |-> Header, protected |-> text.protected, unprotected |-> text.unprotected,
       original |-> text.protected, aad |-> bytes(text.aad), recipients |-> rs,
       iv |-> text.iv, ciphertext |-> text.ciphertext, tag |-> text.tag]

-----------------------------------------------------------------------------
(* Decryption.                                                             *)

newDecrypterFails(key) == ~(key.kty = "oct" \/ (key.kty \in {"RSA", "EC"} /\ key.priv))

NoCEK == [err |-> TRUE, cek |-> Key(<<>>, 0)]
Found(cek) == [err |-> FALSE, cek |-> cek]
KeyUnwrap(how, by, encryptedKey) ==
  IF encryptedKey # NoWrap /\ encryptedKey.wrap = how /\ encryptedKey.by = by
  THEN Found(encryptedKey.cek) ELSE NoCEK

\* With RSA1_5 a key that cannot be decrypted becomes a random one, without error.
rsaDecryptKey(key, alg, encryptedKey, size) ==
  LET r == KeyUnwrap(alg, Key(<<key.id>>, key.size), encryptedKey)
  IN  CASE alg = "RSA1_5" -> IF encryptedKey = NoWrap THEN NoCEK
                             ELSE IF r.err \/ r.cek.size # size THEN Found(Key(<<>>, size)) ELSE r
        [] alg = "RSA-OAEP" -> r
        [] alg \notin {"RSA1_5", "RSA-OAEP"} -> NoCEK

ecDecryptKey(key, headers, encryptedKey, size) ==
  LET alg == getAlgorithm(headers)
      eph == getKey(headers, "epk")
      apu == getByteBuffer(headers, "apu")
      apv == getByteBuffer(headers, "apv")
      Derived(id, n) == DeriveECDHES(id, apu.data, apv.data, eph.key.id, key.id, n)
  IN  CASE eph.err \/ eph.key = NoKey -> NoCEK
        [] ~(eph.err \/ eph.key = NoKey) ->
             CASE eph.key.kty # "EC" \/ eph.key.priv \/ eph.key.crv # key.crv \/ apu.err \/ apv.err -> NoCEK
               [] OTHER -> CASE alg = "ECDH-ES" -> Found(Derived(getEncryption(headers), size))
                             [] alg = "ECDH-ES+A128KW" -> KeyUnwrap("A128KW", Derived(alg, 16), encryptedKey)
                             [] alg \notin {"ECDH-ES", "ECDH-ES+A128KW"} -> NoCEK

symmetricDecryptKey(key, headers, encryptedKey) ==
  LET alg == getAlgorithm(headers)
      by == Key(<<key.id>>, key.size)
  IN  CASE alg = "dir" -> Found(by)
        [] alg \in {"A128KW", "A128GCMKW"} ->
             IF key.size \in AES /\ encryptedKey # NoWrap
                  /\ (alg = "A128GCMKW" =>
                        encryptedKey.i = getString(headers, "iv") /\ encryptedKey.i = getString(headers, "tag"))
             THEN KeyUnwrap(alg, by, encryptedKey) ELSE NoCEK
        [] alg \notin {"dir", "A128KW", "A128GCMKW"} -> NoCEK

decryptKey(key, headers, encryptedKey, size) ==
  CASE key.kty = "RSA" -> rsaDecryptKey(key, getAlgorithm(headers), encryptedKey, size)
    [] key.kty = "EC" -> ecDecryptKey(key, headers, encryptedKey, size)
    [] key.kty = "oct" -> symmetricDecryptKey(key, headers, encryptedKey)

Failed == [err |-> TRUE, pt |-> Nil]
Refuses(obj, key) ==
  LET headers == mergedHeaders(obj, NilHeader)
      crit == getCritical(headers)
  IN  crit.err \/ crit.critical \/ newDecrypterFails(key) \/ getEncryption(headers) \notin ContentEncryptions

\* What one recipient's key opens.
openWith(obj, enc, got) ==
  IF got.err THEN Failed ELSE decrypt(enc, got.cek, computeAuthData(obj), obj)
openEnc(obj, enc, r, key) ==
  openWith(obj, enc, decryptKey(key, mergedHeaders(obj, r.header), r.encryptedKey, keySize(enc)))
Opened(obj, r, key) == openEnc(obj, getEncryption(mergedHeaders(obj, NilHeader)), r, key)

\* A plausible slip: any header can say that the content is compressed.
UnzippedMerged(obj, pt) == LET zip == getCompression(mergedHeaders(obj, NilHeader))
                           IN  IF zip = "" THEN [err |-> FALSE, pt |-> pt] ELSE decompress(zip, pt)

\* zip is taken from the protected header only.
Unzipped(obj, pt) == LET zip == getCompression(obj.protected)
                     IN  IF zip = "" THEN [err |-> FALSE, pt |-> pt] ELSE decompress(zip, pt)

decrypted(obj, o) == IF o.pt = Nil THEN Failed ELSE Unzipped(obj, o.pt)
Decrypt(obj, key) ==
  IF Refuses(obj, key) \/ Len(obj.recipients) > 1 THEN Failed
  ELSE decrypted(obj, Opened(obj, obj.recipients[1], key))

\* The first recipient whose key opens it.  An error of decompress is overwritten
\* by that of the headers.
decryptedMulti(obj, i, key) ==
  IF i = 0 \/ sanitizedHeader(mergedHeaders(obj, obj.recipients[i].header)).err THEN Failed
  ELSE LET o == Opened(obj, obj.recipients[i], key)
       IN  IF o.pt = Nil THEN Failed ELSE [Unzipped(obj, o.pt) EXCEPT !.err = FALSE]
DecryptMulti(obj, key) ==
  IF Refuses(obj, key) THEN Failed
  ELSE decryptedMulti(obj, FirstOf({j \in DOMAIN obj.recipients : ~Opened(obj, obj.recipients[j], key).err}), key)
=============================================================================
