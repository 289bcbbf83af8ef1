----------------------------- MODULE JweProofs -----------------------------
(***************************************************************************)
(* Sealed objects: that what Decrypt and DecryptMulti return was sealed    *)
(* for that key, with the header and the data that are shown, for any jobs,*)
(* keys and headers and any number of exchanged parts; and, with the       *)
(* theorem on signed ones, that whatever is accepted was made.             *)
(***************************************************************************)
EXTENDS JwsProofs

Direct == {"dir", "ECDH-ES"}

\* What a key is made from: a key of a recipient, or the number of an encryption.
FromKey(from, id) == from = <<id>> \/ \E alg, ephemeral, parties : from = <<alg, ephemeral, id, parties>>
FromSeed(from, seed) == from = <<"cek", seed>>

\* A key, wrapped or not, and a ciphertext that some encrypter made.
MadeWrapping(key) ==
  \E m \in DOMAIN made : \E i \in DOMAIN made[m].obj.recipients : key = made[m].obj.recipients[i].encryptedKey
MadeCiphertext(c) == \E m \in DOMAIN made : c = made[m].obj.ciphertext

RecipientPart(r) == DOMAIN r = {"header", "encryptedKey"} /\ MadeWrapping(r.encryptedKey)
JweText(t) ==
  /\ DOMAIN t = {"form", "protected", "unprotected", "aad", "recipients", "iv", "ciphertext", "tag"}
  /\ Numbered(t.recipients) /\ \A j \in DOMAIN t.recipients : RecipientPart(t.recipients[j])
  /\ MadeCiphertext(t.ciphertext)

\* An object all of whose parts some encrypter made.
SealedObject(obj) ==
  /\ Numbered(obj.recipients) /\ \A i \in DOMAIN obj.recipients : MadeWrapping(obj.recipients[i].encryptedKey)
  /\ MadeCiphertext(obj.ciphertext)

\* The m-th object is that of its job and of the m-th encryption.
SealedEntry(m) ==
  made[m].job \in Jobs[theme] /\ ~made[m].obj.err /\ made[m].obj = SealedBy(made[m].job, m)

IsSequence(s) == s \in Seq({s[m] : m \in DOMAIN s})
JweInv ==
  /\ theme \in Themes /\ IsSequence(made) /\ \A m \in DOMAIN made : SealedEntry(m)
  /\ wire # Nothing => JweText(wire.text)
  /\ got # Nothing => wire # Nothing /\ got.obj = JWE!sanitized(wire.text)

SealedInv == protocol = "jwe" => JweInv

-----------------------------------------------------------------------------
(* Keys.                                                                   *)

\* What a key was made from tells whose it is ...
LEMMA FromOneKey ==
  ASSUME NEW from, NEW id1, NEW id2, FromKey(from, id1), FromKey(from, id2)
  PROVE  id1 = id2
BY DEF FromKey

LEMMA FromOneSeed ==
  ASSUME NEW from, NEW seed1, NEW seed2, FromSeed(from, seed1), FromSeed(from, seed2)
  PROVE  seed1 = seed2
BY DEF FromSeed

\* ... and that it is one or the other, or no key of an encrypter.
LEMMA FromOther ==
  ASSUME NEW from, NEW id, NEW seed
  PROVE  /\ ~(FromKey(from, id) /\ FromSeed(from, seed))
         /\ FromKey(from, id) => from # <<>>
         /\ FromSeed(from, seed) => from # <<>>
BY DEF FromKey, FromSeed

\* An encrypter's recipient is that of its algorithm and key.
Recipient(r, alg, key) ==
  /\ DOMAIN r = {"err", "keyAlg", "key", "keyID"}
  /\ r.keyAlg = alg /\ r.key.id = key.id
  /\ \/ r.key.kty = "oct" /\ alg \in {"dir", "A128GCMKW", "A128KW"}
     \/ r.key.kty = "RSA" /\ alg \in {"RSA1_5", "RSA-OAEP"}
     \/ r.key.kty = "EC" /\ alg \in {"ECDH-ES", "ECDH-ES+A128KW"}

Plain(r, alg, key) ==
  /\ DOMAIN r = {"err", "keyAlg", "key", "keyID"}
  /\ r.keyAlg = alg /\ r.key.id = key.id /\ r.key.kty = key.kty

LEMMA RecipientIfIs ==
  ASSUME NEW supported, NEW alg, NEW key \in AnyKey, ~JWE!RecipientIf(supported, alg, key).err
  PROVE  supported /\ Plain(JWE!RecipientIf(supported, alg, key), alg, key)
<1> DEFINE r == JWE!RecipientIf(supported, alg, key)
           held == JWE!Held(key)
<1>1. held.id = key.id /\ held.kty = key.kty
  BY DEF JWE!Held, AnyKey
<1>2. r = IF supported THEN [err |-> FALSE, keyAlg |-> alg, key |-> held, keyID |-> key.KeyID]
          ELSE [err |-> TRUE]
  BY Zenon DEF JWE!RecipientIf, JWE!Unsupported
<1>3. ~r.err
  BY Zenon
<1> HIDE DEF r, held
<1>4. supported
  BY <1>2, <1>3
<1>5. DOMAIN r = {"err", "keyAlg", "key", "keyID"} /\ r.keyAlg = alg /\ r.key = held
  BY <1>2, <1>4
<1> QED  BY Zenon, <1>1, <1>4, <1>5 DEF r, Plain

LEMMA MadeRecipient ==
  ASSUME NEW alg, NEW key \in AnyKey, ~JWE!makeJWERecipient(alg, key).err
  PROVE  Recipient(JWE!makeJWERecipient(alg, key), alg, key)
<1> DEFINE r == JWE!makeJWERecipient(alg, key)
<1>1. CASE key.kty = "oct"
  <2> DEFINE supported == alg \in {"dir", "A128GCMKW", "A128KW"}
  <2>1. r = JWE!RecipientIf(supported, alg, key)
    BY Zenon, <1>1 DEF JWE!makeJWERecipient, JWE!newSymmetricRecipient
  <2> HIDE DEF supported
  <2>2. ~JWE!RecipientIf(supported, alg, key).err
    BY Zenon, <2>1
  <2>3. Plain(r, alg, key) /\ supported
    BY <2>1, <2>2, RecipientIfIs
  <2> QED  BY Zenon, <1>1, <2>3 DEF Plain, Recipient, supported
<1>2. CASE key.kty = "RSA" /\ ~key.priv
  <2> DEFINE supported == alg \in {"RSA1_5", "RSA-OAEP"}
  <2>1. r = JWE!RecipientIf(supported, alg, key)
    BY Zenon, <1>2 DEF JWE!makeJWERecipient, JWE!newRSARecipient
  <2> HIDE DEF supported
  <2>2. ~JWE!RecipientIf(supported, alg, key).err
    BY Zenon, <2>1
  <2>3. Plain(r, alg, key) /\ supported
    BY <2>1, <2>2, RecipientIfIs
  <2> QED  BY Zenon, <1>2, <2>3 DEF Plain, Recipient, supported
<1>3. CASE key.kty = "EC" /\ ~key.priv
  <2> DEFINE supported == alg \in {"ECDH-ES", "ECDH-ES+A128KW"}
  <2>1. r = JWE!RecipientIf(supported, alg, key)
    BY Zenon, <1>3 DEF JWE!makeJWERecipient, JWE!newECDHRecipient
  <2> HIDE DEF supported
  <2>2. ~JWE!RecipientIf(supported, alg, key).err
    BY Zenon, <2>1
  <2>3. Plain(r, alg, key) /\ supported
    BY <2>1, <2>2, RecipientIfIs
  <2> QED  BY Zenon, <1>3, <2>3 DEF Plain, Recipient, supported
<1>4. CASE ~(key.kty = "oct" \/ (key.kty = "RSA" /\ ~key.priv) \/ (key.kty = "EC" /\ ~key.priv))
  <2>1. r = [err |-> TRUE]
    BY Zenon, <1>4 DEF JWE!makeJWERecipient, JWE!Unsupported
  <2>2. ~r.err
    BY Zenon
  <2> HIDE DEF r
  <2> QED  BY <2>1, <2>2
<1> QED  BY Zenon, <1>1, <1>2, <1>3, <1>4

\* A key id of the arguments changes nothing else.
LEMMA NamedRecipient ==
  ASSUME NEW alg, NEW key, NEW rcpt, NEW info, ~JWE!NamedBy(info, rcpt).err,
         ~info.err => Recipient(info, alg, key)
  PROVE  Recipient(JWE!NamedBy(info, rcpt), alg, key)
<1> DEFINE r == JWE!NamedBy(info, rcpt)
<1>1. r = (IF info.err \/ rcpt.KeyID = "" THEN info ELSE [info EXCEPT !.keyID = rcpt.KeyID]) /\ ~r.err
  BY Zenon DEF JWE!NamedBy
<1>2. ~info.err
  BY Zenon, <1>1
<1>3. Recipient(info, alg, key)
  BY Zenon, <1>2
<1> HIDE DEF r
<1>4. CASE r = info
  BY Zenon, <1>3, <1>4 DEF r
<1>5. CASE r = [info EXCEPT !.keyID = rcpt.KeyID]
  <2>1. DOMAIN info = {"err", "keyAlg", "key", "keyID"}
    BY Zenon, <1>3 DEF Recipient
  <2>2. DOMAIN r = DOMAIN info /\ r.keyAlg = info.keyAlg /\ r.key = info.key
    BY <1>5, <2>1
  <2> QED  BY Zenon, <1>3, <2>2 DEF Recipient, r
<1> QED  BY Zenon, <1>1, <1>4, <1>5

\* addRecipient refuses the algorithms for one recipient.
LEMMA AddedRecipient ==
  ASSUME NEW rcpt, rcpt.key \in AnyKey, ~JWE!addRecipient(rcpt).err
  PROVE  rcpt.alg \notin Direct /\ Recipient(JWE!addRecipient(rcpt), rcpt.alg, rcpt.key)
<1> DEFINE r == JWE!addRecipient(rcpt)
           info == JWE!makeJWERecipient(rcpt.alg, rcpt.key)
<1>1. r = (IF rcpt.alg \in Direct THEN [err |-> TRUE] ELSE JWE!NamedBy(info, rcpt)) /\ ~r.err
  BY Zenon DEF JWE!addRecipient, JWE!Unsupported, Direct
<1>2. ~info.err => Recipient(info, rcpt.alg, rcpt.key)
  BY Zenon, MadeRecipient
<1> HIDE DEF r, info
<1>3. rcpt.alg \notin Direct
  BY <1>1
<1>4. r = JWE!NamedBy(info, rcpt) /\ ~JWE!NamedBy(info, rcpt).err
  BY Zenon, <1>1, <1>3
<1>5. Recipient(r, rcpt.alg, rcpt.key)
  BY Zenon, <1>2, <1>4, NamedRecipient
<1> QED  BY Zenon, <1>3, <1>5 DEF r

LEMMA EncrypterArg ==
  ASSUME NEW s \in EncrypterArgs
  PROVE  /\ Len(s) \in Nat \ {0} /\ DOMAIN s = 1..Len(s) /\ 1 \in DOMAIN s /\ s # <<>>
         /\ \A i \in DOMAIN s : s[i].key \in AnyKey
<1> DEFINE T == [alg : STRING, key : AnyKey, KeyID : STRING]
<1>1. s \in Seq(T) /\ s # <<>>
  BY Zenon DEF EncrypterArgs
<1>2. \A x \in T : x.key \in AnyKey
  OBVIOUS
<1> HIDE DEF T
<1>3. Len(s) \in Nat \ {0} /\ DOMAIN s = 1..Len(s) /\ 1 \in DOMAIN s
  BY <1>1
<1>4. \A i \in DOMAIN s : s[i] \in T
  BY <1>1
<1> QED  BY Zenon, <1>1, <1>2, <1>3, <1>4

\* The encrypter of a job: its recipients are those of the job, and if one of
\* them gets a wrapped key the first one does.
Context(job, ctx) ==
  /\ ctx.Compression = job.opts.Compression /\ "zip" \notin DOMAIN ctx.ExtraHeaders
  /\ Numbered(ctx.recipients)
  /\ \A i \in DOMAIN ctx.recipients :
       /\ i \in DOMAIN job.rcpts
       /\ Recipient(ctx.recipients[i], job.rcpts[i].alg, job.rcpts[i].key)
       /\ job.rcpts[i].alg \notin Direct => job.rcpts[1].alg \notin Direct

LEMMA SingleContext ==
  ASSUME NEW job, job.rcpts \in EncrypterArgs, "zip" \notin DOMAIN job.opts.ExtraHeaders,
         ~JWE!NewEncrypter(job.enc, job.rcpts[1], job.opts).err
  PROVE  Context(job, JWE!NewEncrypter(job.enc, job.rcpts[1], job.opts))
<1> DEFINE rcpt == job.rcpts[1]
           ctx == JWE!NewEncrypter(job.enc, rcpt, job.opts)
           named == JWE!NamedBy(JWE!makeJWERecipient(rcpt.alg, rcpt.key), rcpt)
           info == IF rcpt.alg \in Direct THEN named ELSE JWE!addRecipient(rcpt)
<1>1. 1 \in DOMAIN job.rcpts /\ rcpt.key \in AnyKey
  BY Zenon, EncrypterArg
<1>2. ctx = [err |-> job.enc \notin JWE!ContentEncryptions \/ info.err, enc |-> job.enc, recipients |-> <<info>>,
             Compression |-> job.opts.Compression, ExtraHeaders |-> job.opts.ExtraHeaders]
  BY Zenon DEF JWE!NewEncrypter, Direct
<1>3. ~ctx.err
  BY Zenon
<1> HIDE DEF ctx
<1>4. ~info.err
  <2> HIDE DEF info
  <2> QED  BY <1>2, <1>3
<1>5. Recipient(info, rcpt.alg, rcpt.key)
  <2>1. CASE rcpt.alg \in Direct
    <3>1. info = named
      BY Zenon, <2>1
    <3>2. ~named.err
      BY Zenon, <1>4, <3>1
    <3>3. Recipient(named, rcpt.alg, rcpt.key)
      <4> DEFINE inner == JWE!makeJWERecipient(rcpt.alg, rcpt.key)
      <4>1. ~inner.err => Recipient(inner, rcpt.alg, rcpt.key)
        BY Zenon, <1>1, MadeRecipient
      <4>2. named = JWE!NamedBy(inner, rcpt)
        BY Zenon
      <4> HIDE DEF inner, named, rcpt
      <4>3. ~JWE!NamedBy(inner, rcpt).err
        BY Zenon, <3>2, <4>2
      <4> QED  BY Zenon, <4>1, <4>2, <4>3, NamedRecipient
    <3> QED  BY Zenon, <3>1, <3>3
  <2>2. CASE rcpt.alg \notin Direct
    <3>1. info = JWE!addRecipient(rcpt)
      BY Zenon, <2>2
    <3>2. ~JWE!addRecipient(rcpt).err
      BY Zenon, <1>4, <3>1
    <3> QED  BY Zenon, <1>1, <3>1, <3>2, AddedRecipient
  <2> QED  BY Zenon, <2>1, <2>2
<1> HIDE DEF info, rcpt
<1>6. /\ ctx.recipients = [j \in 1..1 |-> info] /\ ctx.Compression = job.opts.Compression
      /\ ctx.ExtraHeaders = job.opts.ExtraHeaders
  BY <1>2
<1>7. Numbered(ctx.recipients)
  <2>1. ctx.recipients = [j \in 1..1 |-> ctx.recipients[j]] /\ 1 \in Nat \ {0}
    BY <1>6
  <2> QED  BY Zenon, <2>1 DEF Numbered
<1>8. \A i \in DOMAIN ctx.recipients : i = 1 /\ ctx.recipients[i] = info
  BY <1>6
<1> QED  BY Zenon, <1>1, <1>5, <1>6, <1>7, <1>8 DEF Context, ctx, rcpt

LEMMA MultiContext ==
  ASSUME NEW job, job.rcpts \in EncrypterArgs,
         ~JWE!NewMultiEncrypter(job.enc, job.rcpts, job.opts).err
  PROVE  Context(job, JWE!NewMultiEncrypter(job.enc, job.rcpts, job.opts))
<1> DEFINE rcpts == job.rcpts
           ctx == JWE!NewMultiEncrypter(job.enc, rcpts, job.opts)
           infos == [i \in DOMAIN rcpts |-> JWE!addRecipient(rcpts[i])]
           refused == job.enc \notin JWE!ContentEncryptions \/ rcpts = <<>> \/ \E i \in DOMAIN infos : infos[i].err
<1>1. /\ Len(rcpts) \in Nat \ {0} /\ DOMAIN rcpts = 1..Len(rcpts) /\ 1 \in DOMAIN rcpts
      /\ \A i \in DOMAIN rcpts : rcpts[i].key \in AnyKey
  BY Zenon, EncrypterArg
<1>2. ctx = [err |-> refused, enc |-> job.enc, recipients |-> infos, Compression |-> job.opts.Compression,
             ExtraHeaders |-> JWE!EmptyHeader]
  BY Zenon DEF JWE!NewMultiEncrypter
<1>3. ~ctx.err
  BY Zenon
<1> HIDE DEF ctx
<1>4. ~refused /\ ctx.recipients = infos /\ ctx.Compression = job.opts.Compression
        /\ ctx.ExtraHeaders = JWE!EmptyHeader
  <2> HIDE DEF refused, infos
  <2> QED  BY <1>2, <1>3
<1>5. \A i \in DOMAIN rcpts : ~JWE!addRecipient(rcpts[i]).err
  BY Zenon, <1>4
<1>6. \A i \in DOMAIN rcpts :
        rcpts[i].alg \notin Direct /\ Recipient(JWE!addRecipient(rcpts[i]), rcpts[i].alg, rcpts[i].key)
  BY Zenon, <1>1, <1>5, AddedRecipient
<1>7. infos = [i \in 1..Len(rcpts) |-> infos[i]]
  BY Zenon, <1>1
<1>8. Numbered(ctx.recipients)
  BY Zenon, <1>1, <1>4, <1>7 DEF Numbered
<1>9. DOMAIN infos = DOMAIN rcpts /\ \A i \in DOMAIN rcpts : infos[i] = JWE!addRecipient(rcpts[i])
  BY Zenon
<1>10. "zip" \notin DOMAIN ctx.ExtraHeaders
  BY Zenon, <1>4 DEF JWE!EmptyHeader
<1> HIDE DEF infos
<1> QED  BY ZenonT(60), <1>1, <1>4, <1>6, <1>8, <1>9, <1>10 DEF Context, ctx

\* The key of the content, and the header it needs.
LEMMA GeneratedKey ==
  ASSUME NEW ctx, NEW seed, NEW alg, NEW key, Recipient(ctx.recipients[1], alg, key)
  PROVE  LET gen == JWE!genKey(ctx, seed)
         IN  /\ IF alg \in Direct THEN FromKey(gen.cek.from, key.id) ELSE FromSeed(gen.cek.from, seed)
             /\ "zip" \notin DOMAIN gen.header
<1> DEFINE gen == JWE!genKey(ctx, seed)
           r == ctx.recipients[1]
<1>1. r.keyAlg = alg /\ r.key.id = key.id
  BY Zenon DEF Recipient
<1>2. "zip" \notin DOMAIN JWE!EmptyHeader
  BY Zenon DEF JWE!EmptyHeader
<1>3. CASE alg = "dir"
  <2>1. gen = [cek |-> [from |-> <<key.id>>, size |-> r.key.size], header |-> JWE!EmptyHeader]
    BY Zenon, <1>1, <1>3 DEF JWE!genKey, JWE!staticGenKey, JWE!Key
  <2> HIDE DEF gen
  <2>2. gen.cek.from = <<key.id>> /\ gen.header = JWE!EmptyHeader
    BY <2>1
  <2> QED  BY Zenon, <1>2, <1>3, <2>2 DEF FromKey, Direct, gen
<1>4. CASE alg = "ECDH-ES"
  <2> DEFINE eph == JWE!Ephemeral(seed, 0, r.key.crv)
             epk == JWE!epk(seed, 0, r.key.crv)
             none == <<JWE!Octets(JWE!None), JWE!Octets(JWE!None)>>
  <2>1. gen = [cek |-> [from |-> <<ctx.enc, eph.id, key.id, none>>, size |-> JWE!keySize(ctx.enc)], header |-> epk]
    BY Zenon, <1>1, <1>4 DEF JWE!genKey, JWE!ecGenKey, JWE!DeriveECDHES, JWE!Key
  <2>2. "zip" \notin DOMAIN epk
    BY Zenon, <1>2 DEF JWE!epk, JWE!set
  <2> HIDE DEF gen, eph, epk, none
  <2>3. gen.cek.from = <<ctx.enc, eph.id, key.id, none>> /\ gen.header = epk
    BY <2>1
  <2> QED  BY Zenon, <1>4, <2>2, <2>3 DEF FromKey, Direct, gen
<1>5. CASE alg \notin Direct
  <2>1. gen = [cek |-> [from |-> <<"cek", seed>>, size |-> JWE!keySize(ctx.enc)], header |-> JWE!EmptyHeader]
    BY Zenon, <1>1, <1>5 DEF JWE!genKey, JWE!randomGenKey, JWE!Key, Direct
  <2> HIDE DEF gen
  <2>2. gen.cek.from = <<"cek", seed>> /\ gen.header = JWE!EmptyHeader
    BY <2>1
  <2> QED  BY Zenon, <1>2, <1>5, <2>2 DEF FromSeed, gen
<1> QED  BY Zenon, <1>3, <1>4, <1>5 DEF Direct

\* The key for a recipient: wrapped by a key of that recipient, or none.
LEMMA EncryptedKey ==
  ASSUME NEW r, NEW alg, NEW key, Recipient(r, alg, key), NEW cek, NEW seed, NEW i
  PROVE  LET e == JWE!encryptKey(r, cek, seed, i)
         IN  /\ DOMAIN e = {"err", "encryptedKey", "header"} /\ "zip" \notin DOMAIN e.header
             /\ IF alg \in Direct THEN e.encryptedKey = JWE!NoWrap
                ELSE e.encryptedKey.cek = cek /\ FromKey(e.encryptedKey.by.from, key.id)
<1> DEFINE e == JWE!encryptKey(r, cek, seed, i)
           empty == JWE!EmptyHeader
           name == JWE!Label("", seed, i)
           Info(err, k, header) == [err |-> err, encryptedKey |-> k, header |-> header]
           Wrap(how, by) == [wrap |-> how, by |-> by, cek |-> cek, i |-> name]
           by == [from |-> <<key.id>>, size |-> r.key.size]
           Goal == /\ DOMAIN e = {"err", "encryptedKey", "header"} /\ "zip" \notin DOMAIN e.header
                   /\ IF alg \in Direct THEN e.encryptedKey = JWE!NoWrap
                      ELSE e.encryptedKey.cek = cek /\ FromKey(e.encryptedKey.by.from, key.id)
<1> SUFFICES Goal
  BY Zenon
<1>1. r.keyAlg = alg /\ r.key.id = key.id
  BY Zenon DEF Recipient
<1>2. "zip" \notin DOMAIN empty
  BY Zenon DEF JWE!EmptyHeader
<1>3. ASSUME NEW err, NEW header, "zip" \notin DOMAIN header, alg \in Direct, e = Info(err, JWE!NoWrap, header)
      PROVE  Goal
  <2> HIDE DEF e
  <2>1. DOMAIN e = {"err", "encryptedKey", "header"} /\ e.header = header /\ e.encryptedKey = JWE!NoWrap
    BY <1>3
  <2> QED  BY Zenon, <1>3, <2>1
<1>4. ASSUME NEW err, NEW header, "zip" \notin DOMAIN header, alg \notin Direct, NEW how,
             NEW k, FromKey(k.from, key.id), e = Info(err, Wrap(how, k), header)
      PROVE  Goal
  <2> DEFINE w == Wrap(how, k)
  <2>1. w.cek = cek /\ w.by = k
    BY Zenon
  <2> HIDE DEF e, w
  <2>2. DOMAIN e = {"err", "encryptedKey", "header"} /\ e.header = header /\ e.encryptedKey = w
    BY Zenon, <1>4 DEF w
  <2> QED  BY Zenon, <1>4, <2>1, <2>2
<1>5. FromKey(by.from, key.id)
  <2>1. by.from = <<key.id>>
    BY Zenon
  <2> HIDE DEF by
  <2> QED  BY Zenon, <2>1 DEF FromKey
<1>6. CASE r.key.kty = "RSA" /\ alg \in {"RSA1_5", "RSA-OAEP"}
  <2>1. e = Info(FALSE, Wrap(alg, by), empty)
    BY Zenon, <1>1, <1>6 DEF JWE!encryptKey, JWE!rsaEncryptKey, JWE!recipientInfo, JWE!Wrapped, JWE!Key
  <2>2. alg \notin Direct
    BY Zenon, <1>6 DEF Direct
  <2> HIDE DEF e, by, empty, Info, Wrap, Goal
  <2> QED  BY Zenon, <1>2, <1>4, <1>5, <2>1, <2>2
<1>7. CASE r.key.kty = "EC" /\ alg = "ECDH-ES"
  <2>1. e = Info(FALSE, JWE!NoWrap, empty)
    BY Zenon, <1>1, <1>7 DEF JWE!encryptKey, JWE!ecEncryptKey, JWE!recipientInfo
  <2>2. alg \in Direct
    BY Zenon, <1>7 DEF Direct
  <2> HIDE DEF e, empty, Info, Goal
  <2> QED  BY Zenon, <1>2, <1>3, <2>1, <2>2
<1>8. CASE r.key.kty = "EC" /\ alg = "ECDH-ES+A128KW"
  <2> DEFINE kek == JWE!ecGenKey(alg, r.key, 16, seed, i)
             eph == JWE!Ephemeral(seed, i, r.key.crv)
             epk == JWE!epk(seed, i, r.key.crv)
             none == <<JWE!Octets(JWE!None), JWE!Octets(JWE!None)>>
  <2>1. e = Info(FALSE, Wrap("A128KW", kek.cek), kek.header)
    BY Zenon, <1>1, <1>8 DEF JWE!encryptKey, JWE!ecEncryptKey, JWE!recipientInfo, JWE!Wrapped
  <2>2. kek = [cek |-> [from |-> <<alg, eph.id, key.id, none>>, size |-> 16], header |-> epk]
    BY Zenon, <1>1 DEF JWE!ecGenKey, JWE!DeriveECDHES, JWE!Key
  <2>3. "zip" \notin DOMAIN epk
    BY Zenon, <1>2 DEF JWE!epk, JWE!set
  <2>4. alg \notin Direct
    BY Zenon, <1>8 DEF Direct
  <2> HIDE DEF e, kek, eph, epk, none, Info, Wrap, Goal
  <2>5. kek.cek.from = <<alg, eph.id, key.id, none>> /\ kek.header = epk
    BY <2>2
  <2>6. FromKey(kek.cek.from, key.id)
    BY Zenon, <2>5 DEF FromKey
  <2> QED  BY Zenon, <1>4, <2>1, <2>3, <2>4, <2>5, <2>6
<1>9. CASE r.key.kty = "oct" /\ alg = "dir"
  <2>1. e = Info(FALSE, JWE!NoWrap, empty)
    BY Zenon, <1>1, <1>9 DEF JWE!encryptKey, JWE!symmetricEncryptKey, JWE!recipientInfo
  <2>2. alg \in Direct
    BY Zenon, <1>9 DEF Direct
  <2> HIDE DEF e, empty, Info, Goal
  <2> QED  BY Zenon, <1>2, <1>3, <2>1, <2>2
<1>10. CASE r.key.kty = "oct" /\ alg = "A128GCMKW"
  <2> DEFINE bad == r.key.size \notin JWE!AES
             inner == JWE!set(empty, "iv", JWE!Str(name))
             header == JWE!set(inner, "tag", JWE!Str(name))
  <2>1. e = Info(bad, Wrap(alg, by), header)
    BY ZenonT(60), <1>1, <1>10 DEF JWE!encryptKey, JWE!symmetricEncryptKey, JWE!recipientInfo, JWE!Wrapped, JWE!Key
  <2>2. "zip" \notin DOMAIN header
    <3>1. "zip" \notin DOMAIN inner
      BY ZenonT(60), <1>2 DEF JWE!set
    <3> HIDE DEF inner
    <3> QED  BY Zenon, <3>1 DEF JWE!set
  <2>3. alg \notin Direct
    BY ZenonT(60), <1>10 DEF Direct
  <2> HIDE DEF e, by, bad, header, Info, Wrap, Goal
  <2> QED  BY ZenonT(60), <1>4, <1>5, <2>1, <2>2, <2>3
<1>11. CASE r.key.kty = "oct" /\ alg = "A128KW"
  <2> DEFINE bad == r.key.size \notin JWE!AES
  <2>1. e = Info(bad, Wrap(alg, by), empty)
    BY ZenonT(60), <1>1, <1>11 DEF JWE!encryptKey, JWE!symmetricEncryptKey, JWE!recipientInfo, JWE!Wrapped, JWE!Key
  <2>2. alg \notin Direct
    BY Zenon, <1>11 DEF Direct
  <2> HIDE DEF e, by, bad, empty, Info, Wrap, Goal
  <2> QED  BY ZenonT(60), <1>2, <1>4, <1>5, <2>1, <2>2
<1> HIDE DEF Goal
<1> QED  BY Zenon, <1>6, <1>7, <1>8, <1>9, <1>10, <1>11 DEF Recipient

\* The header of a recipient does not say that the content is compressed.
LEMMA RecipientInfoOf ==
  ASSUME NEW info, NEW r, DOMAIN r = {"err", "encryptedKey", "header"}, "zip" \notin DOMAIN r.header
  PROVE  LET q == JWE!recipientOf(info, r)
         IN  /\ DOMAIN q = {"err", "encryptedKey", "header"} /\ q.encryptedKey = r.encryptedKey
             /\ "zip" \notin DOMAIN q.header
<1> DEFINE q == JWE!recipientOf(info, r)
           alg == JWE!set(r.header, "alg", JWE!Str(info.keyAlg))
           kid == JWE!set(alg, "kid", JWE!Str(info.keyID))
           header == IF info.keyID = "" THEN alg ELSE kid
<1>1. "zip" \notin DOMAIN alg
  BY Zenon DEF JWE!set
<1>2. q = [r EXCEPT !.header = header]
  BY Zenon DEF JWE!recipientOf
<1> HIDE DEF alg
<1>3. "zip" \notin DOMAIN kid
  BY Zenon, <1>1 DEF JWE!set
<1> HIDE DEF kid, q
<1>4. "zip" \notin DOMAIN header
  BY Zenon, <1>1, <1>3
<1> HIDE DEF header
<1>5. DOMAIN q = DOMAIN r /\ q.encryptedKey = r.encryptedKey /\ q.header = header
  BY <1>2
<1> QED  BY Zenon, <1>4, <1>5 DEF q

LEMMA MergedZip ==
  ASSUME NEW dst, NEW src, "zip" \notin DOMAIN dst, "zip" \notin DOMAIN src
  PROVE  "zip" \notin DOMAIN JWE!merge(dst, src)
BY Zenon DEF JWE!merge

\* The protected header says whether it is.
LEMMA ProtectedZip ==
  ASSUME NEW ctx, NEW gen, NEW rs, "zip" \notin DOMAIN ctx.ExtraHeaders, "zip" \notin DOMAIN gen.header,
         "zip" \notin DOMAIN rs[1].header
  PROVE  JWE!getCompression(JWE!protectedOf(ctx, gen, rs)) = IF ctx.Compression THEN "DEF" ELSE ""
<1> DEFINE p == JWE!protectedOf(ctx, gen, rs)
           extra == ctx.ExtraHeaders
           enc == JWE!set(JWE!EmptyHeader, "enc", JWE!Str(ctx.enc))
           generated == JWE!merge(enc, gen.header)
           both == JWE!merge(generated, rs[1].header)
           moved == IF Len(rs) = 1 THEN both ELSE generated
           zip == JWE!set(moved, "zip", JWE!Str("DEF"))
           h == IF ctx.Compression THEN zip ELSE moved
<1>1. "zip" \notin DOMAIN JWE!NilHeader /\ "zip" \notin DOMAIN JWE!EmptyHeader
  BY Zenon DEF JWE!NilHeader, JWE!EmptyHeader
<1>2. p = JWE!Over(h, extra)
  BY Zenon DEF JWE!protectedOf
<1>3. "zip" \notin DOMAIN enc
  BY Zenon, <1>1 DEF JWE!set
<1> HIDE DEF enc
<1>4. "zip" \notin DOMAIN generated
  BY Zenon, <1>3, MergedZip
<1> HIDE DEF generated
<1>5. "zip" \notin DOMAIN both
  BY Zenon, <1>4, MergedZip
<1> HIDE DEF both
<1>6. "zip" \notin DOMAIN moved
  BY Zenon, <1>4, <1>5
<1> HIDE DEF moved
<1>7. "zip" \in DOMAIN zip /\ zip["zip"] = JWE!Str("DEF")
  BY Zenon DEF JWE!set
<1> HIDE DEF zip, p
<1>8. CASE ctx.Compression
  <2>1. h = zip
    BY Zenon, <1>8
  <2> HIDE DEF h
  <2>2. "zip" \in DOMAIN p /\ p["zip"] = JWE!Str("DEF")
    BY Zenon, <1>2, <1>7, <2>1 DEF JWE!Over
  <2>3. p # JWE!NilHeader
    BY Zenon, <1>1, <2>2
  <2>4. JWE!Str("DEF").t = "string" /\ JWE!Str("DEF").v = "DEF"
    BY DEF JWE!Str, JWE!Value
  <2>5. JWE!getCompression(p) = "DEF"
    BY Zenon, <2>2, <2>3, <2>4 DEF JWE!getCompression, JWE!getString, JWE!Has
  <2> QED  BY ZenonT(60), <1>8, <2>5 DEF p
<1>9. CASE ~ctx.Compression
  <2>1. h = moved
    BY ZenonT(60), <1>9
  <2> HIDE DEF h
  <2>2. "zip" \notin DOMAIN p
    BY Zenon, <1>2, <1>6, <2>1 DEF JWE!Over
  <2>3. JWE!getCompression(p) = ""
    BY Zenon, <2>2 DEF JWE!getCompression, JWE!getString, JWE!Has
  <2> QED  BY Zenon, <1>9, <2>3 DEF p
<1> QED  BY Zenon, <1>8, <1>9

\* What is sealed, with which key and with which data.
EncryptedAs(obj, ctx, gen, rs, plaintext, seed) ==
  /\ obj.protected = JWE!protectedOf(ctx, gen, rs)
  /\ Numbered(obj.recipients) /\ DOMAIN obj.recipients = DOMAIN rs
  /\ \A i \in DOMAIN rs : obj.recipients[i].encryptedKey = rs[i].encryptedKey
  /\ obj.ciphertext = [enc |-> ctx.enc, cek |-> gen.cek, aad |-> [protected |-> obj.protected, aad |-> obj.aad],
                       pt |-> JWE!Octets(IF ctx.Compression THEN JWE!compress(plaintext) ELSE plaintext),
                       seed |-> seed]

LEMMA EncryptedFor ==
  ASSUME NEW ctx, NEW gen, NEW rs, Numbered(rs), NEW plaintext, NEW aad, NEW seed,
         \A i \in DOMAIN rs : DOMAIN rs[i] = {"err", "encryptedKey", "header"}
  PROVE  EncryptedAs(JWE!encryptFor(ctx, gen, rs, plaintext, aad, seed), ctx, gen, rs, plaintext, seed)
<1> DEFINE obj == JWE!encryptFor(ctx, gen, rs, plaintext, aad, seed)
           err == ~JWE!getAead(ctx.enc, gen.cek) \/ \E i \in DOMAIN rs : rs[i].err
           protected == JWE!protectedOf(ctx, gen, rs)
           first == [rs[1] EXCEPT !.header = JWE!NilHeader]
           recipients == IF Len(rs) = 1 THEN <<first>> ELSE rs
           head == [err |-> err, protected |-> protected, original |-> JWE!NilHeader, aad |-> aad,
                    recipients |-> recipients]
           packed == IF ctx.Compression THEN JWE!compress(plaintext) ELSE plaintext
           data == JWE!computeAuthData(head)
           sealing == [enc |-> ctx.enc, cek |-> gen.cek, aad |-> data, pt |-> JWE!Octets(packed), seed |-> seed]
           parts == [iv |-> sealing, ciphertext |-> sealing, tag |-> sealing]
<1>1. obj = JWE!sealedObject(head, parts)
  BY Zenon DEF JWE!encryptFor, JWE!encrypt
<1> HIDE DEF err, protected, recipients, packed
<1>2. data = [protected |-> protected, aad |-> aad]
  <2>1. head.original = JWE!NilHeader /\ head.protected = protected /\ head.aad = aad
    BY Zenon
  <2> HIDE DEF head
  <2> QED  BY Zenon, <2>1 DEF JWE!computeAuthData
<1>3. head.protected = protected /\ head.aad = aad /\ head.recipients = recipients /\ parts.ciphertext = sealing
  BY Zenon
<1> HIDE DEF head, parts, obj, data, sealing
<1>4. /\ obj.protected = head.protected /\ obj.aad = head.aad /\ obj.recipients = head.recipients
      /\ obj.ciphertext = parts.ciphertext
  BY <1>1 DEF JWE!sealedObject
<1>5. PICK n \in Nat \ {0} : rs = [j \in 1..n |-> rs[j]]
  BY Zenon DEF Numbered
<1>6. Len(rs) = n /\ DOMAIN rs = 1..n /\ 1 \in DOMAIN rs
  BY <1>5, NumberedLen
<1>7. /\ Numbered(recipients) /\ DOMAIN recipients = DOMAIN rs
      /\ \A i \in DOMAIN rs : recipients[i].encryptedKey = rs[i].encryptedKey
  <2>1. CASE Len(rs) = 1
    <3>1. recipients = <<first>> /\ DOMAIN rs = 1..1
      BY <1>6, <2>1 DEF recipients
    <3>2. first.encryptedKey = rs[1].encryptedKey
      BY <1>6
    <3> HIDE DEF first
    <3>3. recipients = [j \in 1..1 |-> recipients[j]] /\ 1 \in Nat \ {0} /\ DOMAIN recipients = 1..1
      BY <3>1
    <3>4. \A i \in DOMAIN rs : i = 1 /\ recipients[i] = first
      BY <3>1
    <3> QED  BY Zenon, <3>1, <3>2, <3>3, <3>4 DEF Numbered
  <2>2. CASE Len(rs) # 1
    BY Zenon, <2>2 DEF recipients
  <2> QED  BY Zenon, <2>1, <2>2
<1> QED  BY ZenonT(60), <1>2, <1>3, <1>4, <1>7 DEF EncryptedAs, obj, protected, sealing, packed

\* The key of the content is a fresh one or comes from the one recipient's.
ContentKey(job, cek, seed) == FromSeed(cek.from, seed) \/ FromKey(cek.from, job.rcpts[1].key.id)

\* What is wrapped is the fresh one, with a key of some recipient.
WrappedFor(job, key, seed) ==
  key # JWE!NoWrap =>
    FromSeed(key.cek.from, seed) /\ \E i \in DOMAIN job.rcpts : FromKey(key.by.from, job.rcpts[i].key.id)

SealedAs(job, obj, seed) ==
  /\ 1 \in DOMAIN job.rcpts
  /\ Numbered(obj.recipients)
  /\ \A i \in DOMAIN obj.recipients : WrappedFor(job, obj.recipients[i].encryptedKey, seed)
  /\ ContentKey(job, obj.ciphertext.cek, seed)
  /\ obj.ciphertext.aad = [protected |-> obj.protected, aad |-> obj.aad]
  /\ obj.ciphertext.pt = JWE!Octets(IF job.opts.Compression THEN JWE!compress(job.plaintext) ELSE job.plaintext)
  /\ JWE!getCompression(obj.protected) = IF job.opts.Compression THEN "DEF" ELSE ""

\* The object of a job.
LEMMA SealedByIs ==
  ASSUME NEW job, job.rcpts \in EncrypterArgs, "zip" \notin DOMAIN job.opts.ExtraHeaders, NEW seed,
         ~SealedBy(job, seed).err
  PROVE  SealedAs(job, SealedBy(job, seed), seed)
<1> DEFINE obj == SealedBy(job, seed)
           ctx == IF job.multi THEN JWE!NewMultiEncrypter(job.enc, job.rcpts, job.opts)
                  ELSE JWE!NewEncrypter(job.enc, job.rcpts[1], job.opts)
           gen == JWE!genKey(ctx, seed)
           E(i) == JWE!encryptKey(ctx.recipients[i], gen.cek, seed, i)
           R(i) == JWE!recipientOf(ctx.recipients[i], E(i))
           rs == [i \in DOMAIN ctx.recipients |-> R(i)]
<1>1. obj = (IF ctx.err THEN NotMade ELSE JWE!Encrypt(ctx, job.plaintext, job.aad, seed)) /\ ~obj.err
  BY ZenonT(60) DEF SealedBy
<1>2. ~ctx.err
  <2> HIDE DEF ctx, obj
  <2> QED  BY <1>1 DEF NotMade
<1>3. Context(job, ctx)
  <2>1. CASE job.multi
    BY Zenon, <1>2, <2>1, MultiContext
  <2>2. CASE ~job.multi
    BY Zenon, <1>2, <2>2, SingleContext
  <2> QED  BY ZenonT(60), <2>1, <2>2
<1>4. obj = JWE!Encrypt(ctx, job.plaintext, job.aad, seed)
  BY Zenon, <1>1, <1>2
<1> HIDE DEF obj, ctx
<1>5. obj = JWE!encryptFor(ctx, gen, rs, job.plaintext, job.aad, seed)
  BY Zenon, <1>4 DEF JWE!Encrypt, JWE!encryptWith
<1>6. 1 \in DOMAIN ctx.recipients /\ 1 \in DOMAIN job.rcpts
  BY Zenon, <1>3, NumberedFirst DEF Context
<1> DEFINE direct == job.rcpts[1].alg \in Direct
<1>7. /\ IF direct THEN FromKey(gen.cek.from, job.rcpts[1].key.id) ELSE FromSeed(gen.cek.from, seed)
      /\ "zip" \notin DOMAIN gen.header
  BY Zenon, <1>3, <1>6, GeneratedKey DEF Context
<1> HIDE DEF gen
<1>8. ASSUME NEW i \in DOMAIN ctx.recipients
      PROVE  /\ DOMAIN R(i) = {"err", "encryptedKey", "header"} /\ "zip" \notin DOMAIN R(i).header
             /\ WrappedFor(job, R(i).encryptedKey, seed)
  <2> DEFINE alg == job.rcpts[i].alg
             key == job.rcpts[i].key
             e == E(i)
  <2>1. /\ Recipient(ctx.recipients[i], alg, key) /\ i \in DOMAIN job.rcpts
        /\ alg \notin Direct => ~direct
    BY Zenon, <1>3 DEF Context
  <2>2. /\ DOMAIN e = {"err", "encryptedKey", "header"} /\ "zip" \notin DOMAIN e.header
        /\ IF alg \in Direct THEN e.encryptedKey = JWE!NoWrap
           ELSE e.encryptedKey.cek = gen.cek /\ FromKey(e.encryptedKey.by.from, key.id)
    BY ZenonT(60), <2>1, EncryptedKey
  <2> HIDE DEF e
  <2>3. WrappedFor(job, e.encryptedKey, seed)
    BY Zenon, <1>7, <2>1, <2>2 DEF WrappedFor
  <2>4. /\ DOMAIN R(i) = {"err", "encryptedKey", "header"} /\ R(i).encryptedKey = e.encryptedKey
        /\ "zip" \notin DOMAIN R(i).header
    BY ZenonT(60), <2>2, RecipientInfoOf DEF e
  <2> QED  BY Zenon, <2>3, <2>4
<1> HIDE DEF R
<1>9. /\ DOMAIN rs = DOMAIN ctx.recipients
      /\ \A i \in DOMAIN rs : /\ DOMAIN rs[i] = {"err", "encryptedKey", "header"} /\ "zip" \notin DOMAIN rs[i].header
                              /\ WrappedFor(job, rs[i].encryptedKey, seed)
  BY Zenon, <1>8
<1>10. Numbered(rs)
  <2>1. PICK n \in Nat \ {0} : ctx.recipients = [j \in 1..n |-> ctx.recipients[j]]
    BY Zenon, <1>3 DEF Context, Numbered
  <2>2. rs = [j \in 1..n |-> rs[j]]
    BY Zenon, <2>1
  <2> QED  BY Zenon, <2>1, <2>2 DEF Numbered
<1> HIDE DEF rs
<1> DEFINE packed == IF ctx.Compression THEN JWE!compress(job.plaintext) ELSE job.plaintext
           sealing == [enc |-> ctx.enc, cek |-> gen.cek, aad |-> [protected |-> obj.protected, aad |-> obj.aad],
                       pt |-> JWE!Octets(packed), seed |-> seed]
<1>11. /\ obj.protected = JWE!protectedOf(ctx, gen, rs)
       /\ Numbered(obj.recipients) /\ DOMAIN obj.recipients = DOMAIN rs
       /\ \A i \in DOMAIN rs : obj.recipients[i].encryptedKey = rs[i].encryptedKey
       /\ obj.ciphertext = sealing
  <2>1. EncryptedAs(obj, ctx, gen, rs, job.plaintext, seed)
    BY Zenon, <1>5, <1>9, <1>10, EncryptedFor
  <2> QED  BY ZenonT(60), <2>1 DEF EncryptedAs
<1>12. sealing.cek = gen.cek /\ sealing.aad = [protected |-> obj.protected, aad |-> obj.aad]
         /\ sealing.pt = JWE!Octets(packed)
  BY Zenon
<1> HIDE DEF sealing
<1>13. JWE!getCompression(obj.protected) = IF ctx.Compression THEN "DEF" ELSE ""
  <2>1. "zip" \notin DOMAIN rs[1].header /\ "zip" \notin DOMAIN ctx.ExtraHeaders
    BY Zenon, <1>3, <1>6, <1>9 DEF Context
  <2> QED  BY ZenonT(60), <1>7, <1>11, <2>1, ProtectedZip
<1>14. ctx.Compression = job.opts.Compression
  BY Zenon, <1>3 DEF Context
<1>15. ContentKey(job, gen.cek, seed)
  BY Zenon, <1>7 DEF ContentKey
<1>16. \A i \in DOMAIN obj.recipients : WrappedFor(job, obj.recipients[i].encryptedKey, seed)
  BY Zenon, <1>9, <1>11
<1> HIDE DEF packed
<1>17. obj.ciphertext.pt = JWE!Octets(IF job.opts.Compression THEN JWE!compress(job.plaintext) ELSE job.plaintext)
  BY Zenon, <1>11, <1>12, <1>14 DEF packed
<1> QED  BY Zenon, <1>6, <1>11, <1>12, <1>13, <1>14, <1>15, <1>16, <1>17 DEF SealedAs, obj

-----------------------------------------------------------------------------
(* Texts.                                                                  *)

LEMMA RawRecipient ==
  ASSUME NEW r, MadeWrapping(r.encryptedKey)
  PROVE  RecipientPart(JWE!rawRecipientInfo(r))
<1> DEFINE q == JWE!rawRecipientInfo(r)
<1>1. q = [header |-> r.header, encryptedKey |-> r.encryptedKey]
  BY Zenon DEF JWE!rawRecipientInfo
<1> HIDE DEF q
<1>2. DOMAIN q = {"header", "encryptedKey"} /\ q.encryptedKey = r.encryptedKey
  BY <1>1
<1> QED  BY Zenon, <1>2 DEF RecipientPart, q

\* The compact form keeps the ciphertext and the key of the recipient ...
LEMMA SealedCompactOk ==
  ASSUME NEW obj, SealedObject(obj), JWE!CompactSerialize(obj) # NoText
  PROVE  JweText(JWE!CompactSerialize(obj))
<1> DEFINE t == JWE!CompactSerialize(obj)
           s == obj.recipients
           part == JWE!rawRecipientInfo(s[1])
<1>1. PICK n \in Nat \ {0} : s = [j \in 1..n |-> s[j]]
  BY Zenon DEF SealedObject, Numbered
<1>2. /\ Len(s) = 1
      /\ t = [form |-> "compact", protected |-> obj.protected, unprotected |-> JWE!NilHeader, aad |-> JWE!NoBuffer,
              recipients |-> <<part>>, iv |-> obj.iv, ciphertext |-> obj.ciphertext, tag |-> obj.tag]
  <2> HIDE DEF part
  <2> QED  BY Zenon DEF JWE!CompactSerialize, JWE!NoText, NoText, part
<1>3. 1 \in DOMAIN s
  BY <1>1, <1>2, NumberedLen
<1>4. RecipientPart(part)
  BY Zenon, <1>3, RawRecipient DEF SealedObject
<1> HIDE DEF t, part
<1>5. /\ DOMAIN t = {"form", "protected", "unprotected", "aad", "recipients", "iv", "ciphertext", "tag"}
      /\ t.recipients = [j \in 1..1 |-> part] /\ t.ciphertext = obj.ciphertext
  BY <1>2
<1>6. Numbered(t.recipients)
  <2>1. t.recipients = [j \in 1..1 |-> t.recipients[j]] /\ 1 \in Nat \ {0}
    BY <1>5
  <2> QED  BY Zenon, <2>1 DEF Numbered
<1>7. \A j \in DOMAIN t.recipients : RecipientPart(t.recipients[j])
  BY Zenon, <1>4, <1>5
<1> QED  BY Zenon, <1>5, <1>6, <1>7 DEF JweText, SealedObject, t

\* ... and the JSON form those of all recipients.
LEMMA SealedFullOk ==
  ASSUME NEW obj, SealedObject(obj)
  PROVE  JweText(JWE!FullSerialize(obj))
<1> DEFINE t == JWE!FullSerialize(obj)
           s == obj.recipients
           parts == [i \in DOMAIN s |-> JWE!rawRecipientInfo(s[i])]
           form == IF Len(s) = 1 THEN "flat" ELSE "full"
<1>1. PICK n \in Nat \ {0} : s = [j \in 1..n |-> s[j]]
  BY Zenon DEF SealedObject, Numbered
<1>2. t = [form |-> form, protected |-> obj.protected, unprotected |-> obj.unprotected,
           aad |-> JWE!ThroughJSON(JWE!newBuffer(obj.aad)), recipients |-> parts,
           iv |-> obj.iv, ciphertext |-> obj.ciphertext, tag |-> obj.tag]
  BY Zenon DEF JWE!FullSerialize
<1>3. \A j \in DOMAIN parts : RecipientPart(parts[j])
  BY Zenon, RawRecipient DEF SealedObject
<1>4. DOMAIN s = 1..n
  BY Zenon, <1>1
<1>5. Numbered(parts)
  <2>1. parts = [j \in 1..n |-> parts[j]]
    BY Zenon, <1>4
  <2> HIDE DEF parts
  <2> QED  BY Zenon, <1>1, <2>1 DEF Numbered
<1> HIDE DEF t, parts, form
<1>6. /\ DOMAIN t = {"form", "protected", "unprotected", "aad", "recipients", "iv", "ciphertext", "tag"}
      /\ t.recipients = parts /\ t.ciphertext = obj.ciphertext
  BY <1>2
<1> QED  BY Zenon, <1>3, <1>5, <1>6 DEF JweText, SealedObject, t

\* What is read from a text has the text's parts.
LEMMA SealedReadIs ==
  ASSUME NEW t
  PROVE  LET obj == JWE!sanitized(t)
         IN  /\ obj.recipients = t.recipients /\ obj.ciphertext = t.ciphertext
             /\ obj.protected = t.protected /\ obj.original = t.protected
<1> DEFINE obj == JWE!sanitized(t)
           Header == JWE!sanitizedHeader(JWE!mergedHeaders(t, JWE!NilHeader))
           Lacking(r) == LET headers == JWE!mergedHeaders(t, r.header)
                         IN  JWE!getAlgorithm(headers) = "" \/ JWE!getEncryption(headers) = ""
           refused == \/ JWE!getNonce(t.unprotected) # ""
                      \/ Header.err
                      \/ \E i \in DOMAIN t.recipients :
                           JWE!getNonce(t.recipients[i].header) # "" \/ Lacking(t.recipients[i])
<1>1. obj = [err |-> refused, Header |-> Header, protected |-> t.protected, unprotected |-> t.unprotected,
             original |-> t.protected, aad |-> JWE!bytes(t.aad), recipients |-> t.recipients,
             iv |-> t.iv, ciphertext |-> t.ciphertext, tag |-> t.tag]
  BY Zenon DEF JWE!sanitized
<1> HIDE DEF obj, refused, Header
<1>2. /\ obj.recipients = t.recipients /\ obj.ciphertext = t.ciphertext
      /\ obj.protected = t.protected /\ obj.original = t.protected
  BY <1>1
<1> QED  BY ZenonT(60), <1>2 DEF obj

LEMMA SealedReadOk ==
  ASSUME NEW t, JweText(t)
  PROVE  SealedObject(JWE!sanitized(t))
BY Zenon, SealedReadIs DEF JweText, RecipientPart, SealedObject

-----------------------------------------------------------------------------
(* The invariant.                                                          *)

LEMMA MadeSealedAs ==
  ASSUME protocol = "jwe", JweInv, NEW m \in DOMAIN made
  PROVE  SealedAs(made[m].job, made[m].obj, m)
<1> DEFINE job == made[m].job
<1>1. job \in Jobs[theme] /\ made[m].obj = SealedBy(job, m) /\ ~made[m].obj.err /\ theme \in Themes
  BY Zenon DEF JweInv, SealedEntry
<1>2. job.rcpts \in EncrypterArgs /\ "zip" \notin DOMAIN job.opts.ExtraHeaders
  BY Zenon, <1>1, JobsAssumption DEF protocol
<1>3. ~SealedBy(job, m).err
  BY Zenon, <1>1
<1> HIDE DEF job
<1>4. SealedAs(job, SealedBy(job, m), m)
  BY Zenon, <1>2, <1>3, SealedByIs
<1> QED  BY Zenon, <1>1, <1>4 DEF job

LEMMA MadeSealed ==
  ASSUME protocol = "jwe", JweInv, NEW m \in DOMAIN made
  PROVE  SealedObject(made[m].obj)
<1> DEFINE obj == made[m].obj
<1>1. Numbered(obj.recipients)
  BY ZenonT(60), MadeSealedAs DEF SealedAs
<1>2. \A i \in DOMAIN obj.recipients : MadeWrapping(obj.recipients[i].encryptedKey)
  BY Zenon DEF MadeWrapping
<1>3. MadeCiphertext(obj.ciphertext)
  BY Zenon DEF MadeCiphertext
<1> QED  BY Zenon, <1>1, <1>2, <1>3 DEF SealedObject

LEMMA SealedTextOk ==
  ASSUME protocol = "jwe", NEW obj, NEW compact, SealedObject(obj), Text(obj, compact) # NoText
  PROVE  JweText(Text(obj, compact))
<1>1. CASE compact
  BY Zenon, <1>1, SealedCompactOk DEF Text
<1>2. CASE ~compact
  BY ZenonT(60), <1>2, SealedFullOk DEF Text
<1> QED  BY Zenon, <1>1, <1>2

LEMMA SameSealedText ==
  ASSUME made' = made, NEW text, JweText(text), wire'.text = text
  PROVE  JweText(wire.text)'
<1>1. \A x : MadeWrapping(x) => MadeWrapping(x)'
  BY ZenonT(60) DEF MadeWrapping
<1>2. \A x : RecipientPart(x) => RecipientPart(x)'
  BY ZenonT(60), <1>1 DEF RecipientPart
<1>3. \A j \in DOMAIN text.recipients : RecipientPart(text.recipients[j])'
  BY Zenon, <1>2 DEF JweText
<1>4. MadeCiphertext(text.ciphertext)'
  BY Zenon DEF JweText, MadeCiphertext
<1> QED  BY ZenonT(60), <1>3, <1>4 DEF JweText, Numbered

LEMMA SameMade ==
  ASSUME JweInv, UNCHANGED <<theme, made>>
  PROVE  theme' \in Themes /\ IsSequence(made)' /\ (\A m \in DOMAIN made : SealedEntry(m))'
<1>1. theme' = theme /\ made' = made
  BY ZenonT(60)
<1>2. (\A m \in DOMAIN made : SealedEntry(m))'
  BY Zenon, <1>1 DEF JweInv, SealedEntry
<1>3. IsSequence(made)'
  BY ZenonT(60), <1>1 DEF JweInv
<1> QED  BY Zenon, <1>1, <1>2, <1>3 DEF JweInv

\* A step that puts such a text on the wire keeps the invariant.
LEMMA SealedWireStep ==
  ASSUME JweInv, UNCHANGED <<theme, made>>, NEW text, JweText(text), wire'.text = text, got' = Nothing
  PROVE  JweInv'
<1>1. JweText(wire.text)'
  BY Zenon, SameSealedText
<1>2. Nothing' = Nothing
  BY Zenon DEF Nothing
<1> QED  BY ZenonT(60), <1>1, <1>2, SameMade DEF JweInv

LEMMA AppendedTo ==
  ASSUME NEW s, IsSequence(s), NEW e
  PROVE  LET t == Append(s, e)
         IN  /\ IsSequence(t)
             /\ \A m \in DOMAIN t : (m = Len(s) + 1 /\ t[m] = e) \/ (m \in DOMAIN s /\ t[m] = s[m])
<1> DEFINE t == Append(s, e)
           S == {s[m] : m \in DOMAIN s}
           T == {t[m] : m \in DOMAIN t}
           U == S \cup {e}
<1>0. s \in Seq(S)
  BY Zenon DEF IsSequence
<1> HIDE DEF S
<1>1. s \in Seq(U) /\ e \in U
  BY <1>0
<1> HIDE DEF U
<1>2. /\ t \in Seq(U) /\ Len(t) = Len(s) + 1 /\ Len(s) \in Nat
      /\ \A m \in 1..Len(s) : t[m] = s[m]
      /\ t[Len(s) + 1] = e
  BY <1>1
<1> HIDE DEF t
<1>3. s \in [1..Len(s) -> U] /\ t \in [1..Len(t) -> U] /\ DOMAIN s = 1..Len(s) /\ DOMAIN t = 1..Len(t)
  BY <1>1, <1>2
<1>4. ASSUME NEW m \in DOMAIN t
      PROVE  (m = Len(s) + 1 /\ t[m] = e) \/ (m \in DOMAIN s /\ t[m] = s[m])
  <2>1. m = Len(s) + 1 \/ m \in 1..Len(s)
    BY <1>2, <1>3
  <2>2. CASE m = Len(s) + 1
    BY Zenon, <1>2, <2>2
  <2>3. CASE m \in 1..Len(s)
    BY Zenon, <1>2, <1>3, <2>3
  <2> QED  BY Zenon, <2>1, <2>2, <2>3
<1>5. t \in [1..Len(t) -> T]
  BY Zenon, <1>3
<1> HIDE DEF T
<1>6. t \in Seq(T)
  BY <1>2, <1>5
<1> QED  BY Zenon, <1>4, <1>6 DEF T, t, IsSequence

\* Encrypt makes the object of its job.
LEMMA JweMakeOk ==
  ASSUME protocol = "jwe", JweInv, NEW job \in Jobs[theme], Make(job)
  PROVE  JweInv'
<1> DEFINE n == Len(made) + 1
           new == [job |-> job, obj |-> SealedBy(job, n)]
<1>1. /\ wire = Nothing /\ ~Object(job).err /\ made' = Append(made, [job |-> job, obj |-> Object(job)])
      /\ theme' = theme /\ wire' = wire /\ got' = got
  BY Zenon DEF Make
<1>2. Object(job) = SealedBy(job, n)
  BY ZenonT(60) DEF Object
<1>3. made' = Append(made, new) /\ ~SealedBy(job, n).err
  BY ZenonT(60), <1>1, <1>2
<1>4. new.job = job /\ new.obj = SealedBy(job, n)
  BY Zenon
<1> HIDE DEF n, new
<1>5. /\ IsSequence(made)'
      /\ \A m \in DOMAIN made' : (m = n /\ made'[m] = new) \/ (m \in DOMAIN made /\ made'[m] = made[m])
  BY ZenonT(60), <1>3, AppendedTo DEF JweInv, n
<1>6. ASSUME NEW m \in DOMAIN made'
      PROVE  SealedEntry(m)'
  <2>1. CASE m = n /\ made'[m] = new
    BY Zenon, <1>1, <1>3, <1>4, <2>1 DEF SealedEntry
  <2>2. CASE m \in DOMAIN made /\ made'[m] = made[m]
    <3>1. SealedEntry(m)
      BY Zenon, <2>2 DEF JweInv
    <3> QED  BY ZenonT(60), <1>1, <2>2, <3>1 DEF SealedEntry
  <2> QED  BY ZenonT(60), <1>5, <2>1, <2>2
<1>7. wire' = Nothing' /\ got' = Nothing'
  BY ZenonT(60), <1>1 DEF JweInv, Nothing
<1> QED  BY ZenonT(60), <1>1, <1>5, <1>6, <1>7 DEF JweInv

LEMMA JweSendOk ==
  ASSUME protocol = "jwe", JweInv, NEW i \in DOMAIN made, NEW compact \in BOOLEAN, Send(i, compact)
  PROVE  JweInv'
<1> DEFINE text == Text(made[i].obj, compact)
<1>1. /\ wire = Nothing /\ wire' = OnWire(i, text, 0) /\ text # NoText
      /\ theme' = theme /\ made' = made /\ got' = got
  BY ZenonT(60) DEF Send
<1>2. JweText(text)
  BY ZenonT(60), <1>1, MadeSealed, SealedTextOk
<1> HIDE DEF text
<1>3. wire'.text = text
  BY <1>1 DEF OnWire
<1>4. got' = Nothing
  BY ZenonT(60), <1>1 DEF JweInv
<1> QED  BY Zenon, <1>1, <1>2, <1>3, <1>4, SealedWireStep

LEMMA JweForwardOk ==
  ASSUME protocol = "jwe", JweInv, NEW compact \in BOOLEAN, Forward(compact)
  PROVE  JweInv'
<1> DEFINE text == Text(got.obj, compact)
<1>1. /\ got # Nothing /\ wire' = OnWire(got.of, text, wire.exchanged) /\ text # NoText
      /\ theme' = theme /\ made' = made /\ got' = Nothing
  BY ZenonT(60) DEF Forward
<1>2. got.obj = JWE!sanitized(wire.text) /\ JweText(wire.text)
  BY Zenon, <1>1 DEF JweInv
<1>3. SealedObject(got.obj)
  BY Zenon, <1>2, SealedReadOk
<1>4. JweText(text)
  BY Zenon, <1>1, <1>3, SealedTextOk
<1> HIDE DEF text
<1>5. wire'.text = text
  BY <1>1 DEF OnWire
<1> QED  BY ZenonT(60), <1>1, <1>4, <1>5, SealedWireStep

LEMMA JweReceiveOk ==
  ASSUME protocol = "jwe", JweInv, Receive
  PROVE  JweInv'
<1>1. /\ wire # Nothing /\ got' = [of |-> wire.of, obj |-> Parsed(wire.text)]
      /\ theme' = theme /\ made' = made /\ wire' = wire
  BY ZenonT(60) DEF Receive
<1>2. Parsed(wire.text) = JWE!sanitized(wire.text)
  BY ZenonT(60) DEF Parsed
<1>3. got'.obj = JWE!sanitized(wire.text)
  BY <1>1, <1>2
<1>4. JweText(wire.text)'
  BY ZenonT(60), <1>1, SameSealedText DEF JweInv
<1>5. Nothing' = Nothing /\ got'.obj = JWE!sanitized(wire.text)'
  BY ZenonT(60), <1>1, <1>3 DEF Nothing
<1> QED  BY ZenonT(60), <1>1, <1>4, <1>5, SameMade DEF JweInv

\* A text in which one recipient is replaced by another whose key was made.
LEMMA RecipientReplaced ==
  ASSUME NEW t, JweText(t), NEW i \in DOMAIN t.recipients, NEW part, RecipientPart(part),
         NEW u, DOMAIN u = DOMAIN t, u.ciphertext = t.ciphertext, u.recipients = [t.recipients EXCEPT ![i] = part]
  PROVE  JweText(u)
<1> DEFINE s == t.recipients
           r == u.recipients
<1>1. PICK n \in Nat \ {0} : s = [j \in 1..n |-> s[j]]
  BY ZenonT(60) DEF JweText, Numbered
<1>2. DOMAIN r = 1..n /\ DOMAIN s = 1..n /\ r = [j \in 1..n |-> r[j]]
  BY ZenonT(60), <1>1
<1>3. Numbered(r)
  BY Zenon, <1>1, <1>2 DEF Numbered
<1>4. \A j \in DOMAIN r : r[j] = part \/ r[j] = s[j]
  BY ZenonT(60), <1>2
<1>5. \A j \in DOMAIN r : RecipientPart(r[j])
  BY ZenonT(60), <1>2, <1>4 DEF JweText
<1> HIDE DEF r, s
<1> QED  BY ZenonT(60), <1>3, <1>5 DEF JweText, r

LEMMA PartReplaced ==
  ASSUME NEW r, RecipientPart(r), NEW o, RecipientPart(o)
  PROVE  /\ RecipientPart([r EXCEPT !.encryptedKey = o.encryptedKey])
         /\ RecipientPart([r EXCEPT !.header = o.header])
<1> DEFINE a == [r EXCEPT !.encryptedKey = o.encryptedKey]
           b == [r EXCEPT !.header = o.header]
<1>1. DOMAIN r = {"header", "encryptedKey"} /\ MadeWrapping(r.encryptedKey) /\ MadeWrapping(o.encryptedKey)
  BY ZenonT(60) DEF RecipientPart
<1>2. /\ DOMAIN a = {"header", "encryptedKey"} /\ a.encryptedKey = o.encryptedKey
      /\ DOMAIN b = {"header", "encryptedKey"} /\ b.encryptedKey = r.encryptedKey
  BY <1>1
<1> HIDE DEF a, b
<1>3. RecipientPart(a) /\ RecipientPart(b)
  BY Zenon, <1>1, <1>2 DEF RecipientPart
<1> QED  BY ZenonT(60), <1>3 DEF a, b

\* Parts exchanged for those of another text leave one of made parts.
LEMMA JweExchangesOk ==
  ASSUME NEW t, JweText(t), NEW other, JweText(other), NEW u \in JweExchanges(t, other)
  PROVE  JweText(u)
<1>1. DOMAIN t = {"form", "protected", "unprotected", "aad", "recipients", "iv", "ciphertext", "tag"}
  BY ZenonT(60) DEF JweText
<1>2. ASSUME DOMAIN u = DOMAIN t, u.recipients = t.recipients,
             u.ciphertext = t.ciphertext \/ u.ciphertext = other.ciphertext
      PROVE  JweText(u)
  BY Zenon, <1>2 DEF JweText
<1>3. CASE \/ u = [t EXCEPT !.protected = other.protected]
           \/ u = [t EXCEPT !.aad = other.aad]
           \/ u = [t EXCEPT !.iv = other.iv]
           \/ u = [t EXCEPT !.ciphertext = other.ciphertext]
           \/ u = [t EXCEPT !.tag = other.tag]
           \/ u = [t EXCEPT !.iv = other.iv, !.ciphertext = other.ciphertext, !.tag = other.tag]
  <2>1. DOMAIN u = DOMAIN t /\ u.recipients = t.recipients
    BY ZenonT(60), <1>1, <1>3
  <2>2. u.ciphertext = t.ciphertext \/ u.ciphertext = other.ciphertext
    BY ZenonT(60), <1>1, <1>3
  <2> QED  BY Zenon, <1>2, <2>1, <2>2
<1>4. ASSUME NEW i \in DOMAIN t.recipients, NEW j \in DOMAIN other.recipients,
             u = WithKey(t, i, other.recipients[j]) \/ u = WithHeader(t, i, other.recipients[j])
      PROVE  JweText(u)
  <2> DEFINE s == t.recipients[i]
             o == other.recipients[j]
  <2>1. RecipientPart(s) /\ RecipientPart(o)
    BY ZenonT(60) DEF JweText
  <2> HIDE DEF o
  <2>2. CASE u = WithKey(t, i, o)
    <3> DEFINE part == [s EXCEPT !.encryptedKey = o.encryptedKey]
    <3>1. DOMAIN u = DOMAIN t /\ u.ciphertext = t.ciphertext /\ u.recipients = [t.recipients EXCEPT ![i] = part]
      BY <1>1, <2>2 DEF WithKey
    <3>2. RecipientPart(part)
      BY ZenonT(60), <2>1, PartReplaced
    <3> HIDE DEF part
    <3> QED  BY ZenonT(60), <3>1, <3>2, RecipientReplaced
  <2>3. CASE u = WithHeader(t, i, o)
    <3> DEFINE part == [s EXCEPT !.header = o.header]
    <3>1. DOMAIN u = DOMAIN t /\ u.ciphertext = t.ciphertext /\ u.recipients = [t.recipients EXCEPT ![i] = part]
      BY <1>1, <2>3 DEF WithHeader
    <3>2. RecipientPart(part)
      BY ZenonT(60), <2>1, PartReplaced
    <3> HIDE DEF part
    <3> QED  BY Zenon, <3>1, <3>2, RecipientReplaced
  <2> QED  BY ZenonT(60), <1>4, <2>2, <2>3 DEF o
<1> DEFINE whole == {[t EXCEPT !.protected = other.protected], [t EXCEPT !.aad = other.aad],
                     [t EXCEPT !.iv = other.iv], [t EXCEPT !.ciphertext = other.ciphertext],
                     [t EXCEPT !.tag = other.tag],
                     [t EXCEPT !.iv = other.iv, !.ciphertext = other.ciphertext, !.tag = other.tag]}
           K(i, j) == WithKey(t, i, other.recipients[j])
           H(i, j) == WithHeader(t, i, other.recipients[j])
<1>5. u \in whole \cup UNION {{K(i, j), H(i, j)} : i \in DOMAIN t.recipients, j \in DOMAIN other.recipients}
  BY DEF JweExchanges
<1>6. u \in whole => JweText(u)
  <2>1. u \in whole => \/ u = [t EXCEPT !.protected = other.protected]
                       \/ u = [t EXCEPT !.aad = other.aad]
                       \/ u = [t EXCEPT !.iv = other.iv]
                       \/ u = [t EXCEPT !.ciphertext = other.ciphertext]
                       \/ u = [t EXCEPT !.tag = other.tag]
                       \/ u = [t EXCEPT !.iv = other.iv, !.ciphertext = other.ciphertext, !.tag = other.tag]
    BY ZenonT(60)
  <2> HIDE DEF whole
  <2> QED  BY ZenonT(60), <1>3, <2>1
<1> HIDE DEF whole
<1>7. \/ u \in whole
      \/ \E i \in DOMAIN t.recipients, j \in DOMAIN other.recipients : u = K(i, j) \/ u = H(i, j)
  <2> HIDE DEF K, H
  <2> QED  BY <1>5
<1> QED  BY ZenonT(60), <1>4, <1>6, <1>7

LEMMA JweExchangeOk ==
  ASSUME protocol = "jwe", JweInv, Exchange
  PROVE  JweInv'
<1>1. wire # Nothing /\ got = Nothing /\ theme' = theme /\ made' = made /\ got' = got
  BY ZenonT(60) DEF Exchange
<1> DEFINE compact == wire.text.form = "compact"
           Other(i) == Text(made[i].obj, compact)
<1>2. \E i \in DOMAIN made : Other(i) # NoText /\
        \E text \in Exchanges(wire.text, Other(i)) : wire' = OnWire(wire.of, text, wire.exchanged + 1)
  BY ZenonT(60) DEF Exchange
<1>3. PICK i \in DOMAIN made : Other(i) # NoText /\
        \E text \in Exchanges(wire.text, Other(i)) : wire' = OnWire(wire.of, text, wire.exchanged + 1)
  BY ZenonT(60), <1>2
<1>4. JweText(Other(i)) /\ JweText(wire.text)
  <2>1. SealedObject(made[i].obj)
    BY ZenonT(60), MadeSealed
  <2> HIDE DEF compact
  <2> QED  BY ZenonT(60), <1>1, <1>3, <2>1, SealedTextOk DEF JweInv
<1> HIDE DEF Other
<1>5. PICK text \in JweExchanges(wire.text, Other(i)) : wire' = OnWire(wire.of, text, wire.exchanged + 1)
  BY ZenonT(60), <1>3 DEF Exchanges
<1>6. JweText(text)
  BY ZenonT(60), <1>4, JweExchangesOk
<1>7. wire'.text = text
  BY <1>5 DEF OnWire
<1> QED  BY ZenonT(60), <1>1, <1>6, <1>7, SealedWireStep

LEMMA JweHeaderOk ==
  ASSUME protocol = "jwe", JweInv, AddHeader
  PROVE  JweInv'
<1> DEFINE t == wire.text
           Added(h) == [t EXCEPT !.unprotected = h]
<1>1. wire # Nothing /\ got = Nothing /\ theme' = theme /\ made' = made /\ got' = got
  BY Zenon DEF AddHeader
<1>2. \E h \in Unprotected[theme] : wire' = OnWire(wire.of, Added(h), wire.exchanged)
  BY ZenonT(60) DEF AddHeader
<1>3. JweText(t)
  BY Zenon, <1>1 DEF JweInv
<1>4. ASSUME NEW h
      PROVE  JweText(Added(h))
  <2> DEFINE u == Added(h)
  <2>1. DOMAIN t = {"form", "protected", "unprotected", "aad", "recipients", "iv", "ciphertext", "tag"}
    BY Zenon, <1>3 DEF JweText
  <2>2. DOMAIN u = DOMAIN t /\ u.recipients = t.recipients /\ u.ciphertext = t.ciphertext
    BY ZenonT(60), <2>1
  <2> HIDE DEF t, u
  <2>3. JweText(u)
    BY Zenon, <1>3, <2>2 DEF JweText
  <2> QED  BY Zenon, <2>3 DEF u
<1> HIDE DEF Added, t
<1>5. PICK h \in Unprotected[theme] : wire' = OnWire(wire.of, Added(h), wire.exchanged)
  BY Zenon, <1>2
<1> DEFINE text == Added(h)
<1>6. JweText(text)
  BY Zenon, <1>4
<1> HIDE DEF text
<1>7. wire'.text = text
  BY <1>5 DEF OnWire, text
<1> QED  BY ZenonT(60), <1>1, <1>6, <1>7, SealedWireStep

\* A step keeps the invariant.
LEMMA SealedStep ==
  ASSUME SealedInv, [TokensNext]_tokenVars
  PROVE  SealedInv'
<1>1. theme' = theme /\ protocol' = protocol
  BY ZenonT(60) DEF TokensNext, tokenVars, Make, Send, Exchange, AddHeader, Receive, Forward, protocol
<1> SUFFICES ASSUME protocol = "jwe", JweInv
             PROVE  JweInv'
  BY Zenon, <1>1 DEF SealedInv
<1>2. CASE \E job \in Jobs[theme] : Make(job)
  BY Zenon, <1>2, JweMakeOk
<1>3. CASE \E i \in DOMAIN made, compact \in BOOLEAN : Send(i, compact)
  BY Zenon, <1>3, JweSendOk
<1>4. CASE Exchange
  BY Zenon, <1>4, JweExchangeOk
<1>5. CASE AddHeader
  BY Zenon, <1>5, JweHeaderOk
<1>6. CASE Receive
  BY Zenon, <1>6, JweReceiveOk
<1>7. CASE \E compact \in BOOLEAN : Forward(compact)
  BY Zenon, <1>7, JweForwardOk
<1>8. CASE UNCHANGED tokenVars
  <2>1. theme' = theme /\ made' = made /\ wire' = wire /\ got' = got
    BY Zenon, <1>8 DEF tokenVars
  <2>2. Nothing' = Nothing /\ JWE!sanitized(wire.text)' = JWE!sanitized(wire.text)
    BY ZenonT(60), <2>1 DEF Nothing
  <2>3. wire # Nothing => JweText(wire.text)'
    BY Zenon, <2>1, SameSealedText DEF JweInv
  <2> QED  BY Zenon, <2>1, <2>2, <2>3, SameMade DEF JweInv
<1> QED  BY Zenon, <1>2, <1>3, <1>4, <1>5, <1>6, <1>7, <1>8 DEF TokensNext

\* Whatever is on the wire, its ciphertext and its wrapped keys are those of
\* Encrypt, and the i-th object is that of the i-th encryption (EncryptWithAuthData,
\* FullSerialize, CompactSerialize and ParseEncrypted in crypter.go and jwe.go).
THEOREM SealingsHold == TokensSpec => []SealedInv
<1>1. TokensInit => SealedInv
  <2> SUFFICES ASSUME TokensInit
               PROVE  SealedInv
    OBVIOUS
  <2>1. theme \in Themes /\ made = <<>> /\ wire = Nothing /\ got = Nothing
    BY ZenonT(60) DEF TokensInit
  <2>2. IsSequence(made) /\ DOMAIN made = {}
    BY <2>1 DEF IsSequence
  <2> QED  BY Zenon, <2>1, <2>2 DEF SealedInv, JweInv
<1>2. SealedInv /\ [TokensNext]_tokenVars => SealedInv'
  BY Zenon, SealedStep
<1> QED  BY <1>1, <1>2, PTL DEF TokensSpec

-----------------------------------------------------------------------------
(* What opens.                                                             *)

\* A key that a reader gets for the content comes from the reader's own, or was
\* wrapped with a key that does, or is of no encrypter.
Opens(cek, id, encryptedKey) ==
  \/ cek.from = <<>>
  \/ FromKey(cek.from, id)
  \/ encryptedKey # JWE!NoWrap /\ cek = encryptedKey.cek /\ FromKey(encryptedKey.by.from, id)

LEMMA Unwrapped ==
  ASSUME NEW how, NEW from, NEW size, NEW id, FromKey(from, id), NEW k,
         ~JWE!KeyUnwrap(how, JWE!Key(from, size), k).err
  PROVE  Opens(JWE!KeyUnwrap(how, JWE!Key(from, size), k).cek, id, k)
<1> DEFINE by == JWE!Key(from, size)
           u == JWE!KeyUnwrap(how, by, k)
<1>1. u = (IF k # JWE!NoWrap /\ k.wrap = how /\ k.by = by
           THEN [err |-> FALSE, cek |-> k.cek] ELSE [err |-> TRUE, cek |-> JWE!Key(<<>>, 0)]) /\ ~u.err
  BY Zenon DEF JWE!KeyUnwrap, JWE!Found, JWE!NoCEK
<1>2. by.from = from
  BY DEF JWE!Key
<1> HIDE DEF by, u
<1>3. k # JWE!NoWrap /\ k.by = by /\ u.cek = k.cek
  BY <1>1
<1> QED  BY Zenon, <1>2, <1>3 DEF Opens, by, u

LEMMA FromKeyAlone == \A id : FromKey(<<id>>, id)
BY ZenonT(60) DEF FromKey

LEMMA RsaOpens ==
  ASSUME NEW key, NEW alg, NEW k, NEW size, ~JWE!rsaDecryptKey(key, alg, k, size).err
  PROVE  Opens(JWE!rsaDecryptKey(key, alg, k, size).cek, key.id, k)
<1> DEFINE d == JWE!rsaDecryptKey(key, alg, k, size)
           u == JWE!KeyUnwrap(alg, JWE!Key(<<key.id>>, key.size), k)
           random == JWE!Found(JWE!Key(<<>>, size))
<1>1. ~d.err
  BY ZenonT(60)
<1>2. d = JWE!NoCEK \/ d = random \/ d = u
  BY ZenonT(60) DEF JWE!rsaDecryptKey
<1>3. ~u.err => Opens(u.cek, key.id, k)
  BY ZenonT(60), Unwrapped, FromKeyAlone
<1> HIDE DEF d, u
<1>4. d # JWE!NoCEK
  BY <1>1 DEF JWE!NoCEK
<1>5. random.cek.from = <<>>
  BY DEF JWE!Found, JWE!Key
<1> HIDE DEF random
<1>6. CASE d = u
  BY ZenonT(60), <1>1, <1>3, <1>6 DEF d
<1>7. CASE d = random
  BY ZenonT(60), <1>5, <1>7 DEF Opens, d
<1> QED  BY ZenonT(60), <1>2, <1>4, <1>6, <1>7

LEMMA EcOpens ==
  ASSUME NEW key, NEW headers, NEW k, NEW size, ~JWE!ecDecryptKey(key, headers, k, size).err
  PROVE  Opens(JWE!ecDecryptKey(key, headers, k, size).cek, key.id, k)
<1> DEFINE d == JWE!ecDecryptKey(key, headers, k, size)
           alg == JWE!getAlgorithm(headers)
           eph == JWE!getKey(headers, "epk")
           enc == JWE!getEncryption(headers)
           parties == <<JWE!Octets(JWE!getByteBuffer(headers, "apu").data),
                        JWE!Octets(JWE!getByteBuffer(headers, "apv").data)>>
           derived == JWE!Found(JWE!Key(<<enc, eph.key.id, key.id, parties>>, size))
           from == <<alg, eph.key.id, key.id, parties>>
           u == JWE!KeyUnwrap("A128KW", JWE!Key(from, 16), k)
<1>1. ~d.err
  BY Zenon
<1>2. d = JWE!NoCEK \/ d = derived \/ d = u
  BY ZenonT(60) DEF JWE!ecDecryptKey, JWE!DeriveECDHES
<1>3. FromKey(from, key.id)
  BY ZenonT(60) DEF FromKey
<1> HIDE DEF from
<1>4. ~u.err => Opens(u.cek, key.id, k)
  BY ZenonT(60), <1>3, Unwrapped
<1> HIDE DEF parties
<1>5. derived.cek.from = <<enc, eph.key.id, key.id, parties>>
  BY DEF JWE!Found, JWE!Key
<1> HIDE DEF d, u, derived
<1>6. d # JWE!NoCEK
  BY <1>1 DEF JWE!NoCEK
<1>7. CASE d = u
  BY Zenon, <1>1, <1>4, <1>7 DEF d
<1>8. CASE d = derived
  <2>1. FromKey(derived.cek.from, key.id)
    BY ZenonT(60), <1>5 DEF FromKey
  <2> QED  BY ZenonT(60), <1>8, <2>1 DEF Opens, d
<1> QED  BY ZenonT(60), <1>2, <1>6, <1>7, <1>8

LEMMA SymmetricOpens ==
  ASSUME NEW key, NEW headers, NEW k, ~JWE!symmetricDecryptKey(key, headers, k).err
  PROVE  Opens(JWE!symmetricDecryptKey(key, headers, k).cek, key.id, k)
<1> DEFINE d == JWE!symmetricDecryptKey(key, headers, k)
           alg == JWE!getAlgorithm(headers)
           by == JWE!Key(<<key.id>>, key.size)
           u == JWE!KeyUnwrap(alg, by, k)
<1>1. ~d.err
  BY ZenonT(60)
<1>2. d = JWE!NoCEK \/ d = JWE!Found(by) \/ d = u
  BY ZenonT(60) DEF JWE!symmetricDecryptKey
<1>3. ~u.err => Opens(u.cek, key.id, k)
  BY Zenon, Unwrapped, FromKeyAlone
<1>4. JWE!Found(by).cek.from = <<key.id>>
  BY DEF JWE!Found, JWE!Key
<1> HIDE DEF d, u, by
<1>5. d # JWE!NoCEK
  BY <1>1 DEF JWE!NoCEK
<1>6. CASE d = u
  BY Zenon, <1>1, <1>3, <1>6 DEF d
<1>7. CASE d = JWE!Found(by)
  BY Zenon, <1>4, <1>7, FromKeyAlone DEF Opens, d
<1> QED  BY ZenonT(60), <1>2, <1>5, <1>6, <1>7

\* Whatever the algorithm of the header.
LEMMA KeyOpens ==
  ASSUME NEW key, ~JWE!newDecrypterFails(key), NEW headers, NEW k, NEW size,
         ~JWE!decryptKey(key, headers, k, size).err
  PROVE  Opens(JWE!decryptKey(key, headers, k, size).cek, key.id, k)
<1>1. CASE key.kty = "RSA"
  BY ZenonT(60), <1>1, RsaOpens DEF JWE!decryptKey
<1>2. CASE key.kty = "EC"
  BY ZenonT(60), <1>2, EcOpens DEF JWE!decryptKey
<1>3. CASE key.kty = "oct"
  BY ZenonT(60), <1>3, SymmetricOpens DEF JWE!decryptKey
<1> QED  BY ZenonT(60), <1>1, <1>2, <1>3 DEF JWE!newDecrypterFails

\* What a recipient's key opens is the plaintext of the ciphertext, whose data are
\* those of the object.
LEMMA OpenedIs ==
  ASSUME NEW obj, NEW r, NEW key, ~JWE!newDecrypterFails(key), JWE!Opened(obj, r, key).pt # JWE!Nil
  PROVE  LET s == obj.ciphertext
         IN  /\ Opens(s.cek, key.id, r.encryptedKey) /\ s.aad = JWE!computeAuthData(obj)
             /\ s.pt # JWE!None /\ JWE!Opened(obj, r, key).pt = s.pt
<1> DEFINE enc == JWE!getEncryption(JWE!mergedHeaders(obj, JWE!NilHeader))
           got0 == JWE!decryptKey(key, JWE!mergedHeaders(obj, r.header), r.encryptedKey, JWE!keySize(enc))
           s == obj.ciphertext
           data == JWE!computeAuthData(obj)
           fits == /\ JWE!getAead(enc, got0.cek) /\ obj.iv = s /\ obj.tag = s
                   /\ s.cek = got0.cek /\ s.aad = data /\ s.enc = enc
           pt == IF s.pt = JWE!None THEN JWE!Nil ELSE s.pt
           o == JWE!Opened(obj, r, key)
<1>1. o = IF got0.err THEN [err |-> TRUE, pt |-> JWE!Nil]
          ELSE IF fits THEN [err |-> FALSE, pt |-> pt] ELSE [err |-> TRUE, pt |-> JWE!Nil]
  BY ZenonT(60) DEF JWE!Opened, JWE!openEnc, JWE!openWith, JWE!Failed, JWE!decrypt
<1>2. o.pt # JWE!Nil
  BY ZenonT(60)
<1>3. ~got0.err => Opens(got0.cek, key.id, r.encryptedKey)
  BY ZenonT(60), KeyOpens
<1> HIDE DEF got0, o
<1>4. ~got0.err /\ fits /\ o.pt = pt
  <2> HIDE DEF fits, pt
  <2> QED  BY <1>1, <1>2
<1> QED  BY ZenonT(60), <1>2, <1>3, <1>4 DEF o

\* The m-th object was sealed for the key, with the object's ciphertext, protected
\* header and additional data.
SealedFor(m, id, obj) ==
  /\ \E i \in DOMAIN made[m].job.rcpts : made[m].job.rcpts[i].key.id = id
  /\ made[m].obj.ciphertext = obj.ciphertext
  /\ made[m].obj.protected = obj.protected /\ made[m].obj.aad = obj.aad

\* What opens was sealed for the key that opens it: the data are part of the
\* sealing, and the key of the content tells the encryption.
LEMMA OpenedWasSealed ==
  ASSUME protocol = "jwe", JweInv, NEW t, JweText(t), NEW j \in DOMAIN t.recipients, NEW id,
         Opens(t.ciphertext.cek, id, t.recipients[j].encryptedKey),
         t.ciphertext.aad = JWE!computeAuthData(JWE!sanitized(t))
  PROVE  \E m \in DOMAIN made : SealedFor(m, id, JWE!sanitized(t))
<1> DEFINE obj == JWE!sanitized(t)
           s == t.ciphertext
           k == t.recipients[j].encryptedKey
<1>1. PICK m \in DOMAIN made : s = made[m].obj.ciphertext
  BY ZenonT(60) DEF JweText, MadeCiphertext
<1> DEFINE job == made[m].job
           o == made[m].obj
<1>2. SealedAs(job, o, m)
  BY ZenonT(60), MadeSealedAs
<1>3. ContentKey(job, s.cek, m) /\ s.aad = [protected |-> o.protected, aad |-> o.aad] /\ 1 \in DOMAIN job.rcpts
  BY ZenonT(60), <1>1, <1>2 DEF SealedAs
<1>4. o.protected = obj.protected /\ o.aad = obj.aad /\ o.ciphertext = obj.ciphertext
  <2>1. obj.original = obj.protected /\ obj.ciphertext = s
    BY ZenonT(60), SealedReadIs
  <2>2. JWE!computeAuthData(obj) = [protected |-> obj.protected, aad |-> obj.aad]
    <3> HIDE DEF obj
    <3> QED  BY ZenonT(60), <2>1 DEF JWE!computeAuthData
  <2>3. [protected |-> o.protected, aad |-> o.aad] = [protected |-> obj.protected, aad |-> obj.aad]
    BY ZenonT(60), <1>3, <2>2
  <2> HIDE DEF o, obj
  <2>4. o.protected = obj.protected /\ o.aad = obj.aad
    BY <2>3
  <2> QED  BY ZenonT(60), <1>1, <2>1, <2>4 DEF o
<1>5. \E i \in DOMAIN job.rcpts : job.rcpts[i].key.id = id
  <2>1. s.cek.from # <<>>
    BY ZenonT(60), <1>3, FromOther DEF ContentKey
  <2>2. CASE FromKey(s.cek.from, id)
    <3>1. FromKey(s.cek.from, job.rcpts[1].key.id)
      BY ZenonT(60), <1>3, <2>2, FromOther DEF ContentKey
    <3> QED  BY ZenonT(60), <1>3, <2>2, <3>1, FromOneKey
  <2>3. CASE k # JWE!NoWrap /\ s.cek = k.cek /\ FromKey(k.by.from, id)
    <3>1. PICK n \in DOMAIN made : \E i \in DOMAIN made[n].obj.recipients :
            k = made[n].obj.recipients[i].encryptedKey
      BY ZenonT(60) DEF JweText, RecipientPart, MadeWrapping
    <3>2. WrappedFor(made[n].job, k, n)
      BY ZenonT(60), <3>1, MadeSealedAs DEF SealedAs
    <3>3. FromSeed(s.cek.from, n)
      BY ZenonT(60), <2>3, <3>2 DEF WrappedFor
    <3>4. FromSeed(s.cek.from, m)
      BY ZenonT(60), <1>3, <3>3, FromOther DEF ContentKey
    <3>5. n = m
      BY ZenonT(60), <3>3, <3>4, FromOneSeed
    <3>6. PICK i \in DOMAIN job.rcpts : FromKey(k.by.from, job.rcpts[i].key.id)
      BY ZenonT(60), <2>3, <3>2, <3>5 DEF WrappedFor
    <3>7. job.rcpts[i].key.id = id
      BY ZenonT(60), <2>3, <3>6, FromOneKey
    <3> QED  BY ZenonT(60), <3>7
  <2> QED  BY ZenonT(60), <2>1, <2>2, <2>3 DEF Opens
<1> HIDE DEF job, o, obj
<1>6. SealedFor(m, id, obj)
  BY ZenonT(60), <1>4, <1>5 DEF SealedFor, job, o
<1> QED  BY ZenonT(60), <1>6 DEF obj

\* What is unzipped, if it was, is the plaintext.
LEMMA UnzippedIs ==
  ASSUME protocol = "jwe", JweInv, NEW m \in DOMAIN made, NEW id, NEW obj, SealedFor(m, id, obj),
         obj.ciphertext.pt # JWE!None
  PROVE  LET u == JWE!Unzipped(obj, obj.ciphertext.pt)
         IN  DOMAIN u = {"err", "pt"} /\ Octets(u.pt) = Octets(made[m].job.plaintext)
<1> DEFINE pt == obj.ciphertext.pt
           u == JWE!Unzipped(obj, pt)
           job == made[m].job
           plain == job.plaintext
           zip == JWE!getCompression(obj.protected)
           packed == [deflate |-> Octets(plain)]
<1>1. /\ pt = JWE!Octets(IF job.opts.Compression THEN JWE!compress(plain) ELSE plain)
      /\ zip = IF job.opts.Compression THEN "DEF" ELSE ""
  BY ZenonT(60), MadeSealedAs DEF SealedFor, SealedAs
<1>2. \A x : JWE!Octets(x) = Octets(x)
  BY ZenonT(60) DEF JWE!Octets, Octets, JWE!Nil, Nil, JWE!None, None
<1>3. u = IF zip = "" THEN [err |-> FALSE, pt |-> pt] ELSE JWE!decompress(zip, pt)
  BY ZenonT(60) DEF JWE!Unzipped
<1>4. Octets(Octets(plain)) = Octets(plain)
  <2>1. None # Nil
    BY Zenon DEF None, Nil
  <2> QED  BY ZenonT(60), <2>1 DEF Octets
<1> HIDE DEF u, zip, pt, plain
<1>5. CASE job.opts.Compression
  <2>1. pt = Octets(packed) /\ zip = "DEF"
    BY ZenonT(60), <1>1, <1>2, <1>5 DEF JWE!compress, packed
  <2>2. packed # Nil /\ "deflate" \in DOMAIN packed /\ packed.deflate = Octets(plain)
    BY ZenonT(60) DEF Nil
  <2> HIDE DEF packed
  <2>3. pt = packed
    BY ZenonT(60), <2>1, <2>2 DEF Octets
  <2>4. u = [err |-> FALSE, pt |-> Octets(plain)]
    BY ZenonT(60), <1>3, <2>1, <2>2, <2>3 DEF JWE!decompress
  <2>5. DOMAIN u = {"err", "pt"} /\ u.pt = Octets(plain)
    BY <2>4
  <2> QED  BY ZenonT(60), <1>4, <2>5 DEF u, pt, plain
<1>6. CASE ~job.opts.Compression
  <2>1. u = [err |-> FALSE, pt |-> Octets(plain)]
    BY ZenonT(60), <1>1, <1>2, <1>3, <1>6
  <2>2. DOMAIN u = {"err", "pt"} /\ u.pt = Octets(plain)
    BY <2>1
  <2> QED  BY Zenon, <1>4, <2>2 DEF u, pt, plain
<1> QED  BY ZenonT(60), <1>5, <1>6

\* A plaintext that one recipient's key opens was sealed for it.
LEMMA OpenedSo ==
  ASSUME protocol = "jwe", JweInv, NEW t, JweText(t), NEW j \in DOMAIN t.recipients, NEW key,
         ~JWE!newDecrypterFails(key),
         JWE!Opened(JWE!sanitized(t), JWE!sanitized(t).recipients[j], key).pt # JWE!Nil
  PROVE  LET obj == JWE!sanitized(t)
             u == JWE!Unzipped(obj, JWE!Opened(obj, obj.recipients[j], key).pt)
         IN  DOMAIN u = {"err", "pt"} /\ SealedSo(obj, key.id, u.pt)
<1> DEFINE obj == JWE!sanitized(t)
           r == obj.recipients[j]
           o == JWE!Opened(obj, r, key)
           u == JWE!Unzipped(obj, o.pt)
           s == obj.ciphertext
<1>1. s = t.ciphertext /\ r = t.recipients[j]
  BY ZenonT(60), SealedReadIs
<1>2. Opens(s.cek, key.id, r.encryptedKey) /\ s.aad = JWE!computeAuthData(obj) /\ s.pt # JWE!None /\ o.pt = s.pt
  <2> HIDE DEF obj
  <2> QED  BY ZenonT(60), OpenedIs DEF obj
<1>3. PICK m \in DOMAIN made : SealedFor(m, key.id, obj)
  BY ZenonT(60), <1>1, <1>2, OpenedWasSealed
<1> HIDE DEF obj
<1>4. u = JWE!Unzipped(obj, obj.ciphertext.pt)
  BY ZenonT(60), <1>2
<1>5. DOMAIN u = {"err", "pt"} /\ Octets(u.pt) = Octets(made[m].job.plaintext)
  BY ZenonT(60), <1>2, <1>3, <1>4, UnzippedIs
<1> HIDE DEF u
<1>6. SealedSo(obj, key.id, u.pt)
  BY ZenonT(60), <1>3, <1>5 DEF SealedFor, SealedSo
<1> QED  BY ZenonT(60), <1>5, <1>6 DEF u, obj

LEMMA DecryptedSo ==
  ASSUME protocol = "jwe", JweInv, NEW t, JweText(t), NEW key, ~JWE!Decrypt(JWE!sanitized(t), key).err
  PROVE  SealedSo(JWE!sanitized(t), key.id, JWE!Decrypt(JWE!sanitized(t), key).pt)
<1> DEFINE obj == JWE!sanitized(t)
           d == JWE!Decrypt(obj, key)
           o == JWE!Opened(obj, obj.recipients[1], key)
           u == JWE!Unzipped(obj, o.pt)
<1>1. d = (IF JWE!Refuses(obj, key) \/ Len(obj.recipients) > 1 THEN JWE!Failed
           ELSE IF o.pt = JWE!Nil THEN JWE!Failed ELSE u) /\ ~d.err
  BY ZenonT(60) DEF JWE!Decrypt, JWE!decrypted
<1>2. 1 \in DOMAIN t.recipients
  BY ZenonT(60), NumberedFirst DEF JweText
<1>3. ~JWE!newDecrypterFails(key) /\ o.pt # JWE!Nil => SealedSo(obj, key.id, u.pt)
  BY ZenonT(60), <1>2, OpenedSo
<1>4. ~JWE!Refuses(obj, key) => ~JWE!newDecrypterFails(key)
  BY ZenonT(60) DEF JWE!Refuses
<1> HIDE DEF obj, d, o, u
<1>5. d # JWE!Failed
  BY <1>1 DEF JWE!Failed
<1>6. ~JWE!Refuses(obj, key) /\ o.pt # JWE!Nil /\ d = u
  BY ZenonT(60), <1>1, <1>5
<1> QED  BY ZenonT(60), <1>3, <1>4, <1>6 DEF obj, d

LEMMA DecryptedMultiSo ==
  ASSUME protocol = "jwe", JweInv, NEW t, JweText(t), NEW key, ~JWE!DecryptMulti(JWE!sanitized(t), key).err
  PROVE  SealedSo(JWE!sanitized(t), key.id, JWE!DecryptMulti(JWE!sanitized(t), key).pt)
<1> DEFINE obj == JWE!sanitized(t)
           d == JWE!DecryptMulti(obj, key)
           opened == {j \in DOMAIN obj.recipients : ~JWE!Opened(obj, obj.recipients[j], key).err}
           i == JWE!FirstOf(opened)
           o == JWE!Opened(obj, obj.recipients[i], key)
           u == JWE!Unzipped(obj, o.pt)
           bad == i = 0 \/ JWE!sanitizedHeader(JWE!mergedHeaders(obj, obj.recipients[i].header)).err
<1>1. d = (IF JWE!Refuses(obj, key) THEN JWE!Failed
           ELSE IF bad THEN JWE!Failed
           ELSE IF o.pt = JWE!Nil THEN JWE!Failed ELSE [u EXCEPT !.err = FALSE]) /\ ~d.err
  BY ZenonT(60) DEF JWE!DecryptMulti, JWE!decryptedMulti
<1>2. obj.recipients = t.recipients /\ opened \subseteq DOMAIN t.recipients
  BY ZenonT(60), SealedReadIs
<1>3. i # 0 => i \in DOMAIN t.recipients
  <2>1. PICK n \in Nat \ {0} : t.recipients = [j \in 1..n |-> t.recipients[j]]
    BY ZenonT(60) DEF JweText, Numbered
  <2>2. opened \subseteq 1..n
    BY ZenonT(60), <1>2, <2>1
  <2>3. i = JWS!FirstOf(opened) /\ (opened = {} => i = 0)
    BY ZenonT(60) DEF JWE!FirstOf, JWS!FirstOf
  <2> HIDE DEF opened, i
  <2>4. opened \subseteq Nat
    BY <2>2
  <2> QED  BY ZenonT(60), <1>2, <2>3, <2>4, FirstIn
<1>4. ~JWE!Refuses(obj, key) => ~JWE!newDecrypterFails(key)
  BY Zenon DEF JWE!Refuses
<1> HIDE DEF i
<1>5. i # 0 /\ ~JWE!newDecrypterFails(key) /\ o.pt # JWE!Nil =>
        DOMAIN u = {"err", "pt"} /\ SealedSo(obj, key.id, u.pt)
  BY ZenonT(60), <1>3, OpenedSo
<1> HIDE DEF obj, d, o, u, opened
<1>6. d # JWE!Failed
  <2> HIDE DEF bad
  <2> QED  BY <1>1 DEF JWE!Failed
<1>7. ~JWE!Refuses(obj, key) /\ i # 0 /\ o.pt # JWE!Nil /\ d = [u EXCEPT !.err = FALSE]
  BY ZenonT(60), <1>1, <1>6
<1>8. DOMAIN u = {"err", "pt"} /\ SealedSo(obj, key.id, u.pt)
  BY ZenonT(60), <1>4, <1>5, <1>7
<1>9. d.pt = u.pt
  BY <1>7, <1>8
<1> QED  BY ZenonT(60), <1>8, <1>9 DEF obj, d

\* A plaintext that Decrypt or DecryptMulti returns was sealed for the key, with the
\* protected header and the additional data of what was read (AcceptedWasSealed;
\* Decrypt and DecryptMulti in crypter.go).
THEOREM AcceptedSealed == TokensSpec => []AcceptedWasSealed
<1>1. SealedInv => AcceptedWasSealed
  <2> SUFFICES ASSUME SealedInv, got # Nothing, protocol = "jwe",
                      NEW m \in DOMAIN made, NEW i \in DOMAIN made[m].job.rcpts
               PROVE  LET key == DecryptKey(made[m].job.rcpts[i].key)
                          multi == JWE!DecryptMulti(got.obj, key)
                          one == JWE!Decrypt(got.obj, key)
                      IN  /\ ~multi.err => SealedSo(got.obj, key.id, multi.pt)
                          /\ ~one.err => SealedSo(got.obj, key.id, one.pt)
    BY ZenonT(60) DEF AcceptedWasSealed
  <2> DEFINE key == DecryptKey(made[m].job.rcpts[i].key)
  <2>1. JweInv
    BY ZenonT(60) DEF SealedInv
  <2>2. JweText(wire.text) /\ got.obj = JWE!sanitized(wire.text)
    BY ZenonT(60), <2>1 DEF JweInv
  <2> HIDE DEF key
  <2>3. ~JWE!DecryptMulti(got.obj, key).err => SealedSo(got.obj, key.id, JWE!DecryptMulti(got.obj, key).pt)
    BY ZenonT(60), <2>1, <2>2, DecryptedMultiSo
  <2>4. ~JWE!Decrypt(got.obj, key).err => SealedSo(got.obj, key.id, JWE!Decrypt(got.obj, key).pt)
    BY Zenon, <2>1, <2>2, DecryptedSo
  <2> QED  BY ZenonT(60), <2>3, <2>4 DEF key
<1> QED  BY <1>1, SealingsHold, PTL

\* What is accepted was made, whichever parts of which messages stand in the text
\* and whatever unprotected headers (AcceptedWasMade; Verify and VerifyMulti in
\* signing.go, Decrypt and DecryptMulti in crypter.go).
THEOREM AcceptedMade == TokensSpec => []AcceptedWasMade
<1>1. AcceptedWasSigned /\ AcceptedWasSealed => AcceptedWasMade
  BY ZenonT(60) DEF AcceptedWasMade
<1> QED  BY <1>1, AcceptedSigned, AcceptedSealed, PTL
=============================================================================
