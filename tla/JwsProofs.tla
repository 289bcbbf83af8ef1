----------------------------- MODULE JwsProofs -----------------------------
(***************************************************************************)
(* Signed objects: that what Verify and VerifyMulti of jose accept was     *)
(* signed with that key, for any jobs, keys and headers and any number of  *)
(* exchanged parts.                                                        *)
(***************************************************************************)
EXTENDS ObjectProps, WellFoundedInduction, TLAPS

KeyTypes == {"RSA", "EC", "OKP", "oct"}

JwsJob == {job \in Jobs[theme] : ~SignedBy(job).err}
JwsMade == {[job |-> job, obj |-> SignedBy(job)] : job \in JwsJob}

\* A signature that some signer made.
MadeSignature(signature) ==
  \E m \in DOMAIN made : \E i \in DOMAIN made[m].obj.Signatures :
    signature = made[m].obj.Signatures[i].Signature

\* The numbering of at least one signature.
Numbered(s) == \E n \in Nat \ {0} : s = [j \in 1..n |-> s[j]]

SignaturePart(s) == DOMAIN s = {"protected", "header", "signature"} /\ MadeSignature(s.signature)
JwsText(t) ==
  /\ DOMAIN t = {"form", "payload", "signatures"} /\ Numbered(t.signatures)
  /\ t.form = "full" => DOMAIN t.signatures # 1..1
  /\ \A j \in DOMAIN t.signatures : SignaturePart(t.signatures[j])

\* An object all of whose signatures some signer made.
SignedObject(obj) ==
  Numbered(obj.Signatures) /\ \A i \in DOMAIN obj.Signatures : MadeSignature(obj.Signatures[i].Signature)

JwsInv ==
  /\ theme \in Themes /\ made \in Seq(JwsMade)
  /\ wire # Nothing => JwsText(wire.text)
  /\ got # Nothing => wire # Nothing /\ got.obj = JWS!sanitized(wire.text)

SignedInv == protocol = "jws" => JwsInv

-----------------------------------------------------------------------------
(* Signers.                                                                *)

\* A signer without error is that of its algorithm and key ...
LEMMA KeySigner ==
  ASSUME NEW alg, NEW key, ~JWS!newKeySigner(alg, key).err
  PROVE  JWS!newKeySigner(alg, key).sigAlg = alg /\ JWS!newKeySigner(alg, key).key = key
<1> DEFINE r == JWS!newKeySigner(alg, key)
<1>0. ~r.err
  BY Zenon
<1>1. ASSUME NEW supported, NEW public, r = JWS!SignerIf(supported, alg, key, public)
      PROVE  r.sigAlg = alg /\ r.key = key
  <2> HIDE DEF r
  <2>2. CASE supported
    BY <1>1, <2>2 DEF JWS!SignerIf
  <2>3. CASE ~supported
    <3>1. r = [err |-> TRUE]
      BY Zenon, <1>1, <2>3 DEF JWS!SignerIf, JWS!NoRecipient
    <3> QED  BY <1>0, <3>1
  <2> QED  BY Zenon, <2>2, <2>3
<1>2. CASE key.kty = "oct"
  BY Zenon, <1>1, <1>2 DEF JWS!newKeySigner, JWS!newSymmetricSigner
<1>3. CASE key.kty = "RSA" /\ key.priv
  BY Zenon, <1>1, <1>3 DEF JWS!newKeySigner, JWS!newRSASigner
<1>4. CASE key.kty = "EC" /\ key.priv
  BY Zenon, <1>1, <1>4 DEF JWS!newKeySigner, JWS!newECDSASigner
<1>5. CASE key.kty = "OKP" /\ key.priv
  BY Zenon, <1>1, <1>5 DEF JWS!newKeySigner, JWS!newEd25519Signer
<1>6. CASE ~(\/ key.kty = "oct"
             \/ key.kty = "RSA" /\ key.priv
             \/ key.kty = "EC" /\ key.priv
             \/ key.kty = "OKP" /\ key.priv)
  <2>1. r = [err |-> TRUE]
    BY Zenon, <1>6 DEF JWS!newKeySigner, JWS!NoRecipient
  <2> HIDE DEF r
  <2> QED  BY <1>0, <2>1
<1> QED  BY Zenon, <1>2, <1>3, <1>4, <1>5, <1>6

\* ... or of the key that a JSONWebKey holds.
LEMMA RecipientIs ==
  ASSUME NEW alg, NEW key \in AnyKey, ~JWS!makeJWSRecipient(alg, key).err
  PROVE  JWS!makeJWSRecipient(alg, key).sigAlg = alg /\ JWS!makeJWSRecipient(alg, key).key.id = key.id
<1>1. CASE ~key.jwk
  BY ZenonT(60), <1>1, KeySigner DEF JWS!makeJWSRecipient
<1>2. CASE key.jwk
  <2> DEFINE r == JWS!newJWKSigner(alg, key)
             held == JWS!Held(key)
             inner == JWS!newKeySigner(alg, held)
             public == JWS!JSONWebKey(inner.publicKey, key.KeyID)
  <2>1. JWS!makeJWSRecipient(alg, key) = r /\ ~r.err
    BY Zenon, <1>2 DEF JWS!makeJWSRecipient
  <2>2. held.id = key.id
    BY DEF JWS!Held, AnyKey
  <2>3. r = CASE inner.err -> JWS!NoRecipient
              [] ~inner.err /\ key.kty = "oct" -> inner
              [] ~inner.err /\ key.kty # "oct" ->
                   IF JWS!IsPublic(public) THEN [inner EXCEPT !.publicKey = public] ELSE JWS!NoRecipient
    BY Zenon DEF JWS!newJWKSigner
  <2> HIDE DEF r, held, public
  <2>4. r # JWS!NoRecipient
    BY <2>1 DEF JWS!NoRecipient
  <2>5. CASE ~inner.err /\ key.kty = "oct"
    <3>1. r = inner
      BY Zenon, <2>3, <2>5
    <3>2. inner.sigAlg = alg /\ inner.key = held
      BY Zenon, <2>5, KeySigner
    <3> QED  BY Zenon, <2>1, <2>2, <3>1, <3>2
  <2>6. CASE ~inner.err /\ key.kty # "oct"
    <3>1. inner.sigAlg = alg /\ inner.key = held
      BY Zenon, <2>6, KeySigner
    <3> HIDE DEF inner
    <3>2. r = [inner EXCEPT !.publicKey = public]
      BY <2>3, <2>4, <2>6
    <3>3. r.sigAlg = inner.sigAlg /\ r.key = inner.key
      BY <3>2
    <3> QED  BY Zenon, <2>1, <2>2, <3>1, <3>3
  <2>7. CASE inner.err
    BY Zenon, <2>3, <2>4, <2>7
  <2> QED  BY Zenon, <2>5, <2>6, <2>7
<1> QED  BY Zenon, <1>1, <1>2

\* The length of what is numbered.
LEMMA NumberedLen ==
  ASSUME NEW s, NEW n \in Nat, s = [j \in 1..n |-> s[j]]
  PROVE  Len(s) = n /\ DOMAIN s = 1..n
<1>1. DOMAIN s = 1..n
  BY Zenon
<1>2. s \in [1..n -> {s[j] : j \in 1..n}]
  BY Zenon
<1> DEFINE S == {s[j] : j \in 1..n}
<1> HIDE DEF S
<1>3. s \in Seq(S)
  BY <1>2 DEF S
<1>4. Len(s) = n
  BY <1>1, <1>3
<1> QED  BY Zenon, <1>1, <1>4

LEMMA NumberedFirst ==
  ASSUME NEW s, Numbered(s)
  PROVE  1 \in DOMAIN s
<1>1. PICK n \in Nat \ {0} : s = [j \in 1..n |-> s[j]]
  BY Zenon DEF Numbered
<1>2. 1 \in 1..n /\ DOMAIN s = 1..n
  BY <1>1
<1> QED  BY Zenon, <1>2

LEMMA SignerArg ==
  ASSUME NEW s \in SignerArgs, NEW i \in DOMAIN s
  PROVE  s[i].key \in AnyKey /\ s[i].key \in GoKey
<1> DEFINE T == [alg : STRING, key : GoKey]
<1>1. s \in Seq(T)
  BY Zenon DEF SignerArgs
<1> HIDE DEF T
<1>2. s[i] \in T
  BY <1>1
<1>3. s[i].key \in GoKey
  BY <1>2 DEF T
<1> QED  BY Zenon, <1>3 DEF GoKey

\* The parts of the object that Sign makes for a job: the signer of each key and
\* algorithm, its header, and its signature.
JobSigner(job, i) == JWS!makeJWSRecipient(job.sigs[i].alg, job.sigs[i].key)
JobHeader(job, i) == JWS!protectedHeader(JobSigner(job, i), job.opts)
JobSignature(job, i) == JWS!signatureOf(JobSigner(job, i), JobHeader(job, i), job.payload)

LEMMA SignedByParts ==
  ASSUME NEW job, ~SignedBy(job).err
  PROVE  LET obj == SignedBy(job)
         IN  /\ obj.payload = job.payload
             /\ obj.Signatures = [i \in DOMAIN job.sigs |-> JobSignature(job, i)]
             /\ \A i \in DOMAIN job.sigs : ~JobSigner(job, i).err
<1> DEFINE obj == SignedBy(job)
           signer == JWS!NewMultiSigner(job.sigs)
           rs == [i \in DOMAIN job.sigs |-> JobSigner(job, i)]
           sigs == [i \in DOMAIN job.sigs |-> JobSignature(job, i)]
<1>1. signer = [err |-> \E i \in DOMAIN rs : rs[i].err, recipients |-> rs]
  BY Zenon DEF JWS!NewMultiSigner, JobSigner
<1>2. obj = (IF signer.err THEN NotMade ELSE JWS!Sign(signer, job.opts, job.payload)) /\ ~obj.err
  BY Zenon DEF SignedBy
<1>3. ~signer.err
  <2> HIDE DEF signer, obj
  <2> QED  BY <1>2 DEF NotMade
<1>4. \A i \in DOMAIN job.sigs : ~JobSigner(job, i).err
  <2> HIDE DEF signer
  <2> QED  BY <1>1, <1>3
<1>5. signer.recipients = rs
  <2> HIDE DEF rs, signer
  <2> QED  BY <1>1
<1>6. obj = JWS!signedObject(job.opts, job.payload, sigs)
  <2>1. obj = JWS!Sign(signer, job.opts, job.payload)
    BY Zenon, <1>2, <1>3
  <2>2. DOMAIN rs = DOMAIN job.sigs /\ \A i \in DOMAIN job.sigs : rs[i] = JobSigner(job, i)
    BY Zenon
  <2> HIDE DEF obj, signer, rs
  <2>3. [i \in DOMAIN signer.recipients |->
           JWS!signatureOf(signer.recipients[i], JWS!protectedHeader(signer.recipients[i], job.opts), job.payload)]
          = sigs
    BY Zenon, <1>5, <2>2 DEF JobSignature, JobHeader
  <2> QED  BY Zenon, <2>1, <2>3 DEF JWS!Sign
<1>7. obj.payload = job.payload /\ obj.Signatures = sigs
  <2> HIDE DEF obj, sigs
  <2> QED  BY <1>6 DEF JWS!signedObject
<1> QED  BY Zenon, <1>4, <1>7

LEMMA JobSignatureIs ==
  ASSUME NEW job, NEW i
  PROVE  LET sig == JobSignature(job, i)
         IN  /\ sig.protected = JobHeader(job, i)
             /\ sig.Signature = JWS!Signed(JobSigner(job, i).key, JWS!Input(JobHeader(job, i), job.payload),
                                           JobSigner(job, i).sigAlg)
<1> DEFINE sig == JobSignature(job, i)
           r == JobSigner(job, i)
           p == JobHeader(job, i)
           input == JWS!Input(p, job.payload)
           info == JWS!signPayload(r.key, input, r.sigAlg)
<1>1. sig = [err |-> info.err, protected |-> p, header |-> JWS!NilHeader, original |-> JWS!NilHeader,
             Signature |-> info.Signature]
  BY Zenon DEF JobSignature, JWS!signatureOf
<1> HIDE DEF input
<1>2. info.Signature = JWS!Signed(r.key, input, r.sigAlg)
  BY DEF JWS!signPayload, JWS!ecSignPayload
<1> HIDE DEF info, sig
<1>3. sig.protected = p /\ sig.Signature = info.Signature
  BY <1>1
<1> QED  BY Zenon, <1>2, <1>3 DEF sig, input

\* The object: a signature for each key, over the protected header and the payload.
LEMMA SignedByIs ==
  ASSUME NEW job, job.sigs \in SignerArgs, ~SignedBy(job).err
  PROVE  LET obj == SignedBy(job)
         IN  /\ obj.payload = job.payload
             /\ DOMAIN obj.Signatures = DOMAIN job.sigs /\ Numbered(obj.Signatures)
             /\ \A i \in DOMAIN job.sigs :
                  obj.Signatures[i].Signature =
                    [id |-> job.sigs[i].key.id, alg |-> job.sigs[i].alg,
                     input |-> JWS!Input(obj.Signatures[i].protected, job.payload)]
<1> DEFINE obj == SignedBy(job)
           sigs == [i \in DOMAIN job.sigs |-> JobSignature(job, i)]
<1>1. /\ obj.payload = job.payload /\ obj.Signatures = sigs
      /\ \A i \in DOMAIN job.sigs : ~JobSigner(job, i).err
  BY Zenon, SignedByParts
<1> HIDE DEF obj
<1>2. Numbered(sigs) /\ DOMAIN sigs = DOMAIN job.sigs
  <2>1. Len(job.sigs) \in Nat \ {0} /\ DOMAIN job.sigs = 1..Len(job.sigs)
    BY DEF SignerArgs
  <2>2. sigs = [j \in 1..Len(job.sigs) |-> sigs[j]]
    BY Zenon, <2>1
  <2> QED  BY Zenon, <2>1, <2>2 DEF Numbered
<1>3. \A i \in DOMAIN job.sigs : obj.Signatures[i] = JobSignature(job, i)
  BY Zenon, <1>1
<1> HIDE DEF sigs
<1>4. ASSUME NEW i \in DOMAIN job.sigs
      PROVE  obj.Signatures[i].Signature = [id |-> job.sigs[i].key.id, alg |-> job.sigs[i].alg,
                                            input |-> JWS!Input(obj.Signatures[i].protected, job.payload)]
  <2> DEFINE a == job.sigs[i].alg
             k == job.sigs[i].key
             r == JobSigner(job, i)
             input == JWS!Input(JobHeader(job, i), job.payload)
  <2>1. k \in AnyKey
    BY Zenon, SignerArg
  <2>2. r = JWS!makeJWSRecipient(a, k) /\ ~r.err
    BY Zenon, <1>1 DEF JobSigner
  <2>3. obj.Signatures[i].protected = JobHeader(job, i) /\ obj.Signatures[i].Signature = JWS!Signed(r.key, input, r.sigAlg)
    BY Zenon, <1>3, JobSignatureIs
  <2> HIDE DEF a, k, r
  <2>4. r.sigAlg = a /\ r.key.id = k.id
    BY <2>1, <2>2, RecipientIs
  <2>5. JWS!Signed(r.key, input, r.sigAlg) = [id |-> k.id, alg |-> a, input |-> input]
    BY Zenon, <2>4 DEF JWS!Signed
  <2> QED  BY Zenon, <2>3, <2>5 DEF a, k
<1> QED  BY Zenon, <1>1, <1>2, <1>4 DEF obj
-----------------------------------------------------------------------------
(* Texts.                                                                  *)

LEMMA RawPart ==
  ASSUME NEW sig, MadeSignature(sig.Signature)
  PROVE  SignaturePart(JWS!rawSignatureInfo(sig))
<1> DEFINE r == JWS!rawSignatureInfo(sig)
<1>1. r = [protected |-> sig.protected, header |-> sig.header, signature |-> sig.Signature]
  BY Zenon DEF JWS!rawSignatureInfo
<1> HIDE DEF r
<1>2. DOMAIN r = {"protected", "header", "signature"} /\ r.signature = sig.Signature
  BY <1>1
<1> QED  BY Zenon, <1>2 DEF SignaturePart, r

\* The compact form keeps the signature ...
LEMMA CompactOk ==
  ASSUME NEW obj, SignedObject(obj), JWS!CompactSerialize(obj) # NoText
  PROVE  JwsText(JWS!CompactSerialize(obj))
<1> DEFINE t == JWS!CompactSerialize(obj)
           s == obj.Signatures
           part == JWS!rawSignatureInfo(s[1])
<1>1. PICK n \in Nat \ {0} : s = [j \in 1..n |-> s[j]]
  BY Zenon DEF SignedObject, Numbered
<1>2. Len(s) = 1 /\ t = [form |-> "compact", payload |-> JWS!newBuffer(JWS!Octets(obj.payload)), signatures |-> <<part>>]
  <2> HIDE DEF part
  <2> QED  BY Zenon DEF JWS!CompactSerialize, JWS!NoText, NoText, part
<1>3. 1 \in DOMAIN s
  BY <1>1, <1>2, NumberedLen
<1>4. SignaturePart(part)
  BY Zenon, <1>3, RawPart DEF SignedObject
<1> HIDE DEF t, part
<1>5. /\ DOMAIN t = {"form", "payload", "signatures"} /\ t.form # "full"
      /\ DOMAIN t.signatures = 1..1 /\ t.signatures[1] = part /\ t.signatures = [j \in 1..1 |-> part]
  BY <1>2
<1>6. Numbered(t.signatures)
  <2>1. t.signatures = [j \in 1..1 |-> t.signatures[j]]
    BY <1>5
  <2>2. 1 \in Nat \ {0}
    OBVIOUS
  <2> QED  BY Zenon, <2>1, <2>2 DEF Numbered
<1>7. \A j \in DOMAIN t.signatures : SignaturePart(t.signatures[j])
  <2>1. \A j \in DOMAIN t.signatures : j = 1
    BY <1>5
  <2> QED  BY Zenon, <1>4, <1>5, <2>1
<1> QED  BY Zenon, <1>5, <1>6, <1>7 DEF JwsText, t

\* ... and so does the JSON form.
LEMMA FullOk ==
  ASSUME NEW obj, SignedObject(obj)
  PROVE  JwsText(JWS!FullSerialize(obj))
<1> DEFINE t == JWS!FullSerialize(obj)
           s == obj.Signatures
           parts == [i \in DOMAIN s |-> JWS!rawSignatureInfo(s[i])]
           form == IF Len(s) = 1 THEN "flat" ELSE "full"
<1>1. PICK n \in Nat \ {0} : s = [j \in 1..n |-> s[j]]
  BY Zenon DEF SignedObject, Numbered
<1>2. Len(s) = n /\ DOMAIN s = 1..n
  BY <1>1, NumberedLen
<1>3. t = [form |-> form, payload |-> JWS!ThroughJSON(JWS!newBuffer(obj.payload)), signatures |-> parts]
  BY Zenon DEF JWS!FullSerialize
<1>4. DOMAIN parts = 1..n /\ \A j \in DOMAIN parts : SignaturePart(parts[j])
  BY Zenon, <1>2, RawPart DEF SignedObject
<1>5. parts = [j \in 1..n |-> parts[j]]
  BY Zenon, <1>2
<1>6. form = "full" => 1..n # 1..1
  BY <1>2
<1> HIDE DEF t, parts, form
<1>7. DOMAIN t = {"form", "payload", "signatures"} /\ t.form = form /\ t.signatures = parts
  BY <1>3
<1>8. Numbered(parts)
  BY Zenon, <1>1, <1>5 DEF Numbered
<1> QED  BY Zenon, <1>4, <1>6, <1>7, <1>8 DEF JwsText, t

\* What is read from a text has the text's signatures.
LEMMA ReadOk ==
  ASSUME NEW t, JwsText(t)
  PROVE  LET obj == JWS!sanitized(t)
         IN  /\ SignedObject(obj) /\ obj.payload = JWS!bytes(t.payload)
             /\ DOMAIN obj.Signatures = DOMAIN t.signatures
             /\ \A i \in DOMAIN t.signatures :
                  obj.Signatures[i] = [protected |-> t.signatures[i].protected, header |-> t.signatures[i].header,
                                       original |-> t.signatures[i].protected, Signature |-> t.signatures[i].signature]
<1> DEFINE obj == JWS!sanitized(t)
           s == t.signatures
           P(i) == [protected |-> s[i].protected, header |-> s[i].header,
                    original |-> s[i].protected, Signature |-> s[i].signature]
           sigs == [i \in DOMAIN s |-> P(i)]
<1>1. obj.payload = JWS!bytes(t.payload) /\ obj.Signatures = sigs
  BY DEF JWS!sanitized
<1>2. PICK n \in Nat \ {0} : s = [j \in 1..n |-> s[j]]
  BY Zenon DEF JwsText, Numbered
<1>3. \A i \in DOMAIN s : P(i).Signature = s[i].signature
  OBVIOUS
<1> HIDE DEF P, obj
<1>4. DOMAIN s = 1..n /\ sigs = [j \in 1..n |-> sigs[j]]
  BY Zenon, <1>2
<1>5. Numbered(sigs)
  BY Zenon, <1>2, <1>4 DEF Numbered
<1>6. \A i \in DOMAIN s : sigs[i] = P(i) /\ MadeSignature(P(i).Signature)
  BY Zenon, <1>3 DEF JwsText, SignaturePart
<1>7. DOMAIN sigs = DOMAIN s
  BY Zenon
<1> HIDE DEF sigs
<1>8. SignedObject(obj)
  BY Zenon, <1>1, <1>5, <1>6, <1>7 DEF SignedObject
<1>9. \A i \in DOMAIN s : obj.Signatures[i] = P(i)
  BY Zenon, <1>1, <1>6
<1> QED  BY Zenon, <1>1, <1>7, <1>8, <1>9 DEF obj, P
-----------------------------------------------------------------------------
(* The invariant.                                                          *)

\* What was made, by whom and over what.
LEMMA MadeObject ==
  ASSUME protocol = "jws", theme \in Themes, made \in Seq(JwsMade), NEW m \in DOMAIN made
  PROVE  /\ made[m].job.sigs \in SignerArgs /\ ~SignedBy(made[m].job).err
         /\ made[m].obj = SignedBy(made[m].job)
<1> HIDE DEF JwsMade
<1>1. made[m] \in JwsMade
  OBVIOUS
<1>2. PICK job \in JwsJob : made[m] = [job |-> job, obj |-> SignedBy(job)]
  BY Zenon, <1>1 DEF JwsMade
<1>3. made[m].job = job /\ made[m].obj = SignedBy(job)
  BY <1>2
<1>4. job \in Jobs[theme] /\ ~SignedBy(job).err
  BY Zenon DEF JwsJob
<1>5. job.sigs \in SignerArgs
  BY Zenon, <1>4, JobsAssumption DEF protocol
<1> QED  BY Zenon, <1>3, <1>4, <1>5

LEMMA MadeSigned ==
  ASSUME protocol = "jws", JwsInv, NEW m \in DOMAIN made
  PROVE  SignedObject(made[m].obj)
<1> DEFINE obj == made[m].obj
<1>1. Numbered(obj.Signatures)
  BY Zenon, MadeObject, SignedByIs DEF JwsInv
<1>2. \A i \in DOMAIN obj.Signatures : MadeSignature(obj.Signatures[i].Signature)
  BY Zenon DEF MadeSignature
<1> QED  BY Zenon, <1>1, <1>2 DEF SignedObject

\* The text of an object whose signatures were made.
LEMMA TextOk ==
  ASSUME protocol = "jws", NEW obj, NEW compact, SignedObject(obj), Text(obj, compact) # NoText
  PROVE  JwsText(Text(obj, compact))
<1>1. CASE compact
  BY Zenon, <1>1, CompactOk DEF Text
<1>2. CASE ~compact
  BY Zenon, <1>2, FullOk DEF Text
<1> QED  BY Zenon, <1>1, <1>2

\* Texts depend on what was made alone.
LEMMA SameText ==
  ASSUME made' = made, NEW text, JwsText(text), wire'.text = text
  PROVE  JwsText(wire.text)'
<1>1. \A x : MadeSignature(x) => MadeSignature(x)'
  BY Zenon DEF MadeSignature
<1>2. \A x : SignaturePart(x) => SignaturePart(x)'
  BY Zenon, <1>1 DEF SignaturePart
<1>3. \A j \in DOMAIN text.signatures : SignaturePart(text.signatures[j])'
  BY Zenon, <1>2 DEF JwsText
<1> QED  BY Zenon, <1>3 DEF JwsText, Numbered

\* A step that puts such a text on the wire keeps the invariant.
LEMMA WireStep ==
  ASSUME JwsInv, UNCHANGED <<theme, made>>, NEW text, JwsText(text), wire'.text = text, got' = Nothing
  PROVE  JwsInv'
<1>1. theme' = theme /\ made' = made
  BY Zenon
<1>2. JwsText(wire.text)'
  BY Zenon, <1>1, SameText
<1>3. JwsMade' = JwsMade /\ Nothing' = Nothing
  BY Zenon, <1>1 DEF JwsMade, JwsJob, Nothing
<1>4. made' \in Seq(JwsMade)' /\ theme' \in Themes
  BY Zenon, <1>1, <1>3 DEF JwsInv
<1> QED  BY Zenon, <1>2, <1>3, <1>4 DEF JwsInv

\* Sign makes the object of its job.
LEMMA JwsMakeOk ==
  ASSUME protocol = "jws", JwsInv, NEW job \in Jobs[theme], Make(job)
  PROVE  JwsInv'
<1> DEFINE new == [job |-> job, obj |-> SignedBy(job)]
<1>1. /\ wire = Nothing /\ ~Object(job).err /\ made' = Append(made, [job |-> job, obj |-> Object(job)])
      /\ theme' = theme /\ wire' = wire /\ got' = got
  BY Zenon DEF Make
<1>2. Object(job) = SignedBy(job)
  BY Zenon DEF Object
<1>3. new \in JwsMade /\ made' = Append(made, new)
  BY Zenon, <1>1, <1>2 DEF JwsMade, JwsJob
<1> HIDE DEF new
<1>4. made' \in Seq(JwsMade)
  BY <1>3 DEF JwsInv
<1>5. JwsMade' = JwsMade
  BY Zenon, <1>1 DEF JwsMade, JwsJob
<1>6. wire' = Nothing' /\ got' = Nothing'
  BY Zenon, <1>1 DEF JwsInv, Nothing
<1>7. made' \in Seq(JwsMade)' /\ theme' \in Themes
  BY Zenon, <1>1, <1>4, <1>5 DEF JwsInv
<1> QED  BY Zenon, <1>6, <1>7 DEF JwsInv

LEMMA JwsSendOk ==
  ASSUME protocol = "jws", JwsInv, NEW i \in DOMAIN made, NEW compact \in BOOLEAN, Send(i, compact)
  PROVE  JwsInv'
<1> DEFINE text == Text(made[i].obj, compact)
<1>1. /\ wire = Nothing /\ wire' = OnWire(i, text, 0) /\ text # NoText
      /\ theme' = theme /\ made' = made /\ got' = got
  BY Zenon DEF Send
<1>2. JwsText(text)
  BY Zenon, <1>1, MadeSigned, TextOk
<1> HIDE DEF text
<1>3. wire'.text = text
  BY <1>1 DEF OnWire
<1>4. got' = Nothing
  BY Zenon, <1>1 DEF JwsInv
<1> QED  BY Zenon, <1>1, <1>2, <1>3, <1>4, WireStep

\* The reader's text.
LEMMA JwsForwardOk ==
  ASSUME protocol = "jws", JwsInv, NEW compact \in BOOLEAN, Forward(compact)
  PROVE  JwsInv'
<1> DEFINE text == Text(got.obj, compact)
<1>1. /\ got # Nothing /\ wire' = OnWire(got.of, text, wire.exchanged) /\ text # NoText
      /\ theme' = theme /\ made' = made /\ got' = Nothing
  BY Zenon DEF Forward
<1>2. got.obj = JWS!sanitized(wire.text) /\ JwsText(wire.text)
  BY Zenon, <1>1 DEF JwsInv
<1>3. SignedObject(got.obj)
  BY Zenon, <1>2, ReadOk
<1>4. JwsText(text)
  BY Zenon, <1>1, <1>3, TextOk
<1> HIDE DEF text
<1>5. wire'.text = text
  BY <1>1 DEF OnWire
<1> QED  BY Zenon, <1>1, <1>4, <1>5, WireStep

LEMMA JwsReceiveOk ==
  ASSUME protocol = "jws", JwsInv, Receive
  PROVE  JwsInv'
<1>1. /\ wire # Nothing /\ got' = [of |-> wire.of, obj |-> Parsed(wire.text)]
      /\ theme' = theme /\ made' = made /\ wire' = wire
  BY Zenon DEF Receive
<1>2. Parsed(wire.text) = JWS!sanitized(wire.text)
  BY Zenon DEF Parsed
<1>3. got'.obj = JWS!sanitized(wire.text)
  BY <1>1, <1>2
<1>4. JwsText(wire.text)
  BY Zenon, <1>1 DEF JwsInv
<1>5. JwsText(wire.text)'
  BY Zenon, <1>1, <1>4, SameText
<1>6. JwsMade' = JwsMade /\ Nothing' = Nothing
  BY Zenon, <1>1 DEF JwsMade, JwsJob, Nothing
<1>7. made' \in Seq(JwsMade)' /\ theme' \in Themes
  BY Zenon, <1>1, <1>6 DEF JwsInv
<1>8. got'.obj = JWS!sanitized(wire.text)'
  BY Zenon, <1>1, <1>3
<1> QED  BY Zenon, <1>1, <1>5, <1>6, <1>7, <1>8 DEF JwsInv
\* A text in which one signature is replaced by another made one.
LEMMA PartOk ==
  ASSUME NEW t, JwsText(t), NEW i \in DOMAIN t.signatures, NEW part, SignaturePart(part),
         NEW u, DOMAIN u = DOMAIN t, u.form = t.form, u.signatures = [t.signatures EXCEPT ![i] = part]
  PROVE  JwsText(u)
<1> DEFINE s == t.signatures
           r == u.signatures
<1>1. PICK n \in Nat \ {0} : s = [j \in 1..n |-> s[j]]
  BY Zenon DEF JwsText, Numbered
<1>2. DOMAIN r = 1..n /\ DOMAIN s = 1..n /\ r = [j \in 1..n |-> r[j]]
  BY Zenon, <1>1
<1>3. Numbered(r)
  BY Zenon, <1>1, <1>2 DEF Numbered
<1>4. \A j \in DOMAIN r : r[j] = part \/ r[j] = s[j]
  BY Zenon, <1>2
<1>5. \A j \in DOMAIN r : SignaturePart(r[j])
  BY Zenon, <1>2, <1>4 DEF JwsText
<1> HIDE DEF r, s
<1>6. u.form = "full" => DOMAIN u.signatures # 1..1
  BY Zenon, <1>2 DEF JwsText, r, s
<1> QED  BY Zenon, <1>3, <1>5, <1>6 DEF JwsText, r

\* Another header of a signature, or another made signature.
LEMMA PartHeader ==
  ASSUME NEW s, SignaturePart(s), NEW h
  PROVE  SignaturePart([s EXCEPT !.header = h]) /\ SignaturePart([s EXCEPT !.protected = h])
<1> DEFINE a == [s EXCEPT !.header = h]
           b == [s EXCEPT !.protected = h]
<1>1. DOMAIN s = {"protected", "header", "signature"} /\ MadeSignature(s.signature)
  BY Zenon DEF SignaturePart
<1>2. /\ DOMAIN a = {"protected", "header", "signature"} /\ a.signature = s.signature
      /\ DOMAIN b = {"protected", "header", "signature"} /\ b.signature = s.signature
  BY <1>1
<1> HIDE DEF a, b
<1>3. SignaturePart(a) /\ SignaturePart(b)
  BY Zenon, <1>1, <1>2 DEF SignaturePart
<1> QED  BY Zenon, <1>3 DEF a, b

LEMMA PartSignature ==
  ASSUME NEW s, SignaturePart(s), NEW signature, MadeSignature(signature)
  PROVE  SignaturePart([s EXCEPT !.signature = signature])
<1> DEFINE a == [s EXCEPT !.signature = signature]
<1>1. DOMAIN s = {"protected", "header", "signature"}
  BY Zenon DEF SignaturePart
<1>2. DOMAIN a = {"protected", "header", "signature"} /\ a.signature = signature
  BY <1>1
<1> HIDE DEF a
<1>3. SignaturePart(a)
  BY Zenon, <1>2 DEF SignaturePart
<1> QED  BY Zenon, <1>3 DEF a

\* Parts exchanged for those of another text leave one of made signatures.
LEMMA JwsExchangesOk ==
  ASSUME NEW t, JwsText(t), NEW other, JwsText(other), NEW u \in JwsExchanges(t, other)
  PROVE  JwsText(u)
<1>1. DOMAIN t = {"form", "payload", "signatures"}
  BY Zenon DEF JwsText
<1>2. CASE u = [t EXCEPT !.payload = other.payload]
  <2>1. DOMAIN u = DOMAIN t /\ u.form = t.form /\ u.signatures = t.signatures
    BY <1>1, <1>2
  <2> QED  BY Zenon, <2>1 DEF JwsText
<1>3. ASSUME NEW i \in DOMAIN t.signatures, NEW j \in DOMAIN other.signatures,
             u = WithProtected(t, i, other.signatures[j]) \/ u = WithSignature(t, i, other.signatures[j])
      PROVE  JwsText(u)
  <2> DEFINE s == t.signatures[i]
             o == other.signatures[j]
  <2>1. SignaturePart(s) /\ MadeSignature(o.signature)
    BY ZenonT(60) DEF JwsText, SignaturePart
  <2> HIDE DEF o
  <2>2. CASE u = WithProtected(t, i, o)
    <3> DEFINE part == [s EXCEPT !.protected = o.protected]
    <3>1. DOMAIN u = DOMAIN t /\ u.form = t.form /\ u.signatures = [t.signatures EXCEPT ![i] = part]
      BY <1>1, <2>2 DEF WithProtected
    <3>2. SignaturePart(part)
      BY Zenon, <2>1, PartHeader
    <3> HIDE DEF part
    <3> QED  BY Zenon, <3>1, <3>2, PartOk
  <2>3. CASE u = WithSignature(t, i, o)
    <3> DEFINE part == [s EXCEPT !.signature = o.signature]
    <3>1. DOMAIN u = DOMAIN t /\ u.form = t.form /\ u.signatures = [t.signatures EXCEPT ![i] = part]
      BY <1>1, <2>3 DEF WithSignature
    <3>2. SignaturePart(part)
      BY Zenon, <2>1, PartSignature
    <3> HIDE DEF part
    <3> QED  BY Zenon, <3>1, <3>2, PartOk
  <2> QED  BY Zenon, <1>3, <2>2, <2>3 DEF o
<1>4. u \in {[t EXCEPT !.payload = other.payload]}
        \cup UNION {{WithProtected(t, i, other.signatures[j]), WithSignature(t, i, other.signatures[j])} :
                      i \in DOMAIN t.signatures, j \in DOMAIN other.signatures}
  BY DEF JwsExchanges
<1>5. \/ u = [t EXCEPT !.payload = other.payload]
      \/ \E i \in DOMAIN t.signatures, j \in DOMAIN other.signatures :
           u = WithProtected(t, i, other.signatures[j]) \/ u = WithSignature(t, i, other.signatures[j])
  BY <1>4
<1> QED  BY Zenon, <1>2, <1>3, <1>5

LEMMA JwsExchangeOk ==
  ASSUME protocol = "jws", JwsInv, Exchange
  PROVE  JwsInv'
<1>1. wire # Nothing /\ got = Nothing /\ theme' = theme /\ made' = made /\ got' = got
  BY Zenon DEF Exchange
<1> DEFINE compact == wire.text.form = "compact"
           Other(i) == Text(made[i].obj, compact)
<1>2. \E i \in DOMAIN made : Other(i) # NoText /\
        \E text \in Exchanges(wire.text, Other(i)) : wire' = OnWire(wire.of, text, wire.exchanged + 1)
  BY Zenon DEF Exchange
<1>3. PICK i \in DOMAIN made : Other(i) # NoText /\
        \E text \in Exchanges(wire.text, Other(i)) : wire' = OnWire(wire.of, text, wire.exchanged + 1)
  BY Zenon, <1>2
<1>4. JwsText(Other(i)) /\ JwsText(wire.text)
  <2>1. SignedObject(made[i].obj)
    BY Zenon, MadeSigned
  <2> HIDE DEF compact
  <2> QED  BY Zenon, <1>1, <1>3, <2>1, TextOk DEF JwsInv
<1> HIDE DEF Other
<1>5. PICK text \in JwsExchanges(wire.text, Other(i)) : wire' = OnWire(wire.of, text, wire.exchanged + 1)
  BY Zenon, <1>3 DEF Exchanges
<1>6. JwsText(text)
  BY Zenon, <1>4, JwsExchangesOk
<1>7. wire'.text = text
  BY <1>5 DEF OnWire
<1> QED  BY Zenon, <1>1, <1>6, <1>7, WireStep

LEMMA JwsHeaderOk ==
  ASSUME protocol = "jws", JwsInv, AddHeader
  PROVE  JwsInv'
<1> DEFINE t == wire.text
           Added(i, h) == [t EXCEPT !.signatures[i].header = h]
<1>1. wire # Nothing /\ got = Nothing /\ theme' = theme /\ made' = made /\ got' = got
  BY Zenon DEF AddHeader
<1>2. \E h \in Unprotected[theme], i \in DOMAIN t.signatures : wire' = OnWire(wire.of, Added(i, h), wire.exchanged)
  BY Zenon DEF AddHeader
<1>3. JwsText(t)
  BY Zenon, <1>1 DEF JwsInv
<1>4. ASSUME NEW h, NEW i \in DOMAIN t.signatures
      PROVE  JwsText(Added(i, h))
  <2> DEFINE u == Added(i, h)
             part == [t.signatures[i] EXCEPT !.header = h]
  <2>1. DOMAIN t = {"form", "payload", "signatures"} /\ SignaturePart(t.signatures[i])
    BY Zenon, <1>3 DEF JwsText
  <2>2. DOMAIN u = DOMAIN t /\ u.form = t.form /\ u.signatures = [t.signatures EXCEPT ![i] = part]
    BY <2>1
  <2>3. SignaturePart(part)
    BY Zenon, <2>1, PartHeader
  <2> HIDE DEF t, u, part
  <2>4. JwsText(u)
    BY Zenon, <1>3, <2>2, <2>3, PartOk
  <2> QED  BY Zenon, <2>4 DEF u
<1> HIDE DEF Added, t
<1>5. PICK h \in Unprotected[theme], i \in DOMAIN t.signatures : wire' = OnWire(wire.of, Added(i, h), wire.exchanged)
  BY Zenon, <1>2
<1> DEFINE text == Added(i, h)
<1>6. JwsText(text)
  BY Zenon, <1>4
<1> HIDE DEF text
<1>7. wire'.text = text
  BY <1>5 DEF OnWire, text
<1> QED  BY Zenon, <1>1, <1>6, <1>7, WireStep

\* A step keeps the invariant.
LEMMA SignedStep ==
  ASSUME SignedInv, [TokensNext]_tokenVars
  PROVE  SignedInv'
<1>1. theme' = theme /\ protocol' = protocol
  BY Zenon DEF TokensNext, tokenVars, Make, Send, Exchange, AddHeader, Receive, Forward, protocol
<1> SUFFICES ASSUME protocol = "jws", JwsInv
             PROVE  JwsInv'
  BY Zenon, <1>1 DEF SignedInv
<1>2. CASE \E job \in Jobs[theme] : Make(job)
  BY Zenon, <1>2, JwsMakeOk
<1>3. CASE \E i \in DOMAIN made, compact \in BOOLEAN : Send(i, compact)
  BY Zenon, <1>3, JwsSendOk
<1>4. CASE Exchange
  BY Zenon, <1>4, JwsExchangeOk
<1>5. CASE AddHeader
  BY Zenon, <1>5, JwsHeaderOk
<1>6. CASE Receive
  BY Zenon, <1>6, JwsReceiveOk
<1>7. CASE \E compact \in BOOLEAN : Forward(compact)
  BY ZenonT(60), <1>7, JwsForwardOk
<1>8. CASE UNCHANGED tokenVars
  <2>1. theme' = theme /\ made' = made /\ wire' = wire /\ got' = got
    BY Zenon, <1>8 DEF tokenVars
  <2>2. JwsMade' = JwsMade /\ Nothing' = Nothing
    BY Zenon, <2>1 DEF JwsMade, JwsJob, Nothing
  <2>3. wire # Nothing => JwsText(wire.text)'
    BY Zenon, <2>1, SameText DEF JwsInv
  <2>4. JWS!sanitized(wire.text)' = JWS!sanitized(wire.text)
    BY Zenon, <2>1
  <2> QED  BY ZenonT(60), <2>1, <2>2, <2>3, <2>4 DEF JwsInv
<1> QED  BY Zenon, <1>2, <1>3, <1>4, <1>5, <1>6, <1>7, <1>8 DEF TokensNext
-----------------------------------------------------------------------------
(* What verifies.                                                          *)

\* A payload that a key verifies was signed with it.
LEMMA PayloadVerified ==
  ASSUME NEW key, key.kty \in KeyTypes, NEW input, NEW signature, NEW alg,
         JWS!verifyPayload(key, input, signature, alg)
  PROVE  signature = JWS!Signed(key, input, alg)
<1>1. CASE key.kty = "RSA"
  BY Zenon, <1>1 DEF JWS!verifyPayload, JWS!rsaVerifyPayload
<1>2. CASE key.kty = "EC"
  BY Zenon, <1>2 DEF JWS!verifyPayload, JWS!ecVerifyPayload
<1>3. CASE key.kty = "OKP"
  BY Zenon, <1>3 DEF JWS!verifyPayload, JWS!edVerifyPayload
<1>4. CASE key.kty = "oct"
  BY Zenon, <1>4 DEF JWS!verifyPayload, JWS!hmacVerifyPayload
<1> QED  BY Zenon, <1>1, <1>2, <1>3, <1>4 DEF KeyTypes

\* A signature determines what was signed.
LEMMA SignatureDetermines ==
  ASSUME NEW k1, NEW k2, NEW a1, NEW a2, NEW p1, NEW p2, NEW d1, NEW d2,
         [id |-> k1, alg |-> a1, input |-> <<p1, d1>>] = [id |-> k2, alg |-> a2, input |-> <<p2, d2>>]
  PROVE  k1 = k2 /\ a1 = a2 /\ p1 = p2 /\ d1 = d2
OBVIOUS

LEMMA OneOctets == \A data : JWS!Octets(data) = Octets(data)
BY Zenon DEF JWS!Octets, Octets, JWS!Nil, Nil, JWS!None, None

\* The i-th signature of the m-th object is by the key, over this protected header
\* and payload.
MadeBy(m, i, id, alg, protected, payload) ==
  /\ made[m].job.sigs[i].key.id = id /\ made[m].job.sigs[i].alg = alg
  /\ made[m].obj.Signatures[i].protected = protected
  /\ Octets(made[m].job.payload) = Octets(payload)

\* A signature of a text that verifies is that of a signer, over the protected
\* header and the payload of the text.
LEMMA VerifiedWasSigned ==
  ASSUME protocol = "jws", JwsInv, NEW t, JwsText(t), NEW j \in DOMAIN t.signatures,
         NEW key, key.kty \in KeyTypes,
         JWS!verifySignature(JWS!sanitized(t), JWS!sanitized(t).Signatures[j], key)
  PROVE  LET obj == JWS!sanitized(t)
             sig == obj.Signatures[j]
         IN  \E m \in DOMAIN made : \E i \in DOMAIN made[m].job.sigs :
               MadeBy(m, i, key.id, JWS!getAlgorithm(JWS!mergedHeaders(sig)), sig.protected, obj.payload)
<1> DEFINE obj == JWS!sanitized(t)
           sig == obj.Signatures[j]
           alg == JWS!getAlgorithm(JWS!mergedHeaders(sig))
<1>1. sig = [protected |-> t.signatures[j].protected, header |-> t.signatures[j].header,
             original |-> t.signatures[j].protected, Signature |-> t.signatures[j].signature]
  BY Zenon, ReadOk
<1>2. j \in DOMAIN obj.Signatures /\ SignedObject(obj)
  BY Zenon, ReadOk
<1>3. JWS!verifySignature(obj, sig, key)
  OBVIOUS
<1>4. PICK m \in DOMAIN made : \E i \in DOMAIN made[m].obj.Signatures :
        sig.Signature = made[m].obj.Signatures[i].Signature
  BY Zenon, <1>2 DEF SignedObject, MadeSignature
<1> HIDE DEF obj, sig
<1>5. sig.original = sig.protected
  BY <1>1
<1>6. JWS!verifyPayload(key, JWS!Input(sig.protected, obj.payload), sig.Signature, alg)
  BY Zenon, <1>3, <1>5 DEF JWS!verifySignature, JWS!computeAuthData
<1>7. sig.Signature = [id |-> key.id, alg |-> alg, input |-> <<sig.protected, Octets(obj.payload)>>]
  <2>1. sig.Signature = JWS!Signed(key, JWS!Input(sig.protected, obj.payload), alg)
    BY ZenonT(60), <1>6, PayloadVerified
  <2> QED  BY ZenonT(60), <2>1, OneOctets DEF JWS!Signed, JWS!Input
<1> DEFINE job == made[m].job
           o == made[m].obj
<1>8. /\ DOMAIN o.Signatures = DOMAIN job.sigs
      /\ \A i \in DOMAIN job.sigs :
           o.Signatures[i].Signature =
             [id |-> job.sigs[i].key.id, alg |-> job.sigs[i].alg,
              input |-> JWS!Input(o.Signatures[i].protected, job.payload)]
  BY ZenonT(60), MadeObject, SignedByIs DEF JwsInv
<1> HIDE DEF alg, o, job
<1>9. PICK i \in DOMAIN job.sigs : sig.Signature = o.Signatures[i].Signature
  BY ZenonT(60), <1>4, <1>8 DEF o
<1>10. sig.Signature = [id |-> job.sigs[i].key.id, alg |-> job.sigs[i].alg,
                        input |-> <<o.Signatures[i].protected, Octets(job.payload)>>]
  BY ZenonT(60), <1>8, <1>9, OneOctets DEF JWS!Input
<1>11. /\ job.sigs[i].key.id = key.id /\ job.sigs[i].alg = alg
       /\ o.Signatures[i].protected = sig.protected /\ Octets(job.payload) = Octets(obj.payload)
  BY <1>7, <1>10, SignatureDetermines
<1>12. MadeBy(m, i, key.id, alg, sig.protected, obj.payload)
  BY ZenonT(60), <1>11 DEF MadeBy, job, o
<1> QED  BY Zenon, <1>12 DEF job, alg, sig, obj

\* A header that is not protected does not give the nonce.
LEMMA MergedNonce ==
  ASSUME NEW s, JWS!getNonce(s.header) = ""
  PROVE  JWS!getNonce(JWS!mergedHeaders(s)) = JWS!getNonce(s.protected)
<1> DEFINE e == JWS!EmptyHeader
           p == s.protected
           h == s.header
           a == JWS!merge(e, p)
           b == JWS!merge(a, h)
           Nonce(x) == IF "nonce" \in DOMAIN x /\ x["nonce"].t = "string" THEN x["nonce"].v ELSE ""
<1>1. DOMAIN e = {} /\ DOMAIN JWS!NilHeader = {"nil"}
  BY Zenon DEF JWS!EmptyHeader, JWS!NilHeader
<1>2. \A x : JWS!getNonce(x) = Nonce(x)
  <2>1. "nonce" \notin DOMAIN JWS!NilHeader
    BY Zenon, <1>1
  <2> QED  BY Zenon, <2>1 DEF JWS!getNonce, JWS!getString, JWS!Has
<1>3. \A x : JWS!isSet(x, "nonce") <=> "nonce" \in DOMAIN x /\ ~(x["nonce"].t = "string" /\ x["nonce"].v = "")
  <2>1. "nonce" \notin DOMAIN JWS!NilHeader
    BY Zenon, <1>1
  <2> QED  BY Zenon, <2>1 DEF JWS!isSet, JWS!Has
<1>4. ASSUME NEW dst, NEW src
      PROVE  LET m == JWS!merge(dst, src)
             IN  IF src = JWS!NilHeader THEN m = dst
                 ELSE /\ "nonce" \in DOMAIN m <=> "nonce" \in DOMAIN dst \/ "nonce" \in DOMAIN src
                      /\ "nonce" \in DOMAIN m =>
                           m["nonce"] = IF JWS!isSet(dst, "nonce") \/ "nonce" \notin DOMAIN src
                                        THEN dst["nonce"] ELSE src["nonce"]
  BY Zenon DEF JWS!merge
<1>5. Nonce(a) = Nonce(p)
  <2>1. CASE p = JWS!NilHeader
    <3>1. a = e
      BY ZenonT(60), <1>4, <2>1
    <3> HIDE DEF a, e, p
    <3> QED  BY Zenon, <1>1, <2>1, <3>1
  <2>2. CASE p # JWS!NilHeader
    <3>1. "nonce" \in DOMAIN a <=> "nonce" \in DOMAIN p
      BY ZenonT(60), <1>1, <1>4, <2>2
    <3>2. "nonce" \in DOMAIN p => a["nonce"] = p["nonce"]
      BY ZenonT(60), <1>1, <1>3, <1>4, <2>2
    <3> HIDE DEF a, p
    <3> QED  BY Zenon, <3>1, <3>2
  <2> QED  BY Zenon, <2>1, <2>2
<1>6. Nonce(h) = ""
  BY Zenon, <1>2
<1>7. Nonce(b) = Nonce(a)
  <2>1. CASE h = JWS!NilHeader
    BY Zenon, <1>4, <2>1
  <2>2. CASE h # JWS!NilHeader
    <3>1. "nonce" \in DOMAIN b <=> "nonce" \in DOMAIN a \/ "nonce" \in DOMAIN h
      BY ZenonT(60), <1>4, <2>2
    <3>2. "nonce" \in DOMAIN b =>
            b["nonce"] = IF JWS!isSet(a, "nonce") \/ "nonce" \notin DOMAIN h THEN a["nonce"] ELSE h["nonce"]
      BY Zenon, <1>4, <2>2
    <3>3. JWS!isSet(a, "nonce") <=> "nonce" \in DOMAIN a /\ ~(a["nonce"].t = "string" /\ a["nonce"].v = "")
      BY Zenon, <1>3
    <3> HIDE DEF a, b, h
    <3> QED  BY Zenon, <1>6, <3>1, <3>2, <3>3
  <2> QED  BY Zenon, <2>1, <2>2
<1> QED  BY ZenonT(60), <1>2, <1>5, <1>7 DEF JWS!mergedHeaders
\* A loop that stops does so at an index.
LEMMA FirstIn ==
  ASSUME NEW indices, indices \subseteq Nat, indices # {}
  PROVE  JWS!FirstOf(indices) \in indices
<1> DEFINE R == OpToRel(<, Nat)
<1>1. IsWellFoundedOn(R, Nat)
  BY Zenon, NatLessThanWellFounded
<1>2. \A x, y \in Nat : <<y, x>> \in R <=> y < x
  BY DEF OpToRel
<1> HIDE DEF R
<1>3. PICK i \in indices : \A j \in indices : ~(<<j, i>> \in R)
  BY Zenon, <1>1, WFMin
<1>4. \A j \in indices : i <= j
  <2>1. \A j \in indices : i \in Nat /\ j \in Nat
    BY Zenon
  <2>2. \A j \in indices : ~(j < i)
    BY ZenonT(60), <1>2, <1>3, <2>1
  <2> QED  BY <2>1, <2>2
<1>5. JWS!FirstOf(indices) = CHOOSE k \in indices : \A j \in indices : k <= j
  BY Zenon DEF JWS!FirstOf
<1> QED  BY Zenon, <1>4, <1>5

\* The headers the reader is shown: the nonce is the protected one, the algorithm
\* that of the verification, unless the text is a list of signatures.
LEMMA ReadHeader ==
  ASSUME NEW t, JwsText(t), NEW j \in DOMAIN t.signatures, ~JWS!sanitized(t).err
  PROVE  LET obj == JWS!sanitized(t)
             sig == obj.Signatures[j]
         IN  /\ obj.Headers[j].Nonce = JWS!getNonce(sig.protected)
             /\ t.form # "full" => obj.Headers[j].Algorithm = JWS!getAlgorithm(JWS!mergedHeaders(sig))
<1> DEFINE obj == JWS!sanitized(t)
           sig == obj.Signatures[j]
           s == t.signatures
           P(x) == [protected |-> x.protected, header |-> x.header, original |-> x.protected, Signature |-> x.signature]
           H(x) == JWS!sanitizedHeader(JWS!mergedHeaders(
                     IF t.form = "full" THEN [P(x) EXCEPT !.header = JWS!NilHeader] ELSE P(x)))
           Q(x) == \/ H(x).err
                   \/ LET jwk == H(x).JSONWebKey IN jwk # JWS!NoKey /\ ~(JWS!Valid(jwk) /\ JWS!IsPublic(jwk))
           refused == t.payload = JWS!NoBuffer \/ \E i \in DOMAIN s : JWS!getNonce(s[i].header) # "" \/ Q(s[i])
           sigs == [i \in DOMAIN s |-> P(s[i])]
           headers == [i \in DOMAIN s |-> H(s[i])]
<1>1. obj = [err |-> refused, payload |-> JWS!bytes(t.payload), Signatures |-> sigs, Headers |-> headers]
  BY Zenon DEF JWS!sanitized
<1>2. sig = P(s[j])
  BY Zenon, ReadOk
<1>3. ~obj.err
  BY Zenon
<1>4. headers[j] = H(s[j])
  BY Zenon
<1> HIDE DEF obj, H, Q, P, headers, sigs
<1>5. obj.Headers = headers
  BY Zenon, <1>1
<1>6. ~refused
  <2> HIDE DEF refused
  <2> QED  BY <1>1, <1>3
<1>7. JWS!getNonce(s[j].header) = ""
  BY Zenon, <1>6
<1> DEFINE shown == IF t.form = "full" THEN [sig EXCEPT !.header = JWS!NilHeader] ELSE sig
           h == JWS!mergedHeaders(shown)
<1>8. obj.Headers[j] = JWS!sanitizedHeader(h)
  BY Zenon, <1>2, <1>4, <1>5 DEF H
<1>9. sig.header = s[j].header /\ DOMAIN sig = {"protected", "header", "original", "Signature"}
  BY <1>2 DEF P
<1>10. shown.protected = sig.protected /\ JWS!getNonce(shown.header) = ""
  <2>1. JWS!getNonce(JWS!NilHeader) = ""
    BY Zenon DEF JWS!getNonce, JWS!getString, JWS!Has
  <2> HIDE DEF sig
  <2>2. CASE t.form = "full"
    <3>1. shown.protected = sig.protected /\ shown.header = JWS!NilHeader
      BY <1>9, <2>2
    <3> QED  BY Zenon, <2>1, <3>1
  <2>3. CASE t.form # "full"
    BY Zenon, <1>7, <1>9, <2>3
  <2> QED  BY Zenon, <2>2, <2>3
<1> HIDE DEF shown
<1>11. JWS!getNonce(h) = JWS!getNonce(sig.protected)
  BY Zenon, <1>10, MergedNonce
<1>12. t.form # "full" => h = JWS!mergedHeaders(sig)
  BY Zenon DEF shown
<1> HIDE DEF h, sig
<1>13. obj.Headers[j].Nonce = JWS!getNonce(h) /\ obj.Headers[j].Algorithm = JWS!getAlgorithm(h)
  BY <1>8 DEF JWS!sanitizedHeader
<1> QED  BY Zenon, <1>11, <1>12, <1>13 DEF obj, sig

LEMMA VerifyIs ==
  ASSUME NEW obj, NEW key, ~JWS!Verify(obj, key).err
  PROVE  JWS!verifySignature(obj, obj.Signatures[1], key) /\ JWS!Verify(obj, key).payload = obj.payload
<1> DEFINE r == JWS!Verify(obj, key)
           refused == JWS!newVerifierFails(key) \/ Len(obj.Signatures) > 1
                        \/ ~JWS!verifySignature(obj, obj.Signatures[1], key)
<1>1. r = IF refused THEN [err |-> TRUE, payload |-> JWS!Nil] ELSE [err |-> FALSE, payload |-> obj.payload]
  BY Zenon DEF JWS!Verify
<1>2. ~r.err
  BY Zenon
<1> HIDE DEF r, refused
<1>3. ~refused /\ r.payload = obj.payload
  BY <1>1, <1>2
<1> QED  BY Zenon, <1>3 DEF r, refused

LEMMA VerifyMultiIs ==
  ASSUME NEW obj, Numbered(obj.Signatures), NEW key, ~JWS!VerifyMulti(obj, key).err
  PROVE  LET r == JWS!VerifyMulti(obj, key)
         IN  /\ r.index \in DOMAIN obj.Signatures /\ r.payload = obj.payload
             /\ JWS!verifySignature(obj, obj.Signatures[r.index], key)
<1> DEFINE r == JWS!VerifyMulti(obj, key)
           good == {j \in DOMAIN obj.Signatures : JWS!verifySignature(obj, obj.Signatures[j], key)}
           i == JWS!FirstOf(good)
<1>1. r = IF JWS!newVerifierFails(key) \/ i = 0 THEN [err |-> TRUE, index |-> 0, payload |-> JWS!Nil]
          ELSE [err |-> FALSE, index |-> i, payload |-> obj.payload]
  BY Zenon DEF JWS!VerifyMulti
<1>2. ~r.err
  BY Zenon
<1>3. good \subseteq Nat
  <2>1. PICK n \in Nat \ {0} : obj.Signatures = [j \in 1..n |-> obj.Signatures[j]]
    BY Zenon DEF Numbered
  <2>2. DOMAIN obj.Signatures = 1..n /\ good \subseteq DOMAIN obj.Signatures
    BY Zenon, <2>1
  <2> HIDE DEF good
  <2> QED  BY <2>2
<1> HIDE DEF r, good, i
<1>4. i # 0 /\ r.index = i /\ r.payload = obj.payload
  BY <1>1, <1>2
<1>5. good # {}
  BY Zenon, <1>4 DEF i, JWS!FirstOf
<1>6. i \in good
  BY Zenon, <1>3, <1>5, FirstIn DEF i
<1> QED  BY Zenon, <1>4, <1>6 DEF r, good
-----------------------------------------------------------------------------
(* The theorems.                                                           *)

\* Every signature on the way is one that a signer made, and the reader has the
\* object of the text on the wire (Sign in signing.go, the serialisations and
\* ParseSigned in jws.go).
THEOREM SignaturesHold == TokensSpec => []SignedInv
<1>1. TokensInit => SignedInv
  <2> SUFFICES ASSUME TokensInit
               PROVE  JwsInv
    BY Zenon DEF SignedInv
  <2>1. theme \in Themes /\ made = <<>> /\ wire = Nothing /\ got = Nothing
    BY ZenonT(60) DEF TokensInit
  <2> HIDE DEF JwsMade
  <2>2. made \in Seq(JwsMade)
    BY <2>1
  <2> QED  BY Zenon, <2>1, <2>2 DEF JwsInv
<1>2. SignedInv /\ [TokensNext]_tokenVars => SignedInv'
  BY Zenon, SignedStep
<1> QED  BY PTL, <1>1, <1>2 DEF TokensSpec

LEMMA VerifyKeyIs ==
  ASSUME NEW key \in AnyKey
  PROVE  VerifyKey(key).kty \in KeyTypes
BY DEF VerifyKey, Public, AnyKey, KeyTypes

LEMMA OneNonce == \A h : JWS!getNonce(h) = getNonce(h)
BY Zenon DEF JWS!getNonce, getNonce, JWS!getString, getString, JWS!Has, Has, JWS!NilHeader, NilHeader,
  JWS!Str, Str, JWS!Value, Value, JWS!NoKey, NoKey

\* What verifies with a key was signed so.
LEMMA VerifiedSo ==
  ASSUME protocol = "jws", JwsInv, wire # Nothing, got.obj = JWS!sanitized(wire.text), ~got.obj.err,
         NEW j \in DOMAIN got.obj.Signatures, NEW key, key.kty \in KeyTypes,
         JWS!verifySignature(got.obj, got.obj.Signatures[j], key)
  PROVE  SignedSo(got.obj, j, key.id, got.obj.payload)
<1> DEFINE t == wire.text
           obj == JWS!sanitized(t)
           sig == obj.Signatures[j]
           alg == JWS!getAlgorithm(JWS!mergedHeaders(sig))
<1>1. JwsText(t) /\ got.obj = obj
  BY ZenonT(60) DEF JwsInv
<1>2. j \in DOMAIN t.signatures
  BY ZenonT(60), <1>1, ReadOk
<1>3. ~JWS!sanitized(t).err /\ JWS!verifySignature(JWS!sanitized(t), JWS!sanitized(t).Signatures[j], key)
  BY ZenonT(60)
<1>4. PICK m \in DOMAIN made : \E i \in DOMAIN made[m].job.sigs :
        MadeBy(m, i, key.id, alg, sig.protected, obj.payload)
  BY Zenon, <1>1, <1>2, <1>3, VerifiedWasSigned
<1>5. PICK i \in DOMAIN made[m].job.sigs : MadeBy(m, i, key.id, alg, sig.protected, obj.payload)
  BY ZenonT(60), <1>4
<1>6. obj.Headers[j].Nonce = getNonce(sig.protected)
  BY ZenonT(60), <1>1, <1>2, <1>3, ReadHeader, OneNonce
<1> HIDE DEF obj, alg
<1> QED  BY Zenon, <1>1, <1>5, <1>6 DEF SignedSo, MadeBy

\* Whatever parts of messages are put together, and whatever unprotected headers
\* are added, what Verify and VerifyMulti accept was signed with that key,
\* together with the protected header and the nonce the reader is shown.
THEOREM AcceptedSigned == TokensSpec => []AcceptedWasSigned
<1>1. SignedInv => AcceptedWasSigned
  <2> SUFFICES ASSUME SignedInv, got # Nothing, protocol = "jws", ~got.obj.err,
                      NEW m \in DOMAIN made, NEW i \in DOMAIN made[m].job.sigs
               PROVE  LET key == VerifyKey(made[m].job.sigs[i].key)
                          multi == JWS!VerifyMulti(got.obj, key)
                          one == JWS!Verify(got.obj, key)
                      IN  /\ ~multi.err => SignedSo(got.obj, multi.index, key.id, multi.payload)
                          /\ ~one.err => SignedSo(got.obj, 1, key.id, one.payload)
    BY Zenon DEF AcceptedWasSigned
  <2> DEFINE key == VerifyKey(made[m].job.sigs[i].key)
             multi == JWS!VerifyMulti(got.obj, key)
             one == JWS!Verify(got.obj, key)
  <2>1. JwsInv /\ wire # Nothing /\ got.obj = JWS!sanitized(wire.text) /\ JwsText(wire.text)
    BY Zenon DEF SignedInv, JwsInv
  <2>2. Numbered(got.obj.Signatures)
    BY Zenon, <2>1, ReadOk DEF SignedObject
  <2>3. key.kty \in KeyTypes
    <3>1. made[m].job.sigs[i].key \in AnyKey
      BY ZenonT(60), <2>1, MadeObject, SignerArg DEF JwsInv
    <3> QED  BY Zenon, <3>1, VerifyKeyIs
  <2> HIDE DEF key
  <2>4. ASSUME ~multi.err
        PROVE  SignedSo(got.obj, multi.index, key.id, multi.payload)
    <3>1. /\ multi.index \in DOMAIN got.obj.Signatures /\ multi.payload = got.obj.payload
          /\ JWS!verifySignature(got.obj, got.obj.Signatures[multi.index], key)
      BY Zenon, <2>2, <2>4, VerifyMultiIs
    <3> QED  BY ZenonT(60), <2>1, <2>3, <3>1, VerifiedSo
  <2>5. ASSUME ~one.err
        PROVE  SignedSo(got.obj, 1, key.id, one.payload)
    <3>1. JWS!verifySignature(got.obj, got.obj.Signatures[1], key) /\ one.payload = got.obj.payload
      BY Zenon, <2>5, VerifyIs
    <3>2. 1 \in DOMAIN got.obj.Signatures
      BY Zenon, <2>2, NumberedFirst
    <3> QED  BY Zenon, <2>1, <2>3, <3>1, <3>2, VerifiedSo
  <2> QED  BY ZenonT(60), <2>4, <2>5 DEF key
<1> QED  BY PTL, <1>1, SignaturesHold

=============================================================================
