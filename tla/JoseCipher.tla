----------------------------- MODULE JoseCipher -----------------------------
(***************************************************************************)
(* Package jose/cipher: AES-CBC with HMAC (cbc_hmac.go), key wrapping      *)
(* (key_wrap.go) and the Concat KDF (concat_kdf.go), each at its two ends. *)
(*                                                                         *)
(* A byte is a number, a unit of a wrapped key is eight bytes, a hash has  *)
(* HashSize bytes.  The CBC mode, the block cipher and the xor with a      *)
(* counter are the standard library's: constants that can be undone.  A    *)
(* MAC is the record of what it was computed from, and so is each byte of  *)
(* a hash.                                                                 *)
(***************************************************************************)
EXTENDS Integers, Sequences

CONSTANTS BlockSize, HashSize,
          Plaintexts, Data, Nonces, WrapKeys,     \* the inputs of Seal and KeyWrap
          MaxRead,                                \* bound on the bytes read from the KDF
          Unit, DefaultIV,                        \* eight bytes; defaultIV
          CBCEncrypt(_, _), CBCDecrypt(_, _),     \* of a nonce and a text of whole blocks
          PairEncrypt(_), PairDecrypt(_),         \* of a block of two units
          XorCount(_, _)                          \* of a unit and a counter

\* work: the last result, and what it was made from.  kdf: the reader, and `out`,
\* a history of the bytes it gave.
VARIABLES work, kdf

cipherVars == <<work, kdf>>

NoWork == [op |-> "none"]
NewConcatKDF == [i |-> 1, cache |-> <<>>, out |-> <<>>]
CipherInit == work = NoWork /\ kdf = NewConcatKDF

-----------------------------------------------------------------------------
(* CBC with HMAC.                                                          *)

Repeat(x, n) == [j \in 1..n |-> x]
\* At least one byte is added, a block if none is missing.
padBuffer(s) == LET missing == BlockSize - (Len(s) % BlockSize) IN s \o Repeat(missing, missing)

\* An empty buffer is out of range, which Seal never makes: a panic, taken for err.
unpadBuffer(s) ==
  LET count == s[Len(s)]
  IN  IF \/ Len(s) % BlockSize # 0 \/ Len(s) = 0
         \/ count = 0 \/ count > BlockSize \/ count > Len(s)
         \/ \E j \in (Len(s) - count + 1)..Len(s) : s[j] # count
      THEN [err |-> TRUE, s |-> <<>>]
      ELSE [err |-> FALSE, s |-> SubSeq(s, 1, Len(s) - count)]

\* A plausible slip: the length of the additional data is not authenticated.
TagWithoutLength(data, nonce, ciphertext) == [mac |-> data \o nonce \o ciphertext, bits |-> 0]

computeAuthTag(data, nonce, ciphertext) ==
  [mac |-> data \o nonce \o ciphertext, bits |-> Len(data) * 8]

\* What follows dst; the tag stands after the ciphertext.
Seal(nonce, plaintext, data) ==
  LET ciphertext == CBCEncrypt(nonce, padBuffer(plaintext))
  IN  [ciphertext |-> ciphertext, tag |-> computeAuthTag(data, nonce, ciphertext)]

\* (What is sealed has a tag: the check that there is one, on bytes, is left out.)
Open(nonce, sealed, data) ==
  IF \/ sealed.tag # computeAuthTag(data, nonce, sealed.ciphertext)
     \/ Len(sealed.ciphertext) % BlockSize > 0
  THEN [err |-> TRUE, s |-> <<>>]
  ELSE unpadBuffer(CBCDecrypt(nonce, sealed.ciphertext))

-----------------------------------------------------------------------------
(* Key wrapping.                                                           *)

\* A unit is 8 bytes: the errors for lengths that are no multiple of 8 are left out.
\* State of the loop: the first half of the buffer, and the units r.  The t-th
\* round is the iteration that numbers itself t, and counts from t - 1.
WrapRound(s, t) ==
  LET k == ((t - 1) % Len(s.r)) + 1
      b == PairEncrypt(<<s.a, s.r[k]>>)
  IN  [a |-> XorCount(b[1], t), r |-> [s.r EXCEPT ![k] = b[2]]]

UnwrapRound(s, t) ==
  LET k == ((t - 1) % Len(s.r)) + 1
      b == PairDecrypt(<<XorCount(s.a, t), s.r[k]>>)
  IN  [a |-> b[1], r |-> [s.r EXCEPT ![k] = b[2]]]

WrapLoop(cek) ==
  LET loop[t \in 0..(6 * Len(cek))] ==
        IF t = 0 THEN [a |-> DefaultIV, r |-> cek] ELSE WrapRound(loop[t - 1], t)
  IN  loop

KeyWrap(cek) == LET end == WrapLoop(cek)[6 * Len(cek)] IN <<end.a>> \o end.r

UnwrapLoop(ciphertext) ==
  LET n == Len(ciphertext) - 1
      loop[t \in 0..(6 * n)] ==
        IF t = 6 * n THEN [a |-> ciphertext[1], r |-> Tail(ciphertext)] ELSE UnwrapRound(loop[t + 1], t + 1)
  IN  loop

KeyUnwrap(ciphertext) ==
  LET end == UnwrapLoop(ciphertext)[0] IN [err |-> end.a # DefaultIV, cek |-> end.r]

-----------------------------------------------------------------------------
(* The KDF.                                                                *)

Hash(i) == [k \in 1..HashSize |-> <<i, k>>]

\* concatKDF.Read(out) with n = len(out): the cache first, then new hashes; what
\* is left of the last one is the cache.
KdfRead(c, n) ==
  LET cached == IF Len(c.cache) < n THEN Len(c.cache) ELSE n
      missing == n - cached
      hashes == (missing + HashSize - 1) \div HashSize
      fresh == [x \in 1..(hashes * HashSize) |->
                  Hash(c.i + ((x - 1) \div HashSize))[((x - 1) % HashSize) + 1]]
      all == c.cache \o fresh
  IN  [i |-> c.i + hashes, cache |-> SubSeq(all, n + 1, Len(all)), out |-> c.out \o SubSeq(all, 1, n)]

-----------------------------------------------------------------------------
(* What is assumed of the inputs and of the standard library: a block fits *)
(* a padding byte, and each of its functions can be undone.                *)
ASSUME CipherAssumption ==
  /\ BlockSize \in 1..255 /\ HashSize \in Nat \ {0}
  /\ Plaintexts \subseteq Seq(Nat) /\ Data \subseteq Seq(Nat) /\ Nonces \subseteq Seq(Nat)
  /\ WrapKeys \subseteq Seq(Unit) /\ DefaultIV \in Unit
  /\ \A nonce \in Nonces, plaintext \in Plaintexts :
       LET s == padBuffer(plaintext)
           ciphertext == CBCEncrypt(nonce, s)
       IN  /\ ciphertext \in Seq(Nat) /\ Len(ciphertext) = Len(s)
           /\ CBCDecrypt(nonce, ciphertext) = s
  /\ \A a, b \in Unit : /\ PairEncrypt(<<a, b>>) \in Unit \X Unit
                        /\ PairDecrypt(PairEncrypt(<<a, b>>)) = <<a, b>>
  /\ \A cek \in WrapKeys : \A t \in 1..(6 * Len(cek)), a \in Unit :
       XorCount(a, t) \in Unit /\ XorCount(XorCount(a, t), t) = a

-----------------------------------------------------------------------------
SealStep(nonce, plaintext, data) ==
  /\ work' = [op |-> "seal", nonce |-> nonce, plaintext |-> plaintext, data |-> data,
              sealed |-> Seal(nonce, plaintext, data)]
  /\ UNCHANGED kdf
WrapStep(cek) == work' = [op |-> "wrap", cek |-> cek, wrapped |-> KeyWrap(cek)] /\ UNCHANGED kdf
ReadStep(n) == /\ Len(kdf.out) + n <= MaxRead
               /\ kdf' = KdfRead(kdf, n)
               /\ UNCHANGED work

\* Calls do not share state: one Seal or KeyWrap, or the reads of one reader.
CipherNext ==
  \/ work = NoWork /\ kdf = NewConcatKDF /\ \E nonce \in Nonces, plaintext \in Plaintexts, data \in Data :
       SealStep(nonce, plaintext, data)
  \/ work = NoWork /\ kdf = NewConcatKDF /\ \E cek \in WrapKeys : WrapStep(cek)
  \/ work = NoWork /\ \E n \in 0..MaxRead : ReadStep(n)

\* Other ways to cut what the MAC is computed from into data, nonce and ciphertext.
Cuts(s, n) ==
  {[data |-> SubSeq(s, 1, d), nonce |-> SubSeq(s, d + 1, d + n), ciphertext |-> SubSeq(s, d + n + 1, Len(s))] :
     d \in 0..(Len(s) - n)}

CipherSpec == CipherInit /\ [][CipherNext]_cipherVars

\* The two ends agree.  Open returns what Seal sealed, and refuses it if the same
\* bytes are cut into additional data, nonce and ciphertext in another way
\* (cbc_hmac.go); KeyUnwrap returns the key KeyWrap wrapped, of any number
\* of units (key_wrap.go); the KDF gives one stream of bytes, each once, in whatever pieces
\* it is read (concat_kdf.go).
EndsAgree ==
  /\ work.op = "seal" =>
       LET s == work.sealed
       IN  /\ Open(work.nonce, s, work.data) = [err |-> FALSE, s |-> work.plaintext]
           /\ \A c \in Cuts(work.data \o work.nonce \o s.ciphertext, Len(work.nonce)) :
                c.data # work.data => Open(c.nonce, [s EXCEPT !.ciphertext = c.ciphertext], c.data).err
  /\ work.op = "wrap" => KeyUnwrap(work.wrapped) = [err |-> FALSE, cek |-> work.cek]
  /\ \A j \in DOMAIN kdf.out : kdf.out[j] = <<((j - 1) \div HashSize) + 1, ((j - 1) % HashSize) + 1>>
=============================================================================
