# A TLA+ model of `checking`

`checking` is a collection of Go packages for authentication: an LDAP client
(`ldap`), JSON Web Tokens (`jwt`), JSON Object Signing and Encryption (`jose`,
with a fork of `encoding/json` in `jose/json` and claims in `jose/jwt`) and an
OpenID Connect client (`oidc`).  This directory holds TLA+ models of these
packages, the TLC configurations that check small instances, and TLAPS proofs
for instances of any size.  `PROJECT.json` maps every definition to the lines it
models and lists the hazards with the properties that cover them.

## The system's parts

| Part | What is hard about it | Modelled by |
|---|---|---|
| LDAP connection, `ldap/conn.go` | five kinds of goroutine, a bounded queue written with a mutex held, three callers of `Close`, late and duplicate responses, channels that panic when used after they are closed | `LdapConn`, `LdapService` |
| LDAP operations, `ldap/{bind,add,del,modify,compare,passwdmodify}.go` | a reply that is lost, malformed or of another kind after the server has acted | `LdapOps`; their way through the connection is a call of `LdapConn` |
| Searches, `ldap/search.go` | the paging control is kept in the caller's request and changed in place | `LdapSearch` |
| Controls, `ldap/control.go` | a packet inside an OCTET STRING, optional parts | `LdapControl` |
| Filters, names, `ldap/filter.go`, `ldap/dn.go` | scanners with hand-kept positions, escapes, recovered panics | `LdapFilter`, `LdapDN`, `LdapNames` |
| Remote key set, `oidc/jwks.go` | one update shared by all waiters, stale snapshots, a provider that changes its keys or never answers | `OidcKeySet` |
| OIDC verifier, `oidc/verify.go` | the payload is read twice, a configuration is shared and written | `OidcVerify` |
| JOSE signing, `jose/{signing,jws,shared,jwk}.go` | protected and unprotected headers merge; several signatures; several forms | `Jose`, `JoseSign`, `Tokens` |
| JOSE encryption, `jose/{crypter,jwe,asymmetric,symmetric,encoding}.go` | one content key for many recipients, headers from three places | `Jose`, `JoseCrypt`, `Tokens` |
| JOSE ciphers, `jose/cipher` | padding, counters and block boundaries | `JoseCipher` |
| JSON fork, `jose/json` | a scanner with lookahead that a decoder must keep in step with; streams cut anywhere; an encoder cache shared by goroutines | `JsonScanner`, `JsonDecode`, `JsonEncode`, `JsonStream`, `JsonFields`, `JsonCache` |
| JWT, `jwt`, `jose/jwt` | time claims at their boundaries, which errors add up, claims maps shared by builders | `Jwt`, `JoseJwt`, `Tokens` |

The parts meet in three places.  The LDAP operations run as calls of the
connection.  `OidcVerify` verifies with `JoseSign` what the key set of
`OidcKeySet` supplies.  `JoseJwt` signs and seals with `JoseSign` and
`JoseCrypt`, and nests one in the other.

## Modules

### `LdapConn`: one LDAP connection

A process is a goroutine that touches a `Conn`; `pc[p]` is the statement it is
about to run.  A *call* is one `Bind`, `Add`, `Del`, `Modify`, `Compare`,
`PasswordModify`, `Search` or `StartTLS` (`SimpleCalls`, `SearchCalls`,
`TLSCalls`), from `nextMessageID` to `finishMessage`.  A *reader* is one run of
`reader()`: the first is started by `Start`, the others by a successful
`StartTLS`.  A *timer* is the goroutine that sleeps after a request, a *closer*
a `Close` by the user.  The processor, `processMessages()`, has its own `ppc`.

| Code | Model |
|---|---|
| `chanMessage`, capacity 10, and `close(chanMessage)` | `chanMessage`, `QueueCap`, `queueClosed` |
| `messageMutex` | `messageMutex`, the goroutine that holds it, or `Free` |
| `closing`, `closeErr`, `isTLS`, `isStartingTLS`, `outstandingRequests`, `requestTimeout`, `wgClose` | variables of the same name; the counter is an integer, and `CountIsExact` shows that the unsigned one does not wrap |
| `messageContexts`, a context's `id`, `done`, `responses` | `messageContexts` and functions of the call |
| `conn` | `net`: up, broken by the peer, closed by `Close` |
| `nextMessageID` | `TakeID`, `TakeNoID` (the channel is closed) |
| `sendMessageWithFlags` | `CheckClosing`, then `Reject` or `Admit`, then `SendLock`/`SendRefused`, `SendPut` |
| `finishMessage` | `Finish` (close `done`), `FinishCheck`, `Uncount`, `SendLock`, `SendPut` |
| `Close` | `CloseLock`, `CloseQuit`, `CloseConfirmed`, `CloseWait`; three kinds of caller, told apart by `AfterClose` |
| `StartTLS` | a call with `TLSRefused`, `TLSFails` (which calls `Close`), `TLSUp` |
| `processMessages` | one `Process...` action for each case and outcome; `WriteReturns` and `WriteFails` for the end of `conn.Write`, which may never come; `SendResponse`, `Deliver`, `Drop` for `sendResponse`; `Drain...` for the deferred function |
| `reader` | `Read...`, `Mark`, `StoreErr`, then the sends or the deferred `Close` |

A step is split wherever another goroutine can see the difference: at each lock,
channel operation and atomic access.  Packets are reduced to their message ID
and to whether a search expects more after it.  The server may answer a written
request late, twice or never, send a packet that answers nothing, a packet
without children or one whose message ID is no integer, or drop the connection.

Left out: the contents of requests and results, debug printing, and the panic of
a *caller's* goroutine when a response has an unexpected shape.

### `LdapService`: what the connection promises

A request is accepted only while the connection accepts; an accepted call's
channel is closed exactly once; the connection stops only when no accepted call
waits on an open channel.  `ImplementsService` in `LdapConnProps` is the
refinement: `accepting` is `~closing`, a call's channel exists once its request
is queued, and `stopped` is the end of the processor.

### `OidcKeySet`: the remote key set

A call of `VerifySignature` has a token with the key that signed it and the key
ID its header claims.  The sets the provider publishes are numbered; `cached`,
`keys[v]` and `fetched[u]` are such numbers, 0 standing for no set.  An update
is named after the call that started it: `upc[u]` goes from `fetch` through
`served` and `done` (its result is known) to `store` (`done()` has woken the
waiters, the cache is still old) and `off`.  `Verify(v)` is a call's steps,
`Update(u)` the goroutine's, `Provider(u)` the request's.  Cryptography is
reduced to "the key that signed verifies"; cache-control to "an expiry between
now and `MaxAge` later".  The context given to `NewRemoteKeySet` is not
cancelled (its comment calls the behaviour after that undefined).

### `LdapOps`, `LdapSearch`, `LdapControl`: operations over a server

`LdapOps` has one action for each operation, from building the request to
waiting; `Receive` is the rest of it, the tests on the response in their order.
`Serve` is the server, `Others` somebody else who changes the directory,
`Intermediate` a response of another kind sent first, and `Lost` a reply that
does not come or cannot be read after the server may have acted.  `did` is a
history variable: what the server did for the operation.  Result codes are numbers:
the server may send any of `OtherCodes`, and `getLDAPResultCode` keeps one byte of
it (`uint8`).

`LdapSearch` runs `SearchWithPaging` as the loop it is, page by page, on
`Controls`, the caller's own slice, which later calls use again.  The server
keeps to RFC 2696, may send short pages or ignore the control, and may fail
anywhere.  The code after the loop that would abandon a paged search is never
reached: every way out of the loop sets `pagingControl` to nil or returns.

`LdapControl` encodes and decodes controls.  `Wire` is what the ASN.1 library
leaves of a packet that was sent; it is external.

### `LdapFilter`, `LdapDN`, `LdapNames`: texts and names

The first two are recursive functions over sequences of characters, with the code's
positions and its panics.  `é` is a rune of two bytes, `bad` a byte that is not
UTF-8.  A panic in `compileFilter` is recovered into a result that nobody set,
`nil, 0, nil`, and the model does the same; `FilterWhole` shows that no caller
takes it for a filter.  `LdapNames` has what `ParseDN` returns, and `Equal` and
`AncestorOf` on it.

### `JsonScanner` to `JsonCache`: package `jose/json`

`JsonScanner` is the state machine, one operator per state function; the states
inside numbers, strings and words are three tables.  `JsonDecode` walks a text
with its own scanner, as `decodeState` does, into a Go type, and returns the
value, the saved error and the panic; `JsonEncode` writes values and formats
texts, and knows which values are addressable, on which depends whether a
`RawMessage` is written as the text it is or as base64.  `JsonStream` is the `Decoder`: a call runs until it returns or needs a
`Read`, and `Read` delivers any piece of the input, an error with its last
bytes, or nothing.  `JsonFields` is `typeFields` over declarations that may embed
each other.  `JsonCache` is `typeEncoder` run by several goroutines: each locked
section is a step, and `wg.Wait` in the indirect func is a guard.

### `Jose`, `JoseSign`, `JoseCrypt`, `JoseObjects`, `Tokens`: objects on their way

Cryptography is symbolic: a signature, a MAC or a ciphertext is the record of
what went into it, so it verifies or opens exactly with the right key and input.
Base64 and JSON are reduced to what they lose, the difference of nil and empty.
`JoseSign` and `JoseCrypt` have the constructors, `Sign` and `Encrypt`, both
serialisations, parsing, and verification or decryption with one key among
several; `JoseObjects` names the two for the modules that use both.  `Tokens`
moves the objects: `made`, then on the `wire`, then `got` by the reader, who may
serialise them again.  On the way a text may get an unprotected header, or a part
of one text may take the place of the same part of another: a mix-up that
verification must notice.  The header fields `apu` and `apv` of a JWE are read with
`getByteBuffer`, which refuses what is not base64, and go into the derived key on
both sides.  A header whose value is `null` is left out.

### `JoseJwt`, `Jwt`, `OidcVerify`: claims

`JoseJwt` has builders whose claims are maps on a heap, so that sharing would
show, the errors of `json.Marshal`, the three forms of a token (`Token`,
`CompactSerialize`, `FullSerialize`) and their parsers, and `Validate`.  `Jwt` has the signing methods, `ParseWithClaims` with its
error bits, and both kinds of claims.  `OidcVerify` makes verifiers that share a
`Config`, and checks a raw token: its second segment and the object that `jose`
reads from the whole are two things, which only in the compact form are bound to
agree.  Times are in milliseconds, claims in seconds: `jwt` cuts the clock to the
second (`Unix`) before it compares, `jose/jwt` and `oidc` compare with it as it is.
Left out: claims types of the caller's own, and times beyond an `int64`.

### `JoseCipher`: the modes under `jose/cipher`

`Seal`, `Open`, `KeyWrap`, `KeyUnwrap` and the KDF's `Read` with their buffers.
The standard library's CBC mode, block cipher and xor are constants that can be
undone, a MAC or a hash is the record of its input.  The tests on the lengths of
keys, nonces and wrapped keys are left out.  `MCTokens` has a CBC mode over
blocks of two small numbers.

### Properties, instances, proofs

`LdapConnProps`, `OidcKeySetProps`, `JsonProps`, `LdapProps`, `LdapControlProps`,
`ObjectProps` and `TokenProps` state properties; those about one module only stand at its end.  A module whose
name begins with `MC` is an instance: it gives the constants their values and,
in `MCJson`, `MCLdap` and `MCTokens`, puts several *themes* side by side: each
behaviour takes one family of inputs (a set of words, jobs or declarations) and
explores it to its bound.  The modules whose names end in `Proofs` or `Theorems`
hold the proofs: `LdapConnProofs` and `LdapConnTheorems` those of the connection,
`LdapProofs` of controls, paging, the operations and names, `StandaloneProofs` of the key
set, the encoder cache and `jose/cipher`, `JwsProofs`, `JwsArrivalProofs` and
`JweProofs` of JWS and JWE objects, and `TokenProofs` of `jwt` tokens, ID
tokens and the builders of `jose/jwt`.  An operator introduced as *Mutant* or *A plausible slip* is a
mistake one could make in the definition that follows it; no specification uses
it.  Replacing that definition by it makes TLC report the property it is paired
with in `PROJECT.json`.

## What TLC checks

| Run | Instance | States | What it shows |
|---|---|---|---|
| `conn_starttls` | a plain call and a `StartTLS`; queue of 1; 2 packets | 434,136 | sends, counter, `StartTLS`, and the refinement of `LdapService` |
| `conn_search` | a plain call and a search; queue of 1; 2 packets | 1,440,964 | late, duplicate and unsolicited responses reach the right call or none |
| `conn_live` | a search and a user's `Close`; fair | 90,928 | one shutdown; `Close` returns, accepted calls are released, a timeout ends a call |
| `conn_waiters` | a plain call, a `Close`; fair | violated | see *Disagreements* |
| `conn_tls_close` | a `StartTLS`; fair | violated | see *Disagreements* |
| `keyset` | two verifications, one key, two sets, clock to 1; fair | 200,944 | one update at a time, no older keys in the cache, no refusal of a key always published, waiters return, updates make room |
| `keyset_update` | two verifications, one key, two sets | violated | see *Disagreements* |
| `json` | all texts of up to 4 or 5 words in six themes, streams of 3 to 6 words cut anywhere, five structs of up to 2 fields, 2 goroutines and 2 mutually recursive types | 432,023 | package `jose/json`, see below |
| `json_sync` | texts of up to 8 words into arrays of fixed size | violated | see *Disagreements* |
| `ldap` | filters and names of up to 5 words, 2 controls, 2 paged searches of 3 entries, 3 operations | 190,481 | package `ldap` above the connection, see below |
| `paging_reuse` | 2 paged searches | violated | see *Disagreements* |
| `tokens` | nine themes: one JWS, two mixed up, one JWE, two mixed up, one `jwt` token, two mixed up, 5 builders, 2 verifiers of ID tokens, the ciphers | 92,100 | packages `jose`, `jwt`, `oidc`, see below |

The properties, each stated in a comment above its definition:

* **Connection.** `NoSendOnClosed`, `NoUseOfClosed`: no goroutine panics on a
  closed channel.  `ImplementsService`: whatever entered the queue is processed
  before the processor ends, and nothing enters it after the closing flag is
  set.  `NoCrossDelivery`: a response goes to the call it answers.
  `ReceiverReady`: the processor never waits for a call that waits for the mutex.
  `StartTLSAlone`, `HandshakeAlone`, `CountIsExact`, `CloseOnce`, and the
  liveness properties `CloseReturns`, `AcceptedTold`, `TimeoutEnds`.
* **Key set.** `SingleFlight`, `CacheMonotone`, `StableKeyVerifies`, and for
  liveness `WaitersReturn`, `FlightFreed`.
* **JSON.** `ScannerIsGrammar`: the scanner, and `isValidNumber`, accept the
  grammar that `JsonProps` defines without them.  `InSync`: decoding never loses
  its place.  `MarshalRoundTrip`: what was decoded is encoded to a text that decodes
  to it, but for the ways of `RawMessage` that its comment lists.  `FormatPreserves`:
  `Compact`, `Indent` and `HTMLEscape` change no value.  `StreamIsWhole`, `TokensNested`: a stream
  gives what the whole text gives, however it is cut.  `FieldsAreGo`: the fields
  are those of Go's rule, defined by all paths.  `EncodersServe`, `MarshalEnds`:
  the shared cache never hands out a nil or wrong encoder and nobody waits for
  ever.
* **LDAP.** `FilterWhole`: what compiles is a filter, and decompiles to a text of
  the same filter.  `DNIsGrammar`, `NamesOrdered`: parsing against a definition
  that cuts before it trims; the ancestor relation.  `ControlsSurvive`,
  `PagedExact`.  `ToldWhatWasDone`: an operation returns the server's result code,
  modulo 256, and no success without one, but for `Add`, `Del` and `Modify` after a
  response of another kind.
* **Tokens.** `SignedArrives`, `SealedArrives`: what is made can be read by
  whoever should.  `AcceptedWasMade`: what is accepted was made, with the headers
  and the additional data the reader sees.  `ClaimsArrive`, `TokenJudged`,
  `IDTokenChecked`, `EndsAgree`.  `AgreedWindow`: a token with an
  expiry is in force from the same moment for `jwt` and for `jose/jwt`; `jwt` ends it
  less than a second after the expiry, `jose/jwt` at it.

**Bounds.**  A queue of 1 is the smallest that can be full, and a full queue is
where sends block with the mutex held.  Two packets are a response and its
duplicate, or a response and one that answers nothing.  Two calls are enough for
a race; the user's `Close` meets the reader's in `conn_live` and that of
`StartTLS` in the proofs.  For the key set, two verifications are one that starts
an update and one that joins it or starts the next; two sets are a change of
keys; a delta of 1 with lives of 0 or 1 puts the expiry on both sides of the test
at `jwks.go:123`.  (A token with a wrong key ID is in no TLC instance of the key
set; the proofs cover it.)  A word of a JSON or LDAP theme is the longest piece
that always goes together, so five words reach three levels of nesting, a value
after a separator and an escape at the end of the input.  Page sizes 0, 1 and 2
over three entries are "no limit", "every page full" and "last page short".  Two
token objects are the least that can be mixed up.  The clock stands at each
half second from 0 to 5.5, around claims of 0 to 4 seconds, with leeways of 0, 0.5, 1
and 2 seconds, so every comparison is met on, below and above its boundary and inside
the second that `Unix` cuts off.
The proofs do not depend on any of these bounds.

**Deadlock** is not checked by TLC's switch: a connection, a key set or a stream
whose calls have returned may rest, and a text that is complete is not extended.
That nobody rests while waiting is what the liveness properties and
`ReceiverReady` say.

**Fairness.**  Weak fairness for each goroutine of the program: the Go scheduler
runs a goroutine that stays runnable, and its mutex is starvation free (weak
fairness assumes less than that).  Nothing is assumed of the user, the server,
the network or the provider: `WaitersReturn` holds with a provider that never
answers, `TimeoutEnds` with a server that never does.  Nor need a handshake or a
`conn.Write` end: it has no deadline, and a peer that takes no bytes holds the
processor in it.  No timeout is delivered then and a `Close` waits for ever, so each
liveness property of the connection has `WriteHangs` (`<>[](ppc = "write")`) as its
alternative.  A negative wait group
panics in a goroutine nobody recovers, so `LdapConn` has no step after it.

## Disagreements between the code and its text

* `conn_waiters`: `sendMessageWithFlags` ignores what `sendProcessMessage`
  returns (`conn.go:296`).  A request refused because `Close` came between the
  two tests of the closing flag leaves its caller waiting for ever, although
  `conn.go:337` says that anyone who is waiting is informed.
* `conn_tls_close`: when its handshake fails, `StartTLS` calls `Close` before
  its deferred `finishMessage` (`conn.go:245`).  A timeout for it then blocks the
  processor, `Close` waits for the processor with the mutex held, and the connection
  is deadlocked.
* `keyset_update`: `verify` compares the clock with an expiry it read before
  another call's update was stored, and fetches keys that do not expire within
  `keysExpiryDelta`, against the "if and only if" of `jwks.go:21`.
* `json_sync`: `value` skips a value and then mends its scanner as if an object,
  never an array, had been opened (`decode.go:348`).  `{"a":[1,[]]}` into a
  struct whose field is an array of one place ends in `errPhase`, which
  `decode.go:258` says should not happen.  `InSync` shows that it takes an array
  of fixed size.
* `paging_reuse`: `SearchWithPaging` promises "no change to the search request"
  when it has a fitting control (`search.go:299`), and leaves its last cookie in
  that control (`search.go:355`).

Smaller things the models show, without a run of their own; where one limits a
property, the property's comment says so.

* Connection: `wgClose.Add(1)` comes after the reader is started, so a reader that
  fails at once may make the wait group negative (`CloseOnce` says when); a write has
  no deadline, and one that hangs holds up every other call and `Close`; after
  the server refuses `StartTLS` no reader is started again; cached keys are tried
  whatever their expiry, where `jwks.go:19` gives them `keysExpiryDelta`.
* JSON: a struct embedded in one that is embedded twice is counted once
  (`encode.go:1087`), so a field Go calls ambiguous is seen; `,string` on an
  array or an object panics in `reflect`; `omitempty` loses nil against empty.
* LDAP: `(a=**)` and a matching rule called `dn` do not survive decompiling;
  text after the operand of `!` or `&` may be dropped; `a=x+b=` parses to a name
  without RDNs; `Add`, `Del` and `Modify` log a response of an unexpected kind
  and return nil, where `Compare` and `PasswordModify` return an error; a result code
  that is a multiple of 256 is told as success.
* JOSE: an Ed25519 JWK never counts as public or valid, so it cannot sign as a
  JWK or be embedded; `NewMultiEncrypter` ignores `ExtraHeaders`; `DecryptMulti`
  overwrites the error of `decompress`; an empty plaintext that is not compressed
  is sealed but not opened; an empty payload does not survive a second JSON
  serialisation; `CompactSerialize` of a JWE drops the additional data.
* JWT, OIDC: with `UseJSONNumber` a time with a fraction counts as absent; in the
  second after an expiry `jwt` still accepts what `jose/jwt` refuses;
  `NewVerifier` has no default algorithm, while `Provider.Verifier` writes its
  default into the `Config` it is given.

## What is proved

The theorems are for any number of calls, readers, closers, keys, updates,
entries, pages, operations, goroutines, types and exchanged parts, any queue
capacity, page size and number of packets.  The only assumptions are

* `ConnAssumption`: the sets of calls are finite and disjoint, the queue has room
  for one message;
* `KeySetAssumption`: `keysExpiryDelta` is positive, each key has an ID, `NoKeyID`
  and `None` are apart from the rest;
* `CodesAssumption`: the result codes are natural numbers;
* `PagingAssumption`: the directory is a sequence of entries, page sizes are
  natural numbers;
* `ControlAssumption`: a control is made by one of the three constructors, and a
  `ControlString` is not of a type that has a kind of its own;
* `ElemsAssumption`: a type's elements are a sequence of types;
* `JobsAssumption`: who makes a `jwt` token gives it times, and one of the
  registered methods; a signer or an encrypter has one key at least, with an
  algorithm each; a signer's key that is no JWK has no key id, and a symmetric one
  no private part; no caller of an encrypter puts a `zip` header of its own among
  the `ExtraHeaders` (`EncryptWithAuthData` would write it over the one it sets,
  and the reader would inflate what was not compressed, or not what was);
* `ConfigAssumption`: the fields of a `Config` have their Go types, a key set is a
  list of keys;
* `TimesAssumption`: the clock does not stand before 1970, no leeway is negative;
* `CipherAssumption`: a block has 1 to 255 bytes, so that its length fits a padding
  byte; the library's CBC mode, block cipher and xor can be undone.

**The connection.**  `NoSendOnClosed` and the others are not inductive alone: to
know that the queue is open when a goroutine sends, one must know that the
goroutine holds the mutex and that only the holder closes the queue, and when it
may.  `IInv` adds, in layers that each rest on the ones before:

1. `TypeOK` and `PacketInv` (`LdapConnProofs`), for the shape of the state;
2. `ShutdownInv`: who holds the mutex, and how far `Close` is from that holder's
   place in it; the quit message is the last one and is sent once;
3. `CallInv`: what a call's place says about its `done` and its request;
4. `OwnerInv`: an accepted call is in exactly one place, the queue, the map or the hands of the processor, and its channel is open
   exactly as long as it is in one;
5. `IdInv`: message IDs are unique and a response carries the ID of the request
   it answers;
6. `CountInv` (`LdapConnTheorems`): the counter against the cardinality of the set
   of calls between admission and `finishMessage`.

Each layer has a lemma for each group of actions; small frame lemmas say what a
move of one goroutine leaves alone.  `Invariance` combines them;
`LdapConnTheorems` draws the properties from it, `Refinement` last:
each step is a step of `LdapService` or leaves its variables unchanged.
`ClosedOnce` needs of `IInv` that the queue is open when `Close` closes it, and
`GoneInv`, why a reader that failed leaves a closed connection behind.
`HandshakeSafe` needs one more invariant, `ReaderInv`: at most one reader reads;
from the moment the answer of a `StartTLS` has been read until its handshake
ends none does; and nothing answers a request that was not written.  It rests on
`StartTLSAlone` and on the uniqueness of message IDs.

**The key set.**  `KeyInv` adds to `SingleFlight` and `StableKeyVerifies` that a
call which has not asked for keys has no update (`FreshCalls`), that a running
update holds nothing older than the cache (`UpdateNewer`), that a waiter waits
for a real update (`WaitsReal`) and that an empty cache counts as expired
(`EmptyExpired`).  `CacheMonotone` follows from `UpdateNewer`, and
`StableKeyVerifies` from `EmptyExpired`: a snapshot that lacks an always
published key is empty, hence expiring, hence refreshed.

**Paged search.**  `PagedExact` speaks of the result only; `PagingInv` adds where
the next page begins: the result ends at the place the control's cookie names,
and the page under way is the directory from there to the server's place.
`Pieces` and `NextEntry` are the facts about sequences it needs: neighbouring
pieces make one piece.

**The operations.**  `ToldWhatWasDone` compares what was returned with what the
server did; `OpsInv` says in between that a request on the wire is not done yet,
and that a response is that of the operation under way and carries what was done
(`AnswerOk`), or is an intermediate one that has no result.  The code that is returned
is that of the response modulo 256, on both sides.

**Controls.**  `ControlReadBack` goes through the three kinds and the optional
criticality: decoding depends on the number of children and on the kind of the
second one's value, so `PlainWired` and `PagingWired` first say what arrives.
`FirstFound` rests on the least position of a set of positions (`FirstPosition`).

**Names.**  `NamesOrdered` speaks of what `ParseDN` returns; TLC checks that this is
a `DN`, and `NamesAbove` proves the rest for every `DN`.  `AllAttributes` is the step
that makes `rdnEqual` transitive although it compares sets of attributes and the
lengths only; `NamesAlike` lifts it to names, whose ancestors are aligned at their
ends.

**The encoder cache.**  `EncodersServe` is not inductive: that an encoder which
`publish` puts into the cache has all its parts depends on the stack of builds
below it.  `CacheInv` adds that a build is on the stack of one goroutine only and
once (`Held`, `Apart`), that each build on a stack waits for exactly the type of
the build above it (`Chain`), and that the topmost waits for the type looked up,
or has all its parts when it is published (`TopOk`).

**Tokens of package `jwt`.**  `JwtInv`: however often parts are exchanged, the
signature in a text is that of some token that was made, and a text without an
exchange is the one that was made.  `SignatureBinds` says that such a signature
verifies for the method, claims and key it was made with and for no other;
`ParseStops` and `ParseJudges` are the two ways through `ParseWithClaims`, and
`ClaimsJudged` relates the three comparisons of `Valid` to the claims.
`WindowsAgree` needs that the claims read are claims of some job, and `UnixOf`, how a
time in milliseconds lies to the second it is cut to.

**JWS objects.**  `AcceptedWasMade` has two halves.  `AcceptedWasSigned` speaks of
the object that was read; `SignedInv` adds what is true on the way: every
signature in a text is one that some `Sign` made (`MadeSignature`), whatever
payload, protected header or signature was exchanged and whatever unprotected
header was added, and the reader's object is what `sanitized` makes of the text.
A signature is bound to its algorithm, key and input, and the input to payload
and protected header, so what verifies was signed as it stands.  The header the
code verifies with is a merged one: `ReadHeader` and `OneNonce` show that the
algorithm and the nonce the reader sees come from the protected part.

`SignedArrives` is the other direction, from what was signed to what is read, under
the conditions `Readable` states: the object is not one of those the code makes but
refuses to read (an embedded Ed25519 key, a `nil` payload in the JSON form, extra
headers over the ones `Sign` sets).  `SentInv` holds for texts without an exchange:
each part of the text is the protected header of its signer (`Says`: which fields
it has and what they hold) with a signature over the job's payload, through every
further serialisation (`TextCarries`) and whatever unprotected header is added.
`KeySignerTells` takes from the constructors which algorithms each kind of key
signs with (`Supports`), so that the reader's verifier accepts the same ones
(`KeyVerifies`).  `ReadsBack` says of an embedded key that the reader finds it
public and valid, `HeaderRead` that the merged header shows what `Says` said, and
`PartReads` that no part is refused.  `VerifyMultiFinds` then finds a signature, and
`ArrivedVerifies` that the one found is by the caller's key.

**JWE objects.**  `SealedInv`: the *m*-th object made is that of its job and of
the *m*-th encryption, and every ciphertext and every wrapped key in a text is a
made one.  Nothing else of a text (tag, protected header, additional data,
algorithm of a recipient) needs to be: the sealing holds the protected header and
the additional data, and the content key says where it comes from, a fresh one
(`FromSeed`) from which encryption, an agreed or direct one (`FromKey`) from whose
key.  `OpenedWasSealed` puts the two together: the key that opens belongs to a
recipient of the job whose ciphertext it is, even if the wrapped key comes from
another message.  `zip` is in the protected header exactly if the job asked for
compression, so what is inflated is what was deflated.

**ID tokens.**  `IDTokenChecked` follows from `SignedInv` and `OidcInv`, which says
that a `Config` that a `Provider`'s verifier was made of names an algorithm from
then on; without it an empty list would let any algorithm pass.
`ClaimsDetermine` is the step from "the verified payload equals the segment" to
"the claims read before the signature was checked are those that were signed".

**Builders.**  `BuildersInv`: the map a builder refers to holds exactly what the
builder was given.  `BuilderAdded` is the reason it is inductive: `Claims` adds a map
behind those there are, so that what a builder refers to stays as it is
(`BuildersKept`).  `ClaimsArrive` is this and the way of a token to its reader.

**Ciphers.**  `PaddingUndone`: a padded text is whole blocks and ends in its
padding, whatever its length; the tag of another cut differs because the length
of the data is in it.  A loop is a recursive function: `LoopRuns` shows by counting
that it has a trace, `RoundUndone` that a round of `KeyUnwrap` undoes that of
`KeyWrap` with the same number, and `UnwrapRuns` that the second loop therefore
runs through the states of the first, backwards.  `KdfOk` is the reader's
invariant: what was given and then the cache are the hashes so far.

A leaf of a proof names the prover that finds it where it is not the SMT solver.

**Only model-checked:**

* the liveness properties `CloseReturns`, `AcceptedTold`, `TimeoutEnds`,
  `WaitersReturn`, `FlightFreed` and `MarshalEnds`, which need fairness and
  `ENABLED`, out of the prover's reach;
* what is said of texts (`ScannerIsGrammar`, `InSync`, `MarshalRoundTrip`,
  `FormatPreserves`, `StreamIsWhole`, `TokensNested`, `FieldsAreGo`,
  `FilterWhole`, `DNIsGrammar`): scanners, decoders and encoders are recursive over
  data of any size, and need induction over it.  For the same reason
  `NamesOrdered` is proved of every name but not of every text;
* `SealedArrives`, which needs what each pair of encryption algorithms does with
  each kind of key, both ways, as `SignedArrives` needs it of the signature
  algorithms; and `ClaimsArrive`, but for the builders, since it rests on both.

## Not modelled

* Discovery and `UserInfo` (`oidc/oidc.go`): one HTTP request each, no state.
* The extractors of `jwt/request`: lookups in one HTTP request.
* Reading keys from PEM (`jwt/rsa_utils.go`, `jwt/ecdsa_utils.go`): calls of the
  standard library one after the other.
* The Behera and VChu password policy controls: records filled from one integer,
  with no `Encode` to speak of.
* JWK thumbprints, and the lookup in a `JSONWebKeySet`: a format and a filter.
* `cachedTypeFields`: a cache of a pure function, replaced as a whole.
* `DeriveECDHES` beyond its inputs (`apu` and `apv` among them), and all cryptographic strength.
* `addLDAPDescriptions`, `ldap/debug.go`: printing.  `ldap/atomic_value.go`: an
  atomic variable, used as one in `LdapConn`.
* Floats in JSON, byte slices but for those of a `RawMessage`, ASN.1 and base64 layout, the wording of errors.
* The command line tools and the examples: flags and files.
