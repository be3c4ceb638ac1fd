# Verification of the dir Python SDK

TLA+ specifications of the client side of the AGNTCY directory
(`src/dir-sdk-python/agntcy/dir_sdk/client/`), TLC configurations that check them on small
instances, and TLAPS proofs of their main properties for every value of the constants.
Paths below are relative to that directory. `PROJECT.json` has the exact table: which
definition stands for which lines, which run checks which property, which fault in the code
would break it (the `Mutant...` operators), and every hazard with its line.

    tlc -workers 2 -config MCSignVerify_keys.cfg MCSignVerify     # a run
    tlapm SignVerifyProofs.tla                                     # a proof module

## The system

The SDK is a library. A `Client` joins one service object per gRPC service; all persistent
state is at the directory server, in the token cache file, and in what Fulcio, the timestamp
authority and the log have issued. The hard part is what happens between the steps: between
two RPCs of one call, between two threads of a login, between two programs on one file,
between the parts of one signature.

| component | state it keeps | operations | interacts with | hard behaviour | what makes it correct |
|---|---|---|---|---|---|
| signing and verification (`signing/sign.py`, `signing/verify.py`, `services/signing.py`) | none between calls; referrers at the server | `sign` (sign blob, push key, push signature), `verify` (lookup, pull signatures, pull keys, check each) | store service, key loading, keyless signing | several RPCs per call, other callers between them, lost answers, one bad key among many | no signature without its key; read your writes; only signers of this record, each once |
| store service (`services/store.py`, `services/base.py`) | none | push, pull, lookup, delete, `*_referrer` | server, signing | refused and lost answers, streams that break | an answer means what the caller takes it for |
| keyless signatures (`signing/oidc.py`) | none; certificates, timestamps, log entries are public | `sign_blob_with_oidc`, `verify_with_oidc` | Fulcio, timestamp authority, Rekor, TUF root | everything expires; parts of bundles can be combined | accepted means signed in time by that identity; what was returned verifies |
| keys (`signing/keys.py`, `signing/ed25519ph.py`) | none | `load_private_key`, `load_public_key`, sign, verify | signing | many formats, which exception | right algorithm and digest per key |
| browser login (`auth/oauth_pkce.py`) | server thread, Event, result, errors; `OAuthTokenHolder` | discovery, `run_loopback_pkce_login`, code exchange | browser, identity provider | two threads, foreign requests, timeouts, retries | the code belongs to this login; the server goes away; the caller gets an answer |
| session and token cache (`auth/session.py`, `auth/token_cache.py`) | the cache file, the holder | construct, authenticate, load, save, clear | login, file system, other programs (the CLI) | several programs on one file, crashes, expiry | a saved session is reused; an adopted token is still good |
| channels, interceptors (`transport/`) | channel, token source | make a channel (TLS, SPIFFE X.509 or JWT, bearer), add the header | configuration, SPIFFE agent, holder | rotation of credentials, tokens that run out | every RPC carries the credential in force |
| configuration (`config.py`) | settings | from the environment | channels | precedence | the settings select one channel |
| other services (`services/routing.py`, `search.py`, `sync.py`, `publication.py`, `events.py`, `identity.py`) | none | one RPC each | server | streams, error mapping | all of a stream or an exception |
| referrer encoding (`signing/referrer.py`) | none | to and from `RecordReferrer` | signing | fields that do not arrive | what is pulled is what was pushed |
| facade (`client.py`) | the services, the session, the channel | construction, delegation, login | all | what the constructor has fixed outlives what it was made from | calls and logins of several threads do not disturb each other |
| models (`models/`) | none | re-exports of generated code | | | |

## The modules

Each component module has an `MC...` module (instances, symmetry sets) and a `...Proofs` module.
Two of them implement an abstract specification of what the caller may rely on: `SignVerify`
implements `AttestationLog` (`SignVerifyRefinement` has the proof), `ServiceCalls` implements
`DirectoryCalls` (proof in `ServiceCallsProofs`). `KeyMaterial` is what
`SignVerify` takes for granted of a key: that a signature verifies under the public key stored with
it and no other, and that a key that does not load is passed over. The others meet at named steps: the verdict on a
bundle (`OidcVerdicts` in `SignVerify`, decided in `KeylessSignature`), the login (`Login` in
`TokenSession`, `Adopt` and `LoginFails` in `ClientChannel`, its inside in `LoopbackLogin`), and
the credential of an RPC (`Attach` and `Arrive` in `ClientChannel`, `Refuse` and what follows it
in `ServiceCalls`).

### SignVerify

`SignCalls` are running calls of `client.sign`, `VerifyCalls` of `client.verify`; each has a
program counter, and each RPC is one step: `SignBlob`, `PushPublicKey`, `PushSignature`;
`BeginVerify`, `Lookup`, `PullSignatures`, `PullPublicKeys`, one `CheckSignature` per turn of
the loop, `FinishVerify`; any RPC of verify may fail (`VerifyRpcFails`). The store is the set
of records and two sets of referrers. `PushOutcomes` is how a push may end: kept
(`stored`), answered with `success=false` (`refused`), failed (`error`), or `lost`: the call has
raised, and the push may arrive at any later time (`late`, `ArriveLate`), also at once, when only the
answer was lost, or never. `_push_referrers_to_store` reacts to exceptions only, so `refused`
looks like `stored` to it (`Kept`, `Raises`). Between any two steps another client may
delete the record or a referrer, attach a key of its own, or attach a signature it pulled
elsewhere (`MaxInterventions` bounds how often).

A signature is a record: who made it, with which key, over which record, and the certified
identity if it has a bundle. `_verify_with_keys` tries the keys in the order pulled; what
matters of a key is whether `load_public_key` returns, raises `KeyLoadError` (skipped) or
raises something else (`AbortingKeys`: the loop ends for that signature). `_verify_with_oidc`
is its verdict; `KeylessSignature` has the decision itself.

### AttestationLog

What `sign` and `verify` promise, without RPCs, referrers or public keys: a log of attestations
(record, key, identity). A sign call adds its attestation in one step; a verify call reads those
of its record in one step, at some moment of its call, and answers with signers of what it read:
some of the identities, and all of the keys unless the record was disturbed. `Log` at the end of
`SignVerify` is the refinement mapping. The attestation of a
call that raised may appear later (`Appear`), and one that was removed may be attached again. The log is
the set of signature referrers on the record
they are over (a re-attached one counts for nothing); what verify reads is what it pulled with
`pull_signatures`, so that the later pull of the keys must not matter; `disturbed` are the
records something was removed from, or that have a key attached on which loading aborts. That an
attestation without its key, or a key without its attestation, changes no answer is what the
mapping shows.

### KeylessSignature

`sign_blob_with_oidc` as steps `Certify`, `Sign`, `Stamp`, `Log` (skipped by `skip_tlog`),
each of which may be the last (`SignFails`), with a clock between them. A certificate lives
`CertLife`, the timestamp authority until `TsaEnd`. What has been issued is public:
`Bundles` is every combination of a certificate, a signature, a set of timestamps and a log
entry (or none), and `Restamp` lets anyone have a signature timestamped later.
`Accepts(b, p, cid)` is `verify_with_oidc`: log entry unless `ignore_tlog`, a usable timestamp
unless `ignore_tsa`, at least one verified time, the chain valid at each of them, the SCT
unless `ignore_sct`, the signature over this payload under the key of the certificate, the
identity policy. One consequence of the options, as in the tests of the code: `ignore_tsa`
without `ignore_tlog` accepts nothing, since the log is not a time source; and with
`ignore_tlog` the current time is a verified time, so such a verification ends with the
certificate.

### LoopbackLogin

`run_loopback_pkce_login` as two threads. The caller: `Bind`, `OpenBrowser`, `Wait`
(`done.wait`, which may end by its timeout), `CheckErrors`, `ReadCode`, `Exchange`,
`Shutdown`, `Close`. The server thread: `Accept`, `Record` (do_GET up to the page),
`Answer` (the page, then `finally: done.set()`), `EndLoop`. `shutdown()` waits for the loop, and
the loop for the handler. Connections are redirects for any login whose page was opened,
with its code, an error, or neither; other paths; a target `urlparse` rejects; other
methods (the base class answers, `RejectMethod`); and connections on which nothing is sent, which last until
the client closes them (`HangUp`). Several logins share the port. The conditions under which the
server thread goes on have names (`Handles`, `CanEndLoop`, `GoesOn`), so that who waits for whom can
be said as an invariant: `OnlySilenceDelays`.

### TokenSession

Programs with one `Client` each, on one cache file. `Construct`, `FindCache` (`exists()`),
`ReadCache` (`open()` and the parse), `Validate`; `Login`; `OpenCache` (opening for writing
truncates), `WriteCache`; `SaveFails`, `Die` at any point, `Clear`. The file is `Absent`, `Empty`
(truncated, nothing written since), a token, or `Torn`. `write_text` cuts the file off when it opens it
and never again: into an `Empty` file `WriteCache` puts its document, but over anything else (what
another program has written since, whole or in part) it may leave a tail, so that saves which overlap
can leave a torn file when all of them are complete. The history `alone` tells such saves from
others by who had the file open, not by what came of it. A token knows when the
provider stops accepting it and until when the client believes it does: `Noted` counts from
the receipt and cuts to milliseconds (`Truncate`), `IsValid` compares with a clock cut the
same way and the buffer of `is_valid`. The browser login is the step `Login`: a token arrives
that was issued at most `MaxLatency` ago.

### ServiceCalls

Every method that is one RPC, by the shape of the RPC: `BatchOps` (`push`, `pull`, `lookup`,
referrers: streams in both directions), `UploadOps` (`delete`), `FirstOps` (`delete_referrer`,
which takes the first response), `ListOps` (`list`, the searches), `SingleOps`, `LazyOps`
(`listen`). A call has three actors: the calling thread in `_invoke` and `_collect_stream`
(`Begin`, `Read`, `Return`, `ReturnNothing`, `Fail`, `Break`, `Refuse`), gRPC's sender (`Send`),
and the server (`Serve`, `Finish`, `ServerFails`). `sent` counts the requests that have left the
client, `served` those the server has carried out, `produced` is what it has answered, `read` how
much of that the caller has taken. Both directions hold at most `Window` elements. `Break` ends
the call for the client only: what was sent may still be served. `GrpcErrorOf` is the mapping of
errors, with the exception of `verify`, which wraps. The guards of the steps nobody else decides
about are operators of their own (`CanSend`, `CanServe`, `CanRead`, ...): `NoSelfWait` is about them.
`Methods` is the vocabulary that `ServiceCalls` shares with `DirectoryCalls`: the shapes, what a
request is, what it does at the directory (`After`) and may be answered with (`Responses`).

### DirectoryCalls

What a method of `Client` promises, without streams, windows, threads and connections: the requests
of a call are carried out one by one, in order, each at most once (`Execute`); a call is answered
(`Answer`) when all of them have been, with everything the directory replied; refused (`Refuse`) when
none was, nor will be; and of one that fails (`Fail`) any number were, and more may still be. A
record that is not found ends a call at the directory (`Miss`); the caller learns of it by `Fail`.
`Directory` at the end of `ServiceCalls` is the refinement mapping: `Phase` tells a refusal from a failure
by the type of the exception, so that what `_invoke` raises is part of the promise.

### KeyMaterial

Calls of sign and verify with a key, on one record. `files` is what the key files hold; `argument`
a text or a path, and `Holds` what it stands for when a call opens it: sign once
(`LoadPrivateKey`; `SignBlob` derives the public key from the key in memory), verify once per
signature (`CheckSignature`). `ReplaceFile` puts any content there at any moment, `NoKey` for a file that is
torn, missing, or of a type that is not supported. A content is a pair and the form it is written in;
`Opens` says which password loads which form. An exception's type does not matter here: sign ends
with a `RuntimeError`, verify passes the signature over; where it matters, with several keys, is
`SignVerify`. `SignMessage` and `VerifyMessage` are the schemes by algorithm, with Ed25519 verified in both
kinds; `AttachSignature` stores signatures of other tools. `held` is a history: all that the argument
of a call has stood for since it began.

### ClientChannel

One `Client` from its constructor (`LoadConfig`, `OpenSession`, `MakeChannel`, one `ReadPart` per
thing that is read: CA, certificate, key, SVID, bundle) to the RPCs of its threads (`BeginCall`,
`Attach`, `Arrive`). `material` is when what the source holds now was issued, `captured` what the
channel was made with, once. Files are renewed one after the other (`RenewFile`), an SVID as a
whole (`RenewSvid`); the history `torn` notes a renewal between the reading of one of the pair and the other,
or one that was half done at either; `Handshake` is each connection made later, from what was captured. The
`holder` of the access token is replaced by logins (`StartLogin`, `Adopt`, `EndLogin`,
`LoginFails`) in other threads; the bearer interceptor reads it, the JWT interceptor asks the
agent, for each RPC of the four kinds.

## What the runs check

| run | instance | properties | shows |
|---|---|---|---|
| `SignVerify_keys` | one record, two sign calls with any of two keys or an identity, one verify with any provider, a key that does not load and one that aborts, one intervention; pushes stored, failed, or lost and perhaps late | `TypeOK`, `KeyBeforeSignature`, `PulledKeysCoverSignatures`, `OneResultPerSigner`, `SignThenVerify`, `ReturnedMeansStored`, `ImplementsLog` | pushing the key first and pulling the signatures first together make verify complete under any interleaving: each call looks atomic on the log |
| `SignVerify_records` | two records, one sign, two verify calls, pushes may also be refused, one intervention | `ReportedSignersSigned`, `VerifyIsMonotone` | a signature attached to another record, or the ephemeral key of a keyless one, adds no signer; a later verify loses none |
| `SignVerify_refused` | refused pushes | `ReturnedMeansStored` violated | finding 1 |
| `SignVerify_aborting` | an aborting key | `EveryKeyTried` violated | finding 2 |
| `KeylessSignature_time` | two calls on two records, times 0..2, certificates of one tick, an authority that ends at 2, restamping | `TypeOK`, `AcceptedWasSignedInTime`, `ReturnedVerifies`, `StaysAccepted` | all bundles, all options, before and after every expiry |
| `LoopbackLogin_logins` | two logins, three connections, `webbrowser.open` may raise, `PatientSpec` | `TypeOK`, `CodeBelongsToThisLogin`, `FailureHasACause`, `ServerStops`, `ErrorsAreFinal`, `LoginEnds` | attempts are not mixed up; the Event is set after the outcome; every login ends and releases port and thread, but for an exception out of `webbrowser.open`, which leaves both |
| `LoopbackLogin_silent` | one login, a silent connection | `LoginEnds` violated | finding 3 |
| `TokenSession_sessions` | three programs, one of them given a token, two ticks to a millisecond, latency 1 | `TypeOK`, `SessionIsReused`, `AdoptedTokenIsAlive` | a complete save that overlapped no other is used by who starts after it, whatever was in the file before; buffer, truncation and latency add up |
| `TokenSession_torn` | a reader during or after an incomplete save, or after saves that overlapped | `ConstructionSurvivesCache` violated | finding 4 |
| `ServiceCalls_batches` | a push of three requests or none, a pull, and a delete, delete_referrer, list, listen or server-side verify at once; two records; window 1; fair | `TypeOK`, `AnswersComplete`, `PushedIsFound`, `DeletedIsGone`, `NoSelfWait`, `ImplementsDirectory`, `CallsEnd` | all of a stream or an exception; what returned is done, what raised may not be; the two directions do not wait for each other; what the caller sees is `DirectoryCalls` |
| `ClientChannel_modes` | every auth mode with all its settings or one missing, two RPCs of each kind, three logins, an SVID good for 2 and a certificate for 3 of 4 ticks | `TypeOK`, `NoCallWithoutCredential`, `LoginReplacesToken`, `LoggedInStaysLoggedIn`, `LostClientHasACause`, `JwtOutlivesItsCall` | every RPC carries the credential in force; a login takes effect on the channel made before it; what keeps a client from connecting: a pair torn by a renewal between two reads, missing bundles, the age of its certificate, and nothing else |
| `KeyMaterial_files` | two signs, one verify, one key file replaced up to twice, plain, encrypted and cosign keys of two algorithms and two passwords | `TypeOK`, `SignatureMatchesKey`, `KeyWasConfigured`, `StableKeySigns`, `KnownSignerReported` | one reading of the key per signature; no key of an earlier call; a stable key signs, and none of its signatures is missed |

Bounds, and why they are enough. Two calls are the least that race, and the calls of one kind
do not look at each other except through the store, port or file. Two sign calls with two keys
allow a retry with the same key, two signers, and a keyless next to a keyed one. In
`SignVerify_keys` one verify suffices because verify changes nothing at the server; two are
needed for `VerifyIsMonotone` only. Two records are needed only where a signature moves. One
intervention of another client gives each disturbance at every point; two (a deletion and a
re-attachment) are covered by the proofs, which have no bound. Three connections are an
earlier redirect, a stray request and the right redirect. Three programs are two that save at
the same time and one that starts. In the keyless run, time 2 with certificates of one tick
gives a timestamp in time, one too late, and one after the authority's end. In `ServiceCalls_batches`
three requests over a window of one fill both directions and leave one more to send (`r1` twice:
a record pushed again after its deletion), and one call of each other shape meets them; its 279000
states are without symmetry, since `CallsEnd` is a liveness property. In `ClientChannel_modes`
two RPCs are an earlier and a later one, three logins one that fails, one that is overtaken and one that
overtakes; time 4 leaves a certificate of 3 room to be renewed once and to expire. In
`KeyMaterial_files` two changes put another key into the file and take it away again within one call;
ECDSA and RSA have one scheme each, so one of the two stands for both.

Deadlock checking is off: calls end, and a system in which all have ended stops.

### Fairness

`LoopbackLogin` and `ServiceCalls` state liveness. In `LoopbackLogin`, `FairSpec` has weak
fairness of the caller's and the server thread's steps of every login: these are running
threads; `done.wait` has
`oidc_auth_timeout`, the exchange has an HTTP timeout, and `serve_forever` polls its
shutdown flag. (While another login holds the port, `Bind` is not enabled, but `FailEarly` is:
the bind fails.) Nothing is assumed of the browser: the redirect may never come.
`PatientSpec` adds that clients close connections they do not use, which no code enforces;
`LoopbackLogin_silent` shows that without it the login may not end.

In `ServiceCalls`, `FairSpec` says of each call that, as long as its calling thread, the sender or
the server can take a step for it, one of them does. The first two are running threads; the
last is an assumption about the server, and a needed one: no RPC has a deadline, so on a server
that stops a call waits for ever. Nothing is assumed of errors: they may never come. What
`CallsEnd` adds is that no call waits for itself, which it would if a bounded stream were
written to its end before the responses are read (`MutantReadLate`). Its two halves that are not about fairness
are stated on their own, and proved: `NoSelfWait` (somebody can go on) and
`CallsAdvance` (every step that touches a call makes it end, or makes one of `served`, `sent`, `status`, `read`
advance without an earlier one going back; all of them are bounded by the length of the request and of the
answer). With `FairSpec`, which says that somebody who can go on does, `CallsEnd` follows; that last
step is TLC's.

### Findings

1. **A refused push goes unnoticed** (`signing/sign.py:76`). `PushReferrerResponse.success` is
   not looked at: `sign` returns although a referrer is missing, against
   `docs/dir-sdk-python.md:247`.
2. **Not every key is tried** (`signing/verify.py:117`). Only `KeyLoadError` is skipped; the
   docstring (line 113) promises every key. `KeysTried` is the theorem that nothing else keeps it from
   trying one.
3. **A silent connection outlasts the timeout** (`auth/oauth_pkce.py:276`). The handler reads
   without a timeout, and `shutdown()` waits for it. `Silence` is the theorem that a login waits for nothing
   else at that point.
4. **A torn or vanished cache breaks construction** (`auth/token_cache.py:115`). `save` writes
   in place; `load` raises on an incomplete document, or on one removed after `exists()`. Two saves that
   overlap can leave such a document for good: the shorter one written last, over the longer. `Reused` is
   the theorem of when a client can count on the file.

Met while modelling, and not the matter of a run: `webbrowser.open` is called after the server thread
has started and before the `try` whose `finally` stops it (`auth/oauth_pkce.py:249`), so an exception
out of it (Ctrl-C in a console browser) leaves port and thread behind: `ServerStops` says
that no other end does and that this one does so for good, and `ShortLived` is the theorem without it. `docs/dir-sdk-python.md:276` says that the SDK
raises `grpc.RpcError` for gRPC errors and `RuntimeError` for configuration problems; `sign` and
`verify` wrap the former in the latter (`services/signing.py:40`), and a missing setting is a
`ValueError` (`transport/channels.py`). The models do as the code does (`GrpcErrorOf`,
`MakeChannel`).

## What is proved

For any number of calls, keys, records, logins, requests, programs, any durations and bounds.

**SignVerifyProofs.** `TypeInvariant`; `Inductive`; from it `KeyFirst`, `PullsCover`,
`ReadYourWrites`, `ReturnedStored` (assuming `NoRefusal`: the server does not answer
`success=false`; finding 1 is why it is needed) and, without that assumption, `Sound` and
`OneEach`: verify reports only signers of this record (`ReportedSignersSigned`), each once
(`OneResultPerSigner`), and `KeysTried` (`EveryKeyTried`), assuming `AbortingKeys = {}`: no key is
attached on which loading raises another exception than `KeyLoadError` (finding 2). The properties alone are not inductive: that verify
reports a signer depends on what it pulled, and that on what the store held at the time of the
pull. `IInv` therefore has three parts. `StoreInv`: a call between its pushes has its key
stored, also one whose second push is late, a call that returned its signature, and every stored signature is one a call made.
`PullInv`: each verify holds only such signatures, holds those of the calls that returned before it began, and
once it has pulled keys holds the key of each of its signatures, because the store held them
when the signatures were pulled and keys only leave records that are marked `removed`.
`CheckInv`: every signature already checked whose key is there is in the result. `Evolves`
states once what every step preserves, so that the many verify calls a step does not concern
need one lemma (`OthersKeepInv`).

**SignVerifyRefinement.** `Monotone` (`VerifyIsMonotone`, without an assumption) and `Refines`
(`ImplementsLog`, assuming `NoRefusal`), from `Originals`: `RInv` adds to `IInv` that a signature on a record is on
the record it was made for unless something was removed there (`OriginInv`), that reported
signers come from pulled signatures (`ReportInv`), and that a verify that began after another
returned has pulled all that one pulled, keys included (`SeenInv`). The refinement has one lemma per
actor (`SignRefines`, `OtherRefines`, `VerifyRefines`): a `PushSignature` attests, or `ArriveLate` after it, `PullSignatures`
reads the log, `FinishVerify` answers, and what lies between stutters.

**KeylessSignatureProofs.** `TypeInvariant`; `Ordered`: certificate, signature, timestamps of
a call are issued in this order; `SignedInTime`: so the verified time of an accepted bundle
lies at or after its signature, and the certificate, valid at both ends, was valid when it was
made, whatever was combined into the bundle; `Stays`: a verification that relies on the log
does not change with time; `Verifies`: what sign returned is accepted (`ReturnedVerifies`).

**LoopbackLoginProofs.** `TypeInvariant`; `Stops` (`ServerStops`: what every end releases, and what an exception out of `webbrowser.open` does not)
from `LifeInv`, which ties program counter, port, thread and the flags between the two threads of
each login together, and `ShortLived`, the same of every end, assuming `~BrowserMayRaise`; `Silence`
(`OnlySilenceDelays`) from the same invariant: whoever waits for the thread has told it to stop, and
the thread is idle, at a page, or with a connection; `Final` (`ErrorsAreFinal`): an error once recorded dooms the
login (`Doomed` says where it can then be, `StaysDoomed` that no step of anybody takes it elsewhere);
`OwnCode` and `Causes` from `RecordInv`, which follows what the handler recorded, through the
Event, to what the caller reads.

**TokenSessionProofs.** `TypeInvariant`; `AdoptedAlive`, from an invariant relating what the
client reckons to what the provider does, and lemmas on `Truncate`, assuming that the buffer
is a whole number of milliseconds (`TimeAssumption`); `Reused`, from `ReuseInv`, which says
what the file holds and what each client that is starting has taken from it while the file is
stable. That it is stable after a save rests on `SaverInv`: a program that has had the file open alone finds
it as empty as it left it, since whoever else could write to it would have it open.

**ServiceCallsProofs.** `TypeInvariant`; `Complete`, `Found`, `Gone`, `Unsent`, `Quiet`;
`NoWait` (`NoSelfWait`), `Advance` (`CallsAdvance`), and `Refines` (`ImplementsDirectory`). The
invariant has three parts. `CallInv(c)` relates the stages of one call: requests are served in
order, so the responses of a batch are a prefix of its arguments; a call that returned has
everything served and read; who got a `RuntimeError` has sent nothing. `RecordInv(cid)` relates
calls through the directory: a record pushed by a returned call is there unless a delete of it
has begun, and after a returned delete it is away unless a push of it is younger. `MissingInv(c)`
keeps, for a call that was told that a record is missing, what was true at that moment, since the
record may have come since. `NoWait` goes through what can be full or empty: a window that is full of
responses has one to read, an empty one has a request to serve, to send, or an end to announce. The refinement has
one lemma for each step that does not stutter (`ServeRefines`, `AnswerRefines`, `EndRefines`, `CloseRefines`):
`Serve` carries out or misses, `Return` answers, and that its answer is all the directory replied is
where `CallInv` is needed; sending, reading and the end of the server's stream stutter.

**ClientChannelProofs.** `TypeInvariant`; `Credited`, `LoginInForce`, `StaysLoggedIn`,
`LostHasACause`, `JwtInTime`. `HolderInv` says that the holder has the token adopted last, and
that a login which has saved or returned was adopted; `CallInv(c)` carries that to the RPC, which
began after some logins had returned; `ChannelInv` says how far the constructor has read, and what it
then holds of certificate and key: from an agent a pair, exactly if no renewal fell between the two reads
(`AgentPairInv`); from files a pair, if they held one throughout (`FilePairInv`).

**KeyMaterialProofs.** `TypeInvariant`; `Matches`, `Configured`, `StableSigns`, `Reported`. The invariant
says of each call that what its argument stands for is in its history (`HeldInv`), of a sign call that
the pair it has loaded comes from there (`SignInv`), and of a verify call that it has reported, if
its argument stood for one content only, exactly the signatures checked so far that were made with that key
(`VerifyInv`).

Each proof module rests on the named `ASSUME`s of its module (that special values are
distinct, that durations are naturals, that key sets are finite). They are evaluated by TLC in
every run.

**Only model-checked.** `LoginEnds` and `CallsEnd`: liveness under fairness is beyond the prover. What of
them is safety is proved (`Silence`; `NoWait` and `Advance`). No module uses `RECURSIVE`; nothing
proved needs induction over data.

**Proved, and in no run.** `ReturnedIsQuiet` and `RuntimeErrorMeansUnsent` are part of what
`ImplementsDirectory` says; `CallsAdvance` and `OnlySilenceDelays` are what the proofs add to `CallsEnd` and
`LoginEnds`; `EveryKeyTried` is refuted by the run of finding 2, where `AbortingKeys` is not empty.

## What is not modelled, and why

- How the server verifies (`from_server`): one call of `ServiceCalls`, the decision is the
  server's. Likewise what it does with syncs and publications, and what `listen` streams.
- Ciphers and encodings (PEM, DER, base64, the envelope of a cosign key): a form of key loads with its
  password and no other, a signature verifies under its key, scheme and payload and under no other.
- The regular expressions of the identity policy: the set of identities they match. The
  trusted root: one and the same throughout; its retrieval is I/O.
- Encoding of referrers and bundles: what arrives is what was sent.
- Cache files in which the pieces of several documents happen to make up one: what is written over another
  document is either whole or does not parse.
- Discovery and the HTTP of the code exchange: one step that succeeds or fails.
- The texts of the configuration: a setting is given or empty (`load_from_env` trims it), and a
  number parses or does not.
- RPC deadlines (there are none): a call that never returns takes no further step.
- What `get_verification_info` makes of the status it gets (`services/identity.py:64`): a function of one
  response.
- `models`: re-exports of generated code.

## Plan

Done: `SignVerify`, `KeylessSignature`, `LoopbackLogin`, `TokenSession`, `ServiceCalls`,
`ClientChannel` and `KeyMaterial` with proofs, `AttestationLog` and `DirectoryCalls` with their
refinements, checked and proved. Every invariant and action property of a run that holds is a theorem. What is left:
`ServiceCalls` composed with `ClientChannel`: an RPC that is refused for its credential and called
again after a login.
