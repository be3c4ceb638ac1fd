----------------------------- MODULE SignVerify -----------------------------
(***************************************************************************)
(* Signing a record and verifying it, as several clients do it at once     *)
(* against one directory: signing/sign.py (sign_record and its two referrer *)
(* pushes), signing/verify.py (lookup, the two referrer pulls, the loop    *)
(* over the signatures) and the store operations they call                 *)
(* (services/store.py).  Every RPC is a step of its own: between two RPCs  *)
(* of one call any other call, or another client of the store, may act.    *)
(*                                                                         *)
(* The directory server is external.  It is taken to execute one RPC       *)
(* atomically, to return every stored referrer of the type asked for, in   *)
(* any order, and to answer a push in one of the ways of PushOutcomes; a   *)
(* push that is lost on its way may arrive when its caller has given up.   *)
(*                                                                         *)
(* Operators named Mutant... are faulty variants of the definition that    *)
(* follows them, kept to show that the properties notice such a fault.     *)
(***************************************************************************)
EXTENDS Naturals, Sequences, FiniteSets, Functions

CONSTANTS
  Cids,             \* content identifiers of records
  Keys,             \* key pairs callers sign with (a pair is its public key)
  Identities,       \* OIDC identities: issuer and subject
  UnloadableKeys,   \* key referrers load_public_key rejects (KeyLoadError)
  AbortingKeys,     \* ... on which it raises any other exception
  SignCalls,        \* calls of client.sign; also names their ephemeral keys
  VerifyCalls,      \* calls of client.verify
  PushOutcomes,     \* how the server may answer a push_referrer
  MaxInterventions, \* bound: steps taken by other clients of the store
  NoIdentity,       \* the "identity" of a signature without a bundle
  NoSigner          \* the result of a verification that raised

AllOutcomes == {"stored", "refused", "error", "lost"}

ASSUME OutcomesAssumption == PushOutcomes \subseteq AllOutcomes
ASSUME BoundAssumption == MaxInterventions \in Nat
ASSUME FiniteAssumption == IsFiniteSet(Keys) /\ IsFiniteSet(SignCalls)
                           /\ IsFiniteSet(UnloadableKeys) /\ IsFiniteSet(AbortingKeys)
ASSUME DisjointAssumption ==
  /\ (Keys \cup SignCalls) \cap (UnloadableKeys \cup AbortingKeys) = {}
  /\ (Keys \cup SignCalls) \cap (Identities \cup {NoIdentity}) = {}
  /\ SignCalls \cap (Keys \cup VerifyCalls) = {}
  /\ NoIdentity \notin Identities
  /\ NoSigner \notin Keys \cup SignCalls \cup Identities

SigningKeys == Keys \cup SignCalls
PublicKeys == SigningKeys \cup UnloadableKeys \cup AbortingKeys
Signers == SigningKeys \cup Identities

Signatures == [by : SignCalls, key : SigningKeys, payload : Cids,
               identity : Identities \cup {NoIdentity}]

SignRequests == [cid : Cids, cred : Keys \cup Identities]

VerifyRequests ==
  [cid : Cids, kind : {"key"}, trusted : {{k} : k \in PublicKeys}]
    \cup [cid : Cids, kind : {"oidc"}, trusted : SUBSET Identities]
    \cup [cid : Cids, kind : {"any"}, trusted : {{}}]

VARIABLES
  signReq,       \* the arguments of each sign call
  signPc,        \* where each sign call is
  late,          \* the push of a sign call that may still arrive
  verifyReq,     \* the arguments of each verify call
  verify,        \* the locals of each verify call
  records,       \* the store: records,
  keyRefs,       \*   public key referrers,
  sigRefs,       \*   signature referrers
  removed,       \* cids something was ever deleted from
  interventions  \* steps other clients have taken

vars == <<signReq, signPc, late, verifyReq, verify, records, keyRefs, sigRefs,
          removed, interventions>>

-----------------------------------------------------------------------------
(* What signing produces *)

\* _sign_ with a key uses that key, sign with OIDC an ephemeral one.
SigningKey(c) == IF signReq[c].cred \in Keys THEN signReq[c].cred ELSE c

\* The Signature of a call: signed over the record's CID; a bundle certifies
\* the identity exactly when the provider was OIDC.
SignatureOf(c) ==
  [by |-> c, key |-> SigningKey(c), payload |-> signReq[c].cid,
   identity |-> IF signReq[c].cred \in Keys THEN NoIdentity ELSE signReq[c].cred]

KeyReferrer(c) == [cid |-> signReq[c].cid, key |-> SigningKey(c)]
SignatureReferrer(c) == [cid |-> signReq[c].cid, sig |-> SignatureOf(c)]

\* A push the caller sees as an exception, whatever becomes of it.  One that is
\* answered with success=false is not one.
MutantSwallowedError(outcome) == FALSE
Raises(outcome) == outcome \in {"error", "lost"}

\* The referrers after a push, and what of the push is still on its way.
Kept(refs, outcome, r) == IF outcome = "stored" THEN refs \cup {r} ELSE refs
Strays(c, outcome, push) == [late EXCEPT ![c] = IF outcome = "lost" THEN push ELSE @]

-----------------------------------------------------------------------------
Init ==
  /\ signReq \in [SignCalls -> SignRequests]
  /\ signPc = [c \in SignCalls |-> "signBlob"]
  /\ late = [c \in SignCalls |-> "nothing"]
  /\ verifyReq \in [VerifyCalls -> VerifyRequests]
  /\ verify = [v \in VerifyCalls |->
                [pc |-> "idle", before |-> {}, sigs |-> {}, todo |-> {},
                 keys |-> <<>>, signers |-> <<>>]]
  /\ records = Cids
  /\ keyRefs = {}
  /\ sigRefs = {}
  /\ removed = {}
  /\ interventions = 0

UnchangedStore == UNCHANGED <<late, records, keyRefs, sigRefs, removed, interventions>>
UnchangedVerify == UNCHANGED <<verifyReq, verify>>
UnchangedSign == UNCHANGED <<signReq, signPc>>

-----------------------------------------------------------------------------
(* sign_record *)

\* The blob is signed, or the provider, the record reference, the key or the
\* signing services are missing or fail and sign raises before any push.
SignBlob(c) ==
  /\ signPc[c] = "signBlob"
  /\ \E pc \in {"pushKey", "raised"} : signPc' = [signPc EXCEPT ![c] = pc]
  /\ UNCHANGED signReq
  /\ UnchangedVerify /\ UnchangedStore

\* First push: the public key referrer.  The response is not looked at; only
\* an exception ends the call.
PushPublicKey(c) ==
  /\ signPc[c] = "pushKey"
  /\ \E outcome \in PushOutcomes :
       /\ keyRefs' = Kept(keyRefs, outcome, KeyReferrer(c))
       /\ late' = Strays(c, outcome, "key")
       /\ signPc' = [signPc EXCEPT ![c] =
                       IF Raises(outcome) THEN "raised" ELSE "pushSignature"]
  /\ UNCHANGED <<signReq, records, sigRefs, removed, interventions>>
  /\ UnchangedVerify

\* Second push: the signature referrer, then sign returns None.
PushSignature(c) ==
  /\ signPc[c] = "pushSignature"
  /\ \E outcome \in PushOutcomes :
       /\ sigRefs' = Kept(sigRefs, outcome, SignatureReferrer(c))
       /\ late' = Strays(c, outcome, "signature")
       /\ signPc' = [signPc EXCEPT ![c] =
                       IF Raises(outcome) THEN "raised" ELSE "returned"]
  /\ UNCHANGED <<signReq, records, keyRefs, removed, interventions>>
  /\ UnchangedVerify

\* A push of a call that has raised reaches the server after all.
ArriveLate(c) ==
  /\ \/ late[c] = "key" /\ keyRefs' = keyRefs \cup {KeyReferrer(c)} /\ UNCHANGED sigRefs
     \/ late[c] = "signature" /\ sigRefs' = sigRefs \cup {SignatureReferrer(c)}
        /\ UNCHANGED keyRefs
  /\ late' = [late EXCEPT ![c] = "nothing"]
  /\ UNCHANGED <<records, removed, interventions>>
  /\ UnchangedSign /\ UnchangedVerify

-----------------------------------------------------------------------------
(* verify_record *)

\* A verify call changes its own locals and nothing else.
Moves(v, locals) ==
  /\ verify' = [verify EXCEPT ![v] = locals]
  /\ UNCHANGED verifyReq
  /\ UnchangedSign /\ UnchangedStore

Returned == {c \in SignCalls : signPc[c] = "returned"}
              \cup {v \in VerifyCalls : verify[v].pc = "returned"}

\* client.verify is called; _before_ remembers the calls that had returned.
BeginVerify(v) ==
  /\ verify[v].pc = "idle"
  /\ Moves(v, [verify[v] EXCEPT !.pc = "lookup", !.before = Returned])

\* store.lookup: "record not found" is an answer with success = False.
Lookup(v) ==
  /\ verify[v].pc = "lookup"
  /\ Moves(v, [verify[v] EXCEPT !.pc =
                IF verifyReq[v].cid \in records THEN "pullSignatures" ELSE "returned"])

StoredSignatures(cid) == {r.sig : r \in {s \in sigRefs : s.cid = cid}}
StoredKeys(cid) == {r.key : r \in {k \in keyRefs : k.cid = cid}}

\* Every order the server may list a finite set in.
Listings(S) == {f \in [1..Cardinality(S) -> S] :
                  \A x \in S : \E i \in 1..Cardinality(S) : f[i] = x}

\* The keys a request brings itself.
RequestKeys(req) ==
  IF req.kind = "key" THEN <<CHOOSE k \in req.trusted : TRUE>> ELSE <<>>

\* pull_signatures.  Without signatures the call answers success = False; with
\* a key provider the key comes from the request, not from the store.
PullSignatures(v) ==
  /\ verify[v].pc = "pullSignatures"
  /\ LET sigs == StoredSignatures(verifyReq[v].cid) IN
     Moves(v, [verify[v] EXCEPT
       !.sigs = sigs,
       !.todo = sigs,
       !.keys = RequestKeys(verifyReq[v]),
       !.pc = IF sigs = {} THEN "returned"
              ELSE IF verifyReq[v].kind = "any" THEN "pullKeys" ELSE "check"])

\* Only the first public key is kept.
MutantPullOneKey(v) ==
  /\ verify[v].pc = "pullKeys"
  /\ \E keys \in Listings(StoredKeys(verifyReq[v].cid)) :
       Moves(v, [verify[v] EXCEPT !.keys = IF keys = <<>> THEN <<>> ELSE <<keys[1]>>,
                                  !.pc = "check"])

\* pull_public_keys, only for the "any" provider.
PullPublicKeys(v) ==
  /\ verify[v].pc = "pullKeys"
  /\ \E keys \in Listings(StoredKeys(verifyReq[v].cid)) :
       Moves(v, [verify[v] EXCEPT !.keys = keys, !.pc = "check"])

\* lookup or one of the two pulls fails: verify raises.
VerifyRpcFails(v) ==
  /\ verify[v].pc \in {"lookup", "pullSignatures", "pullKeys"}
  /\ Moves(v, [verify[v] EXCEPT !.pc = "raised"])

\* verify_message: the signature was made with this key over this payload.
Verifies(key, sig, cid) == key = sig.key /\ sig.payload = cid

\* The signature is checked without the payload; only the first key is tried.
MutantNoPayload(keys, sig, cid) == sig.key \in Range(keys)
MutantFirstKeyOnly(keys, sig, cid) ==
  keys # <<>> /\ Verifies(keys[1], sig, cid)

\* _verify_with_keys: keys are tried in order; one that cannot be loaded is
\* skipped, any other exception gives the signature up.
VerifiesWithKeys(keys, sig, cid) ==
  \E i \in DOMAIN keys :
    /\ Verifies(keys[i], sig, cid)
    /\ \A j \in 1..(i - 1) : keys[j] \notin AbortingKeys

KeyVerdicts(keys, sig, cid) ==
  IF VerifiesWithKeys(keys, sig, cid) THEN {sig.key} ELSE {NoSigner}

\* verify_with_oidc: needs a bundle over this payload and an identity the
\* policy accepts; trust root, log, timestamps or certificate may fail it.
OidcVerdicts(req, sig) ==
  {NoSigner} \cup {id \in Identities : /\ id = sig.identity
                                       /\ sig.payload = req.cid
                                       /\ req.kind = "any" \/ id \in req.trusted}

\* Which of the two checks a provider applies to a signature (_verify_with_any).
UsesKeys(req, sig) ==
  req.kind = "key" \/ (req.kind = "any" /\ sig.identity = NoIdentity)

Verdicts(v, sig) ==
  IF UsesKeys(verifyReq[v], sig)
    THEN KeyVerdicts(verify[v].keys, sig, verifyReq[v].cid)
    ELSE OidcVerdicts(verifyReq[v], sig)

\* Without seen_keys; and without the _continue_ after a failed verification.
MutantReportAgain(signers, signer) ==
  IF signer = NoSigner THEN signers ELSE Append(signers, signer)
MutantReportFailed(signers, signer) ==
  IF signer \in Range(signers) THEN signers ELSE Append(signers, signer)

\* seen_keys: one result per signer, in the order they were first verified.
Report(signers, signer) ==
  IF signer = NoSigner \/ signer \in Range(signers)
    THEN signers ELSE Append(signers, signer)

\* A failed signature ends the loop (break for continue).
MutantStopAtFailure(v) ==
  /\ verify[v].pc = "check"
  /\ \E sig \in verify[v].todo : \E signer \in Verdicts(v, sig) :
       Moves(v, [verify[v] EXCEPT !.todo = IF signer = NoSigner THEN {} ELSE @ \ {sig},
                                  !.signers = Report(@, signer)])

\* One turn of the loop over the signatures; a failed one is skipped.
CheckSignature(v) ==
  /\ verify[v].pc = "check"
  /\ \E sig \in verify[v].todo : \E signer \in Verdicts(v, sig) :
       Moves(v, [verify[v] EXCEPT !.todo = @ \ {sig},
                                  !.signers = Report(@, signer)])

\* The answer: success exactly when some signer was verified.
FinishVerify(v) ==
  /\ verify[v].pc = "check"
  /\ verify[v].todo = {}
  /\ Moves(v, [verify[v] EXCEPT !.pc = "returned"])

-----------------------------------------------------------------------------
(* What other clients of the store do with the record meanwhile *)

Intervene ==
  /\ interventions < MaxInterventions
  /\ interventions' = interventions + 1
  /\ UNCHANGED late
  /\ UnchangedSign /\ UnchangedVerify

\* store.delete; the server may or may not drop the referrers with the record.
DeleteRecord(cid) ==
  /\ Intervene
  /\ cid \in records
  /\ records' = records \ {cid}
  /\ removed' = removed \cup {cid}
  /\ \/ UNCHANGED <<keyRefs, sigRefs>>
     \/ /\ keyRefs' = {r \in keyRefs : r.cid # cid}
        /\ sigRefs' = {r \in sigRefs : r.cid # cid}

\* store.delete_referrer
DeleteReferrer(cid) ==
  /\ Intervene
  /\ \/ \E r \in keyRefs : r.cid = cid /\ keyRefs' = keyRefs \ {r} /\ UNCHANGED sigRefs
     \/ \E r \in sigRefs : r.cid = cid /\ sigRefs' = sigRefs \ {r} /\ UNCHANGED keyRefs
  /\ removed' = removed \cup {cid}
  /\ UNCHANGED records

\* store.push_referrer of a public key: anyone may attach one, also a key this
\* SDK cannot load.
PushForeignKey(cid, key) ==
  /\ Intervene
  /\ keyRefs' = keyRefs \cup {[cid |-> cid, key |-> key]}
  /\ UNCHANGED <<records, sigRefs, removed>>

\* store.push_referrer of a signature pulled from another record.
ReattachSignature(cid) ==
  /\ Intervene
  /\ \E r \in sigRefs : sigRefs' = sigRefs \cup {[cid |-> cid, sig |-> r.sig]}
  /\ UNCHANGED <<records, keyRefs, removed>>

-----------------------------------------------------------------------------
SignStep(c) == SignBlob(c) \/ PushPublicKey(c) \/ PushSignature(c) \/ ArriveLate(c)

VerifyStep(v) ==
  \/ BeginVerify(v) \/ Lookup(v) \/ PullSignatures(v) \/ PullPublicKeys(v)
  \/ VerifyRpcFails(v) \/ CheckSignature(v) \/ FinishVerify(v)

OtherClient(cid) ==
  \/ DeleteRecord(cid) \/ DeleteReferrer(cid) \/ ReattachSignature(cid)
  \/ \E key \in PublicKeys : PushForeignKey(cid, key)

Next ==
  \/ \E c \in SignCalls : SignStep(c)
  \/ \E v \in VerifyCalls : VerifyStep(v)
  \/ \E cid \in Cids : OtherClient(cid)

Spec == Init /\ [][Next]_vars

-----------------------------------------------------------------------------
(* Properties *)

VerifyState ==
  [pc : {"idle", "lookup", "pullSignatures", "pullKeys", "check", "returned", "raised"},
   before : SUBSET (SignCalls \cup VerifyCalls), sigs : SUBSET Signatures,
   todo : SUBSET Signatures, keys : Seq(PublicKeys), signers : Seq(Signers)]

\* Every variable holds a value the code could hold there.
TypeOK ==
  /\ signReq \in [SignCalls -> SignRequests]
  /\ signPc \in [SignCalls -> {"signBlob", "pushKey", "pushSignature", "returned", "raised"}]
  /\ late \in [SignCalls -> {"nothing", "key", "signature"}]
  /\ verifyReq \in [VerifyCalls -> VerifyRequests]
  /\ verify \in [VerifyCalls -> VerifyState]
  /\ records \subseteq Cids
  /\ keyRefs \subseteq [cid : Cids, key : PublicKeys]
  /\ sigRefs \subseteq [cid : Cids, sig : Signatures]
  /\ removed \subseteq Cids
  /\ interventions \in 0..MaxInterventions

\* A record nothing was deleted from never shows a signature of its own whose
\* public key is not attached too: sign pushes the key first, and a call that
\* dies between its two pushes leaves a key without a signature, never the
\* reverse.
KeyBeforeSignature ==
  \A r \in sigRefs :
    r.sig.payload = r.cid /\ r.cid \notin removed
      => [cid |-> r.cid, key |-> r.sig.key] \in keyRefs

\* Verify's two pulls are two RPCs, and sign calls go on between them.  Still
\* the keys it tries include the key of every signature it holds: it pulls the
\* signatures first.
PulledKeysCoverSignatures ==
  \A v \in VerifyCalls :
    /\ verifyReq[v].kind = "any"
    /\ verify[v].pc \in {"check", "returned"}
    /\ verifyReq[v].cid \notin removed
    => \A sig \in verify[v].sigs :
         sig.payload = verifyReq[v].cid => sig.key \in Range(verify[v].keys)

\* Whether a provider accepts a signer.
Accepts(req, signer) == req.kind = "any" \/ signer \in req.trusted

\* What verify may report is something some sign call did to this very record:
\* with a key provider, a call signed it with that key; otherwise the key or
\* the identity is the credential of a call, so the ephemeral key of a keyless
\* signature is never taken for a signer, and neither is the signer of another
\* record whose signature was re-attached here.
ReportedSignersSigned ==
  \A v \in VerifyCalls : \A signer \in Range(verify[v].signers) :
    /\ Accepts(verifyReq[v], signer)
    /\ \E c \in SignCalls :
         /\ signPc[c] \in {"returned", "raised"}
         /\ signReq[c].cid = verifyReq[v].cid
         /\ signer = IF verifyReq[v].kind = "key" THEN SigningKey(c) ELSE signReq[c].cred

\* "Only report one result per signer": however often a key signed the record
\* (again after a lost response, or from two clients), it is reported once.
OneResultPerSigner ==
  \A v \in VerifyCalls : \A i, j \in DOMAIN verify[v].signers :
    verify[v].signers[i] = verify[v].signers[j] => i = j

Undisturbed(cid) ==
  /\ cid \notin removed
  /\ \A key \in AbortingKeys : [cid |-> cid, key |-> key] \notin keyRefs

\* Read your writes: a verify that starts after a sign call with a key returned
\* reports that key, under the "any" provider and under a key provider for it,
\* whatever other sign calls, retries and clients do meanwhile, unless
\* something is deleted from the record or a key that aborts the search for a
\* match is attached to it.
SignThenVerify ==
  \A v \in VerifyCalls : \A c \in SignCalls \cap verify[v].before :
    /\ verify[v].pc = "returned"
    /\ signReq[c].cid = verifyReq[v].cid
    /\ signReq[c].cred \in Keys
    /\ Accepts(verifyReq[v], signReq[c].cred)
    /\ Undisturbed(verifyReq[v].cid)
    => signReq[c].cred \in Range(verify[v].signers)

\* A verify that starts after the same verify returned does not lose a key the
\* first one reported, also one whose sign call raised (a lost response).
VerifyIsMonotone ==
  \A v, w \in VerifyCalls :
    /\ w \in verify[v].before
    /\ verifyReq[w] = verifyReq[v]
    /\ verify[v].pc = "returned"
    /\ Undisturbed(verifyReq[v].cid)
    => Range(verify[w].signers) \cap SigningKeys \subseteq Range(verify[v].signers)

\* docs/dir-sdk-python.md on client.sign: "The signature and public key are
\* stored as referrers of the record."  A sign call that returned has stored
\* both.
ReturnedMeansStored ==
  \A c \in SignCalls :
    signPc[c] = "returned" /\ signReq[c].cid \notin removed
      => KeyReferrer(c) \in keyRefs /\ SignatureReferrer(c) \in sigRefs

\* _verify_with_keys: "Try every public key against the signature; first match
\* wins."  A signature whose key is among the keys yields its signer.
EveryKeyTried ==
  \A v \in VerifyCalls : \A sig \in verify[v].sigs \ verify[v].todo :
    /\ UsesKeys(verifyReq[v], sig)
    /\ sig.payload = verifyReq[v].cid
    /\ sig.key \in Range(verify[v].keys)
    /\ verify[v].pc \in {"check", "returned"}
    => sig.key \in Range(verify[v].signers)

-----------------------------------------------------------------------------
(* The abstract specification *)

\* What a signature attests.
FactOf(sig) == [cid |-> sig.payload, key |-> sig.key, identity |-> sig.identity]

StatusOf(pc) == IF pc \in {"returned", "raised"} THEN pc ELSE "running"
PhaseOf(pc) ==
  CASE pc = "idle" -> "idle"
    [] pc \in {"lookup", "pullSignatures"} -> "called"
    [] pc \in {"pullKeys", "check"} -> "read"
    [] pc = "returned" -> "answered"
    [] pc = "raised" -> "failed"

\* What signatures attest of a record.
FactsOn(cid, sigs) == {FactOf(sig) : sig \in {s \in sigs : s.payload = cid}}

\* A signature referrer of the record its signature is over.
InPlace(r) == r.sig.payload = r.cid

\* The state of the log that a state of the calls and of the store stands for.
Claims == [c \in SignCalls |-> FactOf(SignatureOf(c))]
Statuses == [c \in SignCalls |-> StatusOf(signPc[c])]
Attestations == {FactOf(r.sig) : r \in {s \in sigRefs : InPlace(s)}}
Disturbed == {cid \in Cids : ~Undisturbed(cid)}
Phases == [v \in VerifyCalls |-> PhaseOf(verify[v].pc)]
Snapshots == [v \in VerifyCalls |-> FactsOn(verifyReq[v].cid, verify[v].sigs)]
Answers ==
  [v \in VerifyCalls |->
     IF verify[v].pc = "returned" THEN Range(verify[v].signers) ELSE {}]

Log == INSTANCE AttestationLog WITH
  claim <- Claims, status <- Statuses, log <- Attestations, disturbed <- Disturbed,
  ask <- verifyReq, phase <- Phases, snapshot <- Snapshots, answer <- Answers

\* Although sign takes three steps and verify any number, over two kinds of
\* referrers, with other calls and clients in between, each looks atomic: sign
\* adds one attestation, and verify answers from one moment of its call.
ImplementsLog == Log!Spec
=============================================================================
