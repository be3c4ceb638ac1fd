-------------------------- MODULE SignVerifyProofs --------------------------
(***************************************************************************)
(* What holds of SignVerify for any number of records, keys, identities,   *)
(* sign calls, verify calls and interventions.                             *)
(***************************************************************************)
EXTENDS SignVerify, FiniteSetTheorems, TLAPS

-----------------------------------------------------------------------------
(* The operators the model is built from *)

\* The server lists a finite set of referrers as a sequence that contains
\* each of them and nothing else.
LEMMA ListingLemma ==
  ASSUME NEW S, IsFiniteSet(S), NEW f \in Listings(S)
  PROVE  f \in Seq(S) /\ Range(f) = S
<1>1. Cardinality(S) \in Nat
  BY FS_CardinalityType
<1>2. f \in Seq(S)
  BY <1>1 DEF Listings
<1>3. Range(f) = S
  BY DEF Listings, Range
<1> QED BY <1>2, <1>3

\* Any listing of public key referrers is a sequence of public keys.
LEMMA StoredKeysLemma ==
  ASSUME TypeOK, NEW cid, NEW f \in Listings(StoredKeys(cid))
  PROVE  f \in Seq(PublicKeys) /\ Range(f) = StoredKeys(cid)
<1>1. StoredKeys(cid) \subseteq PublicKeys
  BY DEF TypeOK, StoredKeys
<1>2. IsFiniteSet(PublicKeys)
  BY FS_Union, FiniteAssumption DEF PublicKeys, SigningKeys
<1>3. IsFiniteSet(StoredKeys(cid))
  BY <1>1, <1>2, FS_Subset
<1>4. f \in Seq(StoredKeys(cid)) /\ Range(f) = StoredKeys(cid)
  BY <1>3, ListingLemma
<1> QED BY <1>1, <1>4

\* Reporting a signer keeps the signers reported before and adds at most it.
LEMMA ReportLemma ==
  ASSUME NEW S, NEW s \in Seq(S), NEW x, x = NoSigner \/ x \in S
  PROVE  /\ Report(s, x) \in Seq(S)
         /\ Range(Report(s, x)) = Range(s) \cup ({x} \ {NoSigner})
         /\ (\A i, j \in DOMAIN s : s[i] = s[j] => i = j)
              => \A i, j \in DOMAIN Report(s, x) :
                   Report(s, x)[i] = Report(s, x)[j] => i = j
<1>1. CASE x = NoSigner \/ x \in Range(s)
  BY <1>1 DEF Report
<1>2. CASE ~(x = NoSigner \/ x \in Range(s))
  <2>1. Report(s, x) = Append(s, x) /\ x \in S
    BY <1>2 DEF Report
  <2>2. /\ DOMAIN Append(s, x) = 1..(Len(s) + 1)
        /\ DOMAIN s = 1..Len(s)
        /\ Len(s) \in Nat
        /\ \A i \in 1..Len(s) : Append(s, x)[i] = s[i]
        /\ Append(s, x)[Len(s) + 1] = x
    BY <2>1
  <2>3. Append(s, x) \in Seq(S)
    BY <2>1
  <2>4. Range(Append(s, x)) = Range(s) \cup {x}
    BY <2>2 DEF Range
  <2>5. ASSUME \A i, j \in DOMAIN s : s[i] = s[j] => i = j,
               NEW i \in DOMAIN Append(s, x), NEW j \in DOMAIN Append(s, x),
               Append(s, x)[i] = Append(s, x)[j]
        PROVE  i = j
    BY <1>2, <2>2, <2>5 DEF Range
  <2> QED BY <1>2, <2>1, <2>3, <2>4, <2>5
<1> QED BY <1>1, <1>2

\* A signing call's key, signature and referrers are of the right kind.
LEMMA SignatureType ==
  ASSUME signReq \in [SignCalls -> SignRequests], NEW c \in SignCalls
  PROVE  /\ signReq[c].cid \in Cids /\ signReq[c].cred \in Keys \cup Identities
         /\ SigningKey(c) \in SigningKeys
         /\ SignatureOf(c) \in Signatures
         /\ KeyReferrer(c) \in [cid : Cids, key : PublicKeys]
         /\ SignatureReferrer(c) \in [cid : Cids, sig : Signatures]
<1>1. signReq[c].cid \in Cids /\ signReq[c].cred \in Keys \cup Identities
  BY DEF SignRequests
<1>2. SigningKey(c) \in SigningKeys
  BY <1>1 DEF SigningKey, SigningKeys
<1>3. SignatureOf(c) \in Signatures
  BY <1>1, <1>2 DEF SignatureOf, Signatures
<1>4. SigningKey(c) \in PublicKeys
  BY <1>2 DEF PublicKeys
<1> QED BY <1>1, <1>2, <1>3, <1>4 DEF KeyReferrer, SignatureReferrer

\* A verify request's fields.
LEMMA RequestType ==
  ASSUME verifyReq \in [VerifyCalls -> VerifyRequests], NEW v \in VerifyCalls
  PROVE  /\ verifyReq[v].cid \in Cids
         /\ verifyReq[v].kind \in {"key", "oidc", "any"}
         /\ verifyReq[v].kind = "key" => \E k \in PublicKeys : verifyReq[v].trusted = {k}
BY DEF VerifyRequests

\* A signature yields no signer, its key, or an identity it certifies; and
\* only if it is over the record's own CID and the provider accepts it.
LEMMA VerdictLemma ==
  ASSUME TypeOK, NEW v \in VerifyCalls, NEW sig \in Signatures,
         NEW signer \in Verdicts(v, sig), signer # NoSigner
  PROVE  /\ signer \in Signers
         /\ sig.payload = verifyReq[v].cid
         /\ \/ /\ UsesKeys(verifyReq[v], sig)
               /\ signer = sig.key
               /\ signer \in Range(verify[v].keys)
            \/ /\ ~UsesKeys(verifyReq[v], sig)
               /\ signer \in Identities
               /\ signer = sig.identity
               /\ Accepts(verifyReq[v], signer)
<1>1. sig.key \in SigningKeys
  BY DEF Signatures
<1>2. CASE UsesKeys(verifyReq[v], sig)
  <2>1. VerifiesWithKeys(verify[v].keys, sig, verifyReq[v].cid) /\ signer = sig.key
    BY <1>2 DEF Verdicts, KeyVerdicts
  <2> QED BY <1>1, <1>2, <2>1 DEF VerifiesWithKeys, Verifies, Range, Signers
<1>3. CASE ~UsesKeys(verifyReq[v], sig)
  BY <1>3 DEF Verdicts, OidcVerdicts, Signers, Accepts
<1> QED BY <1>2, <1>3

-----------------------------------------------------------------------------
(* Type correctness *)

\* Assigning to a call's locals keeps their types.
LEMMA LocalsLemma ==
  ASSUME NEW l \in VerifyState
  PROVE  /\ \A pc \in {"lookup", "pullSignatures", "check", "returned", "raised"} :
              [l EXCEPT !.pc = pc] \in VerifyState
         /\ \A before \in SUBSET (SignCalls \cup VerifyCalls) :
              [l EXCEPT !.pc = "lookup", !.before = before] \in VerifyState
         /\ \A pc \in {"returned", "pullKeys", "check"}, sigs \in SUBSET Signatures,
               keys \in Seq(PublicKeys) :
              [l EXCEPT !.sigs = sigs, !.todo = sigs, !.keys = keys, !.pc = pc]
                \in VerifyState
         /\ \A keys \in Seq(PublicKeys) :
              [l EXCEPT !.keys = keys, !.pc = "check"] \in VerifyState
BY DEF VerifyState

\* A verify call that moves to a well-typed local state keeps TypeOK.
LEMMA MovesLemma ==
  ASSUME TypeOK, NEW v \in VerifyCalls, NEW locals \in VerifyState, Moves(v, locals)
  PROVE  TypeOK'
BY DEF TypeOK, Moves, UnchangedSign, UnchangedStore

\* client.sign and client.verify only ever reach states of TypeOK.
THEOREM TypeInvariant == Spec => []TypeOK
<1>1. Init => TypeOK
  BY BoundAssumption DEF Init, TypeOK, VerifyState
<1>2. TypeOK /\ [Next]_vars => TypeOK'
  <2> SUFFICES ASSUME TypeOK, [Next]_vars PROVE TypeOK'
    OBVIOUS
  <2>1. ASSUME NEW c \in SignCalls, SignBlob(c) PROVE TypeOK'
    BY <2>1 DEF SignBlob, TypeOK, UnchangedVerify, UnchangedStore
  <2>2. ASSUME NEW c \in SignCalls, PushPublicKey(c) PROVE TypeOK'
    <3>1. KeyReferrer(c) \in [cid : Cids, key : PublicKeys]
      BY SignatureType DEF TypeOK
    <3> QED BY <2>2, <3>1 DEF PushPublicKey, TypeOK, UnchangedVerify, Kept, Strays
  <2>3. ASSUME NEW c \in SignCalls, PushSignature(c) PROVE TypeOK'
    <3>1. SignatureReferrer(c) \in [cid : Cids, sig : Signatures]
      BY SignatureType DEF TypeOK
    <3> QED BY <2>3, <3>1 DEF PushSignature, TypeOK, UnchangedVerify, Kept, Strays
  <2>16. ASSUME NEW c \in SignCalls, ArriveLate(c) PROVE TypeOK'
    <3>1. /\ KeyReferrer(c) \in [cid : Cids, key : PublicKeys]
          /\ SignatureReferrer(c) \in [cid : Cids, sig : Signatures]
      BY SignatureType DEF TypeOK
    <3> QED BY <2>16, <3>1 DEF ArriveLate, TypeOK, UnchangedSign, UnchangedVerify
  <2>0. \A v \in VerifyCalls : verify[v] \in VerifyState
    BY DEF TypeOK
  <2>4. ASSUME NEW v \in VerifyCalls, BeginVerify(v) PROVE TypeOK'
    <3>1. Returned \in SUBSET (SignCalls \cup VerifyCalls)
      BY DEF Returned
    <3> QED BY <2>0, <2>4, <3>1, LocalsLemma, MovesLemma DEF BeginVerify
  <2>5. ASSUME NEW v \in VerifyCalls, Lookup(v) PROVE TypeOK'
    <3>1. \A pc \in {"pullSignatures", "returned"} :
            [verify[v] EXCEPT !.pc = pc] \in VerifyState
      BY <2>0 DEF VerifyState
    <3> QED BY <2>5, <3>1, MovesLemma DEF Lookup
  <2>6. ASSUME NEW v \in VerifyCalls, PullSignatures(v) PROVE TypeOK'
    <3>1. StoredSignatures(verifyReq[v].cid) \in SUBSET Signatures
      BY DEF TypeOK, StoredSignatures
    <3>2. RequestKeys(verifyReq[v]) \in Seq(PublicKeys)
      <4>1. /\ verifyReq[v].kind = "key"
                 => \E k \in PublicKeys : verifyReq[v].trusted = {k}
        BY RequestType DEF TypeOK
      <4> QED BY <4>1 DEF RequestKeys
    <3> QED BY <2>0, <2>6, <3>1, <3>2, LocalsLemma, MovesLemma DEF PullSignatures
  <2>7. ASSUME NEW v \in VerifyCalls, PullPublicKeys(v) PROVE TypeOK'
    <3> QED BY <2>0, <2>7, LocalsLemma, StoredKeysLemma, MovesLemma DEF PullPublicKeys
  <2>8. ASSUME NEW v \in VerifyCalls, VerifyRpcFails(v) PROVE TypeOK'
    <3>1. [verify[v] EXCEPT !.pc = "raised"] \in VerifyState
      BY <2>0 DEF VerifyState
    <3> QED BY <2>8, <3>1, MovesLemma DEF VerifyRpcFails
  <2>9. ASSUME NEW v \in VerifyCalls, CheckSignature(v) PROVE TypeOK'
    <3>1. PICK sig \in verify[v].todo : \E signer \in Verdicts(v, sig) :
            Moves(v, [verify[v] EXCEPT !.todo = @ \ {sig}, !.signers = Report(@, signer)])
      BY <2>9 DEF CheckSignature
    <3>2. PICK signer \in Verdicts(v, sig) :
            Moves(v, [verify[v] EXCEPT !.todo = @ \ {sig}, !.signers = Report(@, signer)])
      BY <3>1
    <3>3. verify[v] \in VerifyState /\ sig \in Signatures
      BY DEF TypeOK, VerifyState
    <3>4. verify[v].signers \in Seq(Signers)
      BY <3>3 DEF VerifyState
    <3>5. Report(verify[v].signers, signer) \in Seq(Signers)
      BY <3>3, <3>4, VerdictLemma, ReportLemma
    <3>6. [verify[v] EXCEPT !.todo = @ \ {sig}, !.signers = Report(@, signer)] \in VerifyState
      BY <3>3, <3>5 DEF VerifyState
    <3> QED BY <3>2, <3>6, MovesLemma
  <2>10. ASSUME NEW v \in VerifyCalls, FinishVerify(v) PROVE TypeOK'
    <3>1. [verify[v] EXCEPT !.pc = "returned"] \in VerifyState
      BY <2>0 DEF VerifyState
    <3> QED BY <2>10, <3>1, MovesLemma DEF FinishVerify
  <2>11. ASSUME NEW cid \in Cids, DeleteRecord(cid) PROVE TypeOK'
    BY <2>11, BoundAssumption DEF DeleteRecord, Intervene, TypeOK, UnchangedSign, UnchangedVerify
  <2>12. ASSUME NEW cid \in Cids, DeleteReferrer(cid) PROVE TypeOK'
    BY <2>12, BoundAssumption DEF DeleteReferrer, Intervene, TypeOK, UnchangedSign, UnchangedVerify
  <2>13. ASSUME NEW cid \in Cids, NEW key \in PublicKeys, PushForeignKey(cid, key) PROVE TypeOK'
    BY <2>13, BoundAssumption DEF PushForeignKey, Intervene, TypeOK, UnchangedSign, UnchangedVerify
  <2>14. ASSUME NEW cid \in Cids, ReattachSignature(cid) PROVE TypeOK'
    BY <2>14, BoundAssumption DEF ReattachSignature, Intervene, TypeOK, UnchangedSign, UnchangedVerify
  <2>15. CASE UNCHANGED vars
    BY <2>15 DEF vars, TypeOK
  <2> QED BY <2>1, <2>2, <2>3, <2>4, <2>5, <2>6, <2>7, <2>8, <2>9, <2>10, <2>11,
             <2>12, <2>13, <2>14, <2>15, <2>16 DEF Next, SignStep, VerifyStep, OtherClient
<1> QED BY <1>1, <1>2, PTL DEF Spec

-----------------------------------------------------------------------------
(* The inductive invariant *)

\* A signature is the one its call made, and that call has ended.
SignedBy(sig) ==
  sig = SignatureOf(sig.by) /\ signPc[sig.by] \in {"returned", "raised"}

\* The server keeps every push it does not fail.
NoRefusal == "refused" \notin PushOutcomes

\* Without refusals, the public key of a signature is attached to the record it
\* signs.
KeyStored(sig) ==
  NoRefusal /\ sig.payload \notin removed => [cid |-> sig.payload, key |-> sig.key] \in keyRefs

\* The store: a missing record was deleted; the store holds only signatures of
\* calls.  Without refusals, a call between its two pushes has its key stored, also
\* one whose second push is still on its way, a call that returned its signature,
\* and the store holds the keys of all signatures.
StoreInv ==
  /\ Cids \ records \subseteq removed
  /\ \A c \in SignCalls :
       /\ signPc[c] = "pushSignature" => KeyStored(SignatureOf(c))
       /\ NoRefusal /\ signPc[c] = "returned" /\ signReq[c].cid \notin removed
            => SignatureReferrer(c) \in sigRefs
       /\ late[c] # "nothing" => signPc[c] = "raised"
       /\ late[c] = "signature" => KeyStored(SignatureOf(c))
  /\ \A r \in sigRefs : SignedBy(r.sig) /\ KeyStored(r.sig)

Pulled(v) == verify[v].pc \in {"pullKeys", "check", "returned"}
Keyed(v) == verify[v].pc \in {"check", "returned"} /\ verify[v].sigs # {}
Harmless(keys) == Range(keys) \cap AbortingKeys = {}

\* What a verify call has pulled: signatures of calls, among them those of
\* every call that had returned before it began, and keys for all of them.
PullInv(v) ==
  /\ verify[v].pc \in {"idle", "lookup", "pullSignatures"}
       => verify[v].sigs = {} /\ verify[v].todo = {}
          /\ verify[v].keys = <<>> /\ verify[v].signers = <<>>
  /\ verify[v].pc = "idle" => verify[v].before = {}
  /\ \A c \in SignCalls \cap verify[v].before : signPc[c] = "returned"
  /\ \A sig \in verify[v].sigs : SignedBy(sig) /\ KeyStored(sig)
  /\ \A c \in SignCalls \cap verify[v].before :
       /\ NoRefusal /\ Pulled(v)
       /\ signReq[c].cid = verifyReq[v].cid /\ verifyReq[v].cid \notin removed
       => SignatureOf(c) \in verify[v].sigs
  /\ verifyReq[v].kind = "key"
       => Range(verify[v].keys) \subseteq verifyReq[v].trusted
          /\ (Keyed(v) => Range(verify[v].keys) = verifyReq[v].trusted)
  /\ verifyReq[v].kind = "any" /\ verifyReq[v].cid \notin removed
       => /\ \A k \in Range(verify[v].keys) : [cid |-> verifyReq[v].cid, key |-> k] \in keyRefs
          /\ NoRefusal /\ Keyed(v) => \A sig \in verify[v].sigs :
               sig.payload = verifyReq[v].cid => sig.key \in Range(verify[v].keys)

\* What it has done with them: every signature is still to be checked, or its
\* signer is reported; and only signers of this record are reported.
CheckInv(v) ==
  /\ verify[v].todo \subseteq verify[v].sigs
  /\ verify[v].pc = "pullKeys"
       => verify[v].todo = verify[v].sigs /\ verifyReq[v].kind = "any"
  /\ verify[v].pc = "returned" => verify[v].todo = {}
  /\ Keyed(v) /\ Harmless(verify[v].keys)
       => \A sig \in verify[v].sigs \ verify[v].todo :
            /\ UsesKeys(verifyReq[v], sig)
            /\ sig.payload = verifyReq[v].cid
            /\ sig.key \in Range(verify[v].keys)
            => sig.key \in Range(verify[v].signers)
  /\ \A signer \in Range(verify[v].signers) :
       /\ Accepts(verifyReq[v], signer)
       /\ \E c \in SignCalls :
            /\ signPc[c] \in {"returned", "raised"}
            /\ signReq[c].cid = verifyReq[v].cid
            /\ signer = IF verifyReq[v].kind = "key" THEN SigningKey(c) ELSE signReq[c].cred
  /\ \A i, j \in DOMAIN verify[v].signers :
       verify[v].signers[i] = verify[v].signers[j] => i = j

IInv == StoreInv /\ \A v \in VerifyCalls : PullInv(v) /\ CheckInv(v)

-----------------------------------------------------------------------------
(* What every step preserves *)

\* Arguments never change, an ended sign call stays ended, and a referrer only
\* disappears from a record that is then marked.
Evolves ==
  /\ signReq' = signReq
  /\ verifyReq' = verifyReq
  /\ \A c \in SignCalls : signPc[c] \in {"returned", "raised"} => signPc'[c] = signPc[c]
  /\ removed \subseteq removed'
  /\ \A r \in keyRefs : r \in keyRefs' \/ r.cid \in removed'
  /\ \A r \in sigRefs : r \in sigRefs' \/ r.cid \in removed'

\* Every step evolves so.
LEMMA StepEvolves == TypeOK /\ [Next]_vars => Evolves
<1> SUFFICES ASSUME TypeOK, [Next]_vars PROVE Evolves
  OBVIOUS
<1> USE DEF Evolves
<1>1. ASSUME NEW c \in SignCalls, SignBlob(c) PROVE Evolves
  BY <1>1 DEF SignBlob, TypeOK, UnchangedVerify, UnchangedStore
<1>2. ASSUME NEW c \in SignCalls, PushPublicKey(c) PROVE Evolves
  BY <1>2 DEF PushPublicKey, TypeOK, UnchangedVerify, Kept
<1>3. ASSUME NEW c \in SignCalls, PushSignature(c) PROVE Evolves
  BY <1>3 DEF PushSignature, TypeOK, UnchangedVerify, Kept
<1>4. ASSUME NEW v \in VerifyCalls, VerifyStep(v) PROVE Evolves
  <2>1. UNCHANGED verifyReq /\ UnchangedSign /\ UnchangedStore
    BY <1>4 DEF VerifyStep, BeginVerify, Lookup, PullSignatures, PullPublicKeys,
                VerifyRpcFails, CheckSignature, FinishVerify, Moves
  <2> QED BY <2>1 DEF UnchangedSign, UnchangedStore
<1>5. ASSUME NEW cid \in Cids, DeleteRecord(cid) PROVE Evolves
  BY <1>5 DEF DeleteRecord, Intervene, UnchangedSign, UnchangedVerify
<1>6. ASSUME NEW cid \in Cids, DeleteReferrer(cid) PROVE Evolves
  BY <1>6 DEF DeleteReferrer, Intervene, UnchangedSign, UnchangedVerify
<1>7. ASSUME NEW cid \in Cids, NEW key \in PublicKeys, PushForeignKey(cid, key) PROVE Evolves
  BY <1>7 DEF PushForeignKey, Intervene, UnchangedSign, UnchangedVerify
<1>8. ASSUME NEW cid \in Cids, ReattachSignature(cid) PROVE Evolves
  BY <1>8 DEF ReattachSignature, Intervene, UnchangedSign, UnchangedVerify
<1>9. ASSUME NEW c \in SignCalls, ArriveLate(c) PROVE Evolves
  BY <1>9 DEF ArriveLate, UnchangedSign, UnchangedVerify
<1>10. CASE UNCHANGED vars
  BY <1>10 DEF vars
<1> QED BY <1>1, <1>2, <1>3, <1>4, <1>5, <1>6, <1>7, <1>8, <1>9, <1>10
        DEF Next, SignStep, OtherClient

\* So what is known of a signature stays known.
LEMMA SignaturePersists ==
  ASSUME Evolves, NEW sig \in Signatures
  PROVE  /\ SignedBy(sig) => SignedBy(sig)'
         /\ KeyStored(sig) => KeyStored(sig)'
<1>1. sig.by \in SignCalls
  BY DEF Signatures
<1>2. SignedBy(sig) => SignedBy(sig)'
  BY <1>1 DEF Evolves, SignedBy, SignatureOf, SigningKey
<1>3. KeyStored(sig) => KeyStored(sig)'
  BY DEF Evolves, KeyStored
<1> QED BY <1>2, <1>3

\* The referrers the pulls return are the stored ones of the record.
LEMMA StoredLemma ==
  ASSUME TypeOK, NEW cid
  PROVE  /\ \A sig : sig \in StoredSignatures(cid) <=> [cid |-> cid, sig |-> sig] \in sigRefs
         /\ \A key : key \in StoredKeys(cid) <=> [cid |-> cid, key |-> key] \in keyRefs
<1>1. \A r \in sigRefs : r = [cid |-> r.cid, sig |-> r.sig]
  BY DEF TypeOK
<1>2. \A r \in keyRefs : r = [cid |-> r.cid, key |-> r.key]
  BY DEF TypeOK
<1> QED BY <1>1, <1>2 DEF StoredSignatures, StoredKeys

\* A verify call that takes no step keeps what is known of it.
LEMMA OthersKeepInv ==
  ASSUME TypeOK, Evolves, NEW v \in VerifyCalls, verify'[v] = verify[v],
         PullInv(v), CheckInv(v)
  PROVE  PullInv(v)' /\ CheckInv(v)'
<1>1. verify[v].sigs \subseteq Signatures
  BY DEF TypeOK, VerifyState
<1>2. \A sig \in verify[v].sigs : SignedBy(sig)' /\ KeyStored(sig)'
  BY <1>1, SignaturePersists DEF PullInv
<1>3. PullInv(v)'
  BY <1>2 DEF PullInv, Evolves, Pulled, Keyed, SignatureOf, SigningKey
<1>4. CheckInv(v)'
  BY DEF CheckInv, Evolves, Keyed, Harmless, UsesKeys, Accepts, SigningKey
<1> QED BY <1>3, <1>4

-----------------------------------------------------------------------------
(* The steps that change the store keep StoreInv *)

\* Every step of a sign call, of a verify call and of other clients keeps it.
LEMMA StoreStep ==
  ASSUME TypeOK, StoreInv, [Next]_vars
  PROVE  StoreInv'
<1>e. Evolves
  BY StepEvolves
<1>s. \A sig \in Signatures : /\ SignedBy(sig) => SignedBy(sig)'
                              /\ KeyStored(sig) => KeyStored(sig)'
  BY <1>e, SignaturePersists
<1>t. /\ \A c \in SignCalls : SignatureOf(c) \in Signatures
      /\ \A c \in SignCalls : SignatureOf(c)' = SignatureOf(c)
      /\ \A r \in sigRefs : r.sig \in Signatures
  <2>1. \A c \in SignCalls : SignatureOf(c) \in Signatures
    BY SignatureType DEF TypeOK
  <2>2. \A c \in SignCalls : SignatureOf(c)' = SignatureOf(c)
    BY <1>e DEF Evolves, SignatureOf, SigningKey
  <2>3. \A r \in sigRefs : r.sig \in Signatures
    BY DEF TypeOK
  <2> QED BY <2>1, <2>2, <2>3
<1>a. ASSUME Cids \ records' \subseteq removed',
             \A c \in SignCalls : signPc'[c] \in {"pushSignature", "returned"}
                                    => signPc'[c] = signPc[c],
             \A c \in SignCalls : late'[c] # "nothing" => late'[c] = late[c],
             \A r \in sigRefs' : \E q \in sigRefs : r.sig = q.sig
      PROVE  StoreInv'
  <2>1. \A r \in sigRefs' : SignedBy(r.sig)' /\ KeyStored(r.sig)'
    BY <1>a, <1>s, <1>t DEF StoreInv
  <2>2. ASSUME NEW c \in SignCalls
        PROVE  /\ signPc'[c] = "pushSignature" => KeyStored(SignatureOf(c))'
               /\ NoRefusal /\ signPc'[c] = "returned" /\ signReq'[c].cid \notin removed'
                    => SignatureReferrer(c)' \in sigRefs'
               /\ late'[c] # "nothing" => signPc'[c] = "raised"
               /\ late'[c] = "signature" => KeyStored(SignatureOf(c))'
    <3>1. signPc'[c] = "pushSignature" => KeyStored(SignatureOf(c))'
      BY <1>a, <1>s, <1>t, <2>2 DEF StoreInv
    <3>2. NoRefusal /\ signPc'[c] = "returned" /\ signReq'[c].cid \notin removed'
            => SignatureReferrer(c)' \in sigRefs'
      BY <1>a, <1>e, <1>t DEF StoreInv, Evolves, SignatureReferrer
    <3>3. late'[c] # "nothing" => signPc'[c] = "raised"
      BY <1>a, <1>e DEF StoreInv, Evolves
    <3>4. late'[c] = "signature" => KeyStored(SignatureOf(c))'
      BY <1>a, <1>s, <1>t DEF StoreInv
    <3> QED BY <3>1, <3>2, <3>3, <3>4
  <2> QED BY <1>a, <2>1, <2>2 DEF StoreInv
<1>1. ASSUME NEW c \in SignCalls, SignBlob(c) PROVE StoreInv'
  <2>1. UNCHANGED <<late, records, sigRefs, removed>>
    BY <1>1 DEF SignBlob, UnchangedStore
  <2>2. \A d \in SignCalls : signPc'[d] \in {"pushSignature", "returned"}
                               => signPc'[d] = signPc[d]
    BY <1>1 DEF SignBlob, TypeOK
  <2> QED BY <1>a, <2>1, <2>2 DEF StoreInv
<1>2. ASSUME NEW c \in SignCalls, PushPublicKey(c) PROVE StoreInv'
  <2>1. UNCHANGED <<records, sigRefs, removed>>
    BY <1>2 DEF PushPublicKey
  <2>2. \A r \in sigRefs' : SignedBy(r.sig)' /\ KeyStored(r.sig)'
    BY <1>s, <1>t, <2>1 DEF StoreInv
  <2>3. \A d \in SignCalls \ {c} : signPc'[d] = signPc[d]
    BY <1>2 DEF PushPublicKey, TypeOK
  <2>4. signPc'[c] \in {"raised", "pushSignature"}
    BY <1>2 DEF PushPublicKey, TypeOK
  <2>7. /\ late'[c] # "nothing" => signPc'[c] = "raised"
        /\ late'[c] # "signature"
        /\ \A d \in SignCalls \ {c} : late'[d] = late[d]
    <3>1. late[c] = "nothing" /\ late \in [SignCalls -> {"nothing", "key", "signature"}]
      BY <1>2 DEF PushPublicKey, StoreInv, TypeOK
    <3>2. PICK outcome \in PushOutcomes :
            /\ late' = Strays(c, outcome, "key")
            /\ signPc' = [signPc EXCEPT ![c] =
                            IF Raises(outcome) THEN "raised" ELSE "pushSignature"]
      BY <1>2 DEF PushPublicKey
    <3> QED BY <3>1, <3>2 DEF TypeOK, Strays, Raises
  <2>5. signPc'[c] = "pushSignature" => KeyStored(SignatureOf(c))'
    <3>1. NoRefusal /\ signPc'[c] = "pushSignature" => KeyReferrer(c) \in keyRefs'
      BY <1>2, OutcomesAssumption
         DEF PushPublicKey, TypeOK, Kept, Raises, AllOutcomes, NoRefusal
    <3> QED BY <3>1, <1>t DEF KeyStored, KeyReferrer, SignatureOf
  <2>6. \A d \in SignCalls \ {c} :
          /\ signPc'[d] = "pushSignature" => KeyStored(SignatureOf(d))'
          /\ NoRefusal /\ signPc'[d] = "returned" /\ signReq'[d].cid \notin removed'
               => SignatureReferrer(d)' \in sigRefs'
          /\ late'[d] # "nothing" => signPc'[d] = "raised"
          /\ late'[d] = "signature" => KeyStored(SignatureOf(d))'
    BY <1>e, <1>s, <1>t, <2>1, <2>3, <2>7 DEF StoreInv, Evolves, SignatureReferrer
  <2> QED BY <2>1, <2>2, <2>4, <2>5, <2>6, <2>7 DEF StoreInv
<1>3. ASSUME NEW c \in SignCalls, PushSignature(c) PROVE StoreInv'
  <2>1. UNCHANGED <<signReq, records, keyRefs, removed>>
    BY <1>3 DEF PushSignature
  <2>2. PICK outcome \in PushOutcomes :
          /\ sigRefs' = Kept(sigRefs, outcome, SignatureReferrer(c))
          /\ late' = Strays(c, outcome, "signature")
          /\ signPc' = [signPc EXCEPT ![c] = IF Raises(outcome) THEN "raised" ELSE "returned"]
    BY <1>3 DEF PushSignature
  <2>3. signPc'[c] \in {"raised", "returned"} /\ \A d \in SignCalls \ {c} : signPc'[d] = signPc[d]
    BY <2>2 DEF TypeOK
  <2>4. NoRefusal /\ signPc'[c] = "returned" => SignatureReferrer(c) \in sigRefs'
    BY <2>2, OutcomesAssumption DEF TypeOK, Kept, Raises, AllOutcomes, NoRefusal
  <2>5. KeyStored(SignatureOf(c)) /\ SignatureOf(c).by = c
    BY <1>3 DEF PushSignature, StoreInv, SignatureOf
  <2>6. \A r \in sigRefs' : SignedBy(r.sig)' /\ KeyStored(r.sig)'
    <3>1. SignedBy(SignatureOf(c))' /\ KeyStored(SignatureOf(c))'
      BY <1>s, <1>t, <2>3, <2>5 DEF SignedBy
    <3>2. \A r \in sigRefs' : r \in sigRefs \/ r.sig = SignatureOf(c)
      BY <2>2 DEF SignatureReferrer, Kept
    <3> QED BY <1>s, <1>t, <3>1, <3>2 DEF StoreInv
  <2>7. SignatureReferrer(c)' = SignatureReferrer(c)
    BY <1>t, <2>1 DEF SignatureReferrer
  <2>9. /\ late'[c] # "nothing" => signPc'[c] = "raised"
        /\ late'[c] = "signature" => KeyStored(SignatureOf(c))'
        /\ \A d \in SignCalls \ {c} : late'[d] = late[d]
    <3>1. late[c] = "nothing" /\ late \in [SignCalls -> {"nothing", "key", "signature"}]
      BY <1>3 DEF PushSignature, StoreInv, TypeOK
    <3>2. KeyStored(SignatureOf(c))'
      BY <1>s, <1>t, <2>5
    <3> QED BY <2>2, <3>1, <3>2 DEF TypeOK, Strays, Raises
  <2>8. \A d \in SignCalls \ {c} :
          /\ signPc'[d] = "pushSignature" => KeyStored(SignatureOf(d))'
          /\ NoRefusal /\ signPc'[d] = "returned" /\ signReq'[d].cid \notin removed'
               => SignatureReferrer(d)' \in sigRefs'
          /\ late'[d] # "nothing" => signPc'[d] = "raised"
          /\ late'[d] = "signature" => KeyStored(SignatureOf(d))'
    BY <1>e, <1>s, <1>t, <2>1, <2>3, <2>9 DEF StoreInv, Evolves, SignatureReferrer
  <2> QED BY <2>1, <2>3, <2>4, <2>6, <2>7, <2>8, <2>9 DEF StoreInv
<1>4. ASSUME NEW v \in VerifyCalls, VerifyStep(v) PROVE StoreInv'
  <2>1. UnchangedSign /\ UnchangedStore
    BY <1>4 DEF VerifyStep, BeginVerify, Lookup, PullSignatures, PullPublicKeys,
                VerifyRpcFails, CheckSignature, FinishVerify, Moves
  <2> QED BY <1>a, <2>1 DEF UnchangedSign, UnchangedStore, StoreInv
<1>5. ASSUME NEW cid \in Cids, DeleteRecord(cid) PROVE StoreInv'
  BY <1>a, <1>5 DEF DeleteRecord, Intervene, UnchangedSign, StoreInv
<1>6. ASSUME NEW cid \in Cids, DeleteReferrer(cid) PROVE StoreInv'
  BY <1>a, <1>6 DEF DeleteReferrer, Intervene, UnchangedSign, StoreInv
<1>7. ASSUME NEW cid \in Cids, NEW key \in PublicKeys, PushForeignKey(cid, key) PROVE StoreInv'
  BY <1>a, <1>7 DEF PushForeignKey, Intervene, UnchangedSign, StoreInv
<1>8. ASSUME NEW cid \in Cids, ReattachSignature(cid) PROVE StoreInv'
  BY <1>a, <1>8 DEF ReattachSignature, Intervene, UnchangedSign, StoreInv
<1>9. ASSUME NEW c \in SignCalls, ArriveLate(c) PROVE StoreInv'
  <2>1. UNCHANGED <<signReq, signPc, records, removed>> /\ keyRefs \subseteq keyRefs'
        /\ sigRefs \subseteq sigRefs'
    BY <1>9 DEF ArriveLate, UnchangedSign
  <2>2. \A d \in SignCalls : late'[d] # "nothing" => late'[d] = late[d]
    BY <1>9 DEF ArriveLate, TypeOK
  <2>3. CASE late[c] = "signature"
    <3>1. signPc[c] = "raised" /\ KeyStored(SignatureOf(c)) /\ SignatureOf(c).by = c
      BY <2>3 DEF StoreInv, SignatureOf
    <3>2. SignedBy(SignatureOf(c))' /\ KeyStored(SignatureOf(c))'
      BY <1>s, <1>t, <3>1 DEF SignedBy
    <3>3. \A r \in sigRefs' : r \in sigRefs \/ r.sig = SignatureOf(c)
      BY <1>9 DEF ArriveLate, SignatureReferrer
    <3>4. \A r \in sigRefs' : SignedBy(r.sig)' /\ KeyStored(r.sig)'
      BY <1>s, <1>t, <3>2, <3>3 DEF StoreInv
    <3>5. \A d \in SignCalls : SignatureReferrer(d)' = SignatureReferrer(d)
      BY <1>t, <2>1 DEF SignatureReferrer
    <3>6. \A d \in SignCalls : late'[d] = "signature" => KeyStored(SignatureOf(d))'
      BY <1>s, <1>t, <2>2 DEF StoreInv
    <3>7. \A d \in SignCalls : signPc'[d] = "pushSignature" => KeyStored(SignatureOf(d))'
      BY <1>s, <1>t, <2>1 DEF StoreInv
    <3> QED BY <2>1, <2>2, <3>4, <3>5, <3>6, <3>7 DEF StoreInv
  <2>4. CASE late[c] # "signature"
    <3>1. UNCHANGED sigRefs
      BY <1>9, <2>4 DEF ArriveLate
    <3> QED BY <1>a, <2>1, <2>2, <3>1 DEF StoreInv
  <2> QED BY <2>3, <2>4
<1>10. CASE UNCHANGED vars
  BY <1>a, <1>10 DEF vars, StoreInv
<1> QED BY <1>1, <1>2, <1>3, <1>4, <1>5, <1>6, <1>7, <1>8, <1>9, <1>10
        DEF Next, SignStep, OtherClient

-----------------------------------------------------------------------------
(* The steps of a verify call keep PullInv and CheckInv *)

\* A step of a verify call, seen from its own locals: the rest of the state,
\* and with it everything said about signatures and the store, is as before.
LEMMA MovesFacts ==
  ASSUME TypeOK, NEW v \in VerifyCalls, NEW locals, Moves(v, locals)
  PROVE  /\ verify'[v] = locals
         /\ \A w \in VerifyCalls \ {v} : verify'[w] = verify[w]
         /\ UNCHANGED <<signReq, signPc, verifyReq, records, keyRefs, sigRefs, removed>>
BY DEF TypeOK, Moves, UnchangedSign, UnchangedStore

\* A call that only moves on, to a place that promises nothing new.
LEMMA OnlyPcMoves ==
  ASSUME TypeOK, NEW v \in VerifyCalls, PullInv(v), CheckInv(v),
         NEW pc, Moves(v, [verify[v] EXCEPT !.pc = pc]),
         \/ pc = "pullSignatures" /\ verify[v].pc = "lookup"
         \/ pc = "raised"
         \/ pc = "returned" /\ verify[v].pc = "check" /\ verify[v].todo = {}
         \/ pc = "returned" /\ verify[v].pc = "lookup" /\ verifyReq[v].cid \in removed
  PROVE  PullInv(v)' /\ CheckInv(v)'
<1> DEFINE l == verify[v]
           m == [l EXCEPT !.pc = pc]
<1>1. /\ verify'[v] = m
      /\ UNCHANGED <<signReq, signPc, verifyReq, records, keyRefs, sigRefs, removed>>
  BY MovesFacts
<1>2. /\ m.pc = pc /\ m.before = l.before /\ m.sigs = l.sigs /\ m.todo = l.todo
      /\ m.keys = l.keys /\ m.signers = l.signers
  BY DEF TypeOK, VerifyState
<1> HIDE DEF m
<1>3. PullInv(v)'
  BY <1>1, <1>2 DEF PullInv, Pulled, Keyed, SignedBy, KeyStored, SignatureOf, SigningKey
<1>4. CheckInv(v)'
  BY <1>1, <1>2 DEF CheckInv, PullInv, Keyed, Harmless, UsesKeys, Accepts, SigningKey
<1> QED BY <1>3, <1>4

\* client.verify is called.
LEMMA BeginStep ==
  ASSUME TypeOK, NEW v \in VerifyCalls, PullInv(v), CheckInv(v), BeginVerify(v)
  PROVE  PullInv(v)' /\ CheckInv(v)'
<1> DEFINE l == verify[v]
           m == [l EXCEPT !.pc = "lookup", !.before = Returned]
<1>1. /\ verify'[v] = m
      /\ UNCHANGED <<signReq, signPc, verifyReq, records, keyRefs, sigRefs, removed>>
  BY MovesFacts DEF BeginVerify
<1>2. /\ m.pc = "lookup" /\ m.before = Returned /\ m.sigs = l.sigs /\ m.todo = l.todo
      /\ m.keys = l.keys /\ m.signers = l.signers
  BY DEF TypeOK, VerifyState
<1> HIDE DEF m
<1>3. l.sigs = {} /\ l.todo = {} /\ l.keys = <<>> /\ l.signers = <<>>
  BY DEF BeginVerify, PullInv
<1>4. \A c \in SignCalls \cap Returned : signPc[c] = "returned"
  BY DisjointAssumption DEF Returned
<1>5. PullInv(v)'
  BY <1>1, <1>2, <1>3, <1>4 DEF PullInv, Pulled, Keyed, Range
<1>6. CheckInv(v)'
  BY <1>1, <1>2, <1>3 DEF CheckInv, Keyed, Range
<1> QED BY <1>5, <1>6

\* pull_signatures: every signature it returns is a call's, and those of the
\* calls that had returned before are among them.
LEMMA PullSignaturesStep ==
  ASSUME TypeOK, StoreInv, NEW v \in VerifyCalls, PullInv(v), CheckInv(v), PullSignatures(v)
  PROVE  PullInv(v)' /\ CheckInv(v)'
<1> DEFINE l == verify[v]
           sigs == StoredSignatures(verifyReq[v].cid)
           keys == RequestKeys(verifyReq[v])
           pc == IF sigs = {} THEN "returned"
                 ELSE IF verifyReq[v].kind = "any" THEN "pullKeys" ELSE "check"
           m == [l EXCEPT !.sigs = sigs, !.todo = sigs, !.keys = keys, !.pc = pc]
<1>1. /\ verify'[v] = m
      /\ UNCHANGED <<signReq, signPc, verifyReq, records, keyRefs, sigRefs, removed>>
  BY MovesFacts DEF PullSignatures
<1>2. /\ m.pc = pc /\ m.before = l.before /\ m.sigs = sigs /\ m.todo = sigs
      /\ m.keys = keys /\ m.signers = l.signers
  BY DEF TypeOK, VerifyState
<1>3. l.signers = <<>>
  BY DEF PullSignatures, PullInv
<1>4. \A sig \in sigs : SignedBy(sig) /\ KeyStored(sig)
  <2>1. ASSUME NEW sig \in sigs PROVE SignedBy(sig) /\ KeyStored(sig)
    <3>1. [cid |-> verifyReq[v].cid, sig |-> sig] \in sigRefs
      BY <2>1, StoredLemma
    <3> QED BY <3>1 DEF StoreInv
  <2> QED BY <2>1
<1>5. \A c \in SignCalls \cap l.before :
        NoRefusal /\ signReq[c].cid = verifyReq[v].cid /\ verifyReq[v].cid \notin removed
          => SignatureOf(c) \in sigs
  BY StoredLemma DEF PullInv, StoreInv, SignatureReferrer
<1>6. /\ verifyReq[v].kind = "key" => Range(keys) = verifyReq[v].trusted
      /\ verifyReq[v].kind # "key" => Range(keys) = {}
  <2>1. CASE verifyReq[v].kind = "key"
    <3>1. PICK k \in PublicKeys : verifyReq[v].trusted = {k}
      BY <2>1, RequestType DEF TypeOK
    <3>2. keys = <<k>>
      BY <2>1, <3>1 DEF RequestKeys
    <3> QED BY <2>1, <3>1, <3>2 DEF Range
  <2>2. CASE verifyReq[v].kind # "key"
    BY <2>2 DEF RequestKeys, Range
  <2> QED BY <2>1, <2>2
<1> HIDE DEF m, sigs, keys
<1>7. PullInv(v)'
  BY <1>1, <1>2, <1>3, <1>4, <1>5, <1>6
     DEF PullInv, Pulled, Keyed, SignedBy, KeyStored, SignatureOf, SigningKey
<1>8. CheckInv(v)'
  BY <1>1, <1>2, <1>3 DEF CheckInv, Keyed, Range
<1> QED BY <1>7, <1>8

\* pull_public_keys: the keys of the signatures pulled before are stored, so they
\* are among the keys it returns.
LEMMA PullPublicKeysStep ==
  ASSUME TypeOK, NEW v \in VerifyCalls, PullInv(v), CheckInv(v), PullPublicKeys(v)
  PROVE  PullInv(v)' /\ CheckInv(v)'
<1>0. PICK keys \in Listings(StoredKeys(verifyReq[v].cid)) :
        Moves(v, [verify[v] EXCEPT !.keys = keys, !.pc = "check"])
  BY DEF PullPublicKeys
<1> DEFINE l == verify[v]
           m == [l EXCEPT !.keys = keys, !.pc = "check"]
<1>1. /\ verify'[v] = m
      /\ UNCHANGED <<signReq, signPc, verifyReq, records, keyRefs, sigRefs, removed>>
  BY <1>0, MovesFacts
<1>2. /\ m.pc = "check" /\ m.before = l.before /\ m.sigs = l.sigs /\ m.todo = l.todo
      /\ m.keys = keys /\ m.signers = l.signers
  BY DEF TypeOK, VerifyState
<1> HIDE DEF m
<1>3. \A k : k \in Range(keys) <=> [cid |-> verifyReq[v].cid, key |-> k] \in keyRefs
  BY StoredKeysLemma, StoredLemma
<1>4. l.pc = "pullKeys" /\ l.todo = l.sigs /\ verifyReq[v].kind = "any"
  BY DEF PullPublicKeys, CheckInv
<1>5. PullInv(v)'
  BY <1>1, <1>2, <1>3, <1>4
     DEF PullInv, Pulled, Keyed, SignedBy, KeyStored, SignatureOf, SigningKey
<1>6. CheckInv(v)'
  BY <1>1, <1>2, <1>4 DEF CheckInv, Accepts, SigningKey
<1> QED BY <1>5, <1>6

\* One turn of the loop: what it reports was signed, and a signature it drops was
\* reported or could not be.
LEMMA CheckStep ==
  ASSUME TypeOK, NEW v \in VerifyCalls, PullInv(v), CheckInv(v), CheckSignature(v)
  PROVE  PullInv(v)' /\ CheckInv(v)'
<1>0. PICK sig \in verify[v].todo : \E signer \in Verdicts(v, sig) :
        Moves(v, [verify[v] EXCEPT !.todo = @ \ {sig}, !.signers = Report(@, signer)])
  BY DEF CheckSignature
<1>1. PICK signer \in Verdicts(v, sig) :
        Moves(v, [verify[v] EXCEPT !.todo = @ \ {sig}, !.signers = Report(@, signer)])
  BY <1>0
<1> DEFINE l == verify[v]
           signers == Report(l.signers, signer)
           m == [l EXCEPT !.todo = @ \ {sig}, !.signers = Report(@, signer)]
<1>2. /\ verify'[v] = m
      /\ UNCHANGED <<signReq, signPc, verifyReq, records, keyRefs, sigRefs, removed>>
  BY <1>1, MovesFacts
<1>3. /\ m.pc = l.pc /\ m.before = l.before /\ m.sigs = l.sigs /\ m.todo = l.todo \ {sig}
      /\ m.keys = l.keys /\ m.signers = signers
  BY DEF TypeOK, VerifyState
<1>4. l.pc = "check"
  BY DEF CheckSignature
<1>5. /\ sig \in l.sigs /\ sig \in Signatures /\ l.signers \in Seq(Signers)
      /\ l.todo \subseteq l.sigs
  BY DEF CheckInv, TypeOK, VerifyState
<1>6. /\ signer # NoSigner => signer \in Signers
      /\ Range(signers) = Range(l.signers) \cup ({signer} \ {NoSigner})
      /\ \A i, j \in DOMAIN signers : signers[i] = signers[j] => i = j
  <2>1. signer # NoSigner => signer \in Signers
    BY <1>5, VerdictLemma
  <2>2. \A i, j \in DOMAIN l.signers : l.signers[i] = l.signers[j] => i = j
    BY DEF CheckInv
  <2>3. signer = NoSigner \/ signer \in Signers
    BY <2>1
  <2>4. Range(signers) = Range(l.signers) \cup ({signer} \ {NoSigner})
    BY <1>5, <2>3, ReportLemma
  <2>5. (\A i, j \in DOMAIN l.signers : l.signers[i] = l.signers[j] => i = j)
             => \A i, j \in DOMAIN signers : signers[i] = signers[j] => i = j
    BY <1>5, <2>3, ReportLemma
  <2> QED BY <2>1, <2>2, <2>4, <2>5
<1>7. ASSUME signer # NoSigner
      PROVE  /\ Accepts(verifyReq[v], signer)
             /\ \E c \in SignCalls :
                  /\ signPc[c] \in {"returned", "raised"}
                  /\ signReq[c].cid = verifyReq[v].cid
                  /\ signer = IF verifyReq[v].kind = "key"
                                THEN SigningKey(c) ELSE signReq[c].cred
  <2> DEFINE c == sig.by
  <2>1. c \in SignCalls
    BY <1>5 DEF Signatures
  <2>2. sig = SignatureOf(c) /\ signPc[c] \in {"returned", "raised"}
    BY <1>5 DEF PullInv, SignedBy
  <2>3. signReq[c].cid = verifyReq[v].cid
    BY <1>5, <1>7, <2>2, VerdictLemma DEF SignatureOf
  <2>4. sig.key = SigningKey(c) /\ sig.identity =
          (IF signReq[c].cred \in Keys THEN NoIdentity ELSE signReq[c].cred)
    BY <2>2 DEF SignatureOf
  <2>5. CASE UsesKeys(verifyReq[v], sig)
    <3>1. signer = sig.key /\ signer \in Range(l.keys)
      BY <1>5, <1>7, <2>5, VerdictLemma
    <3>2. CASE verifyReq[v].kind = "key"
      BY <2>1, <2>2, <2>3, <2>4, <3>1, <3>2 DEF PullInv, Accepts
    <3>3. CASE verifyReq[v].kind # "key"
      <4>1. verifyReq[v].kind = "any" /\ sig.identity = NoIdentity
        BY <2>5, <3>3 DEF UsesKeys
      <4>2. signReq[c].cred \in Keys \cup Identities
        BY <2>1, SignatureType DEF TypeOK
      <4>3. signReq[c].cred \in Keys
        BY <2>4, <4>1, <4>2, DisjointAssumption
      <4>4. signer = signReq[c].cred
        BY <2>4, <3>1, <4>3 DEF SigningKey
      <4> QED BY <2>1, <2>2, <2>3, <3>3, <4>1, <4>4 DEF Accepts
    <3> QED BY <3>2, <3>3
  <2>6. CASE ~UsesKeys(verifyReq[v], sig)
    <3>1. signer \in Identities /\ signer = sig.identity /\ Accepts(verifyReq[v], signer)
      BY <1>5, <1>7, <2>6, VerdictLemma
    <3>2. signer = signReq[c].cred
      BY <2>4, <3>1, DisjointAssumption
    <3> QED BY <2>1, <2>2, <2>3, <2>6, <3>1, <3>2 DEF UsesKeys
  <2> QED BY <2>5, <2>6
<1>8. ASSUME Harmless(l.keys), UsesKeys(verifyReq[v], sig),
             sig.payload = verifyReq[v].cid, sig.key \in Range(l.keys)
      PROVE  sig.key \in Range(signers)
  <2>1. PICK i \in DOMAIN l.keys : l.keys[i] = sig.key
    BY <1>8 DEF Range
  <2>2. l.keys \in Seq(PublicKeys)
    BY DEF TypeOK, VerifyState
  <2>3. \A j \in 1..(i - 1) : j \in DOMAIN l.keys
    BY <2>1, <2>2
  <2>4. \A j \in 1..(i - 1) : l.keys[j] \notin AbortingKeys
    BY <1>8, <2>3 DEF Harmless, Range
  <2>5. VerifiesWithKeys(l.keys, sig, verifyReq[v].cid)
    BY <1>8, <2>1, <2>4 DEF VerifiesWithKeys, Verifies
  <2>6. signer = sig.key
    BY <1>8, <2>5 DEF Verdicts, KeyVerdicts
  <2>7. sig.key # NoSigner
    BY <1>5, DisjointAssumption DEF Signatures, SigningKeys
  <2> QED BY <1>6, <2>6, <2>7
<1> HIDE DEF m, signers
<1>9. PullInv(v)'
  BY <1>2, <1>3, <1>4
     DEF PullInv, Pulled, Keyed, SignedBy, KeyStored, SignatureOf, SigningKey
<1>10. CheckInv(v)'
  <2>1. /\ m.todo \subseteq m.sigs /\ m.pc = "check"
        /\ \A i, j \in DOMAIN m.signers : m.signers[i] = m.signers[j] => i = j
    BY <1>3, <1>4, <1>5, <1>6
  <2>2. \A x \in Range(m.signers) :
          /\ Accepts(verifyReq[v], x)
          /\ \E c \in SignCalls :
               /\ signPc[c] \in {"returned", "raised"}
               /\ signReq[c].cid = verifyReq[v].cid
               /\ x = IF verifyReq[v].kind = "key" THEN SigningKey(c) ELSE signReq[c].cred
    BY <1>3, <1>6, <1>7 DEF CheckInv
  <2>3. Harmless(m.keys) /\ m.sigs # {}
          => \A s \in m.sigs \ m.todo :
               UsesKeys(verifyReq[v], s) /\ s.payload = verifyReq[v].cid
                 /\ s.key \in Range(m.keys) => s.key \in Range(m.signers)
    BY <1>3, <1>4, <1>6, <1>8 DEF CheckInv, Keyed
  <2> QED BY <1>2, <2>1, <2>2, <2>3
          DEF CheckInv, Keyed, Harmless, UsesKeys, Accepts, SigningKey
<1> QED BY <1>9, <1>10

\* lookup: only a record that was deleted is not found.
LEMMA LookupStep ==
  ASSUME TypeOK, StoreInv, NEW v \in VerifyCalls, PullInv(v), CheckInv(v), Lookup(v)
  PROVE  PullInv(v)' /\ CheckInv(v)'
<1>1. CASE verifyReq[v].cid \in records
  BY <1>1, OnlyPcMoves DEF Lookup
<1>2. CASE verifyReq[v].cid \notin records
  <2>1. verifyReq[v].cid \in removed
    BY <1>2, RequestType DEF StoreInv, TypeOK
  <2> QED BY <1>2, <2>1, OnlyPcMoves DEF Lookup
<1> QED BY <1>1, <1>2

-----------------------------------------------------------------------------
(* The invariant and what follows from it *)

\* The invariant holds in every state.
THEOREM Inductive == Spec => []IInv
<1>1. Init => IInv
  BY DEF Init, IInv, StoreInv, PullInv, CheckInv, Pulled, Keyed, Range
<1>2. TypeOK /\ IInv /\ [Next]_vars => IInv'
  <2> SUFFICES ASSUME TypeOK, IInv, [Next]_vars PROVE IInv'
    OBVIOUS
  <2>1. StoreInv /\ StoreInv' /\ Evolves
    BY StoreStep, StepEvolves DEF IInv
  <2>2. ASSUME NEW v \in VerifyCalls, verify'[v] = verify[v]
        PROVE  PullInv(v)' /\ CheckInv(v)'
    BY <2>1, <2>2, OthersKeepInv DEF IInv
  <2>3. CASE verify' = verify
    BY <2>1, <2>2, <2>3 DEF IInv
  <2>4. ASSUME NEW v \in VerifyCalls, VerifyStep(v) PROVE IInv'
    <3>1. PullInv(v) /\ CheckInv(v)
      BY DEF IInv
    <3>2. \A w \in VerifyCalls \ {v} : verify'[w] = verify[w]
      BY <2>4, MovesFacts
         DEF VerifyStep, BeginVerify, Lookup, PullSignatures, PullPublicKeys,
             VerifyRpcFails, CheckSignature, FinishVerify
    <3>3. PullInv(v)' /\ CheckInv(v)'
      <4>1. CASE BeginVerify(v)
        BY <3>1, <4>1, BeginStep
      <4>2. CASE Lookup(v)
        BY <2>1, <3>1, <4>2, LookupStep
      <4>3. CASE PullSignatures(v)
        BY <2>1, <3>1, <4>3, PullSignaturesStep
      <4>4. CASE PullPublicKeys(v)
        BY <3>1, <4>4, PullPublicKeysStep
      <4>5. CASE VerifyRpcFails(v)
        BY <3>1, <4>5, OnlyPcMoves DEF VerifyRpcFails
      <4>6. CASE CheckSignature(v)
        BY <3>1, <4>6, CheckStep
      <4>7. CASE FinishVerify(v)
        BY <3>1, <4>7, OnlyPcMoves DEF FinishVerify
      <4> QED BY <2>4, <4>1, <4>2, <4>3, <4>4, <4>5, <4>6, <4>7 DEF VerifyStep
    <3> QED BY <2>1, <2>2, <3>2, <3>3 DEF IInv
  <2>5. verify' = verify \/ \E v \in VerifyCalls : VerifyStep(v)
    BY DEF Next, SignStep, SignBlob, PushPublicKey, PushSignature, ArriveLate, OtherClient,
           DeleteRecord, DeleteReferrer, PushForeignKey, ReattachSignature,
           Intervene, UnchangedVerify, vars
  <2> QED BY <2>3, <2>4, <2>5
<1> QED BY <1>1, <1>2, TypeInvariant, PTL DEF Spec

\* On a server that either keeps a pushed referrer or fails the call, a
\* signature is never attached without its public key.
THEOREM KeyFirst ==
  ASSUME NoRefusal
  PROVE  Spec => []KeyBeforeSignature
<1>1. IInv => KeyBeforeSignature
  BY DEF IInv, StoreInv, KeyStored, KeyBeforeSignature
<1> QED BY <1>1, Inductive, PTL

\* Whatever is pushed between verify's two pulls, it holds the key of every
\* signature it holds.
THEOREM PullsCover ==
  ASSUME NoRefusal
  PROVE  Spec => []PulledKeysCoverSignatures
<1>1. IInv => PulledKeysCoverSignatures
  BY DEF IInv, PullInv, Keyed, PulledKeysCoverSignatures
<1> QED BY <1>1, Inductive, PTL

\* A sign call that returned has stored what the documentation says it stores.
THEOREM ReturnedStored ==
  ASSUME NoRefusal
  PROVE  Spec => []ReturnedMeansStored
<1>1. TypeOK /\ IInv => ReturnedMeansStored
  <2> SUFFICES ASSUME TypeOK, IInv, NEW c \in SignCalls, signPc[c] = "returned",
                      signReq[c].cid \notin removed
               PROVE  KeyReferrer(c) \in keyRefs /\ SignatureReferrer(c) \in sigRefs
    BY DEF ReturnedMeansStored
  <2>1. SignatureReferrer(c) \in sigRefs
    BY DEF IInv, StoreInv
  <2>2. KeyStored(SignatureOf(c))
    BY <2>1 DEF IInv, StoreInv, SignatureReferrer
  <2>3. KeyReferrer(c) \in keyRefs
    BY <2>2 DEF KeyStored, KeyReferrer, SignatureOf
  <2> QED BY <2>1, <2>3
<1> QED BY <1>1, TypeInvariant, Inductive, PTL

\* Whatever the server answers, verify reports only credentials some sign call
\* used on this very record.
THEOREM Sound == Spec => []ReportedSignersSigned
<1>1. IInv => ReportedSignersSigned
  BY DEF IInv, CheckInv, ReportedSignersSigned
<1> QED BY <1>1, Inductive, PTL

\* Whatever the server answers, and however often a record is signed with a
\* key, verify reports a signer once.
THEOREM OneEach == Spec => []OneResultPerSigner
<1>1. IInv => OneResultPerSigner
  BY DEF IInv, CheckInv, OneResultPerSigner
<1> QED BY <1>1, Inductive, PTL

\* A verify that begins after sign returned reports the signing key.
THEOREM ReadYourWrites ==
  ASSUME NoRefusal
  PROVE  Spec => []SignThenVerify
<1>1. TypeOK /\ IInv => SignThenVerify
  <2> SUFFICES ASSUME TypeOK, IInv, NEW v \in VerifyCalls,
                      NEW c \in SignCalls \cap verify[v].before,
                      verify[v].pc = "returned",
                      signReq[c].cid = verifyReq[v].cid,
                      signReq[c].cred \in Keys,
                      Accepts(verifyReq[v], signReq[c].cred),
                      Undisturbed(verifyReq[v].cid)
               PROVE  signReq[c].cred \in Range(verify[v].signers)
    BY DEF SignThenVerify
  <2> DEFINE sig == SignatureOf(c)
  <2>1. PullInv(v) /\ CheckInv(v)
    BY DEF IInv
  <2>2. sig \in verify[v].sigs \ verify[v].todo /\ Keyed(v)
    BY <2>1 DEF PullInv, CheckInv, Pulled, Keyed, Undisturbed
  <2>3. /\ sig.key = signReq[c].cred
        /\ sig.payload = verifyReq[v].cid
        /\ sig.identity = NoIdentity
    BY DEF SignatureOf, SigningKey
  <2>4. verifyReq[v].kind # "oidc"
    <3>1. verifyReq[v].kind = "oidc" => verifyReq[v].trusted \subseteq Identities
      BY DEF TypeOK, VerifyRequests
    <3> QED BY <3>1, DisjointAssumption DEF Accepts
  <2>5. CASE verifyReq[v].kind = "key"
    <3>1. PICK k \in PublicKeys : verifyReq[v].trusted = {k}
      BY <2>5, RequestType DEF TypeOK
    <3>2. Range(verify[v].keys) = {signReq[c].cred}
      BY <2>1, <2>2, <2>5, <3>1 DEF PullInv, Accepts
    <3>3. Harmless(verify[v].keys)
      BY <3>2, DisjointAssumption DEF Harmless
    <3> QED BY <2>1, <2>2, <2>3, <2>5, <3>2, <3>3 DEF CheckInv, UsesKeys
  <2>6. CASE verifyReq[v].kind = "any"
    <3>1. \A k \in Range(verify[v].keys) : [cid |-> verifyReq[v].cid, key |-> k] \in keyRefs
      BY <2>1, <2>6 DEF PullInv, Undisturbed
    <3>2. Harmless(verify[v].keys)
      BY <3>1 DEF Harmless, Undisturbed
    <3>3. sig.key \in Range(verify[v].keys)
      BY <2>1, <2>2, <2>3, <2>6 DEF PullInv, Undisturbed
    <3> QED BY <2>1, <2>2, <2>3, <2>6, <3>2, <3>3 DEF CheckInv, UsesKeys
  <2> QED BY <2>4, <2>5, <2>6, RequestType DEF TypeOK
<1> QED BY <1>1, TypeInvariant, Inductive, PTL

\* Every key is tried, unless one is attached on which loading ends in another
\* exception than KeyLoadError: what the docstring of _verify_with_keys says fails
\* for that reason only.
THEOREM KeysTried ==
  ASSUME AbortingKeys = {}
  PROVE  Spec => []EveryKeyTried
<1>1. IInv => EveryKeyTried
  <2> SUFFICES ASSUME IInv, NEW v \in VerifyCalls,
                      NEW sig \in verify[v].sigs \ verify[v].todo,
                      UsesKeys(verifyReq[v], sig),
                      sig.payload = verifyReq[v].cid,
                      sig.key \in Range(verify[v].keys),
                      verify[v].pc \in {"check", "returned"}
               PROVE  sig.key \in Range(verify[v].signers)
    BY DEF EveryKeyTried
  <2>1. CheckInv(v)
    BY DEF IInv
  <2>2. Keyed(v) /\ Harmless(verify[v].keys)
    BY DEF Keyed, Harmless
  <2> QED BY <2>1, <2>2 DEF CheckInv
<1> QED BY <1>1, Inductive, PTL
=============================================================================
