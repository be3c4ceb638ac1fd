------------------------ MODULE SignVerifyRefinement ------------------------
(***************************************************************************)
(* What relates one call to another, for any number of records, keys,      *)
(* identities, calls and interventions: a later verify loses no signer,    *)
(* and sign and verify implement AttestationLog (every step of SignVerify  *)
(* is a step of the log, or leaves it alone).                              *)
(***************************************************************************)
EXTENDS SignVerifyProofs

-----------------------------------------------------------------------------
(* What the mapping needs beyond IInv *)

\* A signature found on any record is on the record it is over, unless
\* something was removed there: others attach only what they have pulled.
OriginInv ==
  \A r \in sigRefs :
    r.sig.payload \in removed \/ [cid |-> r.sig.payload, sig |-> r.sig] \in sigRefs

\* A signer a request accepts, of one of these signatures, found with these keys.
SignerAmong(signer, req, sigs, keys) ==
  \E sig \in sigs :
    /\ sig.payload = req.cid
    /\ Accepts(req, signer)
    /\ signer = IF UsesKeys(req, sig) THEN sig.key ELSE sig.identity
    /\ UsesKeys(req, sig) => signer \in Range(keys)

\* Every signer a verify call reports is the signer of a signature it pulled,
\* and none is reported before both pulls.
ReportInv(v) ==
  /\ verify[v].pc = "pullKeys" => verify[v].signers = <<>>
  /\ \A signer \in Range(verify[v].signers) :
       SignerAmong(signer, verifyReq[v], verify[v].sigs, verify[v].keys)

\* No step takes a signature away without marking the record.
LEMMA OriginStep ==
  ASSUME TypeOK, IInv, OriginInv, [Next]_vars
  PROVE  OriginInv'
<1>e. Evolves
  BY StepEvolves
<1>1. \A r \in sigRefs :
        r.sig.payload \in removed' \/ [cid |-> r.sig.payload, sig |-> r.sig] \in sigRefs'
  BY <1>e DEF Evolves, OriginInv
<1>2. ASSUME \A r \in sigRefs' : \E q \in sigRefs : r.sig = q.sig
      PROVE  OriginInv'
  BY <1>1, <1>2 DEF OriginInv
<1>3. ASSUME NEW c \in SignCalls, PushSignature(c) \/ ArriveLate(c) PROVE OriginInv'
  <2>1. \A r \in sigRefs' : r \in sigRefs \/ r = SignatureReferrer(c)
    BY <1>3 DEF PushSignature, ArriveLate, Kept
  <2>2. LET r == SignatureReferrer(c) IN [cid |-> r.sig.payload, sig |-> r.sig] = r
    BY DEF SignatureReferrer, SignatureOf
  <2> QED BY <1>1, <2>1, <2>2 DEF OriginInv
<1>4. ASSUME UNCHANGED sigRefs PROVE OriginInv'
  BY <1>2, <1>4
<1>5. ASSUME NEW c \in SignCalls, SignBlob(c) \/ PushPublicKey(c) PROVE OriginInv'
  BY <1>4, <1>5 DEF SignBlob, PushPublicKey, UnchangedStore
<1>6. ASSUME NEW v \in VerifyCalls, VerifyStep(v) PROVE OriginInv'
  BY <1>4, <1>6 DEF VerifyStep, BeginVerify, Lookup, PullSignatures, PullPublicKeys,
                    VerifyRpcFails, CheckSignature, FinishVerify, Moves, UnchangedStore
<1>7. ASSUME NEW cid \in Cids, OtherClient(cid) PROVE OriginInv'
  <2>1. CASE DeleteRecord(cid) \/ DeleteReferrer(cid)
    BY <1>2, <2>1 DEF DeleteRecord, DeleteReferrer
  <2>2. CASE ReattachSignature(cid)
    BY <1>2, <2>2 DEF ReattachSignature
  <2>3. CASE \E key \in PublicKeys : PushForeignKey(cid, key)
    BY <1>4, <2>3 DEF PushForeignKey
  <2> QED BY <1>7, <2>1, <2>2, <2>3 DEF OtherClient
<1>8. CASE UNCHANGED vars
  BY <1>4, <1>8 DEF vars
<1> QED BY <1>3, <1>5, <1>6, <1>7, <1>8 DEF Next, SignStep

\* The loop reports signers of the signatures it checks, and nothing else does.
LEMMA ReportStep ==
  ASSUME TypeOK, IInv, NEW v \in VerifyCalls, ReportInv(v), [Next]_vars
  PROVE  ReportInv(v)'
<1>e. UNCHANGED verifyReq
  BY StepEvolves DEF Evolves
<1>1. ASSUME verify'[v] = verify[v] PROVE ReportInv(v)'
  BY <1>e, <1>1 DEF ReportInv
<1>2. ASSUME verify[v].signers = <<>>, verify'[v].signers = verify[v].signers
      PROVE  ReportInv(v)'
  BY <1>2 DEF ReportInv, Range
<1>3. ASSUME verify'[v].signers = verify[v].signers, verify'[v].sigs = verify[v].sigs,
             verify'[v].keys = verify[v].keys, verify'[v].pc # "pullKeys"
      PROVE  ReportInv(v)'
  BY <1>e, <1>3 DEF ReportInv
<1>t. verify[v] \in VerifyState /\ PullInv(v) /\ CheckInv(v)
  BY DEF TypeOK, IInv
<1>p. ASSUME NEW pc, pc # "pullKeys", Moves(v, [verify[v] EXCEPT !.pc = pc]) PROVE ReportInv(v)'
  <2>1. verify'[v] = [verify[v] EXCEPT !.pc = pc]
    BY <1>p, MovesFacts
  <2>2. /\ verify'[v].pc = pc /\ verify'[v].signers = verify[v].signers
        /\ verify'[v].sigs = verify[v].sigs /\ verify'[v].keys = verify[v].keys
    BY <1>t, <2>1 DEF VerifyState
  <2> QED BY <1>3, <1>p, <2>2
<1>4. ASSUME VerifyStep(v) PROVE ReportInv(v)'
  <2>1. CASE BeginVerify(v)
    <3>1. verify'[v] = [verify[v] EXCEPT !.pc = "lookup", !.before = Returned]
      BY <2>1, MovesFacts DEF BeginVerify
    <3>2. verify'[v].pc = "lookup" /\ verify'[v].signers = verify[v].signers
          /\ verify'[v].sigs = verify[v].sigs /\ verify'[v].keys = verify[v].keys
      BY <1>t, <3>1 DEF VerifyState
    <3> QED BY <1>3, <3>2
  <2>2. CASE Lookup(v)
    BY <1>p, <2>2 DEF Lookup
  <2>3. CASE PullSignatures(v)
    <3>1. verify[v].signers = <<>>
      BY <1>t, <2>3 DEF PullSignatures, PullInv
    <3>2. PICK sigs, keys, pc : Moves(v, [verify[v] EXCEPT
                                  !.sigs = sigs, !.todo = sigs, !.keys = keys, !.pc = pc])
      BY <2>3 DEF PullSignatures
    <3>3. verify'[v] = [verify[v] EXCEPT
                          !.sigs = sigs, !.todo = sigs, !.keys = keys, !.pc = pc]
      BY <3>2, MovesFacts
    <3> QED BY <1>2, <1>t, <3>1, <3>3 DEF VerifyState
  <2>4. CASE PullPublicKeys(v)
    <3>1. PICK keys \in Listings(StoredKeys(verifyReq[v].cid)) :
            Moves(v, [verify[v] EXCEPT !.keys = keys, !.pc = "check"])
      BY <2>4 DEF PullPublicKeys
    <3>2. verify'[v] = [verify[v] EXCEPT !.keys = keys, !.pc = "check"]
      BY <3>1, MovesFacts
    <3>3. verify[v].signers = <<>>
      BY <2>4 DEF PullPublicKeys, ReportInv
    <3> QED BY <1>2, <1>t, <3>2, <3>3 DEF VerifyState
  <2>5. CASE VerifyRpcFails(v)
    BY <1>p, <2>5 DEF VerifyRpcFails
  <2>6. CASE CheckSignature(v)
    <3>1. PICK sig \in verify[v].todo : \E signer \in Verdicts(v, sig) :
            Moves(v, [verify[v] EXCEPT !.todo = @ \ {sig}, !.signers = Report(@, signer)])
      BY <2>6 DEF CheckSignature
    <3>2. PICK signer \in Verdicts(v, sig) :
            Moves(v, [verify[v] EXCEPT !.todo = @ \ {sig}, !.signers = Report(@, signer)])
      BY <3>1
    <3>a. verify'[v] = [verify[v] EXCEPT !.todo = @ \ {sig}, !.signers = Report(@, signer)]
      BY <3>2, MovesFacts
    <3>3. /\ verify'[v].signers = Report(verify[v].signers, signer)
          /\ verify'[v].sigs = verify[v].sigs /\ verify'[v].keys = verify[v].keys
          /\ verify'[v].pc = "check"
      BY <1>t, <2>6, <3>a DEF VerifyState, CheckSignature
    <3>4. sig \in verify[v].sigs /\ sig \in Signatures /\ verify[v].signers \in Seq(Signers)
      BY <1>t DEF CheckInv, VerifyState
    <3>5. CASE signer = NoSigner
      BY <1>3, <3>3, <3>5 DEF Report
    <3>6. CASE signer # NoSigner
      <4>1. /\ signer \in Signers
            /\ sig.payload = verifyReq[v].cid
            /\ \/ /\ UsesKeys(verifyReq[v], sig)
                  /\ signer = sig.key
                  /\ signer \in Range(verify[v].keys)
               \/ /\ ~UsesKeys(verifyReq[v], sig)
                  /\ signer = sig.identity
                  /\ Accepts(verifyReq[v], signer)
        BY <3>4, <3>6, VerdictLemma
      <4>2. UsesKeys(verifyReq[v], sig) => Accepts(verifyReq[v], signer)
        BY <1>t, <4>1 DEF PullInv, UsesKeys, Accepts
      <4>3. SignerAmong(signer, verifyReq[v], verify[v].sigs, verify[v].keys)
        BY <3>4, <4>1, <4>2 DEF SignerAmong
      <4>4. Range(verify'[v].signers) = Range(verify[v].signers) \cup {signer}
        BY <3>3, <3>4, <3>6, <4>1, ReportLemma
      <4> QED BY <1>e, <3>3, <4>3, <4>4 DEF ReportInv
    <3> QED BY <3>5, <3>6
  <2>7. CASE FinishVerify(v)
    BY <1>p, <2>7 DEF FinishVerify
  <2> QED BY <1>4, <2>1, <2>2, <2>3, <2>4, <2>5, <2>6, <2>7 DEF VerifyStep
<1>5. ASSUME NEW w \in VerifyCalls, w # v, VerifyStep(w) PROVE ReportInv(v)'
  BY <1>1, <1>5, MovesFacts
     DEF VerifyStep, BeginVerify, Lookup, PullSignatures, PullPublicKeys,
         VerifyRpcFails, CheckSignature, FinishVerify
<1>6. CASE UNCHANGED verify
  BY <1>1, <1>6
<1>7. UNCHANGED verify \/ \E w \in VerifyCalls : VerifyStep(w)
  BY DEF Next, SignStep, SignBlob, PushPublicKey, PushSignature, ArriveLate, OtherClient,
         DeleteRecord, DeleteReferrer, PushForeignKey, ReattachSignature,
         Intervene, UnchangedVerify, vars
<1> QED BY <1>4, <1>5, <1>6, <1>7

\* What a verify call has pulled is still there unless something was removed; and
\* it has pulled what the calls for the same that had returned before it pulled.
SeenInv(v) ==
  LET req == verifyReq[v] IN
  /\ req.cid \notin removed
       => \A sig \in verify[v].sigs : [cid |-> req.cid, sig |-> sig] \in sigRefs
  /\ \A w \in VerifyCalls \cap verify[v].before :
       /\ verify[w].pc = "returned"
       /\ verifyReq[w] = req /\ req.cid \notin removed
            => /\ Pulled(v) => verify[w].sigs \subseteq verify[v].sigs
               /\ req.kind = "any" /\ Keyed(v)
                    => Range(verify[w].keys) \subseteq Range(verify[v].keys)

\* A later pull finds what an earlier one has found.
LEMMA SeenStep ==
  ASSUME TypeOK, IInv, IInv', \A w \in VerifyCalls : SeenInv(w), NEW v \in VerifyCalls,
         [Next]_vars
  PROVE  SeenInv(v)'
<1> DEFINE req == verifyReq[v]
<1>e. Evolves
  BY StepEvolves
<1>t. verify[v] \in VerifyState /\ PullInv(v) /\ PullInv(v)'
  BY DEF TypeOK, IInv
<1>r. verifyReq'[v] = req /\ (req.cid \notin removed' => req.cid \notin removed)
  BY <1>e DEF Evolves
<1>s. req.cid \notin removed' =>
        \A sig \in verify[v].sigs : [cid |-> req.cid, sig |-> sig] \in sigRefs'
  BY <1>e, <1>r DEF Evolves, SeenInv
<1>w. \A w \in VerifyCalls : verify[w].pc = "returned" => verify'[w] = verify[w]
  <2> SUFFICES ASSUME NEW w \in VerifyCalls, verify[w].pc = "returned"
               PROVE  verify'[w] = verify[w]
    OBVIOUS
  <2>1. ~VerifyStep(w)
    BY DEF VerifyStep, BeginVerify, Lookup, PullSignatures, PullPublicKeys,
           VerifyRpcFails, CheckSignature, FinishVerify
  <2>2. ASSUME NEW x \in VerifyCalls, x # w, VerifyStep(x) PROVE verify'[w] = verify[w]
    BY <2>2, MovesFacts
       DEF VerifyStep, BeginVerify, Lookup, PullSignatures, PullPublicKeys,
           VerifyRpcFails, CheckSignature, FinishVerify
  <2>3. UNCHANGED verify \/ \E x \in VerifyCalls : VerifyStep(x)
    BY DEF Next, SignStep, SignBlob, PushPublicKey, PushSignature, ArriveLate, OtherClient,
           DeleteRecord, DeleteReferrer, PushForeignKey, ReattachSignature,
           Intervene, UnchangedVerify, vars
  <2> QED BY <2>1, <2>2, <2>3
\* Steps that pull nothing.
<1>1. ASSUME verify'[v].sigs = verify[v].sigs, verify'[v].keys = verify[v].keys,
             verify'[v].before = verify[v].before,
             Pulled(v)' /\ req.cid \notin removed' => Pulled(v),
             Keyed(v)' /\ req.cid \notin removed' => Keyed(v)
      PROVE  SeenInv(v)'
  <2>1. \A w \in VerifyCalls \cap verify[v].before :
          /\ verify'[w] = verify[w] /\ verify[w].pc = "returned"
          /\ verifyReq'[w] = verifyReq[w]
    BY <1>e, <1>w DEF SeenInv, Evolves
  <2>2. \A w \in VerifyCalls \cap verify[v].before :
          verifyReq[w] = req /\ req.cid \notin removed'
            => /\ Pulled(v)' => verify[w].sigs \subseteq verify[v].sigs
               /\ req.kind = "any" /\ Keyed(v)'
                    => Range(verify[w].keys) \subseteq Range(verify[v].keys)
    BY <1>1, <1>r DEF SeenInv
  <2> QED BY <1>1, <1>r, <1>s, <2>1, <2>2 DEF SeenInv
<1>2. ASSUME NEW pc, verify'[v] = [verify[v] EXCEPT !.pc = pc],
             pc \in {"pullKeys", "check", "returned"} => Pulled(v) \/ req.cid \in removed,
             pc \in {"check", "returned"} => verify[v].pc = "check" \/ verify[v].sigs = {}
      PROVE  SeenInv(v)'
  <2>1. /\ verify'[v].pc = pc /\ verify'[v].sigs = verify[v].sigs
        /\ verify'[v].keys = verify[v].keys /\ verify'[v].before = verify[v].before
    BY <1>t, <1>2 DEF VerifyState
  <2> QED BY <1>1, <1>2, <1>r, <2>1 DEF Pulled, Keyed
<1>3. ASSUME VerifyStep(v) PROVE SeenInv(v)'
  <2>s. UNCHANGED <<sigRefs, keyRefs, removed>>
    BY <1>3, MovesFacts
       DEF VerifyStep, BeginVerify, Lookup, PullSignatures, PullPublicKeys,
           VerifyRpcFails, CheckSignature, FinishVerify
  <2>1. CASE BeginVerify(v)
    <3>1. verify'[v] = [verify[v] EXCEPT !.pc = "lookup", !.before = Returned]
      BY <2>1, MovesFacts DEF BeginVerify
    <3>2. verify'[v].pc = "lookup" /\ verify'[v].before = Returned
          /\ verify'[v].sigs = verify[v].sigs
      BY <1>t, <3>1 DEF VerifyState
    <3>3. \A w \in VerifyCalls \cap Returned : verify'[w].pc = "returned"
      BY <1>w, DisjointAssumption DEF Returned
    <3>4. ~Pulled(v)' /\ ~Keyed(v)'
      BY <3>2 DEF Pulled, Keyed
    <3> QED BY <1>r, <1>s, <3>2, <3>3, <3>4 DEF SeenInv
  <2>2. CASE Lookup(v)
    <3> DEFINE pc == IF req.cid \in records THEN "pullSignatures" ELSE "returned"
    <3>1. verify[v].pc = "lookup" /\ verify'[v] = [verify[v] EXCEPT !.pc = pc]
      BY <2>2, MovesFacts DEF Lookup
    <3>2. verify[v].sigs = {}
      BY <1>t, <3>1 DEF PullInv
    <3>3. pc = "returned" => req.cid \in removed
      BY RequestType DEF IInv, StoreInv, TypeOK
    <3>4. pc \in {"pullSignatures", "returned"}
      OBVIOUS
    <3> HIDE DEF pc
    <3> QED BY <1>2, <3>1, <3>2, <3>3, <3>4
  <2>3. CASE PullSignatures(v)
    <3> DEFINE sigs == StoredSignatures(req.cid)
    <3>1. PICK keys, pc :
            /\ pc = "returned" => sigs = {}
            /\ pc = "check" => req.kind # "any"
            /\ Moves(v, [verify[v] EXCEPT
                 !.sigs = sigs, !.todo = sigs, !.keys = keys, !.pc = pc])
      BY <2>3 DEF PullSignatures
    <3>2. verify'[v] = [verify[v] EXCEPT
            !.sigs = sigs, !.todo = sigs, !.keys = keys, !.pc = pc]
      BY <3>1, MovesFacts
    <3>3. /\ verify'[v].sigs = sigs /\ verify'[v].pc = pc
          /\ verify'[v].before = verify[v].before
      BY <1>t, <3>2 DEF VerifyState
    <3>4. \A sig \in sigs : [cid |-> req.cid, sig |-> sig] \in sigRefs
      BY StoredLemma
    <3>5. \A w \in VerifyCalls \cap verify[v].before :
            /\ verify'[w] = verify[w] /\ verify[w].pc = "returned"
            /\ verifyReq'[w] = verifyReq[w]
            /\ verifyReq[w] = req /\ req.cid \notin removed => verify[w].sigs \subseteq sigs
      <4> SUFFICES ASSUME NEW w \in VerifyCalls \cap verify[v].before
                   PROVE  /\ verify'[w] = verify[w] /\ verify[w].pc = "returned"
                          /\ verifyReq'[w] = verifyReq[w]
                          /\ verifyReq[w] = req /\ req.cid \notin removed
                               => verify[w].sigs \subseteq sigs
        OBVIOUS
      <4>1. verify[w].pc = "returned"
        BY DEF SeenInv
      <4>2. verifyReq[w] = req /\ req.cid \notin removed => verify[w].sigs \subseteq sigs
        BY StoredLemma DEF SeenInv
      <4> QED BY <1>e, <1>w, <4>1, <4>2 DEF Evolves
    <3>6. req.kind = "any" => ~Keyed(v)'
      BY <3>1, <3>3 DEF Keyed
    <3> HIDE DEF sigs
    <3> QED BY <1>r, <2>s, <3>3, <3>4, <3>5, <3>6 DEF SeenInv
  <2>4. CASE PullPublicKeys(v)
    <3>1. PICK keys \in Listings(StoredKeys(req.cid)) :
            Moves(v, [verify[v] EXCEPT !.keys = keys, !.pc = "check"])
      BY <2>4 DEF PullPublicKeys
    <3>2. verify'[v] = [verify[v] EXCEPT !.keys = keys, !.pc = "check"]
      BY <3>1, MovesFacts
    <3>3. /\ verify'[v].keys = keys /\ verify'[v].sigs = verify[v].sigs
          /\ verify'[v].before = verify[v].before
      BY <1>t, <3>2 DEF VerifyState
    <3>4. Pulled(v)
      BY <2>4 DEF PullPublicKeys, Pulled
    <3>5. \A k : k \in Range(keys) <=> [cid |-> req.cid, key |-> k] \in keyRefs
      BY StoredKeysLemma, StoredLemma
    <3>6. ASSUME NEW w \in VerifyCalls \cap verify[v].before
          PROVE  /\ verify'[w] = verify[w] /\ verify[w].pc = "returned"
                 /\ verifyReq'[w] = verifyReq[w]
                 /\ verifyReq[w] = req /\ req.cid \notin removed
                      => /\ verify[w].sigs \subseteq verify[v].sigs
                         /\ req.kind = "any" => Range(verify[w].keys) \subseteq Range(keys)
      <4>1. verify[w].pc = "returned" /\ PullInv(w)
        BY DEF SeenInv, IInv
      <4>2. verifyReq[w] = req /\ req.cid \notin removed
              => verify[w].sigs \subseteq verify[v].sigs
        BY <3>4 DEF SeenInv
      <4>3. verifyReq[w] = req /\ req.cid \notin removed /\ req.kind = "any"
              => \A k \in Range(verify[w].keys) : [cid |-> req.cid, key |-> k] \in keyRefs
        BY <4>1 DEF PullInv
      <4> QED BY <1>e, <1>w, <3>5, <4>1, <4>2, <4>3 DEF Evolves
    <3> QED BY <1>r, <1>s, <2>s, <3>3, <3>6 DEF SeenInv
  <2>5. CASE VerifyRpcFails(v)
    <3>1. verify'[v] = [verify[v] EXCEPT !.pc = "raised"]
      BY <2>5, MovesFacts DEF VerifyRpcFails
    <3> QED BY <1>2, <3>1
  <2>6. CASE CheckSignature(v)
    <3>1. PICK sig \in verify[v].todo : \E signer \in Verdicts(v, sig) :
            Moves(v, [verify[v] EXCEPT !.todo = @ \ {sig}, !.signers = Report(@, signer)])
      BY <2>6 DEF CheckSignature
    <3>2. PICK signer \in Verdicts(v, sig) :
            Moves(v, [verify[v] EXCEPT !.todo = @ \ {sig}, !.signers = Report(@, signer)])
      BY <3>1
    <3>3. verify'[v] = [verify[v] EXCEPT !.todo = @ \ {sig}, !.signers = Report(@, signer)]
      BY <3>2, MovesFacts
    <3>4. /\ verify'[v].pc = verify[v].pc /\ verify'[v].sigs = verify[v].sigs
          /\ verify'[v].keys = verify[v].keys /\ verify'[v].before = verify[v].before
      BY <1>t, <3>3 DEF VerifyState
    <3> QED BY <1>1, <3>4 DEF Pulled, Keyed
  <2>7. CASE FinishVerify(v)
    <3>1. verify[v].pc = "check" /\ verify'[v] = [verify[v] EXCEPT !.pc = "returned"]
      BY <2>7, MovesFacts DEF FinishVerify
    <3> QED BY <1>2, <3>1 DEF Pulled
  <2> QED BY <1>3, <2>1, <2>2, <2>3, <2>4, <2>5, <2>6, <2>7 DEF VerifyStep
<1>4. ASSUME verify'[v] = verify[v] PROVE SeenInv(v)'
  BY <1>1, <1>4 DEF Pulled, Keyed
<1>5. verify'[v] = verify[v] \/ VerifyStep(v)
  <2>1. UNCHANGED verify \/ \E x \in VerifyCalls : VerifyStep(x)
    BY DEF Next, SignStep, SignBlob, PushPublicKey, PushSignature, ArriveLate, OtherClient,
           DeleteRecord, DeleteReferrer, PushForeignKey, ReattachSignature,
           Intervene, UnchangedVerify, vars
  <2>2. ASSUME NEW x \in VerifyCalls, x # v, VerifyStep(x) PROVE verify'[v] = verify[v]
    BY <2>2, MovesFacts
       DEF VerifyStep, BeginVerify, Lookup, PullSignatures, PullPublicKeys,
           VerifyRpcFails, CheckSignature, FinishVerify
  <2> QED BY <2>1, <2>2
<1> QED BY <1>3, <1>4, <1>5

RInv == OriginInv /\ \A v \in VerifyCalls : ReportInv(v) /\ SeenInv(v)

\* All three hold in every state.
THEOREM Originals == Spec => []RInv
<1>1. Init => RInv
  BY DEF Init, RInv, OriginInv, ReportInv, SeenInv, Range
<1>2. TypeOK /\ IInv /\ IInv' /\ RInv /\ [Next]_vars => RInv'
  BY OriginStep, ReportStep, SeenStep DEF RInv
<1> QED BY <1>1, <1>2, TypeInvariant, Inductive, PTL DEF Spec

-----------------------------------------------------------------------------
(* A later verify loses no signer *)

\* Verify is monotone, whatever the server answers: the later call holds the
\* signatures and the keys of the earlier one, so it finds again what that found,
\* also if the sign call raised.
THEOREM Monotone == Spec => []VerifyIsMonotone
<1>1. TypeOK /\ IInv /\ RInv => VerifyIsMonotone
  <2> SUFFICES ASSUME TypeOK, IInv, RInv, NEW v \in VerifyCalls, NEW w \in VerifyCalls,
                      w \in verify[v].before, verifyReq[w] = verifyReq[v],
                      verify[v].pc = "returned", Undisturbed(verifyReq[v].cid),
                      NEW k \in Range(verify[w].signers) \cap SigningKeys
               PROVE  k \in Range(verify[v].signers)
    BY DEF VerifyIsMonotone
  <2> DEFINE req == verifyReq[v]
  <2>0. /\ PullInv(v) /\ CheckInv(v) /\ SeenInv(v) /\ PullInv(w) /\ ReportInv(w)
        /\ req.cid \notin removed
        /\ \A key \in AbortingKeys : [cid |-> req.cid, key |-> key] \notin keyRefs
    BY DEF IInv, RInv, Undisturbed
  <2>1. PICK sig \in verify[w].sigs :
          /\ sig.payload = req.cid
          /\ k = IF UsesKeys(req, sig) THEN sig.key ELSE sig.identity
          /\ UsesKeys(req, sig) => k \in Range(verify[w].keys)
    BY <2>0 DEF ReportInv, SignerAmong
  <2>2. sig.identity \in Identities \cup {NoIdentity}
    BY DEF TypeOK, VerifyState, Signatures
  <2>3. UsesKeys(req, sig) /\ k = sig.key /\ k \in Range(verify[w].keys)
    BY <2>1, <2>2, DisjointAssumption DEF SigningKeys
  <2>4. sig \in verify[v].sigs /\ sig \notin verify[v].todo /\ Keyed(v)
    BY <2>0, <2>1 DEF SeenInv, CheckInv, Pulled, Keyed
  <2>5. CASE req.kind = "any"
    <3>1. k \in Range(verify[v].keys)
      BY <2>0, <2>3, <2>4, <2>5 DEF SeenInv
    <3>2. \A x \in Range(verify[v].keys) : [cid |-> req.cid, key |-> x] \in keyRefs
      BY <2>0, <2>5 DEF PullInv
    <3>3. Harmless(verify[v].keys)
      BY <2>0, <3>2 DEF Harmless
    <3> QED BY <2>0, <2>1, <2>3, <2>4, <3>1, <3>3 DEF CheckInv
  <2>6. CASE req.kind = "key"
    <3>1. PICK key \in PublicKeys : req.trusted = {key}
      BY <2>6, RequestType DEF TypeOK
    <3>2. Range(verify[v].keys) = {k}
      BY <2>0, <2>3, <2>4, <2>6, <3>1 DEF PullInv
    <3>3. Harmless(verify[v].keys)
      BY <3>2, DisjointAssumption DEF Harmless, SigningKeys
    <3> QED BY <2>0, <2>1, <2>3, <2>4, <3>2, <3>3 DEF CheckInv
  <2> QED BY <2>3, <2>5, <2>6 DEF UsesKeys
<1> QED BY <1>1, TypeInvariant, Inductive, Originals, PTL

-----------------------------------------------------------------------------
(* What the steps do to the mapped state *)

\* Each part of the log's state depends on few variables.
LEMMA Frame ==
  ASSUME Evolves
  PROVE  /\ UNCHANGED Claims
         /\ UNCHANGED signPc => UNCHANGED Statuses
         /\ UNCHANGED sigRefs => UNCHANGED Attestations
         /\ UNCHANGED <<removed, keyRefs>> => UNCHANGED Disturbed
         /\ UNCHANGED verify => UNCHANGED <<Phases, Snapshots, Answers>>
<1>1. UNCHANGED Claims
  BY DEF Evolves, Claims, SignatureOf, SigningKey, FactOf
<1>2. UNCHANGED signPc => UNCHANGED Statuses
  BY DEF Statuses
<1>3. UNCHANGED sigRefs => UNCHANGED Attestations
  BY DEF Attestations
<1>4. UNCHANGED <<removed, keyRefs>> => UNCHANGED Disturbed
  BY DEF Disturbed, Undisturbed
<1>5. UNCHANGED verify => UNCHANGED <<Phases, Snapshots, Answers>>
  BY DEF Evolves, Phases, Snapshots, Answers
<1> QED BY <1>1, <1>2, <1>3, <1>4, <1>5

\* What a verify call has answered, once it has.
AnswerOf(locals) == IF locals.pc = "returned" THEN Range(locals.signers) ELSE {}

\* A step of a verify call moves its own part of the log's state.
LEMMA MappedMoves ==
  ASSUME TypeOK, Evolves, NEW v \in VerifyCalls, NEW locals, Moves(v, locals)
  PROVE  /\ UNCHANGED <<Claims, Statuses, Attestations, Disturbed, verifyReq>>
         /\ Phases' = [Phases EXCEPT ![v] = PhaseOf(locals.pc)]
         /\ Snapshots' = [Snapshots EXCEPT ![v] = FactsOn(verifyReq[v].cid, locals.sigs)]
         /\ Answers' = [Answers EXCEPT ![v] = AnswerOf(locals)]
<1>1. /\ verify'[v] = locals
      /\ \A w \in VerifyCalls \ {v} : verify'[w] = verify[w]
      /\ UNCHANGED <<signReq, signPc, verifyReq, records, keyRefs, sigRefs, removed>>
  BY MovesFacts
<1>2. UNCHANGED <<Claims, Statuses, Attestations, Disturbed, verifyReq>>
  BY <1>1, Frame
<1>3. Phases' = [Phases EXCEPT ![v] = PhaseOf(locals.pc)]
  BY <1>1 DEF Phases
<1>4. Snapshots' = [Snapshots EXCEPT ![v] = FactsOn(verifyReq[v].cid, locals.sigs)]
  BY <1>1 DEF Snapshots
<1>5. Answers' = [Answers EXCEPT ![v] = AnswerOf(locals)]
  BY <1>1 DEF Answers, AnswerOf
<1> QED BY <1>2, <1>3, <1>4, <1>5

\* What is logged of a record is what pull_signatures would return of it.
LEMMA LogOfLemma ==
  ASSUME TypeOK, NEW cid
  PROVE  Log!LogOf(cid) = FactsOn(cid, StoredSignatures(cid))
<1>1. \A a \in Log!LogOf(cid) : a \in FactsOn(cid, StoredSignatures(cid))
  <2> SUFFICES ASSUME NEW r \in sigRefs, InPlace(r), FactOf(r.sig).cid = cid
               PROVE  FactOf(r.sig) \in FactsOn(cid, StoredSignatures(cid))
    BY DEF Log!LogOf, Attestations
  <2>1. r.sig.payload = cid /\ r.cid = cid
    BY DEF FactOf, InPlace
  <2> QED BY <2>1 DEF FactsOn, StoredSignatures
<1>2. \A a \in FactsOn(cid, StoredSignatures(cid)) : a \in Log!LogOf(cid)
  <2> SUFFICES ASSUME NEW sig \in StoredSignatures(cid), sig.payload = cid
               PROVE  FactOf(sig) \in Log!LogOf(cid)
    BY DEF FactsOn
  <2>1. PICK r \in sigRefs : r.cid = cid /\ r.sig = sig
    BY DEF StoredSignatures
  <2>2. FactOf(sig) \in Attestations /\ FactOf(sig).cid = cid
    BY <2>1 DEF Attestations, InPlace, FactOf
  <2> QED BY <2>2 DEF Log!LogOf
<1> QED BY <1>1, <1>2

-----------------------------------------------------------------------------
(* Every step is a step of the log *)

\* A sign call attests with its second push, or raises before or in it, and then
\* that push may attest when it arrives.
LEMMA SignRefines ==
  ASSUME NoRefusal, TypeOK, IInv, [Next]_vars, NEW c \in SignCalls, SignStep(c)
  PROVE  Log!Attest(c) \/ Log!Appear(c) \/ UNCHANGED Log!vars
<1>e. Evolves
  BY StepEvolves
<1>v. UNCHANGED verify /\ UNCHANGED <<removed, verifyReq>>
  BY DEF SignStep, SignBlob, PushPublicKey, PushSignature, ArriveLate, UnchangedVerify,
         UnchangedStore
<1>f. UNCHANGED <<Claims, Phases, Snapshots, Answers>>
  BY <1>e, <1>v, Frame
<1>p. signPc \in [SignCalls -> {"signBlob", "pushKey", "pushSignature", "returned", "raised"}]
  BY DEF TypeOK
<1>d. UNCHANGED Disturbed
  <2>1. \A r \in keyRefs' : r \in keyRefs \/ r = KeyReferrer(c)
    BY DEF SignStep, SignBlob, PushPublicKey, PushSignature, ArriveLate, Kept, UnchangedStore
  <2>2. keyRefs \subseteq keyRefs'
    BY DEF SignStep, SignBlob, PushPublicKey, PushSignature, ArriveLate, Kept, UnchangedStore
  <2>3. KeyReferrer(c).key \notin AbortingKeys
    BY SignatureType, DisjointAssumption DEF KeyReferrer, SigningKeys, TypeOK
  <2>4. \A cid \in Cids : Undisturbed(cid)' <=> Undisturbed(cid)
    BY <1>v, <2>1, <2>2, <2>3 DEF Undisturbed
  <2> QED BY <2>4 DEF Disturbed
<1>u. /\ UNCHANGED <<Claims, Disturbed>> /\ UNCHANGED Log!verifyVars
  BY <1>v, <1>f, <1>d DEF Log!verifyVars
<1>1. ASSUME NEW pc \in {"returned", "raised"}, signPc' = [signPc EXCEPT ![c] = pc]
      PROVE  Statuses' = [Statuses EXCEPT ![c] = pc]
  BY <1>1, <1>p DEF Statuses, StatusOf
<1>2. ASSUME NEW pc \in {"pushKey", "pushSignature"}, signPc' = [signPc EXCEPT ![c] = pc],
             StatusOf(signPc[c]) = "running"
      PROVE  UNCHANGED Statuses
  BY <1>2, <1>p DEF Statuses, StatusOf
<1>s. ASSUME sigRefs' = sigRefs \cup {SignatureReferrer(c)}
      PROVE  Attestations' = Attestations \cup {Claims[c]}
  <2>1. LET r == SignatureReferrer(c) IN InPlace(r) /\ FactOf(r.sig) = Claims[c]
    BY DEF InPlace, SignatureReferrer, SignatureOf, Claims
  <2> QED BY <1>s, <2>1 DEF Attestations
<1>r. SignBlob(c) \/ PushPublicKey(c) \/ PushSignature(c)
        => StatusOf(signPc[c]) = "running" /\ Statuses[c] = "running"
  BY DEF SignBlob, PushPublicKey, PushSignature, StatusOf, Statuses
<1>3. ASSUME Statuses[c] = "running", signPc' = [signPc EXCEPT ![c] = "raised"],
             UNCHANGED sigRefs
      PROVE  Log!Attest(c)
  BY <1>1, <1>3, <1>u, <1>e, Frame DEF Log!Attest
<1>4. ASSUME StatusOf(signPc[c]) = "running", NEW pc \in {"pushKey", "pushSignature"},
             signPc' = [signPc EXCEPT ![c] = pc], UNCHANGED sigRefs
      PROVE  UNCHANGED Log!vars
  BY <1>2, <1>4, <1>u, <1>e, Frame DEF Log!vars, Log!signVars, Log!logVars
<1>5. CASE SignBlob(c)
  BY <1>3, <1>4, <1>5, <1>r DEF SignBlob, UnchangedStore
<1>6. CASE PushPublicKey(c)
  BY <1>3, <1>4, <1>6, <1>r DEF PushPublicKey
<1>7. CASE PushSignature(c)
  <2>1. PICK outcome \in PushOutcomes :
          /\ sigRefs' = Kept(sigRefs, outcome, SignatureReferrer(c))
          /\ signPc' = [signPc EXCEPT ![c] = IF Raises(outcome) THEN "raised" ELSE "returned"]
    BY <1>7 DEF PushSignature
  <2>2. outcome \in {"stored", "error", "lost"}
    BY OutcomesAssumption DEF NoRefusal, AllOutcomes
  <2>3. CASE outcome = "stored"
    <3>1. Statuses' = [Statuses EXCEPT ![c] = "returned"]
      BY <1>1, <2>1, <2>3 DEF Raises
    <3>2. Attestations' = Attestations \cup {Claims[c]}
      BY <1>s, <2>1, <2>3 DEF Kept
    <3> QED BY <1>7, <1>r, <1>u, <3>1, <3>2 DEF Log!Attest
  <2>4. CASE outcome \in {"error", "lost"}
    BY <1>3, <1>7, <1>r, <2>1, <2>4 DEF Raises, Kept
  <2> QED BY <2>2, <2>3, <2>4
<1>8. CASE ArriveLate(c)
  <2>1. UNCHANGED signPc
    BY <1>8 DEF ArriveLate, UnchangedSign
  <2>2. UNCHANGED Statuses
    BY <1>e, <2>1, Frame
  <2>3. CASE late[c] = "signature"
    <3>1. signPc[c] = "raised"
      BY <2>3 DEF IInv, StoreInv
    <3>2. Statuses[c] = "raised"
      BY <3>1 DEF Statuses, StatusOf
    <3>3. Attestations' = Attestations \cup {Claims[c]}
      BY <1>8, <1>s, <2>3 DEF ArriveLate
    <3>4. Log!Appear(c)
      BY <1>u, <2>2, <3>2, <3>3 DEF Log!Appear, Log!signVars
    <3> QED BY <3>4
  <2>4. CASE late[c] # "signature"
    <3>1. UNCHANGED sigRefs
      BY <1>8, <2>4 DEF ArriveLate
    <3>2. UNCHANGED Attestations
      BY <1>e, <3>1, Frame
    <3> QED BY <1>u, <2>2, <3>2 DEF Log!vars, Log!signVars, Log!logVars
  <2> QED BY <2>3, <2>4
<1> QED BY <1>5, <1>6, <1>7, <1>8 DEF SignStep

\* What others remove, or attach to hamper verification, disturbs the record;
\* what they attach again appears again or changes nothing.
LEMMA OtherRefines ==
  ASSUME TypeOK, IInv, RInv, [Next]_vars, NEW cid \in Cids, OtherClient(cid)
  PROVE  Log!Disturb(cid) \/ (\E c \in SignCalls : Log!Appear(c)) \/ UNCHANGED Log!vars
<1>e. Evolves
  BY StepEvolves
<1>v. UNCHANGED <<verify, signPc, verifyReq>>
  BY DEF OtherClient, DeleteRecord, DeleteReferrer, PushForeignKey, ReattachSignature,
         Intervene, UnchangedVerify, UnchangedSign
<1>u. UNCHANGED <<Claims, Statuses, Phases, Snapshots, Answers>>
      /\ UNCHANGED Log!signVars /\ UNCHANGED Log!verifyVars
  BY <1>e, <1>v, Frame DEF Log!signVars, Log!verifyVars
<1>1. ASSUME removed' = removed \cup {cid},
             sigRefs' \subseteq sigRefs, \A r \in sigRefs \ sigRefs' : r.cid = cid,
             keyRefs' \subseteq keyRefs, \A r \in keyRefs \ keyRefs' : r.cid = cid
      PROVE  Log!Disturb(cid)
  <2>1. Attestations' \subseteq Attestations
    BY <1>1 DEF Attestations
  <2>2. \A a \in Attestations \ Attestations' : a.cid = cid
    <3> SUFFICES ASSUME NEW r \in sigRefs, InPlace(r), FactOf(r.sig) \notin Attestations'
                 PROVE  FactOf(r.sig).cid = cid
      BY DEF Attestations
    <3>1. r \notin sigRefs'
      BY DEF Attestations
    <3> QED BY <1>1, <3>1 DEF InPlace, FactOf
  <2>3. \A x \in Cids : Undisturbed(x)' <=> Undisturbed(x) /\ x # cid
    BY <1>1 DEF Undisturbed
  <2>4. Disturbed' = Disturbed \cup {cid}
    BY <2>3 DEF Disturbed
  <2> QED BY <1>u, <2>1, <2>2, <2>4 DEF Log!Disturb
<1>2. CASE DeleteRecord(cid) \/ DeleteReferrer(cid)
  BY <1>1, <1>2 DEF DeleteRecord, DeleteReferrer
<1>3. ASSUME NEW key \in PublicKeys, PushForeignKey(cid, key)
      PROVE  Log!Disturb(cid) \/ UNCHANGED Log!vars
  <2>1. UNCHANGED Attestations
    BY <1>e, <1>3, Frame DEF PushForeignKey
  <2>2. CASE key \in AbortingKeys
    <3>1. \A x \in Cids : Undisturbed(x)' <=> Undisturbed(x) /\ x # cid
      BY <1>3, <2>2 DEF PushForeignKey, Undisturbed
    <3>2. Disturbed' = Disturbed \cup {cid}
      BY <3>1 DEF Disturbed
    <3> QED BY <1>u, <2>1, <3>2 DEF Log!Disturb
  <2>3. CASE key \notin AbortingKeys
    <3>1. \A x \in Cids : Undisturbed(x)' <=> Undisturbed(x)
      BY <1>3, <2>3 DEF PushForeignKey, Undisturbed
    <3>2. UNCHANGED Disturbed
      BY <3>1 DEF Disturbed
    <3> QED BY <1>u, <2>1, <3>2 DEF Log!vars, Log!logVars
  <2> QED BY <2>2, <2>3
<1>4. CASE ReattachSignature(cid)
  <2>1. PICK r \in sigRefs : sigRefs' = sigRefs \cup {[cid |-> cid, sig |-> r.sig]}
    BY <1>4 DEF ReattachSignature
  <2>2. UNCHANGED Disturbed
    BY <1>e, <1>4, Frame DEF ReattachSignature
  <2> DEFINE q == [cid |-> cid, sig |-> r.sig]
  <2>3. CASE ~InPlace(q)
    <3>1. UNCHANGED Attestations
      BY <2>1, <2>3 DEF Attestations
    <3> QED BY <1>u, <2>2, <3>1 DEF Log!vars, Log!logVars
  <2>4. CASE InPlace(q)
    <3>1. Attestations' = Attestations \cup {FactOf(r.sig)}
      BY <2>1, <2>4 DEF Attestations
    <3>2. r.sig.payload = cid
      BY <2>4 DEF InPlace
    <3>3. CASE q \in sigRefs
      <4>1. UNCHANGED Attestations
        BY <2>1, <3>3 DEF Attestations
      <4> QED BY <1>u, <2>2, <4>1 DEF Log!vars, Log!logVars
    <3>4. CASE cid \in removed
      <4>1. r.sig.by \in SignCalls /\ SignedBy(r.sig)
        BY DEF TypeOK, IInv, StoreInv, Signatures
      <4>2. FactOf(r.sig) = Claims[r.sig.by] /\ Statuses[r.sig.by] \in {"returned", "raised"}
        BY <4>1 DEF SignedBy, Claims, Statuses, StatusOf
      <4>3. Claims[r.sig.by].cid \in Disturbed
        BY <3>2, <3>4, <4>2 DEF FactOf, Disturbed, Undisturbed
      <4>4. Log!Appear(r.sig.by)
        BY <1>u, <2>2, <3>1, <4>2, <4>3 DEF Log!Appear
      <4> QED BY <4>1, <4>4
    <3> QED BY <3>2, <3>3, <3>4 DEF RInv, OriginInv
  <2> QED BY <2>3, <2>4
<1> QED BY <1>2, <1>3, <1>4 DEF OtherClient

\* The signer a signature counts as is the one its attestation counts as.
LEMMA SameSigner ==
  ASSUME NEW req, NEW sig
  PROVE  /\ Log!ByKey(req, FactOf(sig)) <=> UsesKeys(req, sig)
         /\ Log!Signer(req, FactOf(sig)) = IF UsesKeys(req, sig) THEN sig.key ELSE sig.identity
         /\ \A x : Log!Trusts(req, x) <=> Accepts(req, x)
BY DEF Log!ByKey, Log!Signer, Log!Trusts, FactOf, UsesKeys, Accepts

\* When all signatures are checked, only signers of the snapshot are reported,
\* and those that are found by their key all are, unless the record is disturbed.
LEMMA AnswerLemma ==
  ASSUME NoRefusal, TypeOK, IInv, RInv, NEW v \in VerifyCalls,
         verify[v].pc = "check", verify[v].todo = {}
  PROVE  LET req == verifyReq[v]
             signers == Range(verify[v].signers)
         IN  /\ signers \in SUBSET Log!SignersIn(req, Snapshots[v])
             /\ req.cid \notin Disturbed
                  => Log!SignersIn(req, {a \in Snapshots[v] : Log!ByKey(req, a)}) \subseteq signers
<1> DEFINE req == verifyReq[v]
           signers == Range(verify[v].signers)
<1>s. Snapshots[v] = {FactOf(sig) : sig \in {s \in verify[v].sigs : s.payload = req.cid}}
  BY DEF Snapshots, FactsOn
<1>i. PullInv(v) /\ CheckInv(v) /\ ReportInv(v)
  BY DEF IInv, RInv
<1>1. ASSUME NEW x \in signers PROVE x \in Log!SignersIn(req, Snapshots[v])
  <2>1. PICK sig \in verify[v].sigs :
          /\ sig.payload = req.cid
          /\ Accepts(req, x)
          /\ x = IF UsesKeys(req, sig) THEN sig.key ELSE sig.identity
    BY <1>i, <1>1 DEF ReportInv, SignerAmong
  <2>2. FactOf(sig) \in Snapshots[v]
    BY <1>s, <2>1
  <2>3. x = Log!Signer(req, FactOf(sig)) /\ Log!Trusts(req, x)
    BY <2>1, SameSigner
  <2> QED BY <2>2, <2>3 DEF Log!SignersIn
<1>2. ASSUME req.cid \notin Disturbed,
             NEW x \in Log!SignersIn(req, {a \in Snapshots[v] : Log!ByKey(req, a)})
      PROVE  x \in signers
  <2>1. PICK a \in Snapshots[v] :
          Log!ByKey(req, a) /\ x = Log!Signer(req, a) /\ Log!Trusts(req, x)
    BY <1>2 DEF Log!SignersIn
  <2>2. PICK sig \in verify[v].sigs : sig.payload = req.cid /\ a = FactOf(sig)
    BY <1>s, <2>1
  <2>3. UsesKeys(req, sig) /\ x = sig.key /\ Accepts(req, x)
    BY <2>1, <2>2, SameSigner
  <2>4. Undisturbed(req.cid)
    BY <1>2, RequestType DEF Disturbed, TypeOK
  <2>5. Keyed(v) /\ sig.key \in SigningKeys
    BY <2>2 DEF Keyed, TypeOK, VerifyState, Signatures
  <2>6. sig.key \in Range(verify[v].keys) /\ Harmless(verify[v].keys)
    <3>1. CASE req.kind = "key"
      <4>1. PICK k \in PublicKeys : req.trusted = {k}
        BY <3>1, RequestType DEF TypeOK
      <4>2. Range(verify[v].keys) = {sig.key}
        BY <1>i, <2>3, <2>5, <3>1, <4>1 DEF PullInv, Accepts
      <4> QED BY <2>5, <4>2, DisjointAssumption DEF Harmless, SigningKeys
    <3>2. CASE req.kind = "any"
      <4>1. req.cid \notin removed
            /\ \A key \in AbortingKeys : [cid |-> req.cid, key |-> key] \notin keyRefs
        BY <2>4 DEF Undisturbed
      <4>2. /\ \A k \in Range(verify[v].keys) : [cid |-> req.cid, key |-> k] \in keyRefs
            /\ sig.key \in Range(verify[v].keys)
        BY <1>i, <2>2, <2>5, <3>2, <4>1 DEF PullInv
      <4> QED BY <4>1, <4>2 DEF Harmless
    <3> QED BY <2>3, <3>1, <3>2 DEF UsesKeys
  <2> QED BY <1>i, <2>2, <2>3, <2>5, <2>6 DEF CheckInv
<1> QED BY <1>1, <1>2

\* A verify call reads with its first pull and answers with its end; its other
\* steps change nothing that can be seen.
LEMMA VerifyRefines ==
  ASSUME NoRefusal, TypeOK, IInv, RInv, [Next]_vars, NEW v \in VerifyCalls, VerifyStep(v)
  PROVE  \/ Log!Call(v) \/ Log!Read(v) \/ Log!AnswerNothing(v) \/ Log!Answer(v) \/ Log!Fail(v)
         \/ UNCHANGED Log!vars
<1> DEFINE l == verify[v]
           req == verifyReq[v]
<1>e. Evolves
  BY StepEvolves
<1>t. l \in VerifyState /\ PullInv(v) /\ CheckInv(v)
  BY DEF TypeOK, IInv
<1>m. /\ Phases[v] = PhaseOf(l.pc) /\ Snapshots[v] = FactsOn(req.cid, l.sigs)
      /\ Answers[v] = AnswerOf(l)
      /\ Phases = [Phases EXCEPT ![v] = PhaseOf(l.pc)]
      /\ Snapshots = [Snapshots EXCEPT ![v] = FactsOn(req.cid, l.sigs)]
      /\ Answers = [Answers EXCEPT ![v] = AnswerOf(l)]
  BY DEF Phases, Snapshots, Answers, AnswerOf
<1>1. ASSUME NEW m, Moves(v, m)
      PROVE  /\ UNCHANGED <<Claims, Statuses, Attestations, Disturbed, verifyReq>>
             /\ UNCHANGED Log!signVars /\ UNCHANGED Log!logVars
             /\ Phases' = [Phases EXCEPT ![v] = PhaseOf(m.pc)]
             /\ m.sigs = l.sigs => UNCHANGED Snapshots
             /\ AnswerOf(m) = AnswerOf(l) => UNCHANGED Answers
             /\ Snapshots' = [Snapshots EXCEPT ![v] = FactsOn(req.cid, m.sigs)]
             /\ Answers' = [Answers EXCEPT ![v] = AnswerOf(m)]
  BY <1>1, <1>e, <1>m, MappedMoves DEF Log!signVars, Log!logVars
<1>2. ASSUME NEW m, Moves(v, m), PhaseOf(m.pc) = PhaseOf(l.pc), m.sigs = l.sigs,
             AnswerOf(m) = AnswerOf(l)
      PROVE  UNCHANGED Log!vars
  BY <1>1, <1>2, <1>m DEF Log!vars, Log!verifyVars
<1>3. CASE BeginVerify(v)
  <2> DEFINE m == [l EXCEPT !.pc = "lookup", !.before = Returned]
  <2>1. l.pc = "idle" /\ Moves(v, m)
    BY <1>3 DEF BeginVerify
  <2>2. m.pc = "lookup" /\ m.sigs = l.sigs
    BY <1>t DEF VerifyState
  <2>3. PhaseOf(l.pc) = "idle" /\ PhaseOf(m.pc) = "called" /\ AnswerOf(m) = AnswerOf(l)
    BY <2>1, <2>2 DEF PhaseOf, AnswerOf
  <2> HIDE DEF m
  <2>4. Log!Call(v)
    BY <1>1, <1>m, <2>1, <2>2, <2>3 DEF Log!Call
  <2> QED BY <2>4
<1>4. CASE Lookup(v)
  <2> DEFINE pc == IF req.cid \in records THEN "pullSignatures" ELSE "returned"
             m == [l EXCEPT !.pc = pc]
  <2>1. l.pc = "lookup" /\ Moves(v, m)
    BY <1>4 DEF Lookup
  <2>2. m.pc = pc /\ m.sigs = l.sigs /\ m.signers = l.signers
    BY <1>t DEF VerifyState
  <2>3. l.signers = <<>> /\ Range(l.signers) = {}
    BY <1>t, <2>1 DEF PullInv, Range
  <2>4. PhaseOf(l.pc) = "called" /\ AnswerOf(m) = AnswerOf(l)
    BY <2>1, <2>2, <2>3 DEF PhaseOf, AnswerOf
  <2> HIDE DEF m
  <2>5. CASE req.cid \in records
    <3>1. PhaseOf(m.pc) = "called"
      BY <2>2, <2>5 DEF PhaseOf
    <3> QED BY <1>2, <2>1, <2>2, <2>4, <3>1
  <2>6. CASE req.cid \notin records
    <3>1. PhaseOf(m.pc) = "answered"
      BY <2>2, <2>6 DEF PhaseOf
    <3>2. req.cid \in Disturbed
      BY <2>6, RequestType DEF IInv, StoreInv, TypeOK, Disturbed, Undisturbed
    <3>3. Log!AnswerNothing(v)
      BY <1>1, <1>m, <2>1, <2>2, <2>4, <3>1, <3>2 DEF Log!AnswerNothing
    <3> QED BY <3>3
  <2> QED BY <2>5, <2>6
<1>5. CASE PullSignatures(v)
  <2> DEFINE sigs == StoredSignatures(req.cid)
             pc == IF sigs = {} THEN "returned"
                   ELSE IF req.kind = "any" THEN "pullKeys" ELSE "check"
             keys == RequestKeys(req)
             m == [l EXCEPT !.sigs = sigs, !.todo = sigs, !.keys = keys, !.pc = pc]
  <2>1. l.pc = "pullSignatures" /\ Moves(v, m)
    BY <1>5 DEF PullSignatures
  <2>a. PhaseOf(l.pc) = "called"
    BY <2>1 DEF PhaseOf
  <2> HIDE DEF keys
  <2>2. m.pc = pc /\ m.sigs = sigs /\ m.signers = l.signers
    BY <1>t DEF VerifyState
  <2>3. l.signers = <<>> /\ Range(l.signers) = {} /\ l.sigs = {}
    BY <1>t, <2>1 DEF PullInv, Range
  <2>4. AnswerOf(m) = AnswerOf(l)
    BY <2>1, <2>2, <2>3 DEF AnswerOf
  <2>5. Log!LogOf(req.cid) = FactsOn(req.cid, sigs)
    BY LogOfLemma
  <2> HIDE DEF m
  <2>6. CASE sigs = {}
    <3>1. PhaseOf(m.pc) = "answered"
      BY <2>2, <2>6 DEF PhaseOf
    <3>2. Log!LogOf(req.cid) = {}
      BY <2>5, <2>6 DEF FactsOn
    <3>3. Log!AnswerNothing(v)
      BY <1>1, <1>m, <2>1, <2>a, <2>2, <2>3, <2>4, <2>6, <3>1, <3>2 DEF Log!AnswerNothing
    <3> QED BY <3>3
  <2>7. CASE sigs # {}
    <3>1. PhaseOf(m.pc) = "read"
      BY <2>2, <2>7 DEF PhaseOf
    <3>2. Log!Read(v)
      BY <1>1, <1>m, <2>1, <2>a, <2>2, <2>4, <2>5, <3>1 DEF Log!Read
    <3> QED BY <3>2
  <2> QED BY <2>6, <2>7
<1>6. CASE PullPublicKeys(v)
  <2>1. PICK keys \in Listings(StoredKeys(req.cid)) :
          Moves(v, [l EXCEPT !.keys = keys, !.pc = "check"])
    BY <1>6 DEF PullPublicKeys
  <2> DEFINE m == [l EXCEPT !.keys = keys, !.pc = "check"]
  <2>2. m.pc = "check" /\ m.sigs = l.sigs /\ l.pc = "pullKeys"
    BY <1>6, <1>t DEF VerifyState, PullPublicKeys
  <2>3. PhaseOf(m.pc) = PhaseOf(l.pc) /\ AnswerOf(m) = AnswerOf(l)
    BY <2>2 DEF PhaseOf, AnswerOf
  <2> QED BY <1>2, <2>1, <2>2, <2>3
<1>7. CASE VerifyRpcFails(v)
  <2> DEFINE m == [l EXCEPT !.pc = "raised"]
  <2>1. l.pc \in {"lookup", "pullSignatures", "pullKeys"} /\ Moves(v, m)
    BY <1>7 DEF VerifyRpcFails
  <2>2. m.pc = "raised" /\ m.sigs = l.sigs
    BY <1>t DEF VerifyState
  <2>3. /\ PhaseOf(l.pc) \in {"called", "read"} /\ PhaseOf(m.pc) = "failed"
        /\ AnswerOf(m) = AnswerOf(l)
    BY <2>1, <2>2 DEF PhaseOf, AnswerOf
  <2> HIDE DEF m
  <2>4. Log!Fail(v)
    BY <1>1, <1>m, <2>1, <2>2, <2>3 DEF Log!Fail
  <2> QED BY <2>4
<1>8. CASE CheckSignature(v)
  <2>1. PICK sig \in l.todo : \E signer \in Verdicts(v, sig) :
          Moves(v, [l EXCEPT !.todo = @ \ {sig}, !.signers = Report(@, signer)])
    BY <1>8 DEF CheckSignature
  <2>2. PICK signer \in Verdicts(v, sig) :
          Moves(v, [l EXCEPT !.todo = @ \ {sig}, !.signers = Report(@, signer)])
    BY <2>1
  <2> DEFINE m == [l EXCEPT !.todo = @ \ {sig}, !.signers = Report(@, signer)]
  <2>3. m.pc = l.pc /\ m.sigs = l.sigs /\ l.pc = "check"
    BY <1>8, <1>t DEF VerifyState, CheckSignature
  <2>4. AnswerOf(m) = AnswerOf(l)
    BY <2>3 DEF AnswerOf
  <2> QED BY <1>2, <2>2, <2>3, <2>4
<1>9. CASE FinishVerify(v)
  <2> DEFINE m == [l EXCEPT !.pc = "returned"]
  <2>1. l.pc = "check" /\ l.todo = {} /\ Moves(v, m)
    BY <1>9 DEF FinishVerify
  <2>2. m.pc = "returned" /\ m.sigs = l.sigs /\ m.signers = l.signers
    BY <1>t DEF VerifyState
  <2>3. /\ PhaseOf(l.pc) = "read" /\ PhaseOf(m.pc) = "answered"
        /\ AnswerOf(m) = Range(l.signers)
    BY <2>1, <2>2 DEF PhaseOf, AnswerOf
  <2>4. /\ Range(l.signers) \in SUBSET Log!SignersIn(req, Snapshots[v])
        /\ req.cid \notin Disturbed
             => Log!SignersIn(req, {a \in Snapshots[v] : Log!ByKey(req, a)})
                  \subseteq Range(l.signers)
    BY <2>1, AnswerLemma
  <2> HIDE DEF m
  <2>5. Log!Answer(v)
    BY <1>1, <1>m, <2>1, <2>2, <2>3, <2>4 DEF Log!Answer
  <2> QED BY <2>5
<1> QED BY <1>3, <1>4, <1>5, <1>6, <1>7, <1>8, <1>9 DEF VerifyStep

\* Although sign and verify take many steps, over two kinds of referrers, with
\* other calls and clients in between, each looks atomic on the log of
\* attestations, as long as the server keeps every push it does not fail.
THEOREM Refines ==
  ASSUME NoRefusal
  PROVE  Spec => ImplementsLog
<1>1. Init => Log!Init
  <2> SUFFICES ASSUME Init PROVE Log!Init
    OBVIOUS
  <2>1. Statuses = [c \in SignCalls |-> "running"]
    BY DEF Init, Statuses, StatusOf
  <2>2. Attestations = {} /\ Disturbed = {}
    BY DEF Init, Attestations, Disturbed, Undisturbed
  <2>3. Phases = [v \in VerifyCalls |-> "idle"]
    BY DEF Init, Phases, PhaseOf
  <2>4. Snapshots = [v \in VerifyCalls |-> {}]
    BY DEF Init, Snapshots, FactsOn
  <2>5. Answers = [v \in VerifyCalls |-> {}]
    BY DEF Init, Answers
  <2> QED BY <2>1, <2>2, <2>3, <2>4, <2>5 DEF Log!Init
<1>2. TypeOK /\ IInv /\ RInv /\ [Next]_vars => [Log!Next]_(Log!vars)
  <2> SUFFICES ASSUME TypeOK, IInv, RInv, [Next]_vars PROVE [Log!Next]_(Log!vars)
    OBVIOUS
  <2>1. ASSUME NEW c \in SignCalls, SignStep(c) PROVE [Log!Next]_(Log!vars)
    BY <2>1, SignRefines DEF Log!Next
  <2>2. ASSUME NEW v \in VerifyCalls, VerifyStep(v) PROVE [Log!Next]_(Log!vars)
    BY <2>2, VerifyRefines DEF Log!Next
  <2>3. ASSUME NEW cid \in Cids, OtherClient(cid) PROVE [Log!Next]_(Log!vars)
    BY <2>3, OtherRefines DEF Log!Next
  <2>4. CASE UNCHANGED vars
    <3>1. UNCHANGED <<signReq, signPc, sigRefs, removed, keyRefs, verify, verifyReq>>
      BY <2>4 DEF vars
    <3>2. UNCHANGED <<Claims, Statuses, Attestations, Disturbed, verifyReq, Phases, Snapshots,
                      Answers>>
      BY <3>1, StepEvolves, Frame
    <3> QED BY <3>2 DEF Log!vars, Log!signVars, Log!logVars, Log!verifyVars
  <2> QED BY <2>1, <2>2, <2>3, <2>4 DEF Next
<1> QED BY <1>1, <1>2, TypeInvariant, Inductive, Originals, PTL DEF Spec, ImplementsLog, Log!Spec
=============================================================================
