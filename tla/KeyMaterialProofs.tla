-------------------------- MODULE KeyMaterialProofs --------------------------
(***************************************************************************)
(* Proofs about KeyMaterial, for any key pairs, files, arguments, calls    *)
(* and any number of changes others make.                                  *)
(***************************************************************************)
EXTENDS KeyMaterial, TLAPS

USE DEF Calls

-----------------------------------------------------------------------------
(* What the operators return *)

\* Loading a private key gives a pair exactly for a private key the password is for.
LEMMA PrivateLemma ==
  ASSUME NEW content \in Contents, NEW given
  PROVE  /\ PrivatePair(content, given) \in Pairs \cup {NoPair}
         /\ PrivatePair(content, given) # NoPair <=>
              (IsPrivate(content) /\ content.password = given)
         /\ PrivatePair(content, given) # NoPair =>
              PrivatePair(content, given) = content.pair
<1>1. CASE content = NoKey
  BY <1>1 DEF PrivatePair, IsPrivate
<1>2. CASE content # NoKey
  <2>1. content \in KeyContents
    BY <1>2, ContentsAssumption
  <2>2. content.pair \in Pairs /\ content.pair # NoPair
    BY <2>1, PairAssumption DEF KeyContents
  <2>3. Opens(content, given) <=> (content.form # "public" /\ content.password = given)
    BY <2>1 DEF KeyContents, Opens
  <2>. QED
    BY <1>2, <2>2, <2>3 DEF PrivatePair, IsPrivate
<1>. QED
  BY <1>1, <1>2

\* Loading a public key gives the pair of a public key, and nothing else.
LEMMA PublicLemma ==
  ASSUME NEW content \in Contents
  PROVE  /\ PublicPair(content) \in Pairs \cup {NoPair}
         /\ PublicPair(content) # NoPair <=> IsPublic(content)
         /\ PublicPair(content) # NoPair => PublicPair(content) = content.pair
<1>1. CASE content = NoKey
  BY <1>1 DEF PublicPair, IsPublic
<1>2. CASE content # NoKey
  <2>1. content \in KeyContents
    BY <1>2, ContentsAssumption
  <2>2. content.pair \in Pairs /\ content.pair # NoPair
    BY <2>1, PairAssumption DEF KeyContents
  <2>. QED
    BY <1>2, <2>2 DEF PublicPair, IsPublic
<1>. QED
  BY <1>1, <1>2

\* What is signed with a pair is a signature that verifies under it.
LEMMA SignLemma ==
  ASSUME NEW pair \in Pairs
  PROVE  /\ SignMessage(pair) \in RawSignatures
         /\ VerifyMessage(pair, SignMessage(pair))
         /\ SignMessage(pair).pair = pair
<1>1. algorithm[pair] \in Algorithms
  BY AlgorithmAssumption
<1>2. CASE algorithm[pair] = "ed25519"
  BY <1>2 DEF SignMessage, VerifyMessage, RawSignatures, Schemes
<1>3. CASE algorithm[pair] # "ed25519"
  BY <1>1, <1>3 DEF SignMessage, VerifyMessage, RawSignatures, Schemes
<1>. QED
  BY <1>2, <1>3

\* What an argument stands for is some content.
LEMMA HoldsLemma ==
  ASSUME TypeOK, NEW c \in Calls
  PROVE  Holds(argument[c]) \in Contents
<1>1. argument[c] \in Arguments /\ files \in [Paths -> Contents]
  BY DEF TypeOK
<1>. QED
  BY <1>1 DEF Holds, Arguments

-----------------------------------------------------------------------------
(* The invariant *)

\* Others store signatures that are well made, and so does sign.
WellMade(sigs) == \A sig \in sigs : VerifyMessage(sig.pair, sig)

\* While a call runs, the history of its argument has what it stands for now.
HeldInv(c) ==
  /\ stage[c] = "idle" => held[c] = {}
  /\ Underway(c) => Holds(argument[c]) \in held[c]

\* The pair a sign call has loaded was in its argument, and it signs with that.
SignInv(c) ==
  /\ stage[c] \in {"idle", "load", "sign", "returned", "raised"}
  /\ stage[c] = "sign" => loaded[c] # NoPair
  /\ stage[c] \in {"idle", "load"} => loaded[c] = NoPair
  /\ loaded[c] # NoPair =>
       \E content \in held[c] : IsPrivate(content) /\ content.pair = loaded[c]
  /\ \A m \in made[c] : /\ loaded[c] # NoPair
                        /\ m.publicKey = loaded[c]
                        /\ m.signature = SignMessage(loaded[c])
  /\ stage[c] = "raised" =>
       \E content \in held[c] : ~(IsPrivate(content) /\ content.password = password[c])

\* A verify call has reported what its argument accounts for: exactly the
\* signatures already checked, when there was one content only.
VerifyInv(v) ==
  /\ stage[v] \in {"idle", "check", "returned"}
  /\ stage[v] = "returned" => todo[v] = {}
  /\ todo[v] \subseteq pulled[v]
  /\ WellMade(pulled[v])
  /\ \A pair \in signers[v] :
       \E content \in held[v] : IsPublic(content) /\ content.pair = pair
  /\ \A content \in held[v] : held[v] = {content} =>
       signers[v] = {sig.pair : sig \in MadeWith(content, pulled[v] \ todo[v])}
  /\ stage[v] = "idle" => signers[v] = {}

IInv ==
  /\ TypeOK
  /\ WellMade(attached)
  /\ \A c \in Calls : HeldInv(c)
  /\ \A c \in SignCalls : SignInv(c)
  /\ \A v \in VerifyCalls : VerifyInv(v)

-----------------------------------------------------------------------------
(* Types *)

\* Who signs has a pair.
TypeInv ==
  /\ TypeOK
  /\ \A c \in SignCalls : stage[c] = "sign" => loaded[c] \in Pairs

LEMMA InitType == Init => TypeInv
BY ChangesAssumption DEF Init, TypeOK, TypeInv

\* Every step keeps the types.
LEMMA NextType == TypeInv /\ [Next]_vars => TypeInv'
<1>. SUFFICES ASSUME TypeInv, [Next]_vars PROVE TypeInv'
  OBVIOUS
<1>. USE CallsAssumption
<1>. USE DEF TypeInv, TypeOK, UnchangedWorld, UnchangedSign, UnchangedVerify
<1>1. ASSUME NEW c \in SignCalls, BeginSign(c) PROVE TypeInv'
  BY <1>1, HoldsLemma DEF BeginSign
<1>2. ASSUME NEW c \in SignCalls, LoadPrivateKey(c) PROVE TypeInv'
  BY <1>2, HoldsLemma, PrivateLemma DEF LoadPrivateKey, LoadAs
<1>3. ASSUME NEW c \in SignCalls, SignBlob(c) PROVE TypeInv'
  <2>1. loaded[c] \in Pairs
    BY <1>3 DEF SignBlob, SignWith
  <2>. DEFINE m == [signature |-> SignMessage(loaded[c]), publicKey |-> loaded[c]]
  <2>2. m \in [signature : RawSignatures, publicKey : Pairs]
    BY <2>1, SignLemma
  <2>3. made' \in [SignCalls -> SUBSET [signature : RawSignatures, publicKey : Pairs]]
    BY <1>3, <2>2 DEF SignBlob, SignWith
  <2>. QED
    BY <1>3, <2>1, <2>3, SignLemma DEF SignBlob, SignWith
<1>4. ASSUME NEW v \in VerifyCalls, BeginVerify(v) PROVE TypeInv'
  BY <1>4, HoldsLemma DEF BeginVerify
<1>5. ASSUME NEW v \in VerifyCalls, CheckSignature(v) PROVE TypeInv'
  BY <1>5, HoldsLemma, PublicLemma DEF CheckSignature
<1>6. ASSUME NEW v \in VerifyCalls, FinishVerify(v) PROVE TypeInv'
  BY <1>6 DEF FinishVerify
<1>7. ASSUME NEW path \in Paths, ReplaceFile(path) PROVE TypeInv'
  BY <1>7, ChangesAssumption DEF ReplaceFile
<1>8. ASSUME AttachSignature PROVE TypeInv'
  <2>1. PICK pair \in Pairs :
          \E scheme \in {algorithm[pair], SignMessage(pair).scheme} :
            attached' = attached \cup {[pair |-> pair, scheme |-> scheme]}
    BY <1>8 DEF AttachSignature
  <2>4. PICK scheme \in {algorithm[pair], SignMessage(pair).scheme} :
          attached' = attached \cup {[pair |-> pair, scheme |-> scheme]}
    BY <2>1
  <2>2. algorithm[pair] \in Schemes /\ SignMessage(pair).scheme \in Schemes
    BY AlgorithmAssumption DEF SignMessage, Schemes
  <2>3. [pair |-> pair, scheme |-> scheme] \in RawSignatures
    BY <2>2 DEF RawSignatures
  <2>. QED
    BY <1>8, <2>4, <2>3, ChangesAssumption DEF AttachSignature
<1>9. CASE UNCHANGED vars
  BY <1>9 DEF vars
<1>. QED
  BY <1>1, <1>2, <1>3, <1>4, <1>5, <1>6, <1>7, <1>8, <1>9
  DEF Next, SignStep, VerifyStep

\* The types hold in every behaviour of KeyMaterial.
THEOREM TypeInvariant == Spec => []TypeOK
<1>1. Spec => []TypeInv
  BY InitType, NextType, PTL DEF Spec
<1>2. TypeInv => TypeOK
  BY DEF TypeInv
<1>. QED
  BY <1>1, <1>2, PTL

-----------------------------------------------------------------------------
(* Every step keeps the invariant *)

LEMMA InitInv == Init => IInv
<1>. SUFFICES ASSUME Init PROVE IInv
  OBVIOUS
<1>1. TypeOK
  BY InitType DEF TypeInv
<1>2. WellMade(attached)
  BY DEF Init, WellMade
<1>3. ASSUME NEW c \in Calls PROVE HeldInv(c)
  BY DEF Init, HeldInv, Underway
<1>4. ASSUME NEW c \in SignCalls PROVE SignInv(c)
  BY DEF Init, SignInv
<1>5. ASSUME NEW v \in VerifyCalls PROVE VerifyInv(v)
  BY DEF Init, VerifyInv, WellMade
<1>. QED
  BY <1>1, <1>2, <1>3, <1>4, <1>5 DEF IInv

\* A step that leaves a call alone, and at most adds to the history of its
\* argument while the call runs, keeps what is known of the call.
LEMMA OtherSign ==
  ASSUME TypeOK, NEW c \in SignCalls, SignInv(c),
         stage'[c] = stage[c], loaded'[c] = loaded[c], made'[c] = made[c],
         password' = password, held[c] \subseteq held'[c]
  PROVE  SignInv(c)'
BY DEF SignInv

LEMMA OtherVerify ==
  ASSUME TypeOK, NEW v \in VerifyCalls, VerifyInv(v), HeldInv(v),
         stage'[v] = stage[v], pulled'[v] = pulled[v], todo'[v] = todo[v],
         signers'[v] = signers[v],
         held'[v] = held[v] \/ (Underway(v) /\ held[v] \subseteq held'[v])
  PROVE  VerifyInv(v)'
<1>. USE DEF VerifyInv
<1>1. \A pair \in signers'[v] :
        \E content \in held'[v] : IsPublic(content) /\ content.pair = pair
  OBVIOUS
<1>2. ASSUME NEW content \in held'[v], held'[v] = {content}
      PROVE  signers'[v] = {sig.pair : sig \in MadeWith(content, pulled'[v] \ todo'[v])}
  <2>1. held[v] = {content}
    BY <1>2 DEF HeldInv
  <2>. QED
    BY <2>1
<1>3. WellMade(pulled'[v])
  BY DEF WellMade
<1>. QED
  BY <1>1, <1>2, <1>3 DEF WellMade

\* The history of a call no step of its own is taken for: the argument stands
\* for the same, or for what ReplaceFile has put there.
LEMMA OtherHeld ==
  ASSUME TypeOK, NEW c \in Calls, HeldInv(c),
         stage'[c] = stage[c], held'[c] = held[c], UNCHANGED <<files, argument>>
  PROVE  HeldInv(c)'
BY DEF HeldInv, Underway, Holds

\* Sign steps.
LEMMA BeginSignInv ==
  ASSUME IInv, TypeOK', NEW c \in SignCalls, BeginSign(c)
  PROVE  IInv'
<1>. USE DEF BeginSign, UnchangedWorld, UnchangedSign, UnchangedVerify
<1>1. \A d \in Calls : d # c => stage'[d] = stage[d] /\ held'[d] = held[d]
  BY DEF IInv, TypeOK
<1>2. stage'[c] = "load" /\ held'[c] = {Holds(argument[c])}
  BY DEF IInv, TypeOK
<1>3. ASSUME NEW d \in Calls PROVE HeldInv(d)'
  BY <1>1, <1>2, OtherHeld DEF IInv, HeldInv, Underway, Holds
<1>4. ASSUME NEW d \in SignCalls PROVE SignInv(d)'
  <2>1. CASE d = c
    BY <1>2, <2>1 DEF IInv, SignInv, HeldInv
  <2>2. CASE d # c
    BY <1>1, <2>2, OtherSign DEF IInv
  <2>. QED
    BY <2>1, <2>2
<1>5. ASSUME NEW v \in VerifyCalls PROVE VerifyInv(v)'
  BY <1>1, CallsAssumption, OtherVerify DEF IInv
<1>. QED
  BY <1>3, <1>4, <1>5 DEF IInv, WellMade

LEMMA LoadInv ==
  ASSUME IInv, TypeOK', NEW c \in SignCalls, LoadPrivateKey(c)
  PROVE  IInv'
<1>. USE DEF LoadPrivateKey, LoadAs, UnchangedWorld, UnchangedVerify
<1>. DEFINE content == Holds(argument[c])
            pair == PrivatePair(content, password[c])
<1>1. \A d \in Calls : d # c => stage'[d] = stage[d]
  BY DEF IInv, TypeOK
<1>2. /\ loaded'[c] = pair
      /\ stage'[c] = IF pair = NoPair THEN "raised" ELSE "sign"
      /\ content \in held'[c]
  BY DEF IInv, TypeOK, HeldInv, Underway
<1>3. ASSUME NEW d \in Calls PROVE HeldInv(d)'
  BY <1>1, <1>2, OtherHeld DEF IInv, HeldInv, Underway, Holds
<1>4. ASSUME NEW d \in SignCalls PROVE SignInv(d)'
  <2>1. CASE d = c
    <3>1. content \in Contents
      BY HoldsLemma DEF IInv
    <3>2. /\ pair # NoPair <=> (IsPrivate(content) /\ content.password = password[c])
          /\ pair # NoPair => pair = content.pair
      BY <3>1, PrivateLemma
    <3>3. loaded[c] # NoPair => FALSE
      BY DEF IInv, SignInv
    <3>. QED
      BY <1>2, <2>1, <3>2 DEF IInv, SignInv
  <2>2. CASE d # c
    <3>1. loaded'[d] = loaded[d]
      BY <2>2 DEF IInv, TypeOK
    <3>. QED
      BY <1>1, <2>2, <3>1, OtherSign DEF IInv
  <2>. QED
    BY <2>1, <2>2
<1>5. ASSUME NEW v \in VerifyCalls PROVE VerifyInv(v)'
  BY <1>1, CallsAssumption, OtherVerify DEF IInv
<1>. QED
  BY <1>3, <1>4, <1>5 DEF IInv, WellMade

LEMMA SignBlobInv ==
  ASSUME IInv, TypeOK', NEW c \in SignCalls, SignBlob(c)
  PROVE  IInv'
<1>. USE DEF SignBlob, SignWith, UnchangedWorld, UnchangedVerify
<1>1. \A d \in Calls : d # c => stage'[d] = stage[d]
  BY DEF IInv, TypeOK
<1>2. /\ stage'[c] = "returned"
      /\ made'[c] = {[signature |-> SignMessage(loaded[c]), publicKey |-> loaded[c]]}
  BY DEF IInv, TypeOK
<1>3. ASSUME NEW d \in Calls PROVE HeldInv(d)'
  BY <1>1, <1>2, OtherHeld DEF IInv, HeldInv, Underway, Holds
<1>4. loaded[c] \in Pairs
  BY DEF IInv, SignInv, TypeOK
<1>5. ASSUME NEW d \in SignCalls PROVE SignInv(d)'
  <2>1. CASE d = c
    BY <1>2, <1>4, <2>1 DEF IInv, SignInv
  <2>2. CASE d # c
    <3>1. made'[d] = made[d]
      BY <2>2 DEF IInv, TypeOK
    <3>. QED
      BY <1>1, <2>2, <3>1, OtherSign DEF IInv
  <2>. QED
    BY <2>1, <2>2
<1>6. ASSUME NEW v \in VerifyCalls PROVE VerifyInv(v)'
  BY <1>1, CallsAssumption, OtherVerify DEF IInv
<1>7. WellMade(attached')
  BY <1>4, SignLemma DEF IInv, WellMade
<1>. QED
  BY <1>3, <1>5, <1>6, <1>7 DEF IInv, WellMade

\* Verify steps.
LEMMA BeginVerifyInv ==
  ASSUME IInv, TypeOK', NEW v \in VerifyCalls, BeginVerify(v)
  PROVE  IInv'
<1>. USE DEF BeginVerify, UnchangedWorld, UnchangedSign
<1>1. \A d \in Calls : d # v => stage'[d] = stage[d] /\ held'[d] = held[d]
  BY DEF IInv, TypeOK
<1>2. /\ stage'[v] = "check" /\ held'[v] = {Holds(argument[v])}
      /\ pulled'[v] = attached /\ todo'[v] = attached /\ signers'[v] = signers[v]
  BY DEF IInv, TypeOK
<1>6. signers[v] = {}
  BY DEF IInv, VerifyInv
<1>3. ASSUME NEW d \in Calls PROVE HeldInv(d)'
  BY <1>1, <1>2, OtherHeld DEF IInv, HeldInv, Underway, Holds
<1>4. ASSUME NEW d \in SignCalls PROVE SignInv(d)'
  BY <1>1, CallsAssumption, OtherSign DEF IInv
<1>5. ASSUME NEW w \in VerifyCalls PROVE VerifyInv(w)'
  <2>1. CASE w = v
    <3>1. \A content : MadeWith(content, pulled'[v] \ todo'[v]) = {}
      BY <1>2 DEF MadeWith
    <3>2. \A content : {sig.pair : sig \in MadeWith(content, pulled'[v] \ todo'[v])} = {}
      BY <3>1
    <3>3. signers'[v] = {} /\ WellMade(pulled'[v])
      BY <1>2, <1>6 DEF IInv, WellMade
    <3>. QED
      BY <1>2, <2>1, <3>2, <3>3 DEF VerifyInv, WellMade
  <2>2. CASE w # v
    <3>1. pulled'[w] = pulled[w] /\ todo'[w] = todo[w]
      BY <2>2 DEF IInv, TypeOK
    <3>. QED
      BY <1>1, <2>2, <3>1, OtherVerify DEF IInv
  <2>. QED
    BY <2>1, <2>2
<1>. QED
  BY <1>3, <1>4, <1>5 DEF IInv, WellMade

LEMMA CheckInv ==
  ASSUME IInv, TypeOK', NEW v \in VerifyCalls, CheckSignature(v)
  PROVE  IInv'
<1>. USE DEF UnchangedWorld, UnchangedSign
<1>. DEFINE now == Holds(argument[v])
            pair == PublicPair(now)
<1>0. /\ stage[v] = "check"
      /\ UNCHANGED <<stage, held, pulled, attached>>
      /\ UnchangedSign /\ UnchangedWorld
  BY DEF CheckSignature
<1>1. PICK sig \in todo[v] :
        /\ todo' = [todo EXCEPT ![v] = @ \ {sig}]
        /\ signers' = [signers EXCEPT ![v] =
             IF pair # NoPair /\ VerifyMessage(pair, sig) THEN @ \cup {pair} ELSE @]
  BY DEF CheckSignature
<1>2. /\ todo'[v] = todo[v] \ {sig}
      /\ signers'[v] = IF pair # NoPair /\ VerifyMessage(pair, sig)
                         THEN signers[v] \cup {pair} ELSE signers[v]
  BY <1>1 DEF IInv, TypeOK
<1>3. ASSUME NEW d \in Calls PROVE HeldInv(d)'
  BY <1>0, OtherHeld DEF IInv
<1>4. ASSUME NEW d \in SignCalls PROVE SignInv(d)'
  BY <1>0, OtherSign DEF IInv
<1>5. ASSUME NEW w \in VerifyCalls PROVE VerifyInv(w)'
  <2>1. CASE w = v
    <3>1. now \in held[v] /\ now \in Contents
      BY <1>0, HoldsLemma DEF IInv, HeldInv, Underway
    <3>2. /\ pair # NoPair <=> IsPublic(now)
          /\ pair # NoPair => pair = now.pair
      BY <3>1, PublicLemma
    <3>3. sig \in pulled[v] /\ VerifyMessage(sig.pair, sig)
      BY <1>1 DEF IInv, VerifyInv, WellMade
    <3>4. VerifyMessage(pair, sig) <=> sig.pair = pair
      BY <3>3 DEF VerifyMessage
    <3>5. pulled[v] \ todo'[v] = (pulled[v] \ todo[v]) \cup {sig}
      BY <1>2, <3>3
    <3>6. \A p \in signers'[v] :
            \E content \in held[v] : IsPublic(content) /\ content.pair = p
      <4>1. \A p \in signers[v] :
              \E content \in held[v] : IsPublic(content) /\ content.pair = p
        BY DEF IInv, VerifyInv
      <4>2. CASE pair = NoPair
        BY <1>2, <4>1, <4>2
      <4>3. CASE pair # NoPair
        <5>1. signers'[v] \subseteq signers[v] \cup {pair}
          BY <1>2
        <5>2. IsPublic(now) /\ now.pair = pair
          BY <3>2, <4>3
        <5>. QED
          BY <3>1, <4>1, <5>1, <5>2
      <4>. QED
        BY <4>2, <4>3
    <3>7. ASSUME NEW content \in held[v], held[v] = {content}
          PROVE  signers'[v] = {s.pair : s \in MadeWith(content, pulled[v] \ todo'[v])}
      <4>1. content = now
        BY <3>1, <3>7
      <4>2. signers[v] = {s.pair : s \in MadeWith(now, pulled[v] \ todo[v])}
        BY <3>7, <4>1 DEF IInv, VerifyInv
      <4>3. CASE IsPublic(now) /\ sig.pair = now.pair
        <5>1. MadeWith(now, pulled[v] \ todo'[v])
                = MadeWith(now, pulled[v] \ todo[v]) \cup {sig}
          BY <3>5, <4>3 DEF MadeWith
        <5>2. signers'[v] = signers[v] \cup {sig.pair}
          BY <1>2, <3>2, <3>4, <4>3
        <5>. QED
          BY <4>1, <4>2, <5>1, <5>2
      <4>4. CASE ~(IsPublic(now) /\ sig.pair = now.pair)
        <5>1. MadeWith(now, pulled[v] \ todo'[v]) = MadeWith(now, pulled[v] \ todo[v])
          BY <3>5, <4>4 DEF MadeWith
        <5>2. signers'[v] = signers[v]
          BY <1>2, <3>2, <3>4, <4>4
        <5>. QED
          BY <4>1, <4>2, <5>1, <5>2
      <4>. QED
        BY <4>3, <4>4
    <3>. QED
      BY <1>0, <1>2, <2>1, <3>6, <3>7 DEF IInv, VerifyInv, WellMade
  <2>2. CASE w # v
    <3>1. todo'[w] = todo[w] /\ signers'[w] = signers[w]
      BY <1>1, <2>2 DEF IInv, TypeOK
    <3>. QED
      BY <1>0, <2>2, <3>1, OtherVerify DEF IInv
  <2>. QED
    BY <2>1, <2>2
<1>. QED
  BY <1>0, <1>3, <1>4, <1>5 DEF IInv, WellMade

LEMMA FinishInv ==
  ASSUME IInv, TypeOK', NEW v \in VerifyCalls, FinishVerify(v)
  PROVE  IInv'
<1>. USE DEF FinishVerify, UnchangedWorld, UnchangedSign
<1>1. \A d \in Calls : d # v => stage'[d] = stage[d]
  BY DEF IInv, TypeOK
<1>2. stage'[v] = "returned"
  BY DEF IInv, TypeOK
<1>3. ASSUME NEW d \in Calls PROVE HeldInv(d)'
  BY <1>1, <1>2, OtherHeld DEF IInv, HeldInv, Underway, Holds
<1>4. ASSUME NEW d \in SignCalls PROVE SignInv(d)'
  BY <1>1, CallsAssumption, OtherSign DEF IInv
<1>5. ASSUME NEW w \in VerifyCalls PROVE VerifyInv(w)'
  <2>1. CASE w = v
    BY <1>2, <2>1 DEF IInv, VerifyInv, WellMade
  <2>2. CASE w # v
    BY <1>1, <2>2, OtherVerify DEF IInv
  <2>. QED
    BY <2>1, <2>2
<1>. QED
  BY <1>3, <1>4, <1>5 DEF IInv, WellMade

\* Steps of others.
LEMMA ReplaceInv ==
  ASSUME IInv, TypeOK', NEW path \in Paths, ReplaceFile(path)
  PROVE  IInv'
<1>. USE DEF UnchangedSign, UnchangedVerify
<1>1. PICK content \in Contents :
        /\ files' = [files EXCEPT ![path] = content]
        /\ held' = [c \in Calls |->
             IF Underway(c) /\ argument[c] = [kind |-> "path", path |-> path]
               THEN held[c] \cup {content} ELSE held[c]]
  BY DEF ReplaceFile
<1>2. UNCHANGED <<argument, password, stage, attached, loaded, made, pulled, todo, signers>>
  BY DEF ReplaceFile
<1>3. \A c \in Calls : /\ held'[c] = held[c] \/ (Underway(c) /\ held[c] \subseteq held'[c])
                       /\ held[c] \subseteq held'[c]
  BY <1>1
<1>4. ASSUME NEW c \in Calls PROVE HeldInv(c)'
  <2>1. argument[c] \in Arguments /\ files \in [Paths -> Contents]
    BY DEF IInv, TypeOK
  <2>2. CASE argument[c].kind = "path" /\ argument[c].path = path
    <3>1. argument[c] = [kind |-> "path", path |-> path]
      BY <2>1, <2>2 DEF Arguments
    <3>2. Holds(argument[c])' = content
      BY <1>1, <1>2, <2>1, <2>2 DEF Holds
    <3>. QED
      BY <1>1, <1>2, <3>1, <3>2 DEF IInv, HeldInv, Underway
  <2>3. CASE ~(argument[c].kind = "path" /\ argument[c].path = path)
    <3>1. argument[c] # [kind |-> "path", path |-> path]
      BY <2>3
    <3>2. Holds(argument[c])' = Holds(argument[c])
      BY <1>1, <1>2, <2>1, <2>3 DEF Holds, Arguments
    <3>. QED
      BY <1>1, <1>2, <3>1, <3>2 DEF IInv, HeldInv, Underway
  <2>. QED
    BY <2>2, <2>3
<1>5. ASSUME NEW d \in SignCalls PROVE SignInv(d)'
  BY <1>2, <1>3, OtherSign DEF IInv
<1>6. ASSUME NEW v \in VerifyCalls PROVE VerifyInv(v)'
  BY <1>2, <1>3, OtherVerify DEF IInv
<1>. QED
  BY <1>2, <1>4, <1>5, <1>6 DEF IInv, WellMade

LEMMA AttachInv ==
  ASSUME IInv, TypeOK', AttachSignature
  PROVE  IInv'
<1>. USE DEF AttachSignature, UnchangedSign, UnchangedVerify
<1>1. PICK pair \in Pairs : \E scheme \in {algorithm[pair], SignMessage(pair).scheme} :
        attached' = attached \cup {[pair |-> pair, scheme |-> scheme]}
  OBVIOUS
<1>2. PICK scheme \in {algorithm[pair], SignMessage(pair).scheme} :
        attached' = attached \cup {[pair |-> pair, scheme |-> scheme]}
  BY <1>1
<1>3. VerifyMessage(pair, [pair |-> pair, scheme |-> scheme])
  BY DEF VerifyMessage, SignMessage
<1>4. WellMade(attached')
  BY <1>2, <1>3 DEF IInv, WellMade
<1>5. ASSUME NEW d \in Calls PROVE HeldInv(d)'
  BY OtherHeld DEF IInv
<1>6. ASSUME NEW d \in SignCalls PROVE SignInv(d)'
  BY OtherSign DEF IInv
<1>7. ASSUME NEW v \in VerifyCalls PROVE VerifyInv(v)'
  BY OtherVerify DEF IInv
<1>. QED
  BY <1>4, <1>5, <1>6, <1>7 DEF IInv, WellMade

-----------------------------------------------------------------------------
(* The theorems *)

LEMMA NextInv == IInv /\ [Next]_vars => IInv'
<1>. SUFFICES ASSUME IInv, [Next]_vars PROVE IInv'
  OBVIOUS
<1>1. TypeOK'
  <2>1. TypeInv
    BY DEF IInv, TypeInv, TypeOK, SignInv
  <2>. QED
    BY <2>1, NextType DEF TypeInv
<1>2. CASE UNCHANGED vars
  <2>1. \A d \in Calls : HeldInv(d)'
    BY <1>2, OtherHeld DEF IInv, vars
  <2>2. \A c \in SignCalls : SignInv(c)'
    BY <1>2, OtherSign DEF IInv, vars
  <2>3. \A v \in VerifyCalls : VerifyInv(v)'
    BY <1>2, OtherVerify DEF IInv, vars
  <2>. QED
    BY <1>1, <1>2, <2>1, <2>2, <2>3 DEF IInv, WellMade, vars
<1>. QED
  BY <1>1, <1>2, BeginSignInv, LoadInv, SignBlobInv, BeginVerifyInv, CheckInv,
     FinishInv, ReplaceInv, AttachInv
  DEF Next, SignStep, VerifyStep

\* The inductive invariant holds in every behaviour.
THEOREM Inductive == Spec => []IInv
BY InitInv, NextInv, PTL DEF Spec

\* What a sign call returns belongs together, whatever happens to its key file.
THEOREM Matches == Spec => []SignatureMatchesKey
<1>1. IInv => SignatureMatchesKey
  <2>. SUFFICES ASSUME IInv, NEW c \in SignCalls, NEW m \in made[c]
                PROVE  VerifyMessage(m.publicKey, m.signature)
    BY DEF SignatureMatchesKey
  <2>1. loaded[c] \in Pairs /\ m.publicKey = loaded[c] /\ m.signature = SignMessage(loaded[c])
    BY DEF IInv, SignInv, TypeOK
  <2>. QED
    BY <2>1, SignLemma
<1>. QED
  BY <1>1, Inductive, PTL

\* Calls use only keys their argument stood for since they began.
THEOREM Configured == Spec => []KeyWasConfigured
<1>1. IInv => KeyWasConfigured
  <2>1. ASSUME IInv, NEW c \in SignCalls, NEW m \in made[c]
        PROVE  \E content \in held[c] : IsPrivate(content) /\ content.pair = m.publicKey
    BY <2>1 DEF IInv, SignInv
  <2>2. ASSUME IInv, NEW v \in VerifyCalls, NEW pair \in signers[v]
        PROVE  \E content \in held[v] : IsPublic(content) /\ content.pair = pair
    BY <2>2 DEF IInv, VerifyInv
  <2>. QED
    BY <2>1, <2>2 DEF KeyWasConfigured
<1>. QED
  BY <1>1, Inductive, PTL

\* Sign fails only when the key argument accounts for it.
THEOREM StableSigns == Spec => []StableKeySigns
<1>1. IInv => StableKeySigns
  BY DEF IInv, SignInv, StableKeySigns
<1>. QED
  BY <1>1, Inductive, PTL

\* A verification with a stable key reports exactly the signatures of that key.
THEOREM Reported == Spec => []KnownSignerReported
<1>1. IInv => KnownSignerReported
  <2>. SUFFICES ASSUME IInv, NEW v \in VerifyCalls, NEW content \in held[v],
                       stage[v] = "returned", held[v] = {content}
                PROVE  signers[v] = {sig.pair : sig \in MadeWith(content, pulled[v])}
    BY DEF KnownSignerReported
  <2>1. /\ signers[v] = {sig.pair : sig \in MadeWith(content, pulled[v] \ todo[v])}
        /\ todo[v] = {}
    BY DEF IInv, VerifyInv
  <2>2. pulled[v] \ todo[v] = pulled[v]
    BY <2>1
  <2>. QED
    BY <2>1, <2>2
<1>. QED
  BY <1>1, Inductive, PTL

=============================================================================
