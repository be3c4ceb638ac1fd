----------------------------- MODULE KeyMaterial -----------------------------
(***************************************************************************)
(* The key material behind signing and verifying with a key: how a key     *)
(* argument (PEM text, or the path of a file) becomes a key pair           *)
(* (signing/keys.py), what is signed with it (sign_blob_with_key in        *)
(* signing/sign.py) and what it verifies (_verify_with_keys in             *)
(* signing/verify.py).  A key file is read when the call needs the key, by *)
(* a verification once for every signature, and may be replaced at any     *)
(* moment: keys are rotated, and a file is torn while it is rewritten.     *)
(*                                                                         *)
(* There is one record, so every signature is over its CID; pulling and    *)
(* pushing referrers, and calls with several keys, are SignVerify's.       *)
(*                                                                         *)
(* Operators named Mutant... are faulty variants of the definition that    *)
(* follows them, kept to show that the properties notice such a fault.     *)
(***************************************************************************)
EXTENDS Naturals

CONSTANTS
  Pairs,           \* key pairs
  algorithm,       \* the algorithm of each pair
  Paths,           \* names of key files
  Passwords,       \* passwords callers and key files may have
  EmptyPassword,   \* b"", the password of a caller who gives none
  NoKey,           \* content no key is loaded from: torn, missing, another type
  Contents,        \* what a key file may hold, or a caller pass as text
  SignArguments,   \* private_key arguments (a path or a text)
  VerifyArguments, \* public_key arguments
  SignCalls,       \* calls of sign with a key
  VerifyCalls,     \* calls of verify with a key
  MaxChanges,      \* bound: steps of others (key files, foreign signatures)
  NoPair           \* a call has loaded no key pair

\* A key file: the pair and how it is written down.  A cosign key always is
\* encrypted, if need be with the empty password; a PKCS#8 key need not be.
KeyContents ==
  [form : {"public", "plain"}, pair : Pairs, password : {EmptyPassword}]
    \cup [form : {"protected"}, pair : Pairs, password : Passwords \ {EmptyPassword}]
    \cup [form : {"cosign"}, pair : Pairs, password : Passwords]

Arguments == [kind : {"text"}, text : Contents] \cup [kind : {"path"}, path : Paths]

Algorithms == {"ecdsa", "rsa", "ed25519"}

\* cosign's default for Ed25519 signs a hash, other tools may sign the payload.
Schemes == Algorithms \cup {"ed25519ph"}

ASSUME AlgorithmAssumption == algorithm \in [Pairs -> Algorithms]
ASSUME ContentsAssumption == /\ Contents \subseteq KeyContents \cup {NoKey}
                             /\ NoKey \in Contents \ KeyContents
                             /\ EmptyPassword \in Passwords
ASSUME ArgumentsAssumption == SignArguments \cup VerifyArguments \subseteq Arguments
ASSUME PairAssumption == NoPair \notin Pairs
ASSUME CallsAssumption == SignCalls \cap VerifyCalls = {}
ASSUME ChangesAssumption == MaxChanges \in Nat

RawSignatures == [pair : Pairs, scheme : Schemes]
Calls == SignCalls \cup VerifyCalls

VARIABLES
  files,      \* what each key file holds
  argument,   \* the key argument of each call
  password,   \* the password of each sign call
  stage,      \* where each call is
  held,       \* what the argument of each call has stood for since it began
  loaded,     \* sign calls: the private key
  made,       \* sign calls: the signatures returned, with their public keys
  pulled,     \* verify calls: the signatures of the record
  todo,       \* verify calls: those still to check
  signers,    \* verify calls: the keys verified so far
  attached,   \* the signatures stored for the record
  changes     \* steps taken by others

vars == <<files, argument, password, stage, held, loaded, made, pulled, todo,
          signers, attached, changes>>

-----------------------------------------------------------------------------
(* Loading a key *)

\* _load_private_key_pem: a cosign key is decrypted with the password given;
\* any other PEM is loaded with _password or None_, and the library refuses a
\* password for a key that is not encrypted, as it refuses none for one that is.
MutantEmptyPassword(content, given) ==
  content.form \in {"protected", "cosign"} /\ given = content.password
Opens(content, given) ==
  \/ content.form = "plain" /\ given = EmptyPassword
  \/ content.form \in {"protected", "cosign"} /\ given = content.password

\* The pair a content is loaded as, if it is; on any exception sign fails and a
\* verification passes the signature over.
PrivatePair(content, given) ==
  IF content # NoKey /\ Opens(content, given) THEN content.pair ELSE NoPair
PublicPair(content) ==
  IF content # NoKey /\ content.form = "public" THEN content.pair ELSE NoPair

\* load_private_key, load_public_key: the argument is tried as PEM text, which a
\* path never is; then it is opened as a file.  A text is no path.
Holds(arg) == IF arg.kind = "path" THEN files[arg.path] ELSE arg.text

\* Signing and verifying with a pair: Ed25519 verifies the payload and then its
\* hash, the others have one scheme.
SignMessage(pair) ==
  [pair |-> pair,
   scheme |-> IF algorithm[pair] = "ed25519" THEN "ed25519ph" ELSE algorithm[pair]]
MutantPureOnly(pair, sig) == sig.pair = pair /\ sig.scheme = algorithm[pair]
VerifyMessage(pair, sig) ==
  /\ sig.pair = pair
  /\ \/ sig.scheme = algorithm[pair]
     \/ algorithm[pair] = "ed25519" /\ sig.scheme = "ed25519ph"

-----------------------------------------------------------------------------
Init ==
  /\ files \in [Paths -> Contents]
  /\ argument \in {a \in [Calls -> Arguments] :
                     /\ \A c \in SignCalls : a[c] \in SignArguments
                     /\ \A v \in VerifyCalls : a[v] \in VerifyArguments}
  /\ password \in [SignCalls -> Passwords]
  /\ stage = [c \in Calls |-> "idle"]
  /\ held = [c \in Calls |-> {}]
  /\ loaded = [c \in SignCalls |-> NoPair]
  /\ made = [c \in SignCalls |-> {}]
  /\ pulled = [v \in VerifyCalls |-> {}]
  /\ todo = [v \in VerifyCalls |-> {}]
  /\ signers = [v \in VerifyCalls |-> {}]
  /\ attached = {}
  /\ changes = 0

UnchangedWorld == UNCHANGED <<files, argument, password, changes>>
UnchangedSign == UNCHANGED <<loaded, made>>
UnchangedVerify == UNCHANGED <<pulled, todo, signers>>

-----------------------------------------------------------------------------
(* sign_blob_with_key *)

BeginSign(c) ==
  /\ stage[c] = "idle"
  /\ stage' = [stage EXCEPT ![c] = "load"]
  /\ held' = [held EXCEPT ![c] = {Holds(argument[c])}]
  /\ UNCHANGED attached
  /\ UnchangedSign /\ UnchangedVerify /\ UnchangedWorld

\* What load_private_key answers is kept, or its exception ends sign.
LoadAs(c, pair) ==
  /\ stage[c] = "load"
  /\ loaded' = [loaded EXCEPT ![c] = pair]
  /\ stage' = [stage EXCEPT ![c] = IF pair = NoPair THEN "raised" ELSE "sign"]
  /\ UNCHANGED <<held, made, attached>>
  /\ UnchangedVerify /\ UnchangedWorld

\* The key of another call with the same arguments is used (a cache).
MutantCachedKey(c) ==
  LET earlier == {d \in SignCalls : /\ argument[d] = argument[c]
                                    /\ password[d] = password[c]
                                    /\ loaded[d] # NoPair}
  IN  LoadAs(c, IF earlier # {} THEN loaded[CHOOSE d \in earlier : TRUE]
                ELSE PrivatePair(Holds(argument[c]), password[c]))
LoadPrivateKey(c) == LoadAs(c, PrivatePair(Holds(argument[c]), password[c]))

\* The payload is signed with the key loaded; sign stores signature and public
\* key with the record.
SignWith(c, public) ==
  /\ stage[c] = "sign"
  /\ stage' = [stage EXCEPT ![c] = "returned"]
  /\ made' = [made EXCEPT ![c] = {[signature |-> SignMessage(loaded[c]),
                                   publicKey |-> public]}]
  /\ attached' = attached \cup {SignMessage(loaded[c])}
  /\ UNCHANGED <<held, loaded>>
  /\ UnchangedVerify /\ UnchangedWorld

\* The key argument is read a second time for the public key.
MutantReadAgain(c) == SignWith(c, PrivatePair(Holds(argument[c]), password[c]))
\* The public key is derived from the private key that signed.
SignBlob(c) == SignWith(c, loaded[c])

-----------------------------------------------------------------------------
(* verify_record with a key *)

\* The signatures of the record are pulled; no key is looked at yet.
BeginVerify(v) ==
  /\ stage[v] = "idle"
  /\ stage' = [stage EXCEPT ![v] = "check"]
  /\ held' = [held EXCEPT ![v] = {Holds(argument[v])}]
  /\ pulled' = [pulled EXCEPT ![v] = attached]
  /\ todo' = [todo EXCEPT ![v] = attached]
  /\ UNCHANGED <<signers, attached>>
  /\ UnchangedSign /\ UnchangedWorld

\* One signature: the key is loaded anew, and reported if the signature
\* verifies and the key was not reported before.
CheckSignature(v) ==
  /\ stage[v] = "check"
  /\ \E sig \in todo[v] :
       LET pair == PublicPair(Holds(argument[v])) IN
       /\ todo' = [todo EXCEPT ![v] = @ \ {sig}]
       /\ signers' = [signers EXCEPT ![v] =
            IF pair # NoPair /\ VerifyMessage(pair, sig) THEN @ \cup {pair} ELSE @]
  /\ UNCHANGED <<stage, held, pulled, attached>>
  /\ UnchangedSign /\ UnchangedWorld

FinishVerify(v) ==
  /\ stage[v] = "check"
  /\ todo[v] = {}
  /\ stage' = [stage EXCEPT ![v] = "returned"]
  /\ UNCHANGED <<held, pulled, todo, signers, attached>>
  /\ UnchangedSign /\ UnchangedWorld

-----------------------------------------------------------------------------
(* What others do meanwhile *)

Underway(c) == stage[c] \in {"load", "sign", "check"}

\* A key file is replaced, rewritten in part, or removed.
ReplaceFile(path) ==
  /\ changes < MaxChanges
  /\ changes' = changes + 1
  /\ \E content \in Contents :
       /\ files' = [files EXCEPT ![path] = content]
       /\ held' = [c \in Calls |->
            IF Underway(c) /\ argument[c] = [kind |-> "path", path |-> path]
              THEN held[c] \cup {content} ELSE held[c]]
  /\ UNCHANGED <<argument, password, stage, attached>>
  /\ UnchangedSign /\ UnchangedVerify

\* Another tool stores a signature of the record.
AttachSignature ==
  /\ changes < MaxChanges
  /\ changes' = changes + 1
  /\ \E pair \in Pairs :
       \E scheme \in {algorithm[pair], SignMessage(pair).scheme} :
         attached' = attached \cup {[pair |-> pair, scheme |-> scheme]}
  /\ UNCHANGED <<files, argument, password, stage, held>>
  /\ UnchangedSign /\ UnchangedVerify

SignStep(c) == BeginSign(c) \/ LoadPrivateKey(c) \/ SignBlob(c)
VerifyStep(v) == BeginVerify(v) \/ CheckSignature(v) \/ FinishVerify(v)

Next ==
  \/ \E c \in SignCalls : SignStep(c)
  \/ \E v \in VerifyCalls : VerifyStep(v)
  \/ \E path \in Paths : ReplaceFile(path)
  \/ AttachSignature

Spec == Init /\ [][Next]_vars

-----------------------------------------------------------------------------
(* Properties *)

\* The types: what a call returns or reports is a key pair, never the absence
\* of one (sign_blob_with_key, _verify_with_keys).
TypeOK ==
  /\ files \in [Paths -> Contents]
  /\ argument \in [Calls -> Arguments]
  /\ password \in [SignCalls -> Passwords]
  /\ stage \in [Calls -> {"idle", "load", "sign", "check", "returned", "raised"}]
  /\ held \in [Calls -> SUBSET Contents]
  /\ loaded \in [SignCalls -> Pairs \cup {NoPair}]
  /\ made \in [SignCalls -> SUBSET [signature : RawSignatures, publicKey : Pairs]]
  /\ pulled \in [VerifyCalls -> SUBSET RawSignatures]
  /\ todo \in [VerifyCalls -> SUBSET RawSignatures]
  /\ signers \in [VerifyCalls -> SUBSET Pairs]
  /\ attached \subseteq RawSignatures
  /\ changes \in 0..MaxChanges

\* The signature a call returns verifies under the public key it returns, also
\* when the key file is replaced while the call runs (sign_blob_with_key).
SignatureMatchesKey ==
  \A c \in SignCalls : \A m \in made[c] : VerifyMessage(m.publicKey, m.signature)

IsPrivate(content) == content # NoKey /\ content.form # "public"
IsPublic(content) == content # NoKey /\ content.form = "public"

\* A call signs with, or reports, a pair its key argument stood for at some
\* moment since the call began: never with the key of an earlier call.
KeyWasConfigured ==
  /\ \A c \in SignCalls : \A m \in made[c] :
       \E content \in held[c] : IsPrivate(content) /\ content.pair = m.publicKey
  /\ \A v \in VerifyCalls : \A pair \in signers[v] :
       \E content \in held[v] : IsPublic(content) /\ content.pair = pair

\* Sign fails only if its key argument at some moment of the call stood for no
\* private key, or for one with another password (the empty one, for a key that
\* is not encrypted): every form of key load_private_key accepts can sign.
StableKeySigns ==
  \A c \in SignCalls :
    stage[c] = "raised" =>
      \E content \in held[c] : ~(IsPrivate(content) /\ content.password = password[c])

\* The signatures that were made with the key a content is, by this SDK or by
\* another tool, over the payload or over its hash.
MadeWith(content, sigs) ==
  {sig \in sigs : IsPublic(content) /\ sig.pair = content.pair}

\* A verification during which its key argument stood for one content alone
\* reports exactly the signers of the signatures made with that key: it misses
\* none, neither those of later signatures nor hashed ones (verify_message).
KnownSignerReported ==
  \A v \in VerifyCalls : \A content \in held[v] :
    (stage[v] = "returned" /\ held[v] = {content}) =>
      signers[v] = {sig.pair : sig \in MadeWith(content, pulled[v])}

=============================================================================
