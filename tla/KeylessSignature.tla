-------------------------- MODULE KeylessSignature --------------------------
(***************************************************************************)
(* Keyless signatures over time: signing/oidc.py.  sign_blob_with_oidc     *)
(* makes a key for one signature, has Fulcio certify it for a short while, *)
(* signs, has the signature timestamped and logged; verify_with_oidc       *)
(* decides about the bundle of these parts, then or much later.  Time may  *)
(* pass, and the call may fail, between any two steps.                     *)
(*                                                                         *)
(* Fulcio, the timestamp authority and the log are external.  What they    *)
(* issue is public: a bundle that verify is given may combine parts of     *)
(* several calls, and anyone may have a signature timestamped again.  The  *)
(* trusted root is one and the same throughout.  The identity policy (the  *)
(* matchers of issuer and subject) is the set of identities it matches.    *)
(* Operators named Mutant... are faulty variants of the definition that    *)
(* follows them, kept to show that the properties notice such a fault.     *)
(***************************************************************************)
EXTENDS Naturals, FiniteSets

CONSTANTS
  Calls,       \* calls of sign_blob_with_oidc; each has a key of its own
  Cids,        \* content identifiers of records, the payloads
  Identities,  \* OIDC identities: issuer and subject
  CertLife,    \* how long a certificate is valid
  TsaEnd,      \* the end of the timestamp authority's validity period
  NotLogged,   \* the log entry of a bundle without one
  MaxTime,     \* bound: time
  MaxStamps    \* bound: timestamps issued

ASSUME NotLoggedAssumption == NotLogged \notin Calls
ASSUME DurationAssumption == CertLife \in Nat /\ TsaEnd \in Nat /\ MaxTime \in Nat
ASSUME StampsAssumption == MaxStamps \in Nat

Time == 0..MaxTime

\* What the services issue for a call's key and signature, and when; sct says
\* whether the certificate carries a timestamp of the certificate log.
Certificates == [call : Calls, at : Time, sct : BOOLEAN]
Events == [call : Calls, at : Time]

Requests == [cid : Cids, identity : Identities, skipTlog : BOOLEAN]

\* VerifyWithOIDC: the identities the policy matches and the options.
Policies == [identities : SUBSET Identities, ignoreTlog : BOOLEAN,
             ignoreTsa : BOOLEAN, ignoreSct : BOOLEAN]

VARIABLES
  now,
  req,     \* the arguments of each call
  pc,      \* where each call is
  certs,   \* certificates issued
  signed,  \* signatures made
  stamps,  \* timestamps issued
  logged   \* calls whose signature is in the log

vars == <<now, req, pc, certs, signed, stamps, logged>>

Init ==
  /\ now = 0
  /\ req \in [Calls -> Requests]
  /\ pc = [c \in Calls |-> "certify"]
  /\ certs = {}
  /\ signed = {}
  /\ stamps = {}
  /\ logged = {}

-----------------------------------------------------------------------------
(* sign_blob_with_oidc *)

Step(c, from, to) == pc[c] = from /\ pc' = [pc EXCEPT ![c] = to]

\* The identity token, a new key, and a certificate for it.
Certify(c) ==
  /\ Step(c, "certify", "sign")
  /\ \E sct \in BOOLEAN : certs' = certs \cup {[call |-> c, at |-> now, sct |-> sct]}
  /\ UNCHANGED <<now, req, signed, stamps, logged>>

\* key.sign
Sign(c) ==
  /\ Step(c, "sign", "stamp")
  /\ signed' = signed \cup {[call |-> c, at |-> now]}
  /\ UNCHANGED <<now, req, certs, stamps, logged>>

\* request_timestamp; skip_tlog goes on to a bundle without a log entry.
Stamp(c) ==
  /\ Step(c, "stamp", IF req[c].skipTlog THEN "returned" ELSE "log")
  /\ stamps' = stamps \cup {[call |-> c, at |-> now]}
  /\ UNCHANGED <<now, req, certs, signed, logged>>

\* The entry is made of the digest of the payload alone.
MutantLogDigest(c) ==
  /\ Step(c, "log", "returned")
  /\ logged' = logged \cup {req[c].cid}
  /\ UNCHANGED <<now, req, certs, signed, stamps>>

\* create_entry: certificate, signature and digest go into the log.
Log(c) ==
  /\ Step(c, "log", "returned")
  /\ logged' = logged \cup {c}
  /\ UNCHANGED <<now, req, certs, signed, stamps>>

\* Any of the services fails; what the others have issued stays.
SignFails(c) ==
  /\ pc[c] \notin {"returned", "raised"}
  /\ pc' = [pc EXCEPT ![c] = "raised"]
  /\ UNCHANGED <<now, req, certs, signed, stamps, logged>>

-----------------------------------------------------------------------------
(* Around it *)

\* Somebody has a signature timestamped again.
Restamp ==
  /\ Cardinality(stamps) < MaxStamps
  /\ \E s \in signed : stamps' = stamps \cup {[call |-> s.call, at |-> now]}
  /\ UNCHANGED <<now, req, pc, certs, signed, logged>>

Tick ==
  /\ now < MaxTime
  /\ now' = now + 1
  /\ UNCHANGED <<req, pc, certs, signed, stamps, logged>>

-----------------------------------------------------------------------------
(* verify_with_oidc *)

\* The bundles that can be made of the parts issued so far.
Bundles == [cert : certs, sig : signed, stamps : SUBSET stamps,
            entry : logged \cup {NotLogged}]

\* The certificate chain at a time.
MutantNoExpiry(cert, t) == cert.at <= t
ValidAt(cert, t) == cert.at <= t /\ t < cert.at + CertLife

\* The log entry is about this certificate, signature and payload.
EntryMatches(b, cid) ==
  b.entry = b.sig.call /\ b.entry = b.cert.call /\ req[b.entry].cid = cid

\* Timestamps of any signature count.
MutantAnyStamp(b) == {s.at : s \in {t \in b.stamps : t.at < TsaEnd}}

\* The timestamps that are over this signature and inside the authority's
\* validity period; the others are passed over.
StampTimes(b) == {s.at : s \in {t \in b.stamps : t.call = b.sig.call /\ t.at < TsaEnd}}

\* The current time counts as observed whatever the policy.
MutantAlwaysNow(b, p) == (IF p.ignoreTsa THEN {} ELSE StampTimes(b)) \cup {now}

\* Timestamps, and the current time in place of a log entry.
VerifiedTimes(b, p) ==
  (IF p.ignoreTsa THEN {} ELSE StampTimes(b)) \cup (IF p.ignoreTlog THEN {now} ELSE {})

\* The certified key made the signature, over this payload.
SignatureMatches(b, cid) == b.sig.call = b.cert.call /\ req[b.sig.call].cid = cid

\* verify_with_oidc returns a signer: each check that is not ignored passes, and
\* the certificate is valid at every verified time, of which there is one.
Accepts(b, p, cid) ==
  /\ p.ignoreTlog \/ EntryMatches(b, cid)
  /\ p.ignoreTsa \/ StampTimes(b) # {}
  /\ VerifiedTimes(b, p) # {}
  /\ \A t \in VerifiedTimes(b, p) : ValidAt(b.cert, t)
  /\ p.ignoreSct \/ b.cert.sct
  /\ SignatureMatches(b, cid)
  /\ req[b.cert.call].identity \in p.identities

-----------------------------------------------------------------------------
SignStep(c) == Certify(c) \/ Sign(c) \/ Stamp(c) \/ Log(c) \/ SignFails(c)

Next == (\E c \in Calls : SignStep(c)) \/ Restamp \/ Tick

Spec == Init /\ [][Next]_vars

-----------------------------------------------------------------------------
(* Properties *)

\* Every variable holds a value the code and the services could produce.
TypeOK ==
  /\ now \in Time
  /\ req \in [Calls -> Requests]
  /\ pc \in [Calls -> {"certify", "sign", "stamp", "log", "returned", "raised"}]
  /\ certs \subseteq Certificates
  /\ signed \subseteq Events
  /\ stamps \subseteq Events
  /\ logged \subseteq Calls

\* Whatever the parts of a bundle, whatever the options and however late, the
\* signature of an accepted one was made over this record, by the call the
\* identity was certified for, while the certificate was valid: the observed
\* times that have to lie in its validity never all lie before the signature.
AcceptedWasSignedInTime ==
  \A b \in Bundles, p \in Policies, cid \in Cids :
    Accepts(b, p, cid)
      => \E c \in Calls :
           /\ req[c].cid = cid /\ req[c].identity \in p.identities
           /\ \E s \in signed : s.call = c /\ ValidAt(b.cert, s.at)

\* A verification that relies on the log does not turn with time, whatever is
\* issued meanwhile: who is a signer of a record stays one.
StaysAccepted ==
  [][\A b \in Bundles, p \in {q \in Policies : ~q.ignoreTlog}, cid \in Cids :
       Accepts(b, p, cid) => Accepts(b, p, cid)']_vars

\* The bundle a call returns.
BundlesOf(c) ==
  {b \in Bundles : /\ b.cert.call = c /\ b.sig.call = c
                   /\ b.entry = IF req[c].skipTlog THEN NotLogged ELSE c
                   /\ \E s \in stamps : s.call = c /\ b.stamps = {s}}

\* What sign returned verifies, then and always, if the certificate and the
\* authority were still valid when the timestamp was issued: with the log where
\* it was not skipped, without it as long as the certificate is valid.
ReturnedVerifies ==
  \A c \in Calls, p \in Policies : \A b \in BundlesOf(c) :
    /\ pc[c] = "returned"
    /\ \A t \in {s.at : s \in b.stamps} : ValidAt(b.cert, t) /\ t < TsaEnd
    /\ b.cert.sct \/ p.ignoreSct
    /\ req[c].identity \in p.identities
    /\ ~p.ignoreTsa
    /\ p.ignoreTlog = req[c].skipTlog
    /\ p.ignoreTlog => ValidAt(b.cert, now)
    => Accepts(b, p, req[c].cid)
=============================================================================
