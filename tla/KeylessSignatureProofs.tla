----------------------- MODULE KeylessSignatureProofs -----------------------
(***************************************************************************)
(* Theorems about KeylessSignature, for any calls, records, identities,    *)
(* durations and bounds.  The inductive invariant orders what the services *)
(* issue for a call: its certificate, then its signature, then timestamps. *)
(* The observed time of an accepted bundle lies after the signature and    *)
(* inside the certificate's validity, so the signature does as well.       *)
(***************************************************************************)
EXTENDS KeylessSignature, TLAPS

-----------------------------------------------------------------------------
(* The inductive invariant *)

\* What is issued lies in the past, and a call signs after its certificate.
CertificateFirst ==
  /\ \A x \in certs : x.at <= now
  /\ \A s \in signed : s.at <= now
  /\ \A x \in certs, s \in signed : x.call = s.call => x.at <= s.at

\* A timestamp lies after every signature of its call.
SignatureFirst ==
  \A s \in signed, m \in stamps : s.call = m.call => s.at <= m.at

\* A call that has not come to a step has not issued what the step issues.
NothingAhead ==
  \A c \in Calls :
    pc[c] \in {"certify", "sign"}
      => (\A s \in signed : s.call # c) /\ (\A m \in stamps : m.call # c)

IInv == TypeOK /\ CertificateFirst /\ SignatureFirst /\ NothingAhead

-----------------------------------------------------------------------------
(* Type correctness *)

\* The services have issued nothing at the start.
LEMMA InitTyped == Init => TypeOK
  BY DurationAssumption DEF Init, TypeOK, Time

\* Every step of a call, of the services and of the clock keeps the types.
LEMMA NextTyped == TypeOK /\ [Next]_vars => TypeOK'
<1> SUFFICES ASSUME TypeOK, [Next]_vars PROVE TypeOK'
  OBVIOUS
<1> USE DEF TypeOK, Time
<1>1. ASSUME NEW c \in Calls, Certify(c) PROVE TypeOK'
  BY <1>1 DEF Certify, Step, Certificates
<1>2. ASSUME NEW c \in Calls, Sign(c) PROVE TypeOK'
  BY <1>2 DEF Sign, Step, Events
<1>3. ASSUME NEW c \in Calls, Stamp(c) PROVE TypeOK'
  BY <1>3 DEF Stamp, Step, Events
<1>4. ASSUME NEW c \in Calls, Log(c) PROVE TypeOK'
  BY <1>4 DEF Log, Step
<1>5. ASSUME NEW c \in Calls, SignFails(c) PROVE TypeOK'
  BY <1>5 DEF SignFails
<1>6. CASE Restamp
  BY <1>6 DEF Restamp, Events
<1>7. CASE Tick
  BY <1>7, DurationAssumption DEF Tick
<1>8. CASE UNCHANGED vars
  BY <1>8 DEF vars
<1> QED
  BY <1>1, <1>2, <1>3, <1>4, <1>5, <1>6, <1>7, <1>8 DEF Next, SignStep

\* Every variable holds a value the code and the services could produce.
THEOREM TypeInvariant == Spec => []TypeOK
  BY InitTyped, NextTyped, PTL DEF Spec

-----------------------------------------------------------------------------
(* The order of certificate, signature and timestamps *)

\* Nothing is issued at the start.
LEMMA InitOrdered == Init => IInv
<1> SUFFICES ASSUME Init PROVE IInv
  OBVIOUS
<1>1. TypeOK
  BY InitTyped
<1> QED
  BY <1>1 DEF Init, IInv, CertificateFirst, SignatureFirst, NothingAhead

\* The certificate of a call is issued now, before the call has signed.
LEMMA CertifyOrdered ==
  ASSUME IInv, NEW c \in Calls, Certify(c), TypeOK' PROVE IInv'
<1> USE DEF IInv, Certify, Step, TypeOK, Time
<1>1. CertificateFirst'
  BY DEF CertificateFirst, NothingAhead, Certificates, Events
<1>2. SignatureFirst'
  BY DEF SignatureFirst
<1>3. NothingAhead'
  BY DEF NothingAhead
<1> QED
  BY <1>1, <1>2, <1>3

\* The signature is made now, after its certificate and before any timestamp.
LEMMA SignOrdered ==
  ASSUME IInv, NEW c \in Calls, Sign(c), TypeOK' PROVE IInv'
<1> USE DEF IInv, Sign, Step, TypeOK, Time
<1>1. CertificateFirst'
  BY DEF CertificateFirst, Events
<1>2. SignatureFirst'
  BY DEF SignatureFirst, NothingAhead
<1>3. NothingAhead'
  BY DEF NothingAhead
<1> QED
  BY <1>1, <1>2, <1>3

\* A timestamp, of the call or of somebody else, is issued now.
LEMMA StampOrdered ==
  ASSUME IInv, UNCHANGED <<now, certs, signed>>, TypeOK',
         NEW c \in Calls, stamps' = stamps \cup {[call |-> c, at |-> now]},
         pc[c] \notin {"certify", "sign"},
         \A d \in Calls : pc'[d] \in {"certify", "sign"} => pc'[d] = pc[d]
  PROVE  IInv'
<1> USE DEF IInv
<1>1. CertificateFirst'
  BY DEF CertificateFirst
<1>2. SignatureFirst'
  BY DEF SignatureFirst, CertificateFirst
<1>3. NothingAhead'
  BY DEF NothingAhead
<1> QED
  BY <1>1, <1>2, <1>3

\* Every step keeps the order.
LEMMA NextOrdered == IInv /\ [Next]_vars => IInv'
<1> SUFFICES ASSUME IInv, [Next]_vars PROVE IInv'
  OBVIOUS
<1>0. TypeOK'
  BY NextTyped DEF IInv
<1>1. ASSUME NEW c \in Calls, Certify(c) PROVE IInv'
  BY <1>0, <1>1, CertifyOrdered
<1>2. ASSUME NEW c \in Calls, Sign(c) PROVE IInv'
  BY <1>0, <1>2, SignOrdered
<1>3. ASSUME NEW c \in Calls, Stamp(c) PROVE IInv'
  <2>1. \A d \in Calls : pc'[d] \in {"certify", "sign"} => pc'[d] = pc[d]
    BY <1>3 DEF Stamp, Step, IInv, TypeOK
  <2> QED
    BY <1>0, <1>3, <2>1, StampOrdered DEF Stamp, Step
<1>4. ASSUME NEW c \in Calls, Log(c) PROVE IInv'
  BY <1>0, <1>4 DEF Log, Step, IInv, TypeOK, CertificateFirst, SignatureFirst, NothingAhead
<1>5. ASSUME NEW c \in Calls, SignFails(c) PROVE IInv'
  BY <1>0, <1>5 DEF SignFails, IInv, TypeOK, CertificateFirst, SignatureFirst, NothingAhead
<1>6. CASE Restamp
  <2>1. PICK s \in signed : stamps' = stamps \cup {[call |-> s.call, at |-> now]}
    BY <1>6 DEF Restamp
  <2>2. s.call \in Calls /\ pc[s.call] \notin {"certify", "sign"}
    BY DEF IInv, TypeOK, NothingAhead, Events
  <2> QED
    BY <1>0, <1>6, <2>1, <2>2, StampOrdered DEF Restamp
<1>7. CASE Tick
  BY <1>0, <1>7
  DEF Tick, IInv, TypeOK, Time, Certificates, Events, CertificateFirst, SignatureFirst, NothingAhead
<1>8. CASE UNCHANGED vars
  BY <1>0, <1>8 DEF vars, IInv, CertificateFirst, SignatureFirst, NothingAhead
<1> QED
  BY <1>1, <1>2, <1>3, <1>4, <1>5, <1>6, <1>7, <1>8 DEF Next, SignStep

\* Certificate, signature and timestamps of a call are issued in this order.
THEOREM Ordered == Spec => []IInv
  BY InitOrdered, NextOrdered, PTL DEF Spec

-----------------------------------------------------------------------------
(* What an accepted bundle means *)

\* Every verified time is a time not before the signature of the bundle.
LEMMA ObservedAfterSignature ==
  ASSUME IInv, NEW b \in Bundles, NEW p \in Policies, NEW t \in VerifiedTimes(b, p)
  PROVE  t \in Nat /\ b.sig.at <= t
<1>1. b.sig \in signed /\ b.stamps \subseteq stamps
  BY DEF Bundles
<1>2. CASE t = now
  BY <1>1, <1>2, DurationAssumption DEF IInv, TypeOK, Time, CertificateFirst
<1>3. CASE t \in StampTimes(b)
  <2>1. PICK m \in b.stamps : m.call = b.sig.call /\ t = m.at
    BY <1>3 DEF StampTimes
  <2> QED
    BY <1>1, <2>1, DurationAssumption DEF IInv, TypeOK, Time, Events, SignatureFirst
<1> QED
  BY <1>2, <1>3 DEF VerifiedTimes

\* With certificate, signature and timestamps in order, the signature of an
\* accepted bundle was made while its certificate was valid.
LEMMA InTime == IInv => AcceptedWasSignedInTime
<1> SUFFICES ASSUME IInv, NEW b \in Bundles, NEW p \in Policies, NEW cid \in Cids,
                    Accepts(b, p, cid)
             PROVE  \E c \in Calls :
                      /\ req[c].cid = cid /\ req[c].identity \in p.identities
                      /\ \E s \in signed : s.call = c /\ ValidAt(b.cert, s.at)
  BY DEF AcceptedWasSignedInTime
<1>1. b.cert \in certs /\ b.sig \in signed
  BY DEF Bundles
<1>2. b.sig.call \in Calls /\ b.sig.at \in Nat /\ b.cert.at \in Nat
  BY <1>1, DurationAssumption DEF IInv, TypeOK, Events, Certificates, Time
<1>3. b.sig.call = b.cert.call /\ req[b.sig.call].cid = cid
      /\ req[b.sig.call].identity \in p.identities
  BY DEF Accepts, SignatureMatches
<1>4. PICK t \in VerifiedTimes(b, p) : ValidAt(b.cert, t)
  BY DEF Accepts
<1>5. t \in Nat /\ b.sig.at <= t
  BY ObservedAfterSignature
<1>6. b.cert.at <= b.sig.at
  BY <1>1, <1>3 DEF IInv, CertificateFirst
<1>7. ValidAt(b.cert, b.sig.at)
  BY <1>2, <1>4, <1>5, <1>6, DurationAssumption DEF ValidAt
<1> QED
  BY <1>1, <1>2, <1>3, <1>7

\* The signature of an accepted bundle was made over this record, by the call
\* whose identity is certified, while the certificate was valid.
THEOREM SignedInTime == Spec => []AcceptedWasSignedInTime
  BY Ordered, InTime, PTL

\* The bundle a call returned is accepted by whoever trusts its identity, with the
\* options it was made for, if its timestamp lies in the certificate's and the
\* authority's validity: no other check can fail it.
THEOREM Verifies == Spec => []ReturnedVerifies
<1>1. TypeOK => ReturnedVerifies
  <2> SUFFICES ASSUME TypeOK, NEW c \in Calls, NEW p \in Policies, NEW b \in BundlesOf(c),
                      \A t \in {s.at : s \in b.stamps} : ValidAt(b.cert, t) /\ t < TsaEnd,
                      b.cert.sct \/ p.ignoreSct,
                      req[c].identity \in p.identities,
                      ~p.ignoreTsa,
                      p.ignoreTlog = req[c].skipTlog,
                      p.ignoreTlog => ValidAt(b.cert, now)
               PROVE  Accepts(b, p, req[c].cid)
    BY DEF ReturnedVerifies
  <2>1. /\ b.cert.call = c /\ b.sig.call = c
        /\ b.entry = IF req[c].skipTlog THEN NotLogged ELSE c
    BY DEF BundlesOf
  <2>2. PICK m \in stamps : m.call = c /\ b.stamps = {m}
    BY DEF BundlesOf
  <2>3. StampTimes(b) = {m.at}
    BY <2>1, <2>2 DEF StampTimes
  <2>4. EntryMatches(b, req[c].cid) \/ p.ignoreTlog
    BY <2>1 DEF EntryMatches
  <2>5. \A t \in VerifiedTimes(b, p) : ValidAt(b.cert, t)
    BY <2>2, <2>3 DEF VerifiedTimes
  <2>6. VerifiedTimes(b, p) # {}
    BY <2>3 DEF VerifiedTimes
  <2>7. SignatureMatches(b, req[c].cid) /\ req[b.cert.call].identity \in p.identities
    BY <2>1 DEF SignatureMatches
  <2> QED
    BY <2>3, <2>4, <2>5, <2>6, <2>7 DEF Accepts
<1> QED
  BY <1>1, TypeInvariant, PTL

\* Who is a signer by the log stays one, whatever is issued and however late.
THEOREM Stays == Spec => StaysAccepted
<1>1. [Next]_vars => [\A b \in Bundles, p \in {q \in Policies : ~q.ignoreTlog}, cid \in Cids :
                        Accepts(b, p, cid) => Accepts(b, p, cid)']_vars
  <2> SUFFICES ASSUME [Next]_vars, UNCHANGED req,
                      NEW b \in Bundles, NEW p \in Policies, ~p.ignoreTlog, NEW cid \in Cids,
                      Accepts(b, p, cid)
               PROVE  Accepts(b, p, cid)'
    BY DEF Next, SignStep, Certify, Sign, Stamp, Log, SignFails, Restamp, Tick, vars
  <2>1. VerifiedTimes(b, p)' = VerifiedTimes(b, p)
    BY DEF VerifiedTimes, StampTimes
  <2> QED
    BY <2>1 DEF Accepts, SignatureMatches, StampTimes, EntryMatches, ValidAt
<1> QED
  BY <1>1, PTL DEF Spec, StaysAccepted
=============================================================================
