--------------------------- MODULE AttestationLog ---------------------------
(***************************************************************************)
(* What client.sign and client.verify promise, without RPCs, referrers or  *)
(* public keys: the directory keeps a log of attestations ("this key, or   *)
(* this identity with this ephemeral key, signed this record").  A sign    *)
(* call adds its attestation in one step, and has added it when it         *)
(* returns; that of a call which raised may appear later.  A verify call   *)
(* reads the attestations of its record in one step, at some moment        *)
(* between its call and its answer, and answers with signers of what it    *)
(* read: with some of the identities, and, as long as nobody disturbs the  *)
(* record, with all of the keys.                                           *)
(***************************************************************************)

CONSTANTS Cids, SignCalls, VerifyCalls, NoIdentity

VARIABLES
  claim,      \* what each sign call attests: cid, key and identity
  status,     \* whether it is running, has returned or has raised
  log,        \* the attestations
  disturbed,  \* cids from which something was removed, or to which a key was
              \*   attached that makes verification give up
  ask,        \* what each verify call asks: cid, kind and trusted signers
  phase,      \* where it is
  snapshot,   \* what it has read
  answer      \* the signers it has answered with

signVars == <<claim, status>>
logVars == <<log, disturbed>>
verifyVars == <<ask, phase, snapshot, answer>>
vars == <<signVars, logVars, verifyVars>>

LogOf(cid) == {a \in log : a.cid = cid}

\* Whether a signer is looked for by its key, and as whom an attestation counts.
ByKey(req, a) == req.kind = "key" \/ (req.kind = "any" /\ a.identity = NoIdentity)
Signer(req, a) == IF ByKey(req, a) THEN a.key ELSE a.identity
Trusts(req, signer) == req.kind = "any" \/ signer \in req.trusted
SignersIn(req, as) == {x \in {Signer(req, a) : a \in as} : Trusts(req, x)}

Init ==
  /\ status = [c \in SignCalls |-> "running"]
  /\ log = {}
  /\ disturbed = {}
  /\ phase = [v \in VerifyCalls |-> "idle"]
  /\ snapshot = [v \in VerifyCalls |-> {}]
  /\ answer = [v \in VerifyCalls |-> {}]

\* A sign call returns and has attested, or it raises.
Attest(c) ==
  /\ status[c] = "running"
  /\ \/ status' = [status EXCEPT ![c] = "returned"] /\ log' = log \cup {claim[c]}
     \/ status' = [status EXCEPT ![c] = "raised"] /\ UNCHANGED log
  /\ UNCHANGED <<claim, disturbed, verifyVars>>

\* Somebody removes attestations of a record, or hampers their verification.
Disturb(cid) ==
  /\ log' \subseteq log
  /\ \A a \in log \ log' : a.cid = cid
  /\ disturbed' = disturbed \cup {cid}
  /\ UNCHANGED <<signVars, verifyVars>>

\* The attestation of a call that raised appears after all; or one that was removed
\* is attached again.
Appear(c) ==
  /\ \/ status[c] = "raised"
     \/ status[c] = "returned" /\ claim[c].cid \in disturbed
  /\ log' = log \cup {claim[c]}
  /\ UNCHANGED <<signVars, disturbed, verifyVars>>

Call(v) ==
  /\ phase[v] = "idle"
  /\ phase' = [phase EXCEPT ![v] = "called"]
  /\ UNCHANGED <<signVars, logVars, ask, snapshot, answer>>

Read(v) ==
  /\ phase[v] = "called"
  /\ phase' = [phase EXCEPT ![v] = "read"]
  /\ snapshot' = [snapshot EXCEPT ![v] = LogOf(ask[v].cid)]
  /\ UNCHANGED <<signVars, logVars, ask, answer>>

\* The record has no signature, or is not there any more.
AnswerNothing(v) ==
  /\ phase[v] = "called"
  /\ LogOf(ask[v].cid) = {} \/ ask[v].cid \in disturbed
  /\ phase' = [phase EXCEPT ![v] = "answered"]
  /\ UNCHANGED <<signVars, logVars, ask, snapshot, answer>>

Answer(v) ==
  /\ phase[v] = "read"
  /\ phase' = [phase EXCEPT ![v] = "answered"]
  /\ \E signers \in SUBSET SignersIn(ask[v], snapshot[v]) :
       /\ ask[v].cid \notin disturbed
            => SignersIn(ask[v], {a \in snapshot[v] : ByKey(ask[v], a)}) \subseteq signers
       /\ answer' = [answer EXCEPT ![v] = signers]
  /\ UNCHANGED <<signVars, logVars, ask, snapshot>>

Fail(v) ==
  /\ phase[v] \in {"called", "read"}
  /\ phase' = [phase EXCEPT ![v] = "failed"]
  /\ UNCHANGED <<signVars, logVars, ask, snapshot, answer>>

Next ==
  \/ \E c \in SignCalls : Attest(c) \/ Appear(c)
  \/ \E v \in VerifyCalls : Call(v) \/ Read(v) \/ AnswerNothing(v) \/ Answer(v) \/ Fail(v)
  \/ \E cid \in Cids : Disturb(cid)

Spec == Init /\ [][Next]_vars
=============================================================================
