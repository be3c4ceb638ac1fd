-------------------------- MODULE MCClientChannel --------------------------
(* Instances of ClientChannel for TLC. *)
EXTENDS ClientChannel, TLC

\* For each mode its settings, all of them or one less.
SettingsOf ==
  [jwt |-> {"socket", "audience"}, x509 |-> {"socket"}, tls |-> {"ca", "cert", "key"},
   oidc |-> {"ca", "issuer", "clientId", "token"}]
MCConfigs ==
  [mode : {"", "other"}, given : {{}}]
    \cup UNION {[mode : {m}, given : {SettingsOf[m]} \cup {SettingsOf[m] \ {s} : s \in SettingsOf[m]}]
                 : m \in DOMAIN SettingsOf}

\* Both RPCs of one kind, each kind: they do not look at each other's.
MCCallKinds == {[c \in Calls |-> k] : k \in Kinds}

\* Used by the run, which checks invariants and action properties only.
Symmetry == Permutations(Calls) \cup Permutations(Logins)
=============================================================================
