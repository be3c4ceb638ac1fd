--------------------------- MODULE MCKeyMaterial ---------------------------
(* Small instances of KeyMaterial for TLC. *)
EXTENDS KeyMaterial, TLC

CONSTANTS p1, p2, keyFile, none, pw

MCPairs == {p1, p2}
MCAlgorithm == p1 :> "ecdsa" @@ p2 :> "ed25519"
MCPaths == {keyFile}
MCPasswords == {none, pw}

\* A plain key, a key encrypted with either password, both public keys.
Public(pair) == [form |-> "public", pair |-> pair, password |-> none]
Private(form, pair, given) == [form |-> form, pair |-> pair, password |-> given]
MCContents ==
  {NoKey, Public(p1), Public(p2), Private("plain", p1, none),
   Private("cosign", p2, none), Private("protected", p2, pw)}

Path(path) == [kind |-> "path", path |-> path]
Text(content) == [kind |-> "text", text |-> content]
MCSignArguments == {Path(keyFile), Text(Private("plain", p1, none))}
MCVerifyArguments == {Path(keyFile), Text(Public(p2))}
=============================================================================
