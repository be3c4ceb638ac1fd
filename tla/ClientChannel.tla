---------------------------- MODULE ClientChannel ----------------------------
(***************************************************************************)
(* One Client from its construction to the RPCs of its threads:            *)
(* client.py (__init__, authenticate_oauth_pkce), config.py                *)
(* (load_from_env), auth/session.py, OAuthTokenHolder, and                 *)
(* transport/channels.py and interceptors.py.  The channel is made once,   *)
(* from what the SPIFFE agent or the files hold at that moment, read one   *)
(* after the other; connections are made, and made again, later.  Bearer   *)
(* tokens are asked for by each RPC, from the holder that logins replace,  *)
(* or from the agent.                                                      *)
(*                                                                         *)
(* The SPIFFE agent, whoever renews the files, gRPC and the server are     *)
(* external.  LoopbackLogin has the inside of a login, TokenSession the    *)
(* cache, ServiceCalls what follows when the credential is attached.       *)
(* Operators named Mutant... are faulty variants of the definition that    *)
(* follows them, kept to show that the properties notice such a fault.     *)
(***************************************************************************)
EXTENDS Naturals

CONSTANTS
  Configs,   \* configurations: auth mode and the settings that are not empty
  Calls,     \* RPCs
  CallKinds, \* bound: of which kinds they may be, [Calls -> Kinds]
  Logins,    \* calls of authenticate_oauth_pkce; a token is named by its login
  Initial,   \* the token of the configuration or of the cache
  None,      \* no token
  JwtLife,   \* how long a JWT-SVID is accepted after its issue
  CertLife,  \* how long a certificate is accepted after its issue
  MaxTime    \* bound: ticks

Settings == {"socket", "audience", "ca", "cert", "key", "token", "issuer", "clientId"}
Modes == {"", "jwt", "x509", "tls", "oidc", "other"}
Kinds == {"unary_unary", "unary_stream", "stream_unary", "stream_stream"}
Time == 0..MaxTime

ASSUME ConfigAssumption == Configs \subseteq [mode : Modes, given : SUBSET Settings]
ASSUME KindAssumption == CallKinds \subseteq [Calls -> Kinds]
ASSUME TokenAssumption == Initial # None /\ Initial \notin Logins /\ None \notin Logins
ASSUME LifeAssumption == JwtLife \in Nat /\ CertLife \in Nat /\ MaxTime \in Nat \ {0}

Tokens == Logins \cup {Initial}

\* What an RPC carries: nothing, a bearer token, or a JWT-SVID issued at _at_.
Nothing == [by |-> "nobody", token |-> None, at |-> 0]
Credentials == [by : {"nobody", "session", "agent"}, token : Tokens \cup {None}, at : Time]

VARIABLES
  config,
  now,
  pc,         \* where the constructor is; ready; raised
  error,      \* what it raised
  material,   \* issue times of roots, certificate and key, at their source
  captured,   \* those the channel was made with
  torn,       \* history: between reading one of certificate and key and
              \*   reading the other, their source did not hold one pair
  connected,
  holder,     \* the token of the OAuthTokenHolder
  login,      \* where each login is
  rank,       \* history: when its token was adopted (0: it was not)
  adoptions,  \* history: how many were
  call,       \* where each RPC is
  kind,
  credential, \* what it carries
  begun,      \* history: when it began,
  before,     \*   which logins had returned,
  hadToken    \*   and whether the holder had a token

clientVars == <<pc, error, captured>>
sourceVars == <<material, torn>>
loginVars == <<login, rank, adoptions>>
callVars == <<call, kind, credential, begun, before, hadToken>>
vars == <<config, now, clientVars, sourceVars, connected, holder, loginVars, callVars>>

Given(setting) == setting \in config.given

Parts == {"roots", "cert", "key"}
Unread == [part \in Parts |-> 0]

Init ==
  /\ config \in Configs
  /\ now = 1
  /\ pc = "config"
  /\ error = "none"
  /\ material = [part \in Parts |-> 1]
  /\ captured = Unread
  /\ torn = FALSE
  /\ connected = FALSE
  /\ holder = None
  /\ login = [l \in Logins |-> "idle"]
  /\ rank = [l \in Logins |-> 0]
  /\ adoptions = 0
  /\ call = [c \in Calls |-> "idle"]
  /\ kind \in CallKinds
  /\ credential = [c \in Calls |-> Nothing]
  /\ begun = [c \in Calls |-> 0]
  /\ before = [c \in Calls |-> {}]
  /\ hadToken = [c \in Calls |-> FALSE]

-----------------------------------------------------------------------------
(* Client(config) *)

Go(where) == pc' = where /\ UNCHANGED error
Raise(what) == pc' = "raised" /\ error' = what

\* load_from_env: a number that is none raises out of int() or float().
LoadConfig ==
  /\ pc = "config"
  /\ Go("session") \/ Raise("ValueError")
  /\ UNCHANGED <<config, now, captured, sourceVars, connected, holder, loginVars, callVars>>

\* OAuthSessionManager: the configured token, the cached one, or none; reading
\* the cache may raise.
OpenSession ==
  /\ pc = "session"
  /\ \/ config.mode # "oidc" /\ Go("channel") /\ UNCHANGED holder
     \/ config.mode = "oidc" /\ Given("token") /\ Go("channel") /\ holder' = Initial
     \/ /\ config.mode = "oidc" /\ ~Given("token")
        /\ \/ Go("channel") /\ holder' \in {Initial, None}
           \/ Raise("cacheError") /\ UNCHANGED holder
  /\ UNCHANGED <<config, now, captured, sourceVars, connected, loginVars, callVars>>

\* What each way of making a channel insists on.
Required(mode) ==
  CASE mode = "jwt" -> {"socket", "audience"}
    [] mode = "x509" -> {"socket"}
    [] mode = "tls" -> {"ca", "cert", "key"}
    [] OTHER -> {}

\* create_grpc_channel
MakeChannel ==
  /\ pc = "channel"
  /\ IF config.mode = "other" \/ ~(Required(config.mode) \subseteq config.given)
       THEN Raise("ValueError")
       ELSE Go(IF config.mode = "" \/ (config.mode = "oidc" /\ ~Given("ca"))
                 THEN "ready" ELSE "roots")
  /\ UNCHANGED <<config, now, captured, sourceVars, connected, holder, loginVars, callVars>>

\* The client key is left out.
MutantNoKey(part) ==
  IF part = "cert" \/ config.mode \notin {"x509", "tls"} THEN "ready" ELSE "cert"

\* The order in which the parts are read: bundles, key, leaf of the source, or
\* the three files.
NextRead(part) ==
  CASE config.mode = "x509" -> [roots |-> "key", key |-> "cert", cert |-> "ready"][part]
    [] config.mode = "tls" -> [roots |-> "cert", cert |-> "key", key |-> "ready"][part]
    [] OTHER -> "ready"

\* The error of a file that cannot be read is not mapped.
MutantReadError == IF config.mode \in {"tls", "oidc"} THEN "OSError" ELSE "spiffeError"

\* A file cannot be read, or the agent fails.
ReadError == IF config.mode \in {"tls", "oidc"} THEN "RuntimeError" ELSE "spiffeError"

\* One of certificate and key has been read, the other one not yet.
HalfRead == pc \in Parts /\ (captured["cert"] = 0) # (captured["key"] = 0)

\* The source holds a certificate and the key of another one.
HalfRenewed == material["cert"] # material["key"]

ReadPart(part) ==
  /\ pc = part
  /\ torn' = (torn \/ (part \in {"cert", "key"} /\ HalfRenewed))
  /\ \/ Go(NextRead(part)) /\ captured' = [captured EXCEPT ![part] = material[part]]
     \/ Raise(ReadError) /\ UNCHANGED captured
     \/ \* the agent has no bundle: noticed for JWT only
        /\ part = "roots" /\ config.mode \in {"jwt", "x509"}
        /\ IF config.mode = "jwt" THEN Raise("RuntimeError") ELSE Go(NextRead(part))
        /\ UNCHANGED captured
  /\ UNCHANGED <<config, now, material, connected, holder, loginVars, callVars>>

-----------------------------------------------------------------------------
(* authenticate_oauth_pkce *)

StartLogin(l) ==
  /\ pc = "ready"
  /\ login[l] = "idle"
  /\ login' = [login EXCEPT ![l] =
       IF config.mode = "oidc" /\ {"issuer", "clientId"} \subseteq config.given
         THEN "running" ELSE "raised"]
  /\ UNCHANGED <<config, now, clientVars, sourceVars, connected, holder, rank, adoptions,
                 callVars>>

\* The token in the holder is dropped when a login does not bring a new one.
MutantDropToken(l) ==
  /\ login[l] = "running"
  /\ login' = [login EXCEPT ![l] = "raised"]
  /\ holder' = None
  /\ UNCHANGED <<config, now, clientVars, sourceVars, connected, rank, adoptions, callVars>>

\* No token comes, or the response has no access_token.
LoginFails(l) ==
  /\ login[l] = "running"
  /\ login' = [login EXCEPT ![l] = "raised"]
  /\ UNCHANGED <<config, now, clientVars, sourceVars, connected, holder, rank, adoptions,
                 callVars>>

\* A token that is there is kept.
MutantKeepToken(l) ==
  /\ login[l] = "running"
  /\ holder' = IF holder = None THEN l ELSE holder
  /\ adoptions' = adoptions + 1
  /\ rank' = [rank EXCEPT ![l] = adoptions + 1]
  /\ login' = [login EXCEPT ![l] = "saving"]
  /\ UNCHANGED <<config, now, clientVars, sourceVars, connected, callVars>>

\* update_from_token_response, under the lock of the holder.
Adopt(l) ==
  /\ login[l] = "running"
  /\ holder' = l
  /\ adoptions' = adoptions + 1
  /\ rank' = [rank EXCEPT ![l] = adoptions + 1]
  /\ login' = [login EXCEPT ![l] = "saving"]
  /\ UNCHANGED <<config, now, clientVars, sourceVars, connected, callVars>>

\* The token is saved to the cache, or that raises.
EndLogin(l) ==
  /\ login[l] = "saving"
  /\ \E end \in {"returned", "raised"} : login' = [login EXCEPT ![l] = end]
  /\ UNCHANGED <<config, now, clientVars, sourceVars, connected, holder, rank, adoptions,
                 callVars>>

-----------------------------------------------------------------------------
(* RPCs *)

\* has_access_token, get_access_token
HasAccessToken == holder # None

BeginCall(c) ==
  /\ pc = "ready"
  /\ call[c] = "idle"
  /\ call' = [call EXCEPT ![c] = "begun"]
  /\ begun' = [begun EXCEPT ![c] = now]
  /\ before' = [before EXCEPT ![c] = {l \in Logins : login[l] = "returned"}]
  /\ hadToken' = [hadToken EXCEPT ![c] = HasAccessToken]
  /\ UNCHANGED <<config, now, clientVars, sourceVars, connected, holder, loginVars, kind,
                 credential>>

\* The stream_stream method is missing.
MutantThreeKinds == Kinds \ {"stream_stream"}

\* The kinds of RPC an interceptor class has a method for.
Intercepted == {"unary_unary", "unary_stream", "stream_unary", "stream_stream"}

\* A JWT-SVID another call has fetched is used again.
MutantReusedSvid ==
  {[by |-> "agent", token |-> None, at |-> now]}
    \cup {credential[c] : c \in {d \in Calls : credential[d].by = "agent"}}

\* _get_jwt_token asks the agent each time.
FetchedSvids == {[by |-> "agent", token |-> None, at |-> now]}

\* The interceptor adds the authorization header or raises.
Attach(c) ==
  /\ call[c] = "begun"
  /\ IF config.mode \notin {"jwt", "oidc"} \/ kind[c] \notin Intercepted
       THEN call' = [call EXCEPT ![c] = "attached"] /\ UNCHANGED credential
       ELSE \/ /\ config.mode = "oidc" /\ HasAccessToken
               /\ call' = [call EXCEPT ![c] = "attached"]
               /\ credential' = [credential EXCEPT ![c] =
                    [by |-> "session", token |-> holder, at |-> 0]]
            \/ /\ config.mode = "jwt"
               /\ call' = [call EXCEPT ![c] = "attached"]
               /\ \E svid \in FetchedSvids : credential' = [credential EXCEPT ![c] = svid]
            \/ /\ config.mode = "jwt" \/ ~HasAccessToken
               /\ call' = [call EXCEPT ![c] = "noToken"]
               /\ UNCHANGED credential
  /\ UNCHANGED <<config, now, clientVars, sourceVars, connected, holder, loginVars, kind,
                 begun, before, hadToken>>

\* The RPC reaches the server, which refuses a JWT-SVID that has expired.
Arrive(c) ==
  /\ call[c] = "attached"
  /\ connected
  /\ call' = [call EXCEPT ![c] =
       IF credential[c].by = "agent" /\ now >= credential[c].at + JwtLife
         THEN "expired" ELSE "executed"]
  /\ UNCHANGED <<config, now, clientVars, sourceVars, connected, holder, loginVars, kind,
                 credential, begun, before, hadToken>>

\* It fails on the way, or the server refuses it for another reason.
CallFails(c) ==
  /\ call[c] = "attached"
  /\ call' = [call EXCEPT ![c] = "failed"]
  /\ UNCHANGED <<config, now, clientVars, sourceVars, connected, holder, loginVars, kind,
                 credential, begun, before, hadToken>>

-----------------------------------------------------------------------------
(* Connections, the sources of certificates and keys, time *)

\* Both ends accept each other: with mutual TLS the key must be the one of the
\* certificate, which must not have expired, and there must be roots.
Acceptable ==
  config.mode \in {"x509", "tls"} =>
    /\ captured["key"] = captured["cert"]
    /\ captured["roots"] # 0
    /\ now < captured["cert"] + CertLife

Handshake ==
  /\ pc = "ready"
  /\ ~connected
  /\ Acceptable
  /\ connected' = TRUE
  /\ UNCHANGED <<config, now, clientVars, sourceVars, holder, loginVars, callVars>>

Disconnect ==
  /\ connected
  /\ connected' = FALSE
  /\ UNCHANGED <<config, now, clientVars, sourceVars, holder, loginVars, callVars>>

\* The agent renews the X.509 SVID: key and leaf at once.
RenewSvid ==
  /\ config.mode = "x509"
  /\ now > material["cert"]
  /\ material' = [material EXCEPT !["key"] = now, !["cert"] = now]
  /\ torn' = (torn \/ HalfRead)
  /\ UNCHANGED <<config, now, clientVars, connected, holder, loginVars, callVars>>

\* Certificate and key files are replaced one after the other.
RenewFile(part, other) ==
  /\ config.mode = "tls"
  /\ {part, other} = {"cert", "key"}
  /\ \/ /\ material[part] = material[other] /\ now > material[part]
        /\ material' = [material EXCEPT ![part] = now]
     \/ /\ material[part] < material[other]
        /\ material' = [material EXCEPT ![part] = material[other]]
  /\ torn' = (torn \/ HalfRead)
  /\ UNCHANGED <<config, now, clientVars, connected, holder, loginVars, callVars>>

\* Where nothing expires, time is left out: nobody looks at a bearer token's.
Tick ==
  /\ config.mode \in {"jwt", "x509", "tls"}
  /\ now < MaxTime
  /\ now' = now + 1
  /\ UNCHANGED <<config, clientVars, sourceVars, connected, holder, loginVars, callVars>>

-----------------------------------------------------------------------------
LoginStep(l) == StartLogin(l) \/ LoginFails(l) \/ Adopt(l) \/ EndLogin(l)
CallStep(c) == BeginCall(c) \/ Attach(c) \/ Arrive(c) \/ CallFails(c)

Next ==
  \/ LoadConfig \/ OpenSession \/ MakeChannel \/ \E part \in Parts : ReadPart(part)
  \/ \E l \in Logins : LoginStep(l)
  \/ \E c \in Calls : CallStep(c)
  \/ Handshake \/ Disconnect
  \/ RenewSvid \/ \E part, other \in Parts : RenewFile(part, other)
  \/ Tick

Spec == Init /\ [][Next]_vars

-----------------------------------------------------------------------------
(* Properties *)

\* Every variable holds a value the code could hold there.
TypeOK ==
  /\ config \in Configs
  /\ now \in Time
  /\ pc \in {"config", "session", "channel", "ready", "raised"} \cup Parts
  /\ error \in {"none", "ValueError", "RuntimeError", "spiffeError", "cacheError"}
  /\ material \in [Parts -> Time]
  /\ captured \in [Parts -> Time]
  /\ torn \in BOOLEAN
  /\ connected \in BOOLEAN
  /\ holder \in Tokens \cup {None}
  /\ login \in [Logins -> {"idle", "running", "saving", "returned", "raised"}]
  /\ rank \in [Logins -> Nat]
  /\ adoptions \in Nat
  /\ call \in [Calls -> {"idle", "begun", "attached", "executed", "expired", "noToken",
                         "failed"}]
  /\ kind \in [Calls -> Kinds]
  /\ credential \in [Calls -> Credentials]
  /\ begun \in [Calls -> Time]
  /\ before \in [Calls -> SUBSET Logins]
  /\ hadToken \in [Calls -> BOOLEAN]

\* Every RPC the server carries out, of whatever kind, has the credential of the
\* mode the client was configured with.
NoCallWithoutCredential ==
  \A c \in Calls : call[c] = "executed" =>
    /\ config.mode = "jwt" => credential[c].by = "agent"
    /\ config.mode = "oidc" => credential[c].by = "session"
    /\ config.mode \in {"x509", "tls"} =>
         captured["cert"] # 0 /\ captured["key"] = captured["cert"]

\* The channel is made before the login, and outlives it: an RPC that begins
\* after a login has returned carries that login's token, or one adopted later
\* by another thread, but not the one that had run out.
LoginReplacesToken ==
  \A c \in Calls : \A l \in before[c] :
    credential[c].by = "session" =>
      credential[c].token \in Logins /\ rank[credential[c].token] >= rank[l]

\* README.md: "if not client.has_cached_oauth_token():
\* client.authenticate_oauth_pkce()".  Once the answer is yes, it stays yes: no
\* RPC that begins then lacks a token, also while another login fails.
LoggedInStaysLoggedIn ==
  \A c \in Calls :
    config.mode = "oidc" /\ hadToken[c] => call[c] # "noToken"

\* The certificate, the key and the roots are read one after the other and once.
\* Three things keep a client that was constructed from connecting, or connecting
\* again: certificate and key were read from two pairs, because a renewal fell
\* between the two readings or was half done at one of them; the agent had no
\* bundle; or the certificate has outlived itself, though the source may have
\* renewed it long ago.  An agent never holds half a pair: with one, the first of
\* the three is for good, as the second is.
LostClientHasACause ==
  pc = "ready" /\ config.mode \in {"x509", "tls"} =>
    /\ \/ Acceptable
       \/ torn
       \/ config.mode = "x509" /\ captured["roots"] = 0
       \/ now >= captured["cert"] + CertLife
    /\ config.mode = "x509" /\ (torn \/ captured["roots"] = 0) => ~connected

\* A client that lives longer than its JWT-SVIDs does not notice: an RPC is
\* refused as expired only if it took JwtLife itself.
JwtOutlivesItsCall ==
  [][\A c \in Calls :
       call[c] = "attached" /\ call'[c] = "expired" => now - begun[c] >= JwtLife]_vars
=============================================================================
