------------------------- MODULE ClientChannelProofs -------------------------
(***************************************************************************)
(* What holds of ClientChannel for any number of RPCs and logins, any      *)
(* configuration, and any lifetimes of certificates and JWT-SVIDs.         *)
(***************************************************************************)
EXTENDS ClientChannel, TLAPS

USE DEF clientVars, sourceVars, loginVars, callVars

\* The steps of the constructor, of the connections and of the clock.
Construct == LoadConfig \/ OpenSession \/ MakeChannel \/ \E part \in Parts : ReadPart(part)
Connect == Handshake \/ Disconnect
Renew == RenewSvid \/ \E part, other \in Parts : RenewFile(part, other)

\* What reading a part leads to.
LEMMA NextReadLemma ==
  ASSUME NEW part \in Parts
  PROVE  NextRead(part) \in {"ready"} \cup Parts
<1>1. part \in {"roots", "cert", "key"}
  BY DEF Parts
<1>2. CASE config.mode = "x509"
  BY <1>1, <1>2 DEF NextRead, Parts
<1>3. CASE config.mode = "tls"
  BY <1>1, <1>3 DEF NextRead, Parts
<1>4. CASE config.mode \notin {"x509", "tls"}
  BY <1>4 DEF NextRead
<1> QED BY <1>2, <1>3, <1>4

\* Every variable keeps to its type, for any instance.
THEOREM TypeInvariant == Spec => []TypeOK
<1>1. Init => TypeOK
  <2> SUFFICES ASSUME Init PROVE TypeOK
    OBVIOUS
  <2>1. 0 \in Time /\ 1 \in Time
    BY LifeAssumption DEF Time
  <2>2. Nothing \in Credentials
    BY <2>1 DEF Nothing, Credentials
  <2>3. kind \in [Calls -> Kinds]
    BY KindAssumption DEF Init
  <2> QED BY <2>1, <2>2, <2>3 DEF Init, TypeOK, Unread
<1>2. TypeOK /\ [Next]_vars => TypeOK'
  <2> SUFFICES ASSUME TypeOK, [Next]_vars PROVE TypeOK'
    OBVIOUS
  <2> USE DEF TypeOK
  <2>1. ASSUME Construct PROVE TypeOK'
    <3>1. CASE LoadConfig
      BY <3>1 DEF LoadConfig, Go, Raise
    <3>2. CASE OpenSession
      BY <3>2 DEF OpenSession, Go, Raise, Tokens
    <3>3. CASE MakeChannel
      BY <3>3 DEF MakeChannel, Go, Raise, Parts
    <3>4. ASSUME NEW part \in Parts, ReadPart(part) PROVE TypeOK'
      <4>1. NextRead(part) \in {"ready"} \cup Parts
        BY NextReadLemma
      <4>2. pc' \in {"ready", "raised"} \cup Parts
        BY <3>4, <4>1 DEF ReadPart, Go, Raise
      <4>3. error' \in {"none", "ValueError", "RuntimeError", "spiffeError", "cacheError"}
        BY <3>4 DEF ReadPart, ReadError, Go, Raise
      <4>4. captured' \in [Parts -> Time]
        BY <3>4 DEF ReadPart
      <4> QED BY <3>4, <4>2, <4>3, <4>4 DEF ReadPart
    <3> QED BY <2>1, <3>1, <3>2, <3>3, <3>4 DEF Construct
  <2>2. ASSUME NEW l \in Logins, LoginStep(l) PROVE TypeOK'
    BY <2>2 DEF LoginStep, StartLogin, LoginFails, Adopt, EndLogin, Tokens
  <2>3. ASSUME NEW c \in Calls, CallStep(c) PROVE TypeOK'
    <3>1. CASE BeginCall(c)
      BY <3>1 DEF BeginCall, HasAccessToken
    <3>2. CASE Attach(c)
      <4>1. [by |-> "session", token |-> holder, at |-> 0] \in Credentials
        BY LifeAssumption DEF Credentials, Time
      <4>2. FetchedSvids \subseteq Credentials
        BY DEF FetchedSvids, Credentials
      <4>3. credential' \in [Calls -> Credentials]
        BY <3>2, <4>1, <4>2 DEF Attach
      <4>4. call'[c] \in {"attached", "noToken"} /\ call' = [call EXCEPT ![c] = call'[c]]
        BY <3>2 DEF Attach
      <4> QED BY <3>2, <4>3, <4>4 DEF Attach
    <3>3. CASE Arrive(c) \/ CallFails(c)
      BY <3>3 DEF Arrive, CallFails
    <3> QED BY <2>3, <3>1, <3>2, <3>3 DEF CallStep
  <2>4. ASSUME Connect PROVE TypeOK'
    BY <2>4 DEF Connect, Handshake, Disconnect
  <2>5. ASSUME Renew PROVE TypeOK'
    <3>1. CASE RenewSvid
      BY <3>1 DEF RenewSvid, Parts
    <3>2. ASSUME NEW part \in Parts, NEW other \in Parts, RenewFile(part, other)
          PROVE  TypeOK'
      <4>1. material' \in [Parts -> Time]
        BY <3>2 DEF RenewFile
      <4> QED BY <3>2, <4>1 DEF RenewFile
    <3> QED BY <2>5, <3>1, <3>2 DEF Renew
  <2>6. ASSUME Tick PROVE TypeOK'
    BY <2>6, LifeAssumption DEF Tick, Time
  <2>7. CASE UNCHANGED vars
    BY <2>7 DEF vars
  <2> QED BY <2>1, <2>2, <2>3, <2>4, <2>5, <2>6, <2>7 DEF Next, Construct, Connect, Renew
<1> QED BY <1>1, <1>2, PTL DEF Spec

-----------------------------------------------------------------------------
(* The inductive invariant *)

\* The holder has the token adopted last; a token adopted has its place in that
\* order, and the others have none.
HolderInv ==
  /\ \A l \in Logins : rank[l] <= adoptions
  /\ \A l \in Logins : login[l] \in {"saving", "returned"} => rank[l] > 0
  /\ adoptions > 0 => holder \in Logins /\ rank[holder] = adoptions
  /\ \A l \in Logins : login[l] # "idle" => pc = "ready"
  /\ pc \in {"config", "session"} => holder = None /\ adoptions = 0

\* What a call has noted at its beginning, and what it carries.
CallInv(c) ==
  /\ call[c] \in {"idle", "begun", "noToken"} => credential[c] = Nothing
  /\ call[c] \notin {"idle", "begun", "noToken"} =>
       /\ config.mode = "jwt" => credential[c].by = "agent"
       /\ config.mode = "oidc" => credential[c].by = "session"
  /\ \A l \in before[c] : login[l] = "returned"
  /\ credential[c].by = "session" => \A l \in before[c] :
       credential[c].token \in Logins /\ rank[credential[c].token] >= rank[l]
  /\ hadToken[c] => holder # None
  /\ config.mode = "oidc" /\ hadToken[c] => call[c] # "noToken"
  /\ call[c] # "idle" => begun[c] <= now /\ pc = "ready"
  /\ credential[c].by = "agent" => begun[c] <= credential[c].at

PairUnread == {"config", "session", "channel", "roots"}

\* A pair read from an agent is torn if and only if the agent has renewed it in
\* between, and then key and certificate differ from there on.
AgentPairInv ==
  /\ material["key"] = material["cert"]
  /\ pc \in PairUnread \cup {"key"} => captured["key"] = 0 /\ captured["cert"] = 0 /\ ~torn
  /\ pc = "cert" => /\ captured["cert"] = 0
                    /\ captured["key"] <= material["cert"]
                    /\ torn <=> captured["key"] # material["cert"]
  /\ pc = "ready" => (torn <=> captured["key"] # captured["cert"])

\* Files that are read while they hold one pair give this pair.
FilePairInv ==
  /\ pc \in PairUnread \cup {"cert"} => captured["key"] = 0 /\ captured["cert"] = 0 /\ ~torn
  /\ pc = "key" => /\ captured["key"] = 0
                   /\ ~torn => captured["cert"] = material["cert"] /\ ~HalfRenewed
  /\ pc = "ready" => torn \/ captured["key"] = captured["cert"]
  /\ pc \in {"cert", "key", "ready"} => captured["roots"] # 0

\* With mutual TLS: what the channel has been given so far.
ChannelInv ==
  /\ \A part \in Parts : material[part] # 0
  /\ now # 0
  /\ config.mode = "x509" =>
       /\ pc \in {"cert", "ready"} => captured["key"] # 0
       /\ pc = "ready" => captured["cert"] # 0
  /\ config.mode = "tls" =>
       /\ pc \in {"key", "ready"} => captured["cert"] # 0
       /\ pc = "ready" => captured["key"] # 0
  /\ config.mode = "x509" => AgentPairInv
  /\ config.mode = "tls" => FilePairInv
  /\ connected \/ (\E c \in Calls : call[c] = "executed") =>
       /\ pc = "ready"
       /\ config.mode \in {"x509", "tls"} =>
            captured["key"] = captured["cert"] /\ captured["roots"] # 0

IInv == HolderInv /\ (\A c \in Calls : CallInv(c)) /\ ChannelInv

LEMMA InitInv == Init => IInv
<1> SUFFICES ASSUME Init PROVE IInv
  OBVIOUS
<1>1. HolderInv
  BY DEF Init, HolderInv
<1>2. \A c \in Calls : CallInv(c)
  BY DEF Init, CallInv, Nothing
<1>3. ChannelInv
  BY DEF Init, ChannelInv, AgentPairInv, FilePairInv, PairUnread, Parts, Unread
<1> QED BY <1>1, <1>2, <1>3 DEF IInv

\* Who adopted when.  A login adopts once, and gets the last place.
LEMMA HolderStep ==
  ASSUME TypeOK, HolderInv, [Next]_vars
  PROVE  HolderInv' /\ (holder # None => holder' # None)
<1> USE DEF TypeOK, HolderInv
<1>1. CASE LoadConfig \/ MakeChannel \/ \E part \in Parts : ReadPart(part)
  <2>1. holder' = holder /\ UNCHANGED loginVars
    BY <1>1 DEF LoadConfig, MakeChannel, ReadPart
  <2>2. pc # "ready" /\ (pc' \in {"config", "session"} => pc \in {"config", "session"})
    <3>1. CASE LoadConfig
      BY <3>1 DEF LoadConfig
    <3>2. CASE MakeChannel
      BY <3>2 DEF MakeChannel, Go, Raise
    <3>3. ASSUME NEW part \in Parts, ReadPart(part)
          PROVE  pc # "ready" /\ pc' \notin {"config", "session"}
      BY <3>3, NextReadLemma DEF ReadPart, Go, Raise, Parts
    <3> QED BY <1>1, <3>1, <3>2, <3>3
  <2> QED BY <2>1, <2>2
<1>2. CASE OpenSession
  BY <1>2 DEF OpenSession, Go, Raise
<1>3. ASSUME NEW l \in Logins, LoginStep(l)
      PROVE  HolderInv' /\ (holder # None => holder' # None)
  <2>1. CASE StartLogin(l) \/ LoginFails(l) \/ EndLogin(l)
    BY <2>1 DEF StartLogin, LoginFails, EndLogin
  <2>2. CASE Adopt(l)
    BY <2>2, TokenAssumption DEF Adopt
  <2> QED BY <1>3, <2>1, <2>2 DEF LoginStep
<1>4. ASSUME NEW c \in Calls, CallStep(c)
      PROVE  HolderInv' /\ (holder # None => holder' # None)
  BY <1>4 DEF CallStep, BeginCall, Attach, Arrive, CallFails
<1>5. CASE Connect \/ Renew \/ Tick
  BY <1>5 DEF Connect, Handshake, Disconnect, Renew, RenewSvid, RenewFile, Tick
<1>6. CASE UNCHANGED vars
  BY <1>6 DEF vars
<1> QED BY <1>1, <1>2, <1>3, <1>4, <1>5, <1>6 DEF Next, Connect, Renew

\* What a call notes and carries stays right, whoever logs in meanwhile.
LEMMA CallStepInv ==
  ASSUME TypeOK, IInv, [Next]_vars, NEW d \in Calls
  PROVE  CallInv(d)'
<1>0. CallInv(d) /\ HolderInv /\ HolderInv' /\ (holder # None => holder' # None)
  BY HolderStep DEF IInv
<1> USE <1>0 DEF TypeOK, CallInv
<1>1. CASE LoadConfig \/ MakeChannel \/ OpenSession \/ \E part \in Parts : ReadPart(part)
  <2>1. /\ UNCHANGED <<config, now, loginVars, callVars>>
        /\ pc # "ready"
    BY <1>1 DEF LoadConfig, MakeChannel, OpenSession, ReadPart, Parts
  <2> QED BY <2>1
<1>2. ASSUME NEW l \in Logins, LoginStep(l) PROVE CallInv(d)'
  <2>1. CASE StartLogin(l) \/ LoginFails(l) \/ EndLogin(l)
    BY <2>1 DEF StartLogin, LoginFails, EndLogin
  <2>2. CASE Adopt(l)
    <3>1. l \notin before[d] /\ rank'[l] >= rank[l]
      BY <2>2 DEF Adopt, HolderInv
    <3>2. \A k \in Logins : k # l => rank'[k] = rank[k]
      BY <2>2 DEF Adopt
    <3>3. \A k \in before[d] : k \in Logins /\ rank'[k] = rank[k]
      BY <3>1, <3>2
    <3>4. credential[d].by = "session" => \A k \in before[d] :
            credential[d].token \in Logins /\ rank'[credential[d].token] >= rank'[k]
      <4> SUFFICES ASSUME credential[d].by = "session", NEW k \in before[d]
                   PROVE  /\ credential[d].token \in Logins
                          /\ rank'[credential[d].token] >= rank'[k]
        OBVIOUS
      <4>1. credential[d].token \in Logins /\ rank[credential[d].token] >= rank[k]
        OBVIOUS
      <4>2. rank'[credential[d].token] >= rank[credential[d].token]
        BY <3>1, <3>2, <4>1
      <4>3. rank' \in [Logins -> Nat]
        BY <2>2 DEF Adopt
      <4> QED BY <3>3, <4>1, <4>2, <4>3
    <3>5. \A k \in before[d] : login'[k] = "returned"
      BY <2>2, <3>1 DEF Adopt
    <3>6. UNCHANGED <<config, now, pc, callVars>>
      BY <2>2 DEF Adopt
    <3> QED BY <3>4, <3>5, <3>6
  <2> QED BY <1>2, <2>1, <2>2 DEF LoginStep
<1>3. ASSUME NEW c \in Calls, BeginCall(c) PROVE CallInv(d)'
  <2>1. CASE c # d
    BY <1>3, <2>1 DEF BeginCall
  <2>2. CASE c = d
    <3>1. /\ call'[d] = "begun" /\ credential' = credential /\ credential[d] = Nothing
          /\ begun'[d] = now /\ now' = now /\ now <= now
          /\ before'[d] = {l \in Logins : login[l] = "returned"} /\ login' = login
          /\ hadToken'[d] = (holder # None) /\ holder' = holder
          /\ pc' = pc /\ pc = "ready" /\ config' = config
      BY <1>3, <2>2 DEF BeginCall, HasAccessToken, Time
    <3>2. credential'[d].by = "nobody"
      BY <3>1 DEF Nothing
    <3> QED BY <3>1, <3>2
  <2> QED BY <2>1, <2>2
<1>4. ASSUME NEW c \in Calls, Attach(c) PROVE CallInv(d)'
  <2>1. /\ c # d => call'[d] = call[d] /\ credential'[d] = credential[d]
        /\ UNCHANGED <<config, now, pc, login, rank, holder, begun, before, hadToken>>
    BY <1>4 DEF Attach
  <2>2. c # d => CallInv(d)'
    BY <2>1
  <2>3. CASE c = d /\ config.mode \notin {"jwt", "oidc"}
    BY <1>4, <2>1, <2>3 DEF Attach, Nothing
  <2>4. kind[c] \in Intercepted
    BY DEF Kinds, Intercepted
  <2>5. CASE c = d /\ config.mode = "jwt"
    <3>1. \/ /\ call'[d] = "attached"
             /\ credential'[d] = [by |-> "agent", token |-> None, at |-> now]
          \/ call'[d] = "noToken" /\ credential'[d] = credential[d]
      BY <1>4, <2>4, <2>5 DEF Attach, FetchedSvids
    <3> QED BY <1>4, <2>1, <2>5, <3>1 DEF Attach
  <2>6. CASE c = d /\ config.mode = "oidc"
    <3>1. \/ /\ call'[d] = "attached" /\ holder # None
             /\ credential'[d] = [by |-> "session", token |-> holder, at |-> 0]
          \/ call'[d] = "noToken" /\ credential'[d] = credential[d] /\ holder = None
      BY <1>4, <2>4, <2>6 DEF Attach, HasAccessToken
    <3>2. \A l \in before[d] : l \in Logins /\ rank[l] > 0 /\ rank[l] <= adoptions
      BY DEF HolderInv
    <3>3. \A l \in before[d] : holder \in Logins /\ rank[holder] >= rank[l]
      BY <3>2 DEF HolderInv
    <3> QED BY <1>4, <2>1, <2>6, <3>1, <3>3 DEF Attach
  <2> QED BY <2>2, <2>3, <2>5, <2>6
<1>5. ASSUME NEW c \in Calls, Arrive(c) \/ CallFails(c) PROVE CallInv(d)'
  BY <1>5 DEF Arrive, CallFails
<1>6. CASE Connect \/ Renew
  BY <1>6 DEF Connect, Handshake, Disconnect, Renew, RenewSvid, RenewFile
<1>7. CASE Tick
  BY <1>7 DEF Tick, Time
<1>8. CASE UNCHANGED vars
  BY <1>8 DEF vars
<1> QED BY <1>1, <1>2, <1>3, <1>4, <1>5, <1>6, <1>7, <1>8 DEF Next, Connect, Renew, CallStep

\* What the channel is given is one pair unless it is torn, and a connection is made
\* with a key that fits.
LEMMA ChannelStepInv ==
  ASSUME TypeOK, ChannelInv, [Next]_vars
  PROVE  ChannelInv'
<1> USE DEF TypeOK, ChannelInv
<1>1. CASE LoadConfig \/ MakeChannel \/ OpenSession
  <2>1. /\ UNCHANGED <<config, now, captured, material, torn, connected, call>>
        /\ pc \in PairUnread /\ pc' \in PairUnread \cup {"ready", "raised"}
    BY <1>1 DEF LoadConfig, MakeChannel, OpenSession, Go, Raise, PairUnread
  <2>2. pc' = "ready" => config.mode \notin {"x509", "tls"}
    BY <1>1 DEF LoadConfig, MakeChannel, OpenSession, Go, Raise
  <2>3. config.mode = "x509" => AgentPairInv'
    BY <2>1, <2>2 DEF AgentPairInv, PairUnread
  <2>4. config.mode = "tls" => FilePairInv'
    BY <2>1, <2>2 DEF FilePairInv, HalfRenewed, PairUnread
  <2> QED BY <2>1, <2>2, <2>3, <2>4 DEF PairUnread
<1>2. ASSUME NEW part \in Parts, ReadPart(part) PROVE ChannelInv'
  <2>1. /\ UNCHANGED <<config, now, material, connected, call>>
        /\ torn' = (torn \/ (part \in {"cert", "key"} /\ HalfRenewed))
        /\ pc = part /\ pc # "ready" /\ part \in {"roots", "cert", "key"}
    BY <1>2 DEF ReadPart, Parts
  <2>2. \/ /\ pc' = NextRead(part) /\ captured' = [captured EXCEPT ![part] = material[part]]
        \/ pc' = "raised" /\ captured' = captured
        \/ pc' = NextRead(part) /\ captured' = captured /\ part = "roots"
    BY <1>2 DEF ReadPart, Go, Raise
  <2>3. captured'["cert"] = captured["cert"] \/ captured'["cert"] # 0
    BY <2>2 DEF Parts
  <2>4. captured'["key"] = captured["key"] \/ captured'["key"] # 0
    BY <2>2 DEF Parts
  <2>5. config.mode = "x509" => AgentPairInv'
    <3> SUFFICES ASSUME config.mode = "x509", AgentPairInv PROVE AgentPairInv'
      BY DEF ChannelInv
    <3>1. ~HalfRenewed /\ torn' = torn
      BY <2>1 DEF AgentPairInv, HalfRenewed
    <3>2. CASE pc' = "raised"
      BY <2>1, <3>2 DEF AgentPairInv, PairUnread
    <3>3. CASE pc' # "raised" /\ part = "roots"
      <4>1. pc' = "key" /\ captured'["key"] = captured["key"] /\ captured'["cert"] = captured["cert"]
        BY <2>2, <3>3 DEF NextRead, Parts
      <4> QED BY <2>1, <3>1, <3>3, <4>1 DEF AgentPairInv, PairUnread
    <3>4. CASE pc' # "raised" /\ part = "key"
      <4>1. pc' = "cert" /\ captured'["key"] = material["key"] /\ captured'["cert"] = captured["cert"]
        BY <2>2, <3>4 DEF NextRead, Parts
      <4>2. material["key"] <= material["cert"] /\ material["cert"] = material["key"]
        BY DEF AgentPairInv, Time, Parts
      <4> QED BY <2>1, <3>1, <3>4, <4>1, <4>2 DEF AgentPairInv, PairUnread
    <3>5. CASE pc' # "raised" /\ part = "cert"
      <4>1. pc' = "ready" /\ captured'["key"] = captured["key"] /\ captured'["cert"] = material["cert"]
        BY <2>2, <3>5 DEF NextRead, Parts
      <4> QED BY <2>1, <3>1, <3>5, <4>1 DEF AgentPairInv, PairUnread
    <3> QED BY <2>1, <3>2, <3>3, <3>4, <3>5
  <2>8. config.mode = "tls" => FilePairInv'
    <3> SUFFICES ASSUME config.mode = "tls", FilePairInv PROVE FilePairInv'
      BY DEF ChannelInv
    <3>1. HalfRenewed' = HalfRenewed
      BY <2>1 DEF HalfRenewed
    <3>2. CASE pc' = "raised"
      BY <2>1, <3>2 DEF FilePairInv, PairUnread
    <3>3. CASE pc' # "raised" /\ part = "roots"
      <4>0. captured' = [captured EXCEPT !["roots"] = material["roots"]]
        BY <1>2, <3>3 DEF ReadPart, Raise
      <4>1. pc' = "cert" /\ captured' = [captured EXCEPT !["roots"] = material["roots"]]
        BY <2>2, <3>3, <4>0 DEF NextRead
      <4>2. captured'["roots"] # 0 /\ captured'["key"] = captured["key"]
            /\ captured'["cert"] = captured["cert"]
        BY <4>1 DEF Parts
      <4> QED BY <2>1, <3>3, <4>1, <4>2 DEF FilePairInv, PairUnread
    <3>4. CASE pc' # "raised" /\ part = "cert"
      <4>1. /\ pc' = "key" /\ captured'["roots"] = captured["roots"]
            /\ captured'["key"] = captured["key"] /\ captured'["cert"] = material["cert"]
        BY <2>2, <3>4 DEF NextRead, Parts
      <4> QED BY <2>1, <3>1, <3>4, <4>1 DEF FilePairInv, PairUnread
    <3>5. CASE pc' # "raised" /\ part = "key"
      <4>1. /\ pc' = "ready" /\ captured'["roots"] = captured["roots"]
            /\ captured'["key"] = material["key"] /\ captured'["cert"] = captured["cert"]
        BY <2>2, <3>5 DEF NextRead, Parts
      <4> QED BY <2>1, <3>5, <4>1 DEF FilePairInv, HalfRenewed, PairUnread
    <3> QED BY <2>1, <3>2, <3>3, <3>4, <3>5
  <2>6. config.mode = "x509" =>
          /\ pc' \in {"cert", "ready"} => captured'["key"] # 0
          /\ pc' = "ready" => captured'["cert"] # 0
    BY <2>1, <2>2, <2>3, <2>4 DEF NextRead, Parts
  <2>7. config.mode = "tls" =>
          /\ pc' \in {"key", "ready"} => captured'["cert"] # 0
          /\ pc' = "ready" => captured'["key"] # 0
    BY <2>1, <2>2, <2>3, <2>4 DEF NextRead, Parts
  <2> QED BY <2>1, <2>5, <2>6, <2>7, <2>8
<1>3. ASSUME NEW l \in Logins, LoginStep(l) PROVE ChannelInv'
  BY <1>3 DEF LoginStep, StartLogin, LoginFails, Adopt, EndLogin, AgentPairInv, FilePairInv,
              HalfRenewed
<1>4. ASSUME NEW c \in Calls, CallStep(c) PROVE ChannelInv'
  <2>1. /\ UNCHANGED <<config, now, clientVars, sourceVars, connected>>
        /\ ~connected => \A d \in Calls : call'[d] = "executed" => call[d] = "executed"
    BY <1>4 DEF CallStep, BeginCall, Attach, Arrive, CallFails
  <2> QED BY <2>1 DEF AgentPairInv, FilePairInv, HalfRenewed
<1>5. CASE Connect
  BY <1>5 DEF Connect, Handshake, Disconnect, Acceptable, AgentPairInv, FilePairInv, HalfRenewed
<1>6. CASE RenewSvid
  <2>1. /\ material'["key"] = now /\ material'["cert"] = now /\ now > material["cert"]
        /\ \A part \in Parts : material'[part] # 0
        /\ torn' = (torn \/ HalfRead)
        /\ UNCHANGED <<config, now, clientVars, connected, call>>
        /\ config.mode = "x509"
    BY <1>6 DEF RenewSvid, Parts
  <2>2. material["cert"] \in Nat /\ now \in Nat /\ captured["key"] \in Nat
    BY DEF Time, Parts
  <2>3. captured["key"] <= material["cert"] => captured["key"] # now
    BY <2>1, <2>2
  <2>4. AgentPairInv
    BY <2>1
  <2>5. CASE pc = "cert"
    <3>1. captured["cert"] = 0 /\ captured["key"] # 0 /\ captured["key"] <= material["cert"]
      BY <2>1, <2>4, <2>5 DEF AgentPairInv
    <3>2. HalfRead
      BY <2>5, <3>1 DEF HalfRead, Parts
    <3>3. captured["key"] <= now /\ captured["key"] # now
      BY <2>1, <2>2, <2>3, <3>1
    <3> QED BY <2>1, <2>5, <3>1, <3>2, <3>3 DEF AgentPairInv, PairUnread
  <2>6. CASE pc \in PairUnread \cup {"key", "ready"}
    <3>1. ~HalfRead
      BY <2>4, <2>6 DEF AgentPairInv, HalfRead, PairUnread, Parts
    <3>2. torn' = torn
      BY <2>1, <3>1
    <3> QED BY <2>1, <2>4, <2>6, <3>2 DEF AgentPairInv, PairUnread
  <2>7. CASE pc # "cert" /\ pc \notin PairUnread \cup {"key", "ready"}
    BY <2>1, <2>7 DEF AgentPairInv, PairUnread
  <2> QED BY <2>5, <2>6, <2>7
<1>7. ASSUME NEW part \in Parts, NEW other \in Parts, RenewFile(part, other)
      PROVE  ChannelInv'
  <2>1. /\ \A p \in Parts : material'[p] # 0
        /\ torn' = (torn \/ HalfRead)
        /\ UNCHANGED <<config, now, clientVars, connected, call>>
        /\ config.mode = "tls"
    BY <1>7 DEF RenewFile
  <2>2. FilePairInv'
    BY <2>1 DEF FilePairInv, HalfRead, PairUnread, Parts
  <2> QED BY <2>1, <2>2
<1>8. CASE Tick
  BY <1>8 DEF Tick, Time, AgentPairInv, FilePairInv, HalfRenewed
<1>9. CASE UNCHANGED vars
  BY <1>9 DEF vars, AgentPairInv, FilePairInv, HalfRenewed
<1> QED BY <1>1, <1>2, <1>3, <1>4, <1>5, <1>6, <1>7, <1>8, <1>9 DEF Next, Connect

\* What the code keeps true of a client, its logins and its calls.
THEOREM Inductive == Spec => []IInv
<1>1. TypeOK /\ IInv /\ [Next]_vars => IInv'
  <2> SUFFICES ASSUME TypeOK, IInv, [Next]_vars PROVE IInv'
    OBVIOUS
  <2>1. HolderInv'
    BY HolderStep DEF IInv
  <2>2. \A c \in Calls : CallInv(c)'
    BY CallStepInv
  <2>3. ChannelInv'
    BY ChannelStepInv DEF IInv
  <2> QED BY <2>1, <2>2, <2>3 DEF IInv
<1> QED BY <1>1, InitInv, TypeInvariant, PTL DEF Spec

-----------------------------------------------------------------------------
(* The properties *)

\* Every RPC the server carries out has the credential of its mode.
THEOREM Credited == Spec => []NoCallWithoutCredential
<1>1. TypeOK /\ IInv => NoCallWithoutCredential
  BY DEF TypeOK, IInv, CallInv, ChannelInv, NoCallWithoutCredential
<1> QED BY <1>1, TypeInvariant, Inductive, PTL

\* A login that has returned is in force for every RPC that begins later.
THEOREM LoginInForce == Spec => []LoginReplacesToken
<1>1. IInv => LoginReplacesToken
  BY DEF IInv, CallInv, LoginReplacesToken
<1> QED BY <1>1, Inductive, PTL

\* No login takes away a token a caller has seen.
THEOREM StaysLoggedIn == Spec => []LoggedInStaysLoggedIn
<1>1. IInv => LoggedInStaysLoggedIn
  BY DEF IInv, CallInv, LoggedInStaysLoggedIn
<1> QED BY <1>1, Inductive, PTL

\* A client that was constructed can connect, again and again, but for a torn pair,
\* missing roots or the age of its certificate; an agent's torn pair is for good.
THEOREM LostHasACause == Spec => []LostClientHasACause
<1>1. TypeOK /\ IInv => LostClientHasACause
  <2> SUFFICES ASSUME TypeOK, IInv, pc = "ready", config.mode \in {"x509", "tls"}
               PROVE  LostClientHasACause
    BY DEF LostClientHasACause
  <2>1. captured["cert"] \in Nat /\ CertLife \in Nat /\ now \in Nat
    BY LifeAssumption DEF TypeOK, Time, Parts
  <2>2. CASE config.mode = "x509"
    <3>1. torn <=> captured["key"] # captured["cert"]
      BY <2>2 DEF IInv, ChannelInv, AgentPairInv
    <3>2. connected => captured["key"] = captured["cert"] /\ captured["roots"] # 0
      BY <2>2 DEF IInv, ChannelInv
    <3> QED BY <2>1, <2>2, <3>1, <3>2 DEF LostClientHasACause, Acceptable
  <2>3. CASE config.mode = "tls"
    <3>1. captured["roots"] # 0 /\ (torn \/ captured["key"] = captured["cert"])
      BY <2>3 DEF IInv, ChannelInv, FilePairInv
    <3> QED BY <2>1, <2>3, <3>1 DEF LostClientHasACause, Acceptable
  <2> QED BY <2>2, <2>3
<1> QED BY <1>1, TypeInvariant, Inductive, PTL

\* No RPC is refused as expired that took less than a JWT-SVID lives.
THEOREM JwtInTime == Spec => JwtOutlivesItsCall
<1>1. TypeOK /\ IInv /\ [Next]_vars =>
        [\A c \in Calls :
           call[c] = "attached" /\ call'[c] = "expired" => now - begun[c] >= JwtLife]_vars
  <2> SUFFICES ASSUME TypeOK, IInv, Next, NEW d \in Calls,
                      call[d] = "attached", call'[d] = "expired"
               PROVE  now - begun[d] >= JwtLife
    OBVIOUS
  <2>1. CASE LoadConfig \/ MakeChannel \/ OpenSession \/ \E part \in Parts : ReadPart(part)
    BY <2>1 DEF LoadConfig, MakeChannel, OpenSession, ReadPart
  <2>2. ASSUME NEW l \in Logins, LoginStep(l) PROVE FALSE
    BY <2>2 DEF LoginStep, StartLogin, LoginFails, Adopt, EndLogin
  <2>3. ASSUME NEW c \in Calls, BeginCall(c) \/ Attach(c) \/ CallFails(c) PROVE FALSE
    BY <2>3 DEF BeginCall, Attach, CallFails, TypeOK
  <2>4. ASSUME NEW c \in Calls, Arrive(c) PROVE now - begun[d] >= JwtLife
    <3>1. credential[d].by = "agent" /\ now >= credential[d].at + JwtLife
      BY <2>4 DEF Arrive, TypeOK
    <3>2. begun[d] <= credential[d].at
      BY <3>1 DEF IInv, CallInv
    <3>3. now \in Nat /\ begun[d] \in Nat /\ credential[d].at \in Nat /\ JwtLife \in Nat
      BY LifeAssumption DEF TypeOK, Time, Credentials
    <3> QED BY <3>1, <3>2, <3>3
  <2>5. CASE Handshake \/ Disconnect \/ RenewSvid \/ Tick
                \/ \E part, other \in Parts : RenewFile(part, other)
    BY <2>5 DEF Handshake, Disconnect, RenewSvid, RenewFile, Tick
  <2> QED BY <2>1, <2>2, <2>3, <2>4, <2>5 DEF Next, CallStep
<1> QED BY <1>1, TypeInvariant, Inductive, PTL DEF Spec, JwtOutlivesItsCall
=============================================================================
