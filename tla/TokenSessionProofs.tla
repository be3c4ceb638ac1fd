------------------------- MODULE TokenSessionProofs -------------------------
(***************************************************************************)
(* What holds of TokenSession for any number of clients, any lifetimes,    *)
(* any clock resolution and any time.                                      *)
(***************************************************************************)
EXTENDS TokenSession, TLAPS

-----------------------------------------------------------------------------
(* Truncated timestamps *)

\* Cutting a timestamp loses less than a millisecond, once.
LEMMA TruncateLemma ==
  ASSUME NEW t \in Int
  PROVE  /\ Truncate(t) \in Int
         /\ Truncate(t) <= t /\ t < Truncate(t) + Resolution
         /\ Truncate(Truncate(t)) = Truncate(t)
<1> DEFINE q == t \div Resolution
<1>1. Resolution \in Nat \ {0}
  BY TimeAssumption
<1>2. q \in Int /\ Resolution * q <= t /\ t < Resolution * q + Resolution
  BY <1>1
<1>3. (Resolution * q) \div Resolution = q
  BY <1>1, <1>2
<1> QED BY <1>1, <1>2, <1>3 DEF Truncate

\* Cutting keeps the order.
LEMMA TruncateMonotone ==
  ASSUME NEW s \in Int, NEW t \in Int, s <= t
  PROVE  Truncate(s) <= Truncate(t)
<1>1. Resolution \in Nat \ {0}
  BY TimeAssumption
<1>2. s \div Resolution \in Int /\ t \div Resolution \in Int
  BY <1>1
<1>3. s \div Resolution <= t \div Resolution
  BY <1>1
<1> QED BY <1>1, <1>2, <1>3 DEF Truncate

\* Two different cut timestamps are a millisecond apart.
LEMMA TruncateApart ==
  ASSUME NEW s \in Int, NEW t \in Int, Truncate(s) = s, Truncate(t) = t, s < t
  PROVE  s + Resolution <= t
<1> DEFINE p == s \div Resolution
           q == t \div Resolution
<1>1. Resolution \in Nat \ {0} /\ p \in Int /\ q \in Int
  BY TimeAssumption
<1>2. s = Resolution * p /\ t = Resolution * q
  BY DEF Truncate
<1>3. p + 1 <= q
  BY <1>1, <1>2
<1> QED BY <1>1, <1>2, <1>3

\* Cut timestamps add up to a cut timestamp.
LEMMA TruncateSum ==
  ASSUME NEW s \in Int, NEW t \in Int, Truncate(s) = s, Truncate(t) = t
  PROVE  Truncate(s + t) = s + t
<1> DEFINE p == s \div Resolution
           q == t \div Resolution
<1>1. Resolution \in Nat \ {0} /\ p \in Int /\ q \in Int
  BY TimeAssumption
<1>2. s = Resolution * p /\ t = Resolution * q
  BY DEF Truncate
<1>3. s + t = Resolution * (p + q)
  BY <1>1, <1>2
<1>4. (Resolution * (p + q)) \div Resolution = p + q
  BY <1>1
<1> QED BY <1>3, <1>4 DEF Truncate

-----------------------------------------------------------------------------
(* Type correctness *)

\* What a login notes of the token it received is a cached token.
LEMMA NotedType ==
  ASSUME now \in Time, NEW c \in Clients, NEW life \in Lives,
         NEW latency \in 0..MaxLatency, NEW declared \in BOOLEAN
  PROVE  Noted(c, now - latency, life, declared) \in Cached
<1>1. now \in Int /\ life \in Int /\ latency \in Int /\ Default \in Int
  BY TimeAssumption DEF Time
<1>2. Truncate(now) \in Int /\ Truncate(now + life) \in Int
  BY <1>1, TruncateLemma
<1> QED BY <1>1, <1>2 DEF Noted, Cached

\* A token is at hand wherever one is looked at or saved.
HasToken == \A c \in Clients : pc[c] \in {"validate", "save", "write"} => local[c] \in Cached

\* The sessions and the cache file only ever reach states of TypeOK.
THEOREM TypeInvariant == Spec => [](TypeOK /\ HasToken)
<1>0. 0 \in Time
  BY TimeAssumption DEF Time
<1>1. Init => TypeOK /\ HasToken
  BY <1>0 DEF Init, TypeOK, HasToken
<1>2. TypeOK /\ HasToken /\ [Next]_vars => (TypeOK /\ HasToken)'
  <2> SUFFICES ASSUME TypeOK, HasToken, [Next]_vars PROVE (TypeOK /\ HasToken)'
    OBVIOUS
  <2> USE DEF TypeOK, HasToken, Go, Hold, Keep, UnchangedFile
  <2>1. ASSUME NEW c \in Clients, Construct(c) PROVE (TypeOK /\ HasToken)'
    BY <2>1 DEF Construct
  <2>2. ASSUME NEW c \in Clients, FindCache(c) PROVE (TypeOK /\ HasToken)'
    BY <2>2 DEF FindCache
  <2>3. ASSUME NEW c \in Clients, ReadCache(c) PROVE (TypeOK /\ HasToken)'
    BY <2>3 DEF ReadCache
  <2>4. ASSUME NEW c \in Clients, Validate(c) PROVE (TypeOK /\ HasToken)'
    BY <2>4 DEF Validate
  <2>5. ASSUME NEW c \in Clients, Login(c) PROVE (TypeOK /\ HasToken)'
    <3>1. PICK life \in Lives, latency \in 0..MaxLatency, declared \in BOOLEAN :
            LET token == Noted(c, now - latency, life, declared) IN
            /\ Hold(c, token)
            /\ \/ Keep(c, token) /\ Go(c, "save")
               \/ UNCHANGED <<local, pc>>
      BY <2>5 DEF Login
    <3>2. Noted(c, now - latency, life, declared) \in Cached
      BY NotedType
    <3> QED BY <2>5, <3>1, <3>2 DEF Login
  <2>6. ASSUME NEW c \in Clients, OpenCache(c) PROVE (TypeOK /\ HasToken)'
    BY <2>6 DEF OpenCache, Disturb
  <2>7. ASSUME NEW c \in Clients, WriteCache(c) PROVE (TypeOK /\ HasToken)'
    BY <2>7 DEF WriteCache, LeaveSave
  <2>8. ASSUME NEW c \in Clients, SaveFails(c) PROVE (TypeOK /\ HasToken)'
    BY <2>8 DEF SaveFails, LeaveSave, LeaveUnfinished
  <2>9. ASSUME NEW c \in Clients, Die(c) PROVE (TypeOK /\ HasToken)'
    BY <2>9 DEF Die, LeaveUnfinished
  <2>10. CASE Clear
    BY <2>10 DEF Clear, Disturb
  <2>11. CASE Tick
    BY <2>11, TimeAssumption DEF Tick, Time
  <2>12. CASE UNCHANGED vars
    BY <2>12 DEF vars
  <2> QED BY <2>1, <2>2, <2>3, <2>4, <2>5, <2>6, <2>7, <2>8, <2>9, <2>10, <2>11,
             <2>12 DEF Next, ClientStep
<1> QED BY <1>1, <1>2, PTL DEF Spec

-----------------------------------------------------------------------------
(* How long an adopted token lives *)

\* The expiry noted of a token is at most MaxLatency later than the provider's,
\* and cut to milliseconds.
Reckoned(token) ==
  token.declared => token.until <= token.real + MaxLatency /\ Truncate(token.until) = token.until

\* Every token in the cache, or on its way to or from it, is reckoned so.
Reckoning ==
  /\ file \in Cached => Reckoned(file)
  /\ \A c \in Clients : local[c] \in Cached => Reckoned(local[c])

\* A login notes its token so.
LEMMA NotedReckoned ==
  ASSUME now \in Time, NEW c \in Clients, NEW life \in Lives,
         NEW latency \in 0..MaxLatency, NEW declared \in BOOLEAN
  PROVE  Reckoned(Noted(c, now - latency, life, declared))
<1>1. now \in Int /\ life \in Int /\ latency \in Int /\ latency <= MaxLatency
      /\ MaxLatency \in Int
  BY TimeAssumption DEF Time
<1> DEFINE until == Truncate(now + life)
<1>2. until \in Int /\ until <= now + life /\ Truncate(until) = until
  BY <1>1, TruncateLemma
<1>3. until <= ((now - latency) + life) + MaxLatency
  BY <1>1, <1>2
<1> HIDE DEF until
<1>4. declared => Noted(c, now - latency, life, declared) =
        [owner |-> c, real |-> (now - latency) + life, declared |-> declared, until |-> until]
  BY DEF Noted, until
<1>5. Noted(c, now - latency, life, declared).declared = declared
  BY DEF Noted
<1> QED BY <1>2, <1>3, <1>4, <1>5 DEF Reckoned

\* ... and so is every token that reaches the cache or comes from it.
LEMMA ReckoningInvariant == Spec => []Reckoning
<1>1. Init => Reckoning
  BY FileAssumption DEF Init, Reckoning
<1>2. TypeOK /\ HasToken /\ Reckoning /\ [Next]_vars => Reckoning'
  <2> SUFFICES ASSUME TypeOK, HasToken, Reckoning, [Next]_vars PROVE Reckoning'
    OBVIOUS
  <2> USE FileAssumption DEF TypeOK, HasToken, Reckoning, Keep, UnchangedFile
  <2>0. \A token : Reckoned(token)' = Reckoned(token)
    BY DEF Reckoned
  <2>1. ASSUME NEW c \in Clients, Login(c) PROVE Reckoning'
    <3>1. PICK life \in Lives, latency \in 0..MaxLatency, declared \in BOOLEAN :
            Keep(c, Noted(c, now - latency, life, declared)) \/ UNCHANGED local
      BY <2>1 DEF Login
    <3>2. Reckoned(Noted(c, now - latency, life, declared))
      BY NotedReckoned
    <3> HIDE DEF Reckoned
    <3> QED BY <2>1, <3>1, <3>2 DEF Login
  <2>2. ASSUME NEW c \in Clients,
               Construct(c) \/ FindCache(c) \/ ReadCache(c) \/ Validate(c)
        PROVE  Reckoning'
    BY <2>2 DEF Construct, FindCache, ReadCache, Validate
  <2>3. ASSUME NEW c \in Clients,
               OpenCache(c) \/ WriteCache(c) \/ SaveFails(c) \/ Die(c)
        PROVE  Reckoning'
    BY <2>3 DEF OpenCache, WriteCache, SaveFails, Die, LeaveSave, LeaveUnfinished
  <2>4. CASE Clear \/ Tick \/ UNCHANGED vars
    BY <2>4 DEF Clear, Tick, vars
  <2> QED BY <2>1, <2>2, <2>3, <2>4 DEF Next, ClientStep
<1> QED BY <1>1, <1>2, TypeInvariant, PTL DEF Spec

\* A client adopts a cached token only in Validate.
LEMMA OnlyValidateAdopts ==
  ASSUME TypeOK, [Next]_vars, NEW c \in Clients, pc[c] = "validate", pc'[c] = "ready"
  PROVE  Validate(c)
<1>1. ASSUME NEW d \in Clients, ClientStep(d), d # c PROVE pc'[c] = pc[c]
  BY <1>1 DEF ClientStep, Construct, FindCache, ReadCache, Validate, Login, OpenCache,
     WriteCache, SaveFails, Die, LeaveSave, Go, TypeOK
<1>2. CASE ClientStep(c)
  BY <1>2 DEF ClientStep, Construct, FindCache, ReadCache, Login, OpenCache, WriteCache,
     SaveFails, Die, Go, TypeOK
<1>3. CASE Clear \/ Tick \/ UNCHANGED vars
  BY <1>3 DEF Clear, Tick, vars
<1> QED BY <1>1, <1>2, <1>3 DEF Next

\* Comparing cut timestamps is as good as comparing the times themselves, and
\* the latency of the exchange is all the buffer has to make up for.
THEOREM AdoptedAlive == Spec => AdoptedTokenIsAlive
<1> DEFINE Adoption(c) == /\ pc[c] = "validate" /\ pc'[c] = "ready"
                          /\ holder'[c] # holder[c]
                          /\ local[c].declared
                          => now + Buffer < local[c].real + MaxLatency
<1>1. TypeOK /\ HasToken /\ Reckoning /\ [Next]_vars
        => [\A c \in Clients : Adoption(c)]_vars
  <2> SUFFICES ASSUME TypeOK, HasToken, Reckoning, [Next]_vars, NEW c \in Clients,
                      pc[c] = "validate", pc'[c] = "ready", holder'[c] # holder[c],
                      local[c].declared
               PROVE  now + Buffer < local[c].real + MaxLatency
    OBVIOUS
  <2>1. Validate(c)
    BY OnlyValidateAdopts
  <2>2. IsValid(local[c])
    BY <2>1 DEF Validate
  <2> DEFINE until == local[c].until
  <2>3. local[c] \in Cached /\ Reckoned(local[c])
    BY DEF HasToken, Reckoning
  <2>4. /\ until \in Int /\ local[c].real \in Int
        /\ until <= local[c].real + MaxLatency /\ Truncate(until) = until
    BY <2>3 DEF Cached, Reckoned
  <2>5. Truncate(now) + Buffer < until
    BY <2>2 DEF IsValid
  <2>6. /\ now \in Int /\ Buffer \in Int /\ Resolution \in Int /\ MaxLatency \in Int
        /\ Truncate(Buffer) = Buffer
    BY TimeAssumption DEF TypeOK, Time
  <2>7. /\ Truncate(now) \in Int /\ now < Truncate(now) + Resolution
        /\ Truncate(Truncate(now)) = Truncate(now)
    BY <2>6, TruncateLemma
  <2>8. Truncate(Truncate(now) + Buffer) = Truncate(now) + Buffer
    BY <2>6, <2>7, TruncateSum
  <2>9. Truncate(now) + Buffer + Resolution <= until
    BY <2>4, <2>5, <2>6, <2>7, <2>8, TruncateApart
  <2> QED BY <2>4, <2>6, <2>7, <2>9
<1> QED BY <1>1, TypeInvariant, ReckoningInvariant, PTL DEF Spec, AdoptedTokenIsAlive

-----------------------------------------------------------------------------
(* Reuse of a saved session *)

\* Who has the file open is at the write, and one who has had it alone finds it
\* as empty as when it was opened: nobody else can have written.
SaverInv ==
  /\ \A c \in writers : pc[c] = "write"
  /\ alone => \A c, d \in writers : c = d
  /\ alone /\ writers # {} => file = Empty

\* A stable file holds a token and nobody has it open.  Only while it is stable
\* are there clients that may count on it; one that has read it has this token,
\* one that is ready uses it, finds it expired, or has logged in.
ReuseInv ==
  /\ SaverInv
  /\ stable => writers = {} /\ file \in Cached
  /\ reusing # {} => stable
  /\ \A c \in reusing :
       /\ pc[c] \notin {"start", "notConstructed"}
       /\ pc[c] = "validate" => local[c] = file
       /\ pc[c] = "ready" => \/ holder[c] = file
                             \/ ~IsValid(file)
                             \/ holder[c] \in Cached /\ holder[c].owner = c
       /\ pc[c] \in {"save", "write"} => holder[c] \in Cached /\ holder[c].owner = c

\* Time does not make an expired token valid again.
LEMMA ExpiredStays ==
  ASSUME TypeOK, NEW token \in Cached, ~IsValid(token), now' = now \/ now' = now + 1
  PROVE  ~IsValid(token)'
<1>1. now \in Int /\ now' \in Int /\ now <= now' /\ Buffer \in Int /\ token.until \in Int
  BY TimeAssumption DEF TypeOK, Time, Cached
<1>2. Truncate(now) <= Truncate(now') /\ Truncate(now) \in Int /\ Truncate(now') \in Int
  BY <1>1, TruncateMonotone, TruncateLemma
<1>3. Truncate(now)' = Truncate(now')
  BY DEF Truncate
<1> QED BY <1>1, <1>2, <1>3 DEF IsValid

\* Clients find, use and replace the saved session as ReuseInv says.
LEMMA ReuseInvariant == Spec => []ReuseInv
<1>1. Init => ReuseInv
  BY DEF Init, ReuseInv, SaverInv
<1>2. TypeOK /\ HasToken /\ ReuseInv /\ [Next]_vars => ReuseInv'
  <2> SUFFICES ASSUME TypeOK, HasToken, ReuseInv, [Next]_vars PROVE ReuseInv'
    OBVIOUS
  <2> USE FileAssumption DEF TypeOK, HasToken, ReuseInv, SaverInv, Go, Hold, Keep, UnchangedFile
  <2>0. now' = now => \A token : IsValid(token)' = IsValid(token)
    BY DEF IsValid, Truncate
  <2>1. ASSUME NEW c \in Clients, Construct(c) PROVE ReuseInv'
    BY <2>0, <2>1 DEF Construct
  <2>2. ASSUME NEW c \in Clients, FindCache(c) PROVE ReuseInv'
    BY <2>0, <2>2 DEF FindCache
  <2>3. ASSUME NEW c \in Clients, ReadCache(c) PROVE ReuseInv'
    BY <2>0, <2>3 DEF ReadCache
  <2>4. ASSUME NEW c \in Clients, Validate(c) PROVE ReuseInv'
    BY <2>0, <2>4 DEF Validate
  <2>5. ASSUME NEW c \in Clients, Login(c) PROVE ReuseInv'
    <3>1. PICK life \in Lives, latency \in 0..MaxLatency, declared \in BOOLEAN :
            LET token == Noted(c, now - latency, life, declared) IN
            /\ Hold(c, token)
            /\ \/ Keep(c, token) /\ Go(c, "save")
               \/ UNCHANGED <<local, pc>>
      BY <2>5 DEF Login
    <3> DEFINE token == Noted(c, now - latency, life, declared)
    <3>2. token \in Cached /\ token.owner = c
      BY NotedType DEF Noted
    <3> HIDE DEF token
    <3>3. Hold(c, token) /\ ((Keep(c, token) /\ Go(c, "save")) \/ UNCHANGED <<local, pc>>)
      BY <3>1 DEF token
    <3> QED BY <2>0, <2>5, <3>2, <3>3 DEF Login
  <2>6. ASSUME NEW c \in Clients, OpenCache(c) PROVE ReuseInv'
    BY <2>6 DEF OpenCache, Disturb
  <2>7. ASSUME NEW c \in Clients, WriteCache(c) PROVE ReuseInv'
    BY <2>0, <2>7 DEF WriteCache, LeaveSave
  <2>8. ASSUME NEW c \in Clients, SaveFails(c) PROVE ReuseInv'
    BY <2>0, <2>8 DEF SaveFails, LeaveSave, LeaveUnfinished
  <2>9. ASSUME NEW c \in Clients, Die(c) PROVE ReuseInv'
    BY <2>0, <2>9 DEF Die, LeaveUnfinished
  <2>10. CASE Clear
    BY <2>10 DEF Clear, Disturb
  <2>11. CASE Tick
    BY <2>11, ExpiredStays DEF Tick
  <2>12. CASE UNCHANGED vars
    BY <2>0, <2>12 DEF vars
  <2> QED BY <2>1, <2>2, <2>3, <2>4, <2>5, <2>6, <2>7, <2>8, <2>9, <2>10, <2>11,
             <2>12 DEF Next, ClientStep
<1> QED BY <1>1, <1>2, TypeInvariant, PTL DEF Spec

\* A client that starts after a complete save, one that overlapped no other, has
\* the saved session until it expires or somebody replaces or removes it.
THEOREM Reused == Spec => []SessionIsReused
<1>1. ReuseInv => SessionIsReused
  BY DEF ReuseInv, SessionIsReused
<1> QED BY <1>1, ReuseInvariant, PTL
=============================================================================
