--------------------------- MODULE TokenSession ----------------------------
(***************************************************************************)
(* The OIDC session of several programs that share one token cache file:   *)
(* auth/session.py (OAuthSessionManager), auth/token_cache.py (TokenCache) *)
(* and the OAuthTokenHolder of auth/oauth_pkce.py.  Each client is one     *)
(* Client object in a program of its own (the dirctl CLI writes the same   *)
(* file the same way).  A program may die between any two steps; opening   *)
(* the file for writing truncates it, and writing it is a second step.     *)
(*                                                                         *)
(* Time counts ticks, of which a millisecond has Resolution: the clock is  *)
(* finer than the timestamps of the cache.  The clocks of the programs     *)
(* agree and do not go back.  The browser login is in LoopbackLogin; here  *)
(* it is the arrival of a token the provider issued at most MaxLatency     *)
(* earlier (the timeout of the exchange).                                  *)
(* Operators named Mutant... are faulty variants of the definition that    *)
(* follows them, kept to show that the properties notice such a fault.     *)
(***************************************************************************)
EXTENDS Integers

CONSTANTS
  Clients,      \* Client objects, one per program
  Explicit,     \* those configured with an auth_token
  Lives,        \* values of expires_in, in ticks
  Resolution,   \* ticks per millisecond
  Buffer,       \* TOKEN_EXPIRY_BUFFER, in ticks
  Default,      \* DEFAULT_TOKEN_VALIDITY_DURATION, in ticks
  MaxLatency,   \* the longest time between issue and receipt of a token
  MaxTime,      \* bound: ticks
  None, Given,  \* no token; the token a client was configured with
  Absent,       \* the cache file: missing,
  Empty,        \*   truncated, with nothing written since,
  Torn          \*   no JSON document: a part of one, or one with a tail of another

\* Timestamps are cut to milliseconds, both the clock and the stored ones.
Truncate(t) == Resolution * (t \div Resolution)

ASSUME ExplicitAssumption == Explicit \subseteq Clients
ASSUME TimeAssumption ==
  /\ Lives \subseteq Nat
  /\ Resolution \in Nat \ {0}
  /\ Buffer \in Nat /\ Truncate(Buffer) = Buffer
  /\ Default \in Nat /\ MaxLatency \in Nat /\ MaxTime \in Nat

Time == 0..MaxTime

\* A CachedToken and what the provider knows of it: the client it was issued
\* to, when it stops being accepted, whether the response had an expires_in,
\* and until when the client takes it to be good (expires_at, or created_at
\* plus Default).
Cached == [owner : Clients, real : Int, declared : BOOLEAN, until : Int]

ASSUME FileAssumption ==
  /\ Absent # Empty /\ Absent # Torn /\ Empty # Torn
  /\ {Absent, Empty, Torn, None, Given} \cap Cached = {}

VARIABLES
  now,
  file,     \* the cache file
  writers,  \* the programs that have it open for writing
  pc,       \* where each program is
  holder,   \* its OAuthTokenHolder
  local,    \* the token it has loaded or is saving
  alone,    \* history: nobody had the file open when it was opened for
            \*   writing last
  stable,   \* history: no save or removal of the file has begun since one
            \*   that overlapped no other was complete
  reusing   \* history: clients constructed, or being constructed, while stable

vars == <<now, file, writers, pc, holder, local, alone, stable, reusing>>

Init ==
  /\ now = 0
  /\ file = Absent
  /\ writers = {}
  /\ pc = [c \in Clients |-> "start"]
  /\ holder = [c \in Clients |-> None]
  /\ local = [c \in Clients |-> None]
  /\ alone = FALSE
  /\ stable = FALSE
  /\ reusing = {}

Go(c, where) == pc' = [pc EXCEPT ![c] = where]
Hold(c, token) == holder' = [holder EXCEPT ![c] = token]
Keep(c, token) == local' = [local EXCEPT ![c] = token]

\* The file is about to change: nothing can be expected of it any more.
Disturb == stable' = FALSE /\ reusing' = {}
UnchangedFile == UNCHANGED <<file, writers, alone, stable, reusing>>

-----------------------------------------------------------------------------
(* Client(config): OAuthSessionManager.__init__ *)

\* An explicit auth_token is used as it is; otherwise the cache is looked for.
Construct(c) ==
  /\ pc[c] = "start"
  /\ IF c \in Explicit
       THEN /\ Hold(c, Given)
            /\ Go(c, "ready")
            /\ UNCHANGED reusing
       ELSE /\ Go(c, "findCache")
            /\ reusing' = IF stable THEN reusing \cup {c} ELSE reusing
            /\ UNCHANGED holder
  /\ UNCHANGED <<now, file, writers, local, alone, stable>>

\* load: path.exists()
FindCache(c) ==
  /\ pc[c] = "findCache"
  /\ Go(c, IF file = Absent THEN "ready" ELSE "readCache")
  /\ UNCHANGED <<now, holder, local>> /\ UnchangedFile

\* A document that cannot be parsed is taken for a token.
MutantNoParse(c) ==
  /\ pc[c] = "readCache"
  /\ Go(c, "validate") /\ Keep(c, file)
  /\ UNCHANGED <<now, holder>> /\ UnchangedFile

\* load: path.open() and json.load; the file may be gone, empty or torn by
\* now, and then the constructor raises.
ReadCache(c) ==
  /\ pc[c] = "readCache"
  /\ IF file \in {Absent, Empty, Torn}
       THEN Go(c, "notConstructed") /\ UNCHANGED local
       ELSE Go(c, "validate") /\ Keep(c, file)
  /\ UNCHANGED <<now, holder>> /\ UnchangedFile

MutantNoBuffer(token) == Truncate(now) < token.until

\* is_valid
IsValid(token) ==
  Truncate(now) + (IF token.declared THEN Buffer ELSE 0) < token.until

\* get_valid_token: only the time counts, not the issuer.
Validate(c) ==
  /\ pc[c] = "validate"
  /\ IF IsValid(local[c]) THEN Hold(c, local[c]) ELSE UNCHANGED holder
  /\ Keep(c, None)
  /\ Go(c, "ready")
  /\ UNCHANGED now /\ UnchangedFile

-----------------------------------------------------------------------------
(* authenticate_oauth_pkce *)

\* What cached_token_from_response and to_json write down of a token received
\* now: expires_in counts from now, or is missing.
Noted(c, issued, life, declared) ==
  [owner |-> c, real |-> issued + life, declared |-> declared,
   until |-> IF declared THEN Truncate(now + life) ELSE Truncate(now) + Default]

\* A token arrives (a login that fails before that raises and changes nothing).
\* update_from_token_response gives it to the holder, then the token to be
\* saved is built: an expires_in that is no number raises there, the client has
\* the token and the cache does not.
Login(c) ==
  /\ pc[c] = "ready"
  /\ \E life \in Lives, latency \in 0..MaxLatency, declared \in BOOLEAN :
       LET token == Noted(c, now - latency, life, declared) IN
       /\ Hold(c, token)
       /\ \/ Keep(c, token) /\ Go(c, "save")
          \/ UNCHANGED <<local, pc>>
  /\ UNCHANGED now /\ UnchangedFile

\* The file is opened without being emptied.
MutantNoTruncate(c) ==
  /\ pc[c] = "save"
  /\ file' = IF file = Absent THEN Empty ELSE file
  /\ writers' = writers \cup {c}
  /\ alone' = (writers = {})
  /\ Disturb
  /\ Go(c, "write")
  /\ UNCHANGED <<now, holder, local>>

\* save: opening the file for writing empties it, whoever else has it open.
OpenCache(c) ==
  /\ pc[c] = "save"
  /\ file' = Empty
  /\ writers' = writers \cup {c}
  /\ alone' = (writers = {})
  /\ Disturb
  /\ Go(c, "write")
  /\ UNCHANGED <<now, holder, local>>

\* authenticate ends, with None or with what save raised.
LeaveSave(c) ==
  /\ writers' = writers \ {c}
  /\ Keep(c, None)
  /\ Go(c, "ready")
  /\ UNCHANGED <<now, holder>>

\* save: the document is written from the start of the file and nothing is cut
\* off behind it.  Over what others have written since the file was opened, whole
\* or in part, it may leave a tail; into a file that was removed meanwhile it is
\* lost.
WriteCache(c) ==
  /\ pc[c] = "write"
  /\ IF c \in writers
       THEN file' \in IF file = Empty THEN {local[c]} ELSE {local[c], Torn}
       ELSE UNCHANGED file
  /\ stable' = (stable \/ (c \in writers /\ alone))
  /\ LeaveSave(c)
  /\ UNCHANGED <<alone, reusing>>

\* An unfinished write leaves what was there, or a part of the document.
LeaveUnfinished(c) == IF c \in writers THEN file' \in {file, Torn} ELSE UNCHANGED file

\* The directory, the file or the disk refuses: save raises where it is.
SaveFails(c) ==
  /\ pc[c] \in {"save", "write"}
  /\ LeaveUnfinished(c)
  /\ LeaveSave(c)
  /\ UNCHANGED <<alone, stable, reusing>>

-----------------------------------------------------------------------------
(* Around the programs *)

\* A program ends, or is killed, wherever it is.
Die(c) ==
  /\ pc[c] # "dead"
  /\ LeaveUnfinished(c)
  /\ writers' = writers \ {c}
  /\ Keep(c, None)
  /\ Hold(c, None)
  /\ Go(c, "dead")
  /\ UNCHANGED <<now, alone, stable, reusing>>

\* clear: the session is ended by removing the file.
Clear ==
  /\ file # Absent
  /\ file' = Absent
  /\ writers' = {}
  /\ Disturb
  /\ UNCHANGED <<now, pc, holder, local, alone>>

Tick ==
  /\ now < MaxTime
  /\ now' = now + 1
  /\ UNCHANGED <<file, writers, pc, holder, local, alone, stable, reusing>>

-----------------------------------------------------------------------------
ClientStep(c) ==
  \/ Construct(c) \/ FindCache(c) \/ ReadCache(c) \/ Validate(c)
  \/ Login(c) \/ OpenCache(c) \/ WriteCache(c) \/ SaveFails(c) \/ Die(c)

Next == (\E c \in Clients : ClientStep(c)) \/ Clear \/ Tick

Spec == Init /\ [][Next]_vars

-----------------------------------------------------------------------------
(* Properties *)

\* Every variable holds a value the code could hold there.
TypeOK ==
  /\ now \in Time
  /\ file \in Cached \cup {Absent, Empty, Torn}
  /\ writers \subseteq Clients
  /\ pc \in [Clients -> {"start", "findCache", "readCache", "validate", "notConstructed",
                         "ready", "save", "write", "dead"}]
  /\ holder \in [Clients -> Cached \cup {None, Given}]
  /\ local \in [Clients -> Cached \cup {None}]
  /\ alone \in BOOLEAN
  /\ stable \in BOOLEAN
  /\ reusing \subseteq Clients

\* A session taken from the cache is good for Buffer - MaxLatency at least: the
\* client reckons the expiry from the receipt of the token, later than the
\* provider does, and the buffer makes up for it; that the timestamps compared
\* are cut to milliseconds costs nothing.
AdoptedTokenIsAlive ==
  [][\A c \in Clients :
       /\ pc[c] = "validate" /\ pc'[c] = "ready"
       /\ holder'[c] # holder[c]
       /\ local[c].declared
       => now + Buffer < local[c].real + MaxLatency]_vars

\* README.md: "the SDK will also try to reuse a valid cached interactive token".
\* A client whose construction begins after a save that overlapped no other was
\* complete, with no save or removal begun since, is constructed and uses the
\* saved token as long as it is valid, unless it has logged in itself.  Whatever
\* earlier saves have left in the file, broken off or mixed, does not matter.
\* (Saves that overlap may leave a torn file behind, all of them complete.)
SessionIsReused ==
  \A c \in reusing :
    /\ pc[c] # "notConstructed"
    /\ pc[c] = "ready" /\ IsValid(file)
         => holder[c] = file \/ (holder[c] \in Cached /\ holder[c].owner = c)

\* README.md: "If no explicit auth_token is provided, the SDK will also try to
\* reuse a valid cached interactive token".  Trying it is harmless: whatever
\* state the cache file is in, the client is constructed.
ConstructionSurvivesCache == \A c \in Clients : pc[c] # "notConstructed"
=============================================================================
