--------------------------- MODULE LoopbackLogin ---------------------------
(***************************************************************************)
(* The browser login of auth/oauth_pkce.py, run_loopback_pkce_login: the   *)
(* calling thread binds a one-port HTTP server, serves it from a second    *)
(* thread, opens the browser, waits for the redirect, exchanges the code   *)
(* and shuts the server down.  Several logins may run, one after the other *)
(* (a retry) or at once (two threads, two programs): they share the port.  *)
(*                                                                         *)
(* The browser and the identity provider are external: they open           *)
(* connections to whatever listens on the port, with a redirect for any    *)
(* login whose authorization page was opened, or with something else.      *)
(* Operators named Mutant... are faulty variants of the definition that    *)
(* follows them, kept to show that the properties notice such a fault.     *)
(***************************************************************************)
EXTENDS Naturals, Sequences

CONSTANTS
  Logins,          \* calls of run_loopback_pkce_login; names state and code too
  Nobody,          \* not a login: a free port, a request without a state
  MaxRequests,     \* bound: connections opened to the port
  BrowserMayRaise  \* whether webbrowser.open may raise (Ctrl-C in a console browser)

ASSUME NobodyAssumption == Nobody \notin Logins
ASSUME LoginBoundAssumption == MaxRequests \in Nat
ASSUME BrowserAssumption == BrowserMayRaise \in BOOLEAN

\* A request is a redirect with the state of some login (with its code, with an
\* error, or with neither), a GET of another path, a GET whose target urlparse
\* rejects, another method, or a connection on which nothing is sent.
Requests ==
  [kind : {"granted", "denied", "codeless"}, login : Logins]
    \cup [kind : {"otherPath", "unparsable", "otherMethod", "silent"}, login : {Nobody}]

\* The successful redirect of a login.
Granted(l) == [kind |-> "granted", login |-> l]

VARIABLES
  pc,       \* the calling thread of each login
  outcome,  \* what it will return or raise
  code,     \* its local _code_ (the login the code was granted to)
  result,   \* its result["code"]
  errors,   \* the requests error_holder has a message for
  done,     \* its Event
  stop,     \* __shutdown_request of its server
  thread,   \* its server thread
  serving,  \* the request that thread handles
  handled,  \* history: the requests it has taken
  port,     \* the login whose server is bound to the port
  backlog,  \* connections the bound server has not accepted
  opened,   \* logins whose authorization page was opened
  sent      \* connections opened so far

callerVars == <<pc, outcome, code>>
sharedVars == <<result, errors, done>>
threadVars == <<thread, serving, handled>>
netVars == <<port, backlog, opened, sent>>
vars == <<callerVars, sharedVars, stop, threadVars, netVars>>

Ended(l) == pc[l] \in {"returned", "raised"}

Init ==
  /\ pc = [l \in Logins |-> "bind"]
  /\ outcome = [l \in Logins |-> "none"]
  /\ code = [l \in Logins |-> Nobody]
  /\ result = [l \in Logins |-> Nobody]
  /\ errors = [l \in Logins |-> {}]
  /\ done = [l \in Logins |-> FALSE]
  /\ stop = [l \in Logins |-> FALSE]
  /\ thread = [l \in Logins |-> "off"]
  /\ serving = [l \in Logins |-> {}]
  /\ handled = [l \in Logins |-> {}]
  /\ port = Nobody
  /\ backlog = <<>>
  /\ opened = {}
  /\ sent = 0

-----------------------------------------------------------------------------
(* The calling thread *)

\* A missing setting, discovery or the bind fails: nothing was started.
FailEarly(l) ==
  /\ pc[l] = "bind"
  /\ pc' = [pc EXCEPT ![l] = "raised"]
  /\ outcome' = [outcome EXCEPT ![l] = "notStarted"]
  /\ UNCHANGED <<code, sharedVars, stop, threadVars, netVars>>

\* HTTPServer(...) and thread.start().
Bind(l) ==
  /\ pc[l] = "bind"
  /\ port = Nobody
  /\ port' = l
  /\ thread' = [thread EXCEPT ![l] = "idle"]
  /\ pc' = [pc EXCEPT ![l] = "open"]
  /\ UNCHANGED <<outcome, code, sharedVars, stop, serving, handled, backlog, opened, sent>>

\* webbrowser.open: outside the try whose finally stops the server.
OpenBrowser(l) ==
  /\ pc[l] = "open"
  /\ opened' = opened \cup {l}
  /\ \/ /\ pc' = [pc EXCEPT ![l] = "wait"]
        /\ UNCHANGED outcome
     \/ /\ BrowserMayRaise
        /\ pc' = [pc EXCEPT ![l] = "raised"]
        /\ outcome' = [outcome EXCEPT ![l] = "browser"]
  /\ UNCHANGED <<code, sharedVars, stop, threadVars, port, backlog, sent>>

\* The calling thread moves on, or leaves the try block with a result.
Continue(l, where) ==
  /\ pc' = [pc EXCEPT ![l] = where]
  /\ UNCHANGED outcome
Leave(l, what) ==
  /\ pc' = [pc EXCEPT ![l] = "shutdown"]
  /\ outcome' = [outcome EXCEPT ![l] = what]

\* done.wait(timeout)
Wait(l) ==
  /\ pc[l] = "wait"
  /\ IF done[l] THEN Continue(l, "checkErrors") ELSE Leave(l, "timeout")
  /\ UNCHANGED <<code, sharedVars, stop, threadVars, netVars>>

MutantIgnoreErrors(l) ==
  /\ pc[l] = "checkErrors"
  /\ Continue(l, "readCode")
  /\ UNCHANGED <<code, sharedVars, stop, threadVars, netVars>>

\* if error_holder: raise
CheckErrors(l) ==
  /\ pc[l] = "checkErrors"
  /\ IF errors[l] # {} THEN Leave(l, "refused") ELSE Continue(l, "readCode")
  /\ UNCHANGED <<code, sharedVars, stop, threadVars, netVars>>

\* The whole dictionary is taken for the code.
MutantWholeResult(l) ==
  /\ pc[l] = "readCode"
  /\ code' = [code EXCEPT ![l] = result]
  /\ IF result[l] = Nobody THEN Leave(l, "noCode") ELSE Continue(l, "exchange")
  /\ UNCHANGED <<sharedVars, stop, threadVars, netVars>>

\* code = result.get("code")
ReadCode(l) ==
  /\ pc[l] = "readCode"
  /\ code' = [code EXCEPT ![l] = result[l]]
  /\ IF result[l] = Nobody THEN Leave(l, "noCode") ELSE Continue(l, "exchange")
  /\ UNCHANGED <<sharedVars, stop, threadVars, netVars>>

\* The token endpoint answers with tokens, or the POST raises.
ExchangeOutcomes == {"token", "exchangeFailed"}

\* exchange_authorization_code, with the verifier of this login.
Exchange(l) ==
  /\ pc[l] = "exchange"
  /\ \E what \in ExchangeOutcomes : Leave(l, what)
  /\ UNCHANGED <<code, sharedVars, stop, threadVars, netVars>>

\* The thread is joined without having been told to stop.
MutantNoShutdown(l) ==
  /\ pc[l] = "shutdown"
  /\ Continue(l, "join")
  /\ UNCHANGED <<code, sharedVars, stop, threadVars, netVars>>

\* server.shutdown() asks the loop to end ...
Shutdown(l) ==
  /\ pc[l] = "shutdown"
  /\ stop' = [stop EXCEPT ![l] = TRUE]
  /\ Continue(l, "join")
  /\ UNCHANGED <<code, sharedVars, threadVars, netVars>>

Finished(l) == IF outcome[l] = "token" THEN "returned" ELSE "raised"

\* The socket is closed without waiting for the loop.
MutantNoJoin(l) ==
  /\ pc[l] = "join"
  /\ port' = Nobody
  /\ backlog' = <<>>
  /\ Continue(l, Finished(l))
  /\ UNCHANGED <<code, sharedVars, stop, threadVars, opened, sent>>

\* ... and waits until it has; then join and server_close.
Close(l) ==
  /\ pc[l] = "join"
  /\ thread[l] = "ended"
  /\ port' = Nobody
  /\ backlog' = <<>>
  /\ Continue(l, Finished(l))
  /\ UNCHANGED <<code, sharedVars, stop, threadVars, opened, sent>>

-----------------------------------------------------------------------------
(* The server thread: serve_forever and do_GET, one connection at a time *)

Accept(l) ==
  /\ thread[l] = "idle"
  /\ ~stop[l]
  /\ port = l
  /\ backlog # <<>>
  /\ thread' = [thread EXCEPT ![l] = "serving"]
  /\ serving' = [serving EXCEPT ![l] = {Head(backlog)}]
  /\ handled' = [handled EXCEPT ![l] = @ \cup {Head(backlog)}]
  /\ backlog' = Tail(backlog)
  /\ UNCHANGED <<callerVars, sharedVars, stop, port, opened, sent>>

MutantNoStateCheck(l, r) ==
  IF r.kind = "unparsable" THEN "nothing" ELSE IF r.kind = "granted" THEN "code" ELSE "error"

\* What the tests of do_GET (path, error, state, code, in this order) record: a
\* code only for a redirect with this login's state, a code and no error.  An
\* error parameter is believed whatever the state; a target that cannot be
\* parsed leaves nothing behind.
Verdict(l, r) ==
  IF r.kind = "unparsable" THEN "nothing" ELSE IF r = Granted(l) THEN "code" ELSE "error"

\* done is set before the outcome is recorded.
MutantDoneFirst(l, r) ==
  /\ thread[l] = "serving"
  /\ r \in serving[l]
  /\ r.kind \notin {"silent", "otherMethod"}
  /\ done' = [done EXCEPT ![l] = TRUE]
  /\ IF done[l]
       THEN /\ errors' = IF Verdict(l, r) = "error" THEN [errors EXCEPT ![l] = @ \cup {r}] ELSE errors
            /\ result' = IF Verdict(l, r) = "code" THEN [result EXCEPT ![l] = l] ELSE result
            /\ thread' = [thread EXCEPT ![l] = "recorded"]
       ELSE UNCHANGED <<errors, result, thread>>
  /\ UNCHANGED <<callerVars, stop, serving, handled, netVars>>

\* The thread has accepted a connection with this request on it.
Handles(l, r) == thread[l] = "serving" /\ r \in serving[l]

\* do_GET up to the page it writes.
Record(l, r) ==
  /\ Handles(l, r)
  /\ r.kind \notin {"silent", "otherMethod"}
  /\ errors' = IF Verdict(l, r) = "error" THEN [errors EXCEPT ![l] = @ \cup {r}] ELSE errors
  /\ result' = IF Verdict(l, r) = "code" THEN [result EXCEPT ![l] = r.login] ELSE result
  /\ thread' = [thread EXCEPT ![l] = "recorded"]
  /\ UNCHANGED <<callerVars, done, stop, serving, handled, netVars>>

\* The page is written or the browser is gone; either way finally: done.set().
Answer(l) ==
  /\ thread[l] = "recorded"
  /\ done' = [done EXCEPT ![l] = TRUE]
  /\ thread' = [thread EXCEPT ![l] = "idle"]
  /\ serving' = [serving EXCEPT ![l] = {}]
  /\ UNCHANGED <<callerVars, result, errors, stop, handled, netVars>>

\* 501 for another method: do_GET does not run.
RejectMethod(l) ==
  /\ \E r \in Requests : Handles(l, r) /\ r.kind = "otherMethod"
  /\ thread' = [thread EXCEPT ![l] = "idle"]
  /\ serving' = [serving EXCEPT ![l] = {}]
  /\ UNCHANGED <<callerVars, sharedVars, stop, handled, netVars>>

\* The client closes a connection it never used; until then the thread reads.
HangUp(l) ==
  /\ \E r \in Requests : Handles(l, r) /\ r.kind = "silent"
  /\ thread' = [thread EXCEPT ![l] = "idle"]
  /\ serving' = [serving EXCEPT ![l] = {}]
  /\ UNCHANGED <<callerVars, sharedVars, stop, handled, netVars>>

\* while not __shutdown_request
CanEndLoop(l) == thread[l] = "idle" /\ stop[l]
EndLoop(l) ==
  /\ CanEndLoop(l)
  /\ thread' = [thread EXCEPT ![l] = "ended"]
  /\ UNCHANGED <<callerVars, sharedVars, stop, serving, handled, netVars>>

-----------------------------------------------------------------------------
(* The browser *)

\* A connection to the port.  A redirect for a login exists once its page was
\* opened, and may reach the server of a later login.
Connect(r) ==
  /\ port # Nobody
  /\ sent < MaxRequests
  /\ r.login \in opened \cup {Nobody}
  /\ backlog' = Append(backlog, r)
  /\ sent' = sent + 1
  /\ UNCHANGED <<callerVars, sharedVars, stop, threadVars, port, opened>>

-----------------------------------------------------------------------------
CallerStep(l) ==
  \/ FailEarly(l) \/ Bind(l) \/ OpenBrowser(l) \/ Wait(l) \/ CheckErrors(l)
  \/ ReadCode(l) \/ Exchange(l) \/ Shutdown(l) \/ Close(l)

ServerStep(l) ==
  \/ Accept(l) \/ Answer(l) \/ RejectMethod(l) \/ EndLoop(l)
  \/ \E r \in Requests : Record(l, r)

Next ==
  \/ \E l \in Logins : CallerStep(l) \/ ServerStep(l) \/ HangUp(l)
  \/ \E r \in Requests : Connect(r)

Spec == Init /\ [][Next]_vars

\* Both threads of a login keep running: the wait has a timeout, the exchange
\* has one, and the loop polls.  Nothing makes a client close its connection.
FairSpec == Spec /\ \A l \in Logins : WF_vars(CallerStep(l)) /\ WF_vars(ServerStep(l))

\* ... and clients do close the connections they do not use.
PatientSpec == FairSpec /\ \A l \in Logins : WF_vars(HangUp(l))

-----------------------------------------------------------------------------
(* Properties *)

\* Every variable holds a value the code could hold there.
TypeOK ==
  /\ pc \in [Logins -> {"bind", "open", "wait", "checkErrors", "readCode", "exchange",
                        "shutdown", "join", "returned", "raised"}]
  /\ outcome \in [Logins -> {"none", "notStarted", "browser", "timeout", "refused",
                             "noCode", "token", "exchangeFailed"}]
  /\ code \in [Logins -> Logins \cup {Nobody}]
  /\ result \in [Logins -> Logins \cup {Nobody}]
  /\ errors \in [Logins -> SUBSET Requests]
  /\ done \in [Logins -> BOOLEAN]
  /\ stop \in [Logins -> BOOLEAN]
  /\ thread \in [Logins -> {"off", "idle", "serving", "recorded", "ended"}]
  /\ serving \in [Logins -> SUBSET Requests]
  /\ handled \in [Logins -> SUBSET Requests]
  /\ port \in Logins \cup {Nobody}
  /\ backlog \in Seq(Requests)
  /\ opened \subseteq Logins
  /\ sent \in 0..MaxRequests

\* The state check keeps attempts apart: the code a login exchanges, with its
\* own verifier, is the one granted to it, not that of an earlier or a
\* concurrent attempt whose redirect reached this server.
CodeBelongsToThisLogin ==
  \A l \in Logins :
    pc[l] = "exchange" \/ outcome[l] = "token"
      => code[l] = l /\ Granted(l) \in handled[l]

\* README.md: "The SDK starts a short-lived HTTP server on loopback to receive
\* the authorization redirect."  When the login is over, however it ended, its
\* server thread has ended and the port is not held, so that a retry can bind.
ServerIsShortLived ==
  \A l \in Logins :
    Ended(l) => port # l /\ thread[l] \in {"off", "ended"} /\ serving[l] = {}

\* The same of every login that did not end in an exception out of
\* webbrowser.open: the port and the thread are released whatever the server
\* was doing when the wait timed out, and a retry meets neither.  The exception
\* leaves both behind for good: the port stays bound and is served, so that no
\* retry can bind.
ServerStops ==
  \A l \in Logins :
    /\ Ended(l) /\ outcome[l] # "browser"
         => port # l /\ thread[l] \in {"off", "ended"} /\ serving[l] = {}
    /\ outcome[l] = "browser"
         => Ended(l) /\ port = l /\ thread[l] \notin {"off", "ended"}

\* A login whose server only ever saw its own successful redirect does not fail
\* on what it finds recorded: the Event is set after the outcome is written.
FailureHasACause ==
  \A l \in Logins :
    outcome[l] \in {"refused", "noCode"} => handled[l] \ {Granted(l)} # {}

\* An error the handler recorded before the caller looked (the user refused, a
\* stray request, the redirect of another attempt) ends the login without a
\* token, even if the code arrives too.
ErrorsAreFinal ==
  \A l \in Logins :
    []( errors[l] # {} /\ pc[l] \in {"open", "wait", "checkErrors"}
          => [](outcome[l] # "token") )

\* What the server thread can do by itself: end, write a page, or read a request.
GoesOn(l) ==
  \/ CanEndLoop(l)
  \/ thread[l] = "recorded"
  \/ \E r \in Requests : Handles(l, r) /\ r.kind # "silent"

\* A login that waits for its server thread to end waits for a thread that goes on,
\* unless a client keeps a connection open and sends nothing: the silent client of
\* the finding is the only one that can keep it waiting.
OnlySilenceDelays ==
  \A l \in Logins :
    pc[l] = "join" =>
      \/ thread[l] = "ended"
      \/ GoesOn(l)
      \/ \E r \in Requests : Handles(l, r) /\ r.kind = "silent"

\* Whoever starts a login gets an answer.
LoginEnds == \A l \in Logins : <>Ended(l)
=============================================================================
