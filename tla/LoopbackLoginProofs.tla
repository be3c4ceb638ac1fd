------------------------ MODULE LoopbackLoginProofs ------------------------
(***************************************************************************)
(* What holds of LoopbackLogin for any number of logins and connections.   *)
(***************************************************************************)
EXTENDS LoopbackLogin, TLAPS

\* Every caller, server and browser step, with the login or request it is for.
LEMMA StepCases ==
  ASSUME [Next]_vars, NEW P,
         \A l \in Logins :
           FailEarly(l) \/ Bind(l) \/ OpenBrowser(l) \/ Wait(l) \/ CheckErrors(l)
             \/ ReadCode(l) \/ Exchange(l) \/ Shutdown(l) \/ Close(l) => P,
         \A l \in Logins :
           Accept(l) \/ Answer(l) \/ RejectMethod(l) \/ HangUp(l) \/ EndLoop(l) => P,
         \A l \in Logins, r \in Requests : Record(l, r) => P,
         \A r \in Requests : Connect(r) => P,
         UNCHANGED vars => P
  PROVE  P
BY DEF Next, CallerStep, ServerStep

-----------------------------------------------------------------------------
(* Type correctness *)

\* The threads of a login only ever reach states of TypeOK.
THEOREM TypeInvariant == Spec => []TypeOK
<1>1. Init => TypeOK
  BY LoginBoundAssumption DEF Init, TypeOK
<1>2. TypeOK /\ [Next]_vars => TypeOK'
  <2> SUFFICES ASSUME TypeOK, [Next]_vars PROVE TypeOK'
    OBVIOUS
  <2> USE DEF TypeOK, callerVars, sharedVars, threadVars, netVars
  <2>1. ASSUME NEW l \in Logins, FailEarly(l) PROVE TypeOK'
    BY <2>1 DEF FailEarly
  <2>2. ASSUME NEW l \in Logins, Bind(l) PROVE TypeOK'
    BY <2>2 DEF Bind
  <2>3. ASSUME NEW l \in Logins, OpenBrowser(l) PROVE TypeOK'
    BY <2>3 DEF OpenBrowser
  <2>4. ASSUME NEW l \in Logins, Wait(l) PROVE TypeOK'
    BY <2>4 DEF Wait, Continue, Leave
  <2>5. ASSUME NEW l \in Logins, CheckErrors(l) PROVE TypeOK'
    BY <2>5 DEF CheckErrors, Continue, Leave
  <2>6. ASSUME NEW l \in Logins, ReadCode(l) PROVE TypeOK'
    BY <2>6 DEF ReadCode, Continue, Leave
  <2>7. ASSUME NEW l \in Logins, Exchange(l) PROVE TypeOK'
    BY <2>7 DEF Exchange, ExchangeOutcomes, Leave
  <2>8. ASSUME NEW l \in Logins, Shutdown(l) PROVE TypeOK'
    BY <2>8 DEF Shutdown, Continue
  <2>9. ASSUME NEW l \in Logins, Close(l) PROVE TypeOK'
    BY <2>9 DEF Close, Continue, Finished
  <2>10. ASSUME NEW l \in Logins, Accept(l) PROVE TypeOK'
    <3>1. Head(backlog) \in Requests /\ Tail(backlog) \in Seq(Requests)
      BY <2>10 DEF Accept
    <3> QED BY <2>10, <3>1 DEF Accept
  <2>11. ASSUME NEW l \in Logins, Answer(l) PROVE TypeOK'
    BY <2>11 DEF Answer
  <2>12. ASSUME NEW l \in Logins, RejectMethod(l) \/ HangUp(l) PROVE TypeOK'
    BY <2>12 DEF RejectMethod, Handles, HangUp
  <2>13. ASSUME NEW l \in Logins, EndLoop(l) PROVE TypeOK'
    BY <2>13 DEF EndLoop, CanEndLoop
  <2>14. ASSUME NEW l \in Logins, NEW r \in Requests, Record(l, r) PROVE TypeOK'
    <3>1. r.login \in Logins \cup {Nobody}
      BY DEF Requests
    <3> QED BY <2>14, <3>1 DEF Record, Handles
  <2>15. ASSUME NEW r \in Requests, Connect(r) PROVE TypeOK'
    BY <2>15, LoginBoundAssumption DEF Connect
  <2>16. CASE UNCHANGED vars
    BY <2>16 DEF vars
  <2> HIDE DEF TypeOK, callerVars, sharedVars, threadVars, netVars
  <2> QED BY <2>1, <2>2, <2>3, <2>4, <2>5, <2>6, <2>7, <2>8, <2>9, <2>10, <2>11,
             <2>12, <2>13, <2>14, <2>15, <2>16, StepCases
<1> QED BY <1>1, <1>2, PTL DEF Spec

-----------------------------------------------------------------------------
(* The server lives exactly as long as its login *)

\* The server of a login that is over, other than by an exception out of
\* webbrowser.open.
Released(l) == pc[l] \in {"returned", "raised"} /\ outcome[l] # "browser"

\* A login that has bound the port and not yet ended holds it, with a running
\* thread; before and after, it holds nothing.  One that webbrowser.open ended holds
\* both, and nobody has told the thread to stop.
LifeInv(l) ==
  /\ pc[l] = "bind" \/ Released(l) => port # l /\ thread[l] \in {"off", "ended"}
  /\ pc[l] \notin {"bind", "returned", "raised"} => port = l /\ thread[l] # "off"
  /\ thread[l] \notin {"serving", "recorded"} => serving[l] = {}
  /\ thread[l] = "serving" => serving[l] # {}
  /\ pc[l] = "join" => stop[l]
  /\ outcome[l] = "browser" => pc[l] = "raised" /\ port = l /\ thread[l] # "off"
  /\ pc[l] \notin {"join", "returned", "raised"} \/ outcome[l] = "browser"
       => ~stop[l] /\ thread[l] # "ended"
  /\ outcome[l] = "token" => pc[l] \in {"shutdown", "join", "returned"}

LivesInv == \A l \in Logins : LifeInv(l)

\* Where each login is, step by step, and what it holds there.
LEMMA Lives == Spec => []LivesInv
<1> DEFINE Inv == LivesInv
<1>1. Init => Inv
  <2> SUFFICES ASSUME Init, NEW l \in Logins PROVE LifeInv(l)
    BY DEF LivesInv
  <2>1. pc[l] = "bind" /\ thread[l] = "off" /\ serving[l] = {} /\ port = Nobody
    /\ outcome[l] = "none" /\ ~stop[l]
    BY DEF Init
  <2> QED BY <2>1, NobodyAssumption DEF LifeInv, Released
<1>2. TypeOK /\ Inv /\ [Next]_vars => Inv'
  <2> SUFFICES ASSUME TypeOK, Inv, [Next]_vars, NEW k \in Logins PROVE LifeInv(k)'
    BY DEF LivesInv
  <2>0. LifeInv(k) /\ (\A l \in Logins : LifeInv(l))
    BY DEF LivesInv
  <2> USE DEF LifeInv, Released, TypeOK, callerVars, sharedVars, threadVars, netVars
  <2>1. ASSUME NEW l \in Logins, FailEarly(l) PROVE LifeInv(k)'
    BY <2>0, <2>1 DEF FailEarly
  <2>2. ASSUME NEW l \in Logins, Wait(l) \/ CheckErrors(l) PROVE LifeInv(k)'
    BY <2>0, <2>2 DEF Wait, CheckErrors, Continue, Leave
  <2>3. ASSUME NEW l \in Logins, ReadCode(l) PROVE LifeInv(k)'
    BY <2>0, <2>3 DEF ReadCode, Continue, Leave
  <2>4. ASSUME NEW l \in Logins, Exchange(l) PROVE LifeInv(k)'
    BY <2>0, <2>4 DEF Exchange, ExchangeOutcomes, Leave
  <2>5. ASSUME NEW l \in Logins, Shutdown(l) PROVE LifeInv(k)'
    BY <2>0, <2>5 DEF Shutdown, Continue
  <2>6. ASSUME NEW l \in Logins, Bind(l) PROVE LifeInv(k)'
    BY <2>0, <2>6, NobodyAssumption DEF Bind
  <2>7. ASSUME NEW l \in Logins, OpenBrowser(l) PROVE LifeInv(k)'
    BY <2>0, <2>7 DEF OpenBrowser
  <2>8. ASSUME NEW l \in Logins, Close(l) PROVE LifeInv(k)'
    BY <2>0, <2>8, NobodyAssumption DEF Close, Continue, Finished
  <2>9. ASSUME NEW l \in Logins, Accept(l) PROVE LifeInv(k)'
    BY <2>0, <2>9 DEF Accept
  <2>15. ASSUME NEW l \in Logins, Answer(l) \/ RejectMethod(l) \/ HangUp(l)
         PROVE  LifeInv(k)'
    BY <2>0, <2>15 DEF Answer, RejectMethod, Handles, HangUp
  <2>10. ASSUME NEW l \in Logins, EndLoop(l) PROVE LifeInv(k)'
    BY <2>0, <2>10 DEF EndLoop, CanEndLoop
  <2>11. ASSUME NEW l \in Logins, NEW r \in Requests, Record(l, r) PROVE LifeInv(k)'
    BY <2>0, <2>11 DEF Record, Handles
  <2>12. ASSUME NEW r \in Requests, Connect(r) PROVE LifeInv(k)'
    BY <2>0, <2>12 DEF Connect
  <2>13. CASE UNCHANGED vars
    BY <2>0, <2>13 DEF vars
  <2> HIDE DEF LifeInv, Released, TypeOK, callerVars, sharedVars, threadVars, netVars
  <2>14. ASSUME NEW l \in Logins,
               FailEarly(l) \/ Wait(l) \/ CheckErrors(l) \/ ReadCode(l) \/ Exchange(l)
                 \/ Shutdown(l)
        PROVE  LifeInv(k)'
    BY <2>14, <2>1, <2>2, <2>3, <2>4, <2>5
  <2> QED BY <2>14, <2>6, <2>7, <2>8, <2>9, <2>10, <2>11, <2>12,
             <2>13, <2>15, StepCases
<1> QED BY <1>1, <1>2, TypeInvariant, PTL DEF Spec

\* However a login ends, its server is gone; out of webbrowser.open, it stays.
THEOREM Stops == Spec => []ServerStops
<1>1. LivesInv => ServerStops
  BY DEF LivesInv, LifeInv, Released, ServerStops, Ended
<1> QED BY <1>1, Lives, PTL

\* What a login waits for in the end is its own thread, which has been told to stop
\* and does, but for a client that keeps a connection open and sends nothing.
THEOREM Silence == Spec => []OnlySilenceDelays
<1>1. TypeOK /\ LivesInv => OnlySilenceDelays
  <2> SUFFICES ASSUME TypeOK, LivesInv, NEW l \in Logins, pc[l] = "join",
                      thread[l] # "ended", ~GoesOn(l)
               PROVE  \E r \in Requests : Handles(l, r) /\ r.kind = "silent"
    BY DEF OnlySilenceDelays
  <2>1. stop[l] /\ thread[l] # "off" /\ (thread[l] = "serving" => serving[l] # {})
    BY DEF LivesInv, LifeInv
  <2>2. thread[l] = "serving"
    BY <2>1 DEF TypeOK, GoesOn, CanEndLoop
  <2>3. PICK r \in serving[l] : r \in Requests
    BY <2>1, <2>2 DEF TypeOK
  <2> QED BY <2>2, <2>3 DEF GoesOn, Handles
<1> QED BY <1>1, Lives, TypeInvariant, PTL

\* Without an exception out of webbrowser.open, no server outlives its login.
THEOREM ShortLived ==
  ASSUME ~BrowserMayRaise
  PROVE  Spec => []ServerIsShortLived
<1> DEFINE Inv == \A l \in Logins : outcome[l] # "browser"
<1>1. Init => Inv
  BY DEF Init
<1>2. TypeOK /\ Inv /\ [Next]_vars => Inv'
  <2> SUFFICES ASSUME TypeOK, Inv, [Next]_vars, NEW k \in Logins
               PROVE  outcome'[k] # "browser"
    OBVIOUS
  <2> USE DEF TypeOK, callerVars, sharedVars, threadVars, netVars
  <2>1. ASSUME NEW l \in Logins,
               FailEarly(l) \/ Wait(l) \/ CheckErrors(l) \/ ReadCode(l) \/ Exchange(l)
                 \/ Shutdown(l) \/ Bind(l) \/ OpenBrowser(l) \/ Close(l)
        PROVE  outcome'[k] # "browser"
    BY <2>1 DEF FailEarly, Wait, CheckErrors, ReadCode, Exchange, ExchangeOutcomes, Shutdown,
                Bind, OpenBrowser, Close, Continue, Leave
  <2>2. ASSUME NEW l \in Logins,
               Accept(l) \/ Answer(l) \/ RejectMethod(l) \/ HangUp(l) \/ EndLoop(l)
        PROVE  outcome'[k] # "browser"
    BY <2>2 DEF Accept, Answer, RejectMethod, Handles, HangUp, EndLoop, CanEndLoop
  <2>3. ASSUME NEW l \in Logins, NEW r \in Requests, Record(l, r)
        PROVE  outcome'[k] # "browser"
    BY <2>3 DEF Record, Handles
  <2>4. ASSUME NEW r \in Requests, Connect(r) PROVE outcome'[k] # "browser"
    BY <2>4 DEF Connect
  <2>5. CASE UNCHANGED vars
    BY <2>5 DEF vars
  <2> HIDE DEF TypeOK, callerVars, sharedVars, threadVars, netVars
  <2> QED BY <2>1, <2>2, <2>3, <2>4, <2>5, StepCases
<1>3. Inv /\ ServerStops => ServerIsShortLived
  BY DEF ServerStops, ServerIsShortLived
<1> QED BY <1>1, <1>2, <1>3, TypeInvariant, Stops, PTL DEF Spec

-----------------------------------------------------------------------------
(* What is recorded came from a request this server handled *)

Stray(l) == handled[l] \ {Granted(l)} # {}

\* The code recorded is this login's, errors come from other requests, and once
\* the Event is set one of the two is there, or a request that left nothing.
RecordInv(l) ==
  /\ serving[l] \subseteq handled[l]
  /\ result[l] \in {Nobody, l}
  /\ result[l] = l => Granted(l) \in handled[l]
  /\ errors[l] \subseteq handled[l] \ {Granted(l)}
  /\ thread[l] = "recorded" \/ done[l] => result[l] = l \/ Stray(l)
  /\ pc[l] \in {"checkErrors", "readCode"} => done[l]
  /\ pc[l] = "exchange" \/ outcome[l] = "token" => code[l] = l /\ result[l] = l
  /\ outcome[l] \in {"refused", "noCode"} => Stray(l)

\* What one login has recorded, step by step, in every reachable state.
LEMMA Recorded == Spec => []\A l \in Logins : RecordInv(l)
<1> DEFINE Inv == \A l \in Logins : RecordInv(l)
<1>1. Init => Inv
  <2> SUFFICES ASSUME Init, NEW l \in Logins PROVE RecordInv(l)
    OBVIOUS
  <2>1. /\ pc[l] = "bind" /\ outcome[l] = "none" /\ thread[l] = "off" /\ ~done[l]
        /\ result[l] = Nobody /\ errors[l] = {} /\ serving[l] = {} /\ handled[l] = {}
    BY DEF Init
  <2> QED BY <2>1, NobodyAssumption DEF RecordInv
<1>2. TypeOK /\ Inv /\ [Next]_vars => Inv'
  <2> SUFFICES ASSUME TypeOK, Inv, [Next]_vars, NEW k \in Logins PROVE RecordInv(k)'
    OBVIOUS
  <2>0. RecordInv(k) /\ (\A l \in Logins : RecordInv(l))
    OBVIOUS
  <2> USE DEF RecordInv, Stray, TypeOK, callerVars, sharedVars, threadVars, netVars
  <2>1. ASSUME NEW l \in Logins, FailEarly(l) PROVE RecordInv(k)'
    BY <2>0, <2>1 DEF FailEarly
  <2>2. ASSUME NEW l \in Logins, Bind(l) PROVE RecordInv(k)'
    BY <2>0, <2>2 DEF Bind
  <2>3. ASSUME NEW l \in Logins, OpenBrowser(l) PROVE RecordInv(k)'
    BY <2>0, <2>3 DEF OpenBrowser
  <2>4. ASSUME NEW l \in Logins, Wait(l) PROVE RecordInv(k)'
    BY <2>0, <2>4 DEF Wait, Continue, Leave
  <2>5. ASSUME NEW l \in Logins, CheckErrors(l) PROVE RecordInv(k)'
    BY <2>0, <2>5 DEF CheckErrors, Continue, Leave
  <2>6. ASSUME NEW l \in Logins, ReadCode(l) PROVE RecordInv(k)'
    BY <2>0, <2>6, NobodyAssumption DEF ReadCode, Continue, Leave
  <2>7. ASSUME NEW l \in Logins, Exchange(l) PROVE RecordInv(k)'
    BY <2>0, <2>7 DEF Exchange, ExchangeOutcomes, Leave
  <2>8. ASSUME NEW l \in Logins, Shutdown(l) PROVE RecordInv(k)'
    BY <2>0, <2>8 DEF Shutdown, Continue
  <2>9. ASSUME NEW l \in Logins, Close(l) PROVE RecordInv(k)'
    BY <2>0, <2>9 DEF Close, Continue, Finished
  <2>10. ASSUME NEW l \in Logins, Accept(l) PROVE RecordInv(k)'
    BY <2>0, <2>10 DEF Accept
  <2>11. ASSUME NEW l \in Logins, Answer(l) PROVE RecordInv(k)'
    BY <2>0, <2>11 DEF Answer
  <2>12. ASSUME NEW l \in Logins, RejectMethod(l) \/ HangUp(l) \/ EndLoop(l)
         PROVE  RecordInv(k)'
    BY <2>0, <2>12 DEF RejectMethod, Handles, HangUp, EndLoop, CanEndLoop
  <2>13. ASSUME NEW l \in Logins, NEW r \in Requests, Record(l, r) PROVE RecordInv(k)'
    <3>1. CASE k # l
      BY <2>0, <2>13, <3>1 DEF Record, Handles
    <3>2. CASE k = l
      <4>1. r \in handled[l] /\ UNCHANGED <<handled, serving, done, pc, outcome, code>>
        BY <2>0, <2>13, <3>2 DEF Record, Handles
      <4>2. CASE Verdict(l, r) = "code"
        BY <2>0, <2>13, <3>2, <4>1, <4>2 DEF Record, Handles, Verdict, Granted
      <4>3. CASE Verdict(l, r) # "code"
        <5>1. r # Granted(l)
          BY <4>3 DEF Verdict, Granted
        <5> QED BY <2>0, <2>13, <3>2, <4>1, <4>3, <5>1 DEF Record, Handles
      <4> QED BY <4>2, <4>3
    <3> QED BY <3>1, <3>2
  <2>14. ASSUME NEW r \in Requests, Connect(r) PROVE RecordInv(k)'
    BY <2>0, <2>14 DEF Connect
  <2>15. CASE UNCHANGED vars
    BY <2>0, <2>15 DEF vars
  <2> HIDE DEF RecordInv, Stray, TypeOK, callerVars, sharedVars, threadVars, netVars
  <2> QED BY <2>1, <2>2, <2>3, <2>4, <2>5, <2>6, <2>7, <2>8, <2>9, <2>10, <2>11,
             <2>12, <2>13, <2>14, <2>15, StepCases
<1> QED BY <1>1, <1>2, TypeInvariant, PTL DEF Spec

\* However many logins share the port, the code one exchanges was granted to it.
THEOREM OwnCode == Spec => []CodeBelongsToThisLogin
<1>1. (\A l \in Logins : RecordInv(l)) => CodeBelongsToThisLogin
  BY DEF RecordInv, CodeBelongsToThisLogin
<1> QED BY <1>1, Recorded, PTL

\* The Event is never set before there is something to find.
THEOREM Causes == Spec => []FailureHasACause
<1>1. (\A l \in Logins : RecordInv(l)) => FailureHasACause
  BY DEF RecordInv, Stray, FailureHasACause
<1> QED BY <1>1, Recorded, PTL

-----------------------------------------------------------------------------
(* Errors are final *)

\* A login that has no token and is on its way to none: an error is recorded
\* that the calling thread has yet to look for, or the outcome is settled.
Doomed(l) ==
  /\ outcome[l] # "token"
  /\ \/ errors[l] # {} /\ pc[l] \in {"open", "wait", "checkErrors"}
     \/ pc[l] \in {"shutdown", "join", "returned", "raised"}

\* No step of any thread, of this login or another, takes a login back from there.
LEMMA StaysDoomed ==
  ASSUME TypeOK, [Next]_vars, NEW k \in Logins, Doomed(k)
  PROVE  Doomed(k)'
<1> USE DEF Doomed, TypeOK, callerVars, sharedVars, threadVars, netVars
<1>1. ASSUME NEW l \in Logins,
             FailEarly(l) \/ Bind(l) \/ OpenBrowser(l) \/ Wait(l) \/ CheckErrors(l)
      PROVE  Doomed(k)'
  BY <1>1 DEF FailEarly, Bind, OpenBrowser, Wait, CheckErrors, Continue, Leave
<1>2. ASSUME NEW l \in Logins, ReadCode(l) \/ Exchange(l) \/ Shutdown(l) \/ Close(l)
      PROVE  Doomed(k)'
  BY <1>2 DEF ReadCode, Exchange, ExchangeOutcomes, Shutdown, Close, Finished, Continue, Leave
<1>3. ASSUME NEW l \in Logins,
             Accept(l) \/ Answer(l) \/ RejectMethod(l) \/ HangUp(l) \/ EndLoop(l)
      PROVE  Doomed(k)'
  BY <1>3 DEF Accept, Answer, RejectMethod, Handles, HangUp, EndLoop, CanEndLoop
<1>4. ASSUME NEW l \in Logins, NEW r \in Requests, Record(l, r) PROVE Doomed(k)'
  BY <1>4 DEF Record, Handles
<1>5. ASSUME NEW r \in Requests, Connect(r) PROVE Doomed(k)'
  BY <1>5 DEF Connect
<1>6. CASE UNCHANGED vars
  BY <1>6 DEF vars
<1> HIDE DEF Doomed, TypeOK, callerVars, sharedVars, threadVars, netVars
<1>7. \A l \in Logins :
        FailEarly(l) \/ Bind(l) \/ OpenBrowser(l) \/ Wait(l) \/ CheckErrors(l)
          \/ ReadCode(l) \/ Exchange(l) \/ Shutdown(l) \/ Close(l) => Doomed(k)'
  BY <1>1, <1>2
<1> QED BY <1>3, <1>4, <1>5, <1>6, <1>7, StepCases

\* An error recorded before the calling thread looks ends the login without a
\* token, whatever this server or another one receives afterwards.
THEOREM Final == Spec => ErrorsAreFinal
<1> DEFINE Refused(l) == errors[l] # {} /\ pc[l] \in {"open", "wait", "checkErrors"}
<1>1. ASSUME NEW l \in Logins
      PROVE  Spec => [](Refused(l) => [](outcome[l] # "token"))
  <2>1. LivesInv => (Refused(l) => Doomed(l))
    BY DEF LivesInv, LifeInv, Doomed
  <2>2. TypeOK /\ [Next]_vars => (Doomed(l) => Doomed(l)')
    BY StaysDoomed
  <2>3. Doomed(l) => outcome[l] # "token"
    BY DEF Doomed
  <2> HIDE DEF Refused
  <2> QED BY <2>1, <2>2, <2>3, Lives, TypeInvariant, PTL DEF Spec
<1> QED BY <1>1 DEF ErrorsAreFinal
=============================================================================
