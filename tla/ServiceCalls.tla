---------------------------- MODULE ServiceCalls ----------------------------
(***************************************************************************)
(* The methods of Client (client.py) that are one RPC each, through the    *)
(* service adapters (services/) and the helpers of services/base.py:       *)
(* _invoke maps errors, _collect_stream reads a response stream to its end *)
(* and returns a list or raises.  Several calls run at once, in threads or *)
(* programs, on one directory server.                                      *)
(*                                                                         *)
(* Of a call's requests, _sent_ have left the client and _served_ of them  *)
(* the server has carried out; of the responses it has produced, _read_    *)
(* have been read.  For a request stream the sender is a thread of gRPC's  *)
(* next to the calling thread, and both directions are bounded.  The       *)
(* connection may break for the client while the server goes on with what  *)
(* has left it: no call has a deadline or is repeated by the SDK.          *)
(* The server and gRPC are external: the server serves the requests of a   *)
(* stream in order, may fail at any point, and closes the responses when   *)
(* it has seen the end of the requests.                                    *)
(* Operators named Mutant... are faulty variants of the definition that    *)
(* follows them, kept to show that the properties notice such a fault.     *)
(***************************************************************************)
EXTENDS Methods

CONSTANT Window   \* bound: requests, and responses, of one call in flight

ASSUME WindowAssumption == Window \in Nat \ {0}

VARIABLES
  directory,  \* the records the server has
  request,    \* what each call asks
  pc,         \* the calling thread: idle, open, returned, raised; listening once
              \*   listen has returned its stream
  error,      \* what it raised
  sent,       \* requests that have left the client
  served,     \* requests the server has carried out
  produced,   \* the responses of the server, in order
  read,       \* how many of them the calling thread has read
  status,     \* what the server tells: open, ok, missing (NOT_FOUND), failed
  before      \* history: calls that had returned when this one began

callVars == <<request, before>>
clientVars == <<pc, error, sent, read>>
serverVars == <<directory, served, produced, status>>
vars == <<callVars, clientVars, serverVars>>

Op(c) == request[c].op
Args(c) == request[c].args

Init ==
  /\ directory = {}
  /\ request \in [Calls -> AllRequests]
  /\ \A c \in Calls : request[c] \in Requests[c]
  /\ pc = [c \in Calls |-> "idle"]
  /\ error = [c \in Calls |-> "none"]
  /\ sent = [c \in Calls |-> 0]
  /\ served = [c \in Calls |-> 0]
  /\ produced = [c \in Calls |-> <<>>]
  /\ read = [c \in Calls |-> 0]
  /\ status = [c \in Calls |-> "open"]
  /\ before = [c \in Calls |-> {}]

-----------------------------------------------------------------------------
(* The client *)

Raise(c, what) ==
  /\ pc' = [pc EXCEPT ![c] = "raised"]
  /\ error' = [error EXCEPT ![c] = what]

\* Every exception becomes a RuntimeError, the gRPC ones too.
MutantWrapAll(c) == "RuntimeError"

\* What a gRPC error is raised as: _invoke passes it on; verify wraps it.
GrpcErrorOf(c) == IF Op(c) = "verify" THEN "RuntimeError" ELSE "RpcError"

\* A method is called and starts its RPC; listen returns at once.
Begin(c) ==
  /\ pc[c] = "idle"
  /\ pc' = [pc EXCEPT ![c] = IF Op(c) \in LazyOps THEN "listening" ELSE "open"]
  /\ before' = [before EXCEPT ![c] = {d \in Calls : pc[d] = "returned"}]
  /\ UNCHANGED <<request, error, sent, read, serverVars>>

\* What is no gRPC error passes through _invoke as it is.
MutantUnmapped(c) ==
  /\ pc[c] \in {"open", "listening"}
  /\ sent[c] = 0
  /\ Raise(c, "ValueError")
  /\ UNCHANGED <<callVars, sent, read, serverVars>>

\* An interceptor (no token, no JWT-SVID) or gRPC itself refuses the call before
\* anything is sent; of a listen that has returned, the stream then raises.
Refuse(c) ==
  /\ pc[c] \in {"open", "listening"}
  /\ sent[c] = 0
  /\ Raise(c, "RuntimeError")
  /\ UNCHANGED <<callVars, sent, read, serverVars>>

\* The sender takes the next request, as long as the call goes on.
CanSend(c) ==
  /\ pc[c] \in {"open", "listening"}
  /\ status[c] = "open"
  /\ sent[c] < Len(Args(c))
  /\ sent[c] - served[c] < Window
Send(c) ==
  /\ CanSend(c)
  /\ sent' = [sent EXCEPT ![c] = @ + 1]
  /\ UNCHANGED <<callVars, pc, error, read, serverVars>>

Unread(c) == Len(produced[c]) - read[c]

\* The responses are read only when all requests have left.
MutantReadLate(c) ==
  /\ pc[c] \in {"open", "listening"}
  /\ sent[c] = Len(Args(c))
  /\ Unread(c) > 0

\* The calling thread reads a response; delete_referrer returns with the first.
CanRead(c) ==
  /\ pc[c] \in {"open", "listening"}
  /\ Unread(c) > 0
Read(c) ==
  /\ CanRead(c)
  /\ read' = [read EXCEPT ![c] = @ + 1]
  /\ pc' = IF Op(c) \in FirstOps THEN [pc EXCEPT ![c] = "returned"] ELSE pc
  /\ UNCHANGED <<callVars, error, sent, serverVars>>

\* The list so far is returned, without waiting for the end of the stream.
MutantReturnEarly(c) ==
  /\ pc[c] = "open"
  /\ Unread(c) = 0
  /\ read[c] > 0 \/ status[c] = "ok"
  /\ pc' = [pc EXCEPT ![c] = "returned"]
  /\ UNCHANGED <<callVars, error, sent, read, serverVars>>

\* A stream that fails is taken for one that ends.
MutantKeepPartial(c) ==
  /\ pc[c] \in {"open", "listening"}
  /\ Unread(c) = 0
  /\ status[c] # "open"
  /\ Op(c) \notin FirstOps
  /\ pc' = [pc EXCEPT ![c] = "returned"]
  /\ UNCHANGED <<callVars, error, sent, read, serverVars>>

\* The server has closed the responses and all are read: the call returns them.
CanReturn(c) ==
  /\ pc[c] \in {"open", "listening"}
  /\ Unread(c) = 0
  /\ status[c] = "ok"
  /\ Op(c) \notin FirstOps
Return(c) ==
  /\ CanReturn(c)
  /\ pc' = [pc EXCEPT ![c] = "returned"]
  /\ UNCHANGED <<callVars, error, sent, read, serverVars>>

\* delete_referrer: "DeleteReferrer returned no response".
NothingCame(c) ==
  /\ pc[c] = "open"
  /\ Op(c) \in FirstOps
  /\ status[c] = "ok" /\ produced[c] = <<>>
ReturnNothing(c) ==
  /\ NothingCame(c)
  /\ Raise(c, "RuntimeError")
  /\ UNCHANGED <<callVars, sent, read, serverVars>>

\* The server has failed, whatever is unread.
HasFailed(c) ==
  /\ pc[c] \in {"open", "listening"}
  /\ status[c] \in {"failed", "missing"}
Fail(c) ==
  /\ HasFailed(c)
  /\ Raise(c, GrpcErrorOf(c))
  /\ UNCHANGED <<callVars, sent, read, serverVars>>

\* The connection breaks, or a request cannot be serialized: what has left the
\* client may still be served.
Break(c) ==
  /\ pc[c] \in {"open", "listening"}
  /\ Raise(c, GrpcErrorOf(c))
  /\ UNCHANGED <<callVars, sent, read, serverVars>>

-----------------------------------------------------------------------------
(* The server *)

\* The next request is carried out, also when the client has gone.
CanServe(c) ==
  /\ status[c] = "open"
  /\ served[c] < sent[c]
  /\ Unread(c) < Window
Serve(c) ==
  /\ CanServe(c)
  /\ LET cid == Args(c)[served[c] + 1] IN
     IF LooksUp(Op(c)) /\ cid \notin directory
       THEN /\ status' = [status EXCEPT ![c] = "missing"]
            /\ UNCHANGED <<directory, served, produced>>
       ELSE /\ directory' = After(directory, Op(c), cid)
            /\ served' = [served EXCEPT ![c] = @ + 1]
            /\ \E answer \in Responses(Op(c), cid) :
                 produced' = [produced EXCEPT ![c] = @ \o answer]
            /\ UNCHANGED status
  /\ UNCHANGED <<callVars, clientVars>>

\* The end of the requests is seen: the stream ends, or a delete is answered.
CanFinish(c) ==
  /\ status[c] = "open"
  /\ pc[c] \in {"open", "listening"}
  /\ served[c] = Len(Args(c))
Finish(c) ==
  /\ CanFinish(c)
  /\ status' = [status EXCEPT ![c] = "ok"]
  /\ UNCHANGED <<callVars, clientVars, directory, served, produced>>

\* The server gives up.
ServerFails(c) ==
  /\ status[c] = "open"
  /\ pc[c] \in {"open", "listening"}
  /\ status' = [status EXCEPT ![c] = "failed"]
  /\ UNCHANGED <<callVars, clientVars, directory, served, produced>>

-----------------------------------------------------------------------------
CallerStep(c) == Read(c) \/ Return(c) \/ ReturnNothing(c) \/ Fail(c)
ServerStep(c) == Serve(c) \/ Finish(c)

Next ==
  \E c \in Calls :
    \/ Begin(c) \/ Refuse(c) \/ Send(c) \/ CallerStep(c) \/ Break(c)
    \/ ServerStep(c) \/ ServerFails(c)

Spec == Init /\ [][Next]_vars

\* As long as its calling thread, the sender or the server can take a step for a
\* call, one of them does: nothing in the SDK ends a call otherwise.
FairSpec ==
  Spec /\ \A c \in Calls : WF_vars(CallerStep(c) \/ Send(c) \/ ServerStep(c))

-----------------------------------------------------------------------------
(* Properties *)

\* Every variable holds a value the code could hold there.
TypeOK ==
  /\ directory \subseteq Cids
  /\ request \in [Calls -> AllRequests]
  /\ \A c \in Calls : request[c] \in Requests[c]
  /\ pc \in [Calls -> {"idle", "open", "listening", "returned", "raised"}]
  /\ error \in [Calls -> {"none", "RpcError", "RuntimeError"}]
  /\ sent \in [Calls -> Nat]
  /\ served \in [Calls -> Nat]
  /\ produced \in [Calls -> Seq(Cids)]
  /\ read \in [Calls -> Nat]
  /\ status \in [Calls -> {"open", "ok", "missing", "failed"}]
  /\ before \in [Calls -> SUBSET Calls]
  /\ \A c \in Calls :
       /\ served[c] <= sent[c] /\ sent[c] <= Len(Args(c))
       /\ read[c] <= Len(produced[c])

Batches(op, cid) == {c \in Calls : Op(c) = op /\ \E i \in DOMAIN Args(c) : Args(c)[i] = cid}

\* test_client.py pushes a batch, pulls it, and compares position by position.
\* A list that is returned is everything the server has to say, one response
\* for each request at its place: a stream that breaks off raises instead.
AnswersComplete ==
  \A c \in Calls :
    pc[c] = "returned" /\ Op(c) \notin FirstOps =>
      /\ served[c] = Len(Args(c)) /\ read[c] = Len(produced[c])
      /\ Op(c) \in BatchOps \ {"pull_referrer"} => produced[c] = Args(c)

\* Every record of a push that has returned is there for the calls that begin
\* afterwards: none of them is told that it is missing, unless somebody deletes
\* it.  A push of several records must not return while some are under way.
PushedIsFound ==
  \A c \in Calls : status[c] = "missing" =>
    \E i \in DOMAIN Args(c) : LET cid == Args(c)[i] IN
      \/ Batches("push", cid) \cap before[c] = {}
      \/ \E d \in Batches("delete", cid) : pc[d] # "idle"

\* A record stays deleted, after a delete has returned, if every push of it had
\* returned before: what a returned call has sent is not carried out later.
\* (Of a push that raised it may be.)
DeletedIsGone ==
  \A cid \in Cids : \A d \in Batches("delete", cid) :
    /\ pc[d] = "returned"
    /\ \A p \in Batches("push", cid) : pc[p] = "idle" \/ p \in before[d]
    => cid \notin directory

\* docs/dir-sdk-python.md: "The SDK raises grpc.RpcError for gRPC errors and
\* RuntimeError for configuration problems".  Who gets a RuntimeError may repeat
\* the call: the server has done nothing of it, now or later.  verify (which
\* wraps, and changes nothing) and a delete_referrer without a response differ.
RuntimeErrorMeansUnsent ==
  \A c \in Calls :
    error[c] = "RuntimeError" /\ Op(c) \notin FirstOps \cup {"verify"} => sent[c] = 0

\* Nothing is carried out for a call after it has returned.
ReturnedIsQuiet ==
  [][\A c \in Calls : pc[c] = "returned" => served'[c] = served[c]]_vars

\* Both directions of a stream are bounded, and no call waits for itself: at
\* every moment the sender, the server or the calling thread can go on.
NoSelfWait ==
  \A c \in Calls : pc[c] = "open" =>
    \/ CanSend(c) \/ CanServe(c) \/ CanFinish(c)
    \/ CanRead(c) \/ CanReturn(c) \/ NothingCame(c) \/ HasFailed(c)

\* A step brings a call nearer to its end, by the first of these that it changes.
Nearer(c) ==
  \/ pc'[c] \in {"returned", "raised"}
  \/ served'[c] > served[c]
  \/ served'[c] = served[c] /\ sent'[c] > sent[c]
  \/ UNCHANGED <<served[c], sent[c]>> /\ status[c] = "open" /\ status'[c] # "open"
  \/ UNCHANGED <<served[c], sent[c], status[c], produced[c]>> /\ read'[c] > read[c]

Still(c) == UNCHANGED <<pc[c], sent[c], served[c], produced[c], read[c], status[c]>>

\* Nothing is done twice for a call, and no two of its steps undo each other: each
\* step of anybody leaves a call as it is, or brings it nearer to its end.
CallsAdvance ==
  [][\A c \in Calls : pc[c] = "open" => Nearer(c) \/ Still(c)]_vars

\* Hence, with a server that goes on, each call returns or raises.
CallsEnd == \A c \in Calls : pc[c] = "open" ~> pc[c] \in {"returned", "raised"}

\* How far a call is, for who only knows what it promises (DirectoryCalls).
Phase(c) ==
  CASE pc[c] = "idle" -> "idle"
    [] pc[c] \in {"open", "listening"} -> "running"
    [] pc[c] = "returned" -> "answered"
    [] pc[c] = "raised" ->
         IF error[c] = "RuntimeError" /\ Op(c) \notin FirstOps \cup {"verify"}
           THEN "refused" ELSE "failed"

\* What it has returned, a list or (of delete_referrer) the first response.
AnswerOf(c) == IF pc[c] = "returned" THEN SubSeq(produced[c], 1, read[c]) ELSE <<>>

Phases == [c \in Calls |-> Phase(c)]
Missing == {c \in Calls : status[c] = "missing"}
Answers == [c \in Calls |-> AnswerOf(c)]

Directory ==
  INSTANCE DirectoryCalls WITH
    phase <- Phases,
    executed <- served,
    missing <- Missing,
    replies <- produced,
    answer <- Answers

\* Although a call is a stream of requests and one of responses, each cut short
\* anywhere, and its requests may be carried out after it has raised, every call
\* keeps the promise of DirectoryCalls: each request is carried out at once, in
\* order and no more than once, and the caller is told whether all, none, or who
\* knows which of them were.
ImplementsDirectory == Directory!Spec
=============================================================================
