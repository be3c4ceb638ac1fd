-------------------------- MODULE ServiceCallsProofs --------------------------
(***************************************************************************)
(* What holds of ServiceCalls for any number of calls of any method, any   *)
(* batches, any window, and a server and connections that fail anywhere.   *)
(***************************************************************************)
EXTENDS ServiceCalls, FiniteSetTheorems, TLAPS

-----------------------------------------------------------------------------
(* The operators the model is built from *)

\* What a call asks for is a sequence of records; the methods that do not take
\* a list take one.
LEMMA ArgsLemma ==
  ASSUME TypeOK, NEW c \in Calls
  PROVE  /\ Op(c) \in Ops /\ Args(c) \in Seq(Cids)
         /\ Len(Args(c)) \in Nat /\ DOMAIN Args(c) = 1..Len(Args(c))
         /\ Op(c) \notin BatchOps \cup UploadOps => Len(Args(c)) = 1
<1>1. request[c] \in Requests[c]
  BY DEF TypeOK
<1>2. /\ request[c].op \in Ops /\ request[c].args \in Seq(Cids)
      /\ request[c].op \notin BatchOps \cup UploadOps => Len(request[c].args) = 1
  BY <1>1, RequestAssumption
<1> QED BY <1>2 DEF Op, Args

\* The server answers a request with records, and to each request of a batch
\* other than of pull_referrer with its record.
LEMMA ResponsesLemma ==
  ASSUME NEW op \in Ops, NEW cid \in Cids, NEW answer \in Responses(op, cid)
  PROVE  /\ answer \in Seq(Cids)
         /\ op \in BatchOps \ {"pull_referrer"} => answer = <<cid>>
<1>0. <<>> \in Seq(Cids) /\ <<cid>> \in Seq(Cids)
  OBVIOUS
<1>1. CASE op \in UploadOps \cup LazyOps
  <2>1. /\ op \notin ListOps /\ op \notin FirstOps \cup {"pull_referrer"} /\ op \notin BatchOps
    BY <1>1 DEF UploadOps, LazyOps, ListOps, FirstOps, BatchOps
  <2>2. Responses(op, cid) = {<<>>}
    BY <1>1, <2>1 DEF Responses
  <2> QED BY <1>0, <2>1, <2>2, Zenon
<1>2. CASE op \in ListOps
  <2>1. /\ op \notin UploadOps \cup LazyOps /\ op \notin FirstOps \cup {"pull_referrer"}
        /\ op \notin BatchOps
    BY <1>2 DEF UploadOps, LazyOps, ListOps, FirstOps, BatchOps
  <2>2. Responses(op, cid) = Seqs(Cids)
    BY <1>2, <2>1 DEF Responses
  <2>3. PICK T \in SUBSET Cids : answer \in Listings(T)
    BY <2>2 DEF Seqs
  <2>4. IsFiniteSet(T) /\ Cardinality(T) \in Nat
    BY FiniteAssumption, FS_Subset, FS_CardinalityType
  <2>5. answer \in Seq(T)
    BY <2>3, <2>4 DEF Listings
  <2> QED BY <2>1, <2>5
<1>3. CASE op \in FirstOps \cup {"pull_referrer"}
  <2>1. /\ op \notin UploadOps \cup LazyOps /\ op \notin ListOps
        /\ op \notin BatchOps \ {"pull_referrer"}
    BY <1>3 DEF UploadOps, LazyOps, ListOps, FirstOps, BatchOps
  <2>2. Responses(op, cid) = {<<cid>>, <<>>}
    BY <1>3, <2>1 DEF Responses
  <2> QED BY <1>0, <2>1, <2>2, Zenon
<1>4. CASE op \notin UploadOps \cup LazyOps \cup ListOps \cup FirstOps \cup {"pull_referrer"}
  <2>1. Responses(op, cid) = {<<cid>>}
    BY <1>4 DEF Responses
  <2> QED BY <1>0, <2>1, Zenon
<1> QED BY <1>1, <1>2, <1>3, <1>4

\* Carrying a request out leaves a set of records.
LEMMA AfterLemma ==
  ASSUME NEW op, NEW cid \in Cids, directory \subseteq Cids
  PROVE  /\ After(directory, op, cid) \subseteq Cids
         /\ op # "delete" => directory \subseteq After(directory, op, cid)
         /\ op = "push" => cid \in After(directory, op, cid)
         /\ op = "delete" => After(directory, op, cid) = directory \ {cid}
         /\ op # "push" => After(directory, op, cid) \subseteq directory
         /\ op = "push" => After(directory, op, cid) \subseteq directory \cup {cid}
<1>1. CASE op = "push"
  BY <1>1 DEF After
<1>2. CASE op = "delete"
  BY <1>2 DEF After
<1>3. CASE op \notin {"push", "delete"}
  BY <1>3 DEF After
<1> QED BY <1>1, <1>2, <1>3

\* The two outcomes of carrying out a request.
Answered(c) ==
  LET cid == Args(c)[served[c] + 1] IN
    /\ LooksUp(Op(c)) => cid \in directory
    /\ directory' = After(directory, Op(c), cid)
    /\ served' = [served EXCEPT ![c] = @ + 1]
    /\ \E answer \in Responses(Op(c), cid) : produced' = [produced EXCEPT ![c] = @ \o answer]
    /\ status' = status
NotFound(c) ==
  /\ LooksUp(Op(c)) /\ Args(c)[served[c] + 1] \notin directory
  /\ status' = [status EXCEPT ![c] = "missing"]
  /\ directory' = directory /\ served' = served /\ produced' = produced

LEMMA ServeLemma ==
  ASSUME TypeOK, NEW c \in Calls, Serve(c)
  PROVE  /\ status[c] = "open" /\ served[c] < sent[c]
         /\ request' = request /\ before' = before
         /\ pc' = pc /\ error' = error /\ sent' = sent /\ read' = read
         /\ served[c] + 1 \in 1..Len(Args(c))
         /\ Args(c)[served[c] + 1] \in Cids
         /\ Answered(c) \/ NotFound(c)
<1>1. /\ served[c] \in Nat /\ sent[c] \in Nat /\ served[c] < sent[c] /\ sent[c] <= Len(Args(c))
      /\ Len(Args(c)) \in Nat
  BY ArgsLemma DEF TypeOK, Serve, CanServe
<1>2. served[c] + 1 \in 1..Len(Args(c))
  BY <1>1
<1>3. Args(c)[served[c] + 1] \in Cids
  BY <1>2, ArgsLemma
<1>4. Answered(c) \/ NotFound(c)
  BY DEF Serve, CanServe, Answered, NotFound
<1> QED BY <1>1, <1>2, <1>3, <1>4 DEF Serve, CanServe, callVars, clientVars

-----------------------------------------------------------------------------
\* Every variable keeps to its type, for any instance.
THEOREM TypeInvariant == Spec => []TypeOK
<1>1. Init => TypeOK
  <2> SUFFICES ASSUME Init PROVE TypeOK
    OBVIOUS
  <2>1. \A c \in Calls : Len(Args(c)) \in Nat
    <3> TAKE c \in Calls
    <3>1. request[c] \in Requests[c]
      BY DEF Init
    <3> QED BY <3>1, RequestAssumption DEF Args
  <2> QED BY <2>1 DEF Init, TypeOK
<1>2. TypeOK /\ [Next]_vars => TypeOK'
  <2> SUFFICES ASSUME TypeOK, [Next]_vars PROVE TypeOK'
    OBVIOUS
  <2> USE DEF TypeOK, Op, Args, callVars, clientVars, serverVars
  <2>0. \A c \in Calls : Len(Args(c)) \in Nat
    BY ArgsLemma
  <2>1. ASSUME NEW c \in Calls, Begin(c) PROVE TypeOK'
    BY <2>1 DEF Begin
  <2>2. ASSUME NEW c \in Calls, Refuse(c) \/ ReturnNothing(c) \/ Fail(c) \/ Break(c)
        PROVE  TypeOK'
    BY <2>2 DEF Refuse, ReturnNothing, NothingCame, Fail, HasFailed, Break, Raise, GrpcErrorOf
  <2>3. ASSUME NEW c \in Calls, Send(c) PROVE TypeOK'
    BY <2>0, <2>3 DEF Send, CanSend
  <2>4. ASSUME NEW c \in Calls, Read(c) PROVE TypeOK'
    <3>1. read[c] + 1 <= Len(produced[c])
      BY <2>4 DEF Read, CanRead, Unread
    <3> QED BY <2>4, <3>1 DEF Read, CanRead
  <2>5. ASSUME NEW c \in Calls, Return(c) PROVE TypeOK'
    BY <2>5 DEF Return, CanReturn
  <2>6. ASSUME NEW c \in Calls, Serve(c) PROVE TypeOK'
    <3> HIDE DEF TypeOK, Op, Args, callVars, clientVars, serverVars
    <3> DEFINE cid == Args(c)[served[c] + 1]
    <3>1. /\ status[c] = "open" /\ served[c] < sent[c] /\ cid \in Cids
          /\ request' = request /\ before' = before /\ pc' = pc /\ error' = error
          /\ sent' = sent /\ read' = read
          /\ Answered(c) \/ NotFound(c)
      BY <2>6, ServeLemma
    <3>2. CASE NotFound(c)
      BY <3>1, <3>2 DEF NotFound, TypeOK, Op, Args
    <3>3. CASE Answered(c)
      <4>1. PICK answer \in Responses(Op(c), cid) :
              produced' = [produced EXCEPT ![c] = @ \o answer]
        BY <3>3 DEF Answered
      <4>2. answer \in Seq(Cids)
        BY <3>1, <4>1, ArgsLemma, ResponsesLemma
      <4>3. produced[c] \in Seq(Cids) /\ read[c] \in Nat /\ read[c] <= Len(produced[c])
        BY DEF TypeOK
      <4>4. produced'[c] \in Seq(Cids) /\ read[c] <= Len(produced'[c])
        BY <4>1, <4>2, <4>3 DEF TypeOK
      <4>5. directory' \subseteq Cids
        <5>1. directory' = After(directory, Op(c), cid) /\ directory \subseteq Cids
          BY <3>3 DEF Answered, TypeOK
        <5> QED BY <3>1, <5>1, AfterLemma
      <4>6. served' \in [Calls -> Nat] /\ \A d \in Calls : served'[d] <= sent[d]
        BY <3>1, <3>3 DEF Answered, TypeOK
      <4>7. produced' \in [Calls -> Seq(Cids)] /\ \A d \in Calls : read[d] <= Len(produced'[d])
        BY <4>1, <4>4 DEF TypeOK
      <4> QED BY <3>1, <3>3, <4>5, <4>6, <4>7 DEF Answered, TypeOK, Op, Args
    <3> QED BY <3>1, <3>2, <3>3
  <2>7. ASSUME NEW c \in Calls, Finish(c) \/ ServerFails(c) PROVE TypeOK'
    BY <2>7 DEF Finish, CanFinish, ServerFails
  <2>8. CASE UNCHANGED vars
    BY <2>8 DEF vars
  <2> QED BY <2>1, <2>2, <2>3, <2>4, <2>5, <2>6, <2>7, <2>8 DEF Next, CallerStep, ServerStep
<1> QED BY <1>1, <1>2, PTL DEF Spec

-----------------------------------------------------------------------------
(* The inductive invariant *)

\* Methods that answer each request of a batch with one response.
PairedOps == BatchOps \ {"pull_referrer"}

\* How far a call, its server and its answer are.
CallInv(c) ==
  /\ pc[c] = "idle" => sent[c] = 0 /\ status[c] = "open"
  /\ error[c] # "none" => pc[c] = "raised"
  /\ error[c] = "RuntimeError" /\ Op(c) \notin FirstOps \cup {"verify"} => sent[c] = 0
  /\ status[c] = "ok" => served[c] = Len(Args(c))
  /\ served[c] = 0 => produced[c] = <<>>
  /\ pc[c] = "returned" => served[c] = Len(Args(c))
  /\ pc[c] = "returned" /\ Op(c) \notin FirstOps => read[c] = Len(produced[c])
  /\ pc[c] \notin {"returned", "raised"} /\ Op(c) \in FirstOps => read[c] = 0
  /\ Op(c) \in PairedOps =>
       /\ Len(produced[c]) = served[c]
       /\ \A i \in 1..served[c] : produced[c][i] = Args(c)[i]
  /\ \A b \in before[c] : pc[b] = "returned"

\* Whether a request of a call with this record has been carried out.
Done(c, cid) == \E i \in 1..served[c] : Args(c)[i] = cid

\* A record that was pushed is there until somebody deletes it; one that was
\* deleted, and that only calls push that had returned before, is not.
RecordInv(cid) ==
  /\ \A p \in Batches("push", cid) :
       /\ Done(p, cid)
       /\ \A d \in Batches("delete", cid) : pc[d] = "idle"
       => cid \in directory
  /\ \A d \in Batches("delete", cid) :
       /\ Done(d, cid)
       /\ \A p \in Batches("push", cid) : pc[p] = "idle" \/ p \in before[d]
       => cid \notin directory

\* Who is told that a record is missing can blame a delete, or asked for one
\* that had not been pushed.
MissingInv(c) ==
  status[c] = "missing" =>
    \E i \in DOMAIN Args(c) :
      \/ Batches("push", Args(c)[i]) \cap before[c] = {}
      \/ \E d \in Batches("delete", Args(c)[i]) : pc[d] # "idle"

IInv ==
  /\ \A c \in Calls : CallInv(c) /\ MissingInv(c)
  /\ \A cid \in Cids : RecordInv(cid)

LEMMA InitInv == Init => IInv
<1> SUFFICES ASSUME Init PROVE IInv
  OBVIOUS
<1>1. \A c \in Calls : CallInv(c) /\ MissingInv(c)
  BY DEF Init, CallInv, MissingInv
<1>2. \A cid \in Cids : RecordInv(cid)
  <2> SUFFICES ASSUME NEW c \in Calls, NEW cid PROVE ~Done(c, cid)
    BY DEF RecordInv, Batches
  <2>1. served[c] = 0
    BY DEF Init
  <2> QED BY <2>1 DEF Done
<1> QED BY <1>1, <1>2 DEF IInv

\* What was asked does not change; nobody becomes idle again; what has been
\* noted at the beginning of a call stays, and what was done stays done.
Evolves ==
  /\ request' = request
  /\ \A c \in Calls :
       /\ pc'[c] = "idle" => pc[c] = "idle"
       /\ pc[c] = "returned" => pc'[c] = "returned"
       /\ pc[c] # "idle" => before'[c] = before[c]

LEMMA Evolution ==
  ASSUME TypeOK, [Next]_vars
  PROVE  Evolves
<1> USE DEF TypeOK, callVars, clientVars, serverVars, Evolves
<1>1. ASSUME NEW c \in Calls, Begin(c) PROVE Evolves
  BY <1>1 DEF Begin
<1>2. ASSUME NEW c \in Calls, Refuse(c) \/ ReturnNothing(c) \/ Fail(c) \/ Break(c)
      PROVE  Evolves
  BY <1>2 DEF Refuse, ReturnNothing, NothingCame, Fail, HasFailed, Break, Raise
<1>3. ASSUME NEW c \in Calls, Send(c) \/ Read(c) \/ Return(c) PROVE Evolves
  BY <1>3 DEF Send, CanSend, Read, CanRead, Return, CanReturn
<1>4. ASSUME NEW c \in Calls, Serve(c) \/ Finish(c) \/ ServerFails(c) PROVE Evolves
  BY <1>4 DEF Serve, CanServe, Finish, CanFinish, ServerFails
<1>5. CASE UNCHANGED vars
  BY <1>5 DEF vars
<1> QED BY <1>1, <1>2, <1>3, <1>4, <1>5 DEF Next, CallerStep, ServerStep

LEMMA CallStep ==
  ASSUME TypeOK, TypeOK', \A b \in Calls : CallInv(b), [Next]_vars, NEW d \in Calls
  PROVE  CallInv(d)'
<1> USE DEF callVars, clientVars, serverVars
<1>0. /\ Op(d)' = Op(d) /\ Args(d)' = Args(d)
      /\ CallInv(d) /\ Evolves
      /\ Len(Args(d)) \in Nat
      /\ before[d] \subseteq Calls
      /\ Op(d) \in FirstOps => Len(Args(d)) = 1
  <2>1. Op(d) \in FirstOps => Op(d) \notin BatchOps \cup UploadOps
    BY DEF FirstOps, BatchOps, UploadOps
  <2>2. before[d] \subseteq Calls
    BY DEF TypeOK
  <2>3. Evolves
    BY Evolution
  <2> QED BY <2>1, <2>2, <2>3, ArgsLemma DEF Evolves, Op, Args
<1>a. /\ served[d] \in Nat /\ sent[d] \in Nat /\ served[d] <= sent[d] /\ sent[d] <= Len(Args(d))
      /\ read[d] \in Nat /\ read[d] <= Len(produced[d]) /\ produced[d] \in Seq(Cids)
      /\ Len(produced[d]) \in Nat
  BY DEF TypeOK
<1>1. ASSUME NEW c \in Calls, Begin(c) PROVE CallInv(d)'
  <2>1. before'[d] = before[d] \/ before'[d] = {e \in Calls : pc[e] = "returned"}
    BY <1>1 DEF Begin, TypeOK
  <2>2. \A b \in before'[d] : pc'[b] = "returned"
    BY <1>0, <2>1 DEF CallInv, Evolves
  <2>3. pc'[d] = pc[d] \/ (pc[d] = "idle" /\ pc'[d] \in {"open", "listening"})
    BY <1>1 DEF Begin, TypeOK
  <2>4. UNCHANGED <<request, error, sent, read, directory, served, produced, status>>
    BY <1>1 DEF Begin
  <2>5. error'[d] # "none" => pc'[d] = "raised"
    BY <1>0, <1>1 DEF Begin, CallInv, TypeOK
  <2> QED BY <1>0, <1>a, <2>2, <2>3, <2>4, <2>5 DEF CallInv
<1>2. ASSUME NEW c \in Calls, Refuse(c) \/ ReturnNothing(c) \/ Fail(c) \/ Break(c)
      PROVE  CallInv(d)'
  <2>1. /\ UNCHANGED <<request, before, sent, read, directory, served, produced, status>>
        /\ pc[c] # "idle" /\ pc[c] # "returned"
        /\ c # d => pc'[d] = pc[d] /\ error'[d] = error[d]
        /\ c = d => pc'[d] = "raised"
    BY <1>2 DEF Refuse, ReturnNothing, NothingCame, Fail, HasFailed, Break, Raise, TypeOK
  <2>2. \A b \in before'[d] : pc'[b] = "returned"
    BY <1>0, <2>1 DEF CallInv, Evolves
  <2>3. error'[d] = "RuntimeError" /\ Op(d) \notin FirstOps \cup {"verify"} => sent[d] = 0
    BY <1>0, <1>2, <2>1 DEF Refuse, ReturnNothing, NothingCame, Fail, HasFailed, Break, Raise, GrpcErrorOf, TypeOK, CallInv
  <2>4. error'[d] # "none" => pc'[d] = "raised"
    BY <1>0, <2>1 DEF CallInv
  <2> QED BY <1>0, <2>1, <2>2, <2>3, <2>4 DEF CallInv
<1>3. ASSUME NEW c \in Calls, Send(c) PROVE CallInv(d)'
  <2>1. UNCHANGED <<request, before, pc, error, read, directory, served, produced, status>>
    BY <1>3 DEF Send, CanSend
  <2>2. sent'[d] = sent[d] \/ pc[d] \in {"open", "listening"}
    BY <1>3 DEF Send, CanSend, TypeOK
  <2> QED BY <1>0, <2>1, <2>2 DEF CallInv
<1>4. ASSUME NEW c \in Calls, Read(c) PROVE CallInv(d)'
  <2>1. UNCHANGED <<request, before, error, sent, directory, served, produced, status>>
    BY <1>4 DEF Read, CanRead
  <2>2. \A b \in before'[d] : pc'[b] = "returned"
    BY <1>0, <2>1 DEF CallInv, Evolves
  <2>3. CASE c # d
    <3>1. pc'[d] = pc[d] /\ read'[d] = read[d]
      BY <1>4, <2>3 DEF Read, CanRead, TypeOK
    <3> QED BY <1>0, <2>1, <2>2, <3>1 DEF CallInv
  <2>4. CASE c = d
    <3>1. /\ pc[d] \in {"open", "listening"} /\ Len(produced[d]) > 0
          /\ pc'[d] = IF Op(d) \in FirstOps THEN "returned" ELSE pc[d]
      BY <1>4, <2>4, <1>a DEF Read, CanRead, Unread, TypeOK
    <3>2. served[d] # 0
      BY <1>0, <3>1 DEF CallInv
    <3>3. Op(d) \in FirstOps => served[d] = Len(Args(d))
      <4> HAVE Op(d) \in FirstOps
      <4>1. Len(Args(d)) = 1
        BY <1>0
      <4>2. served[d] <= 1 /\ served[d] \in Nat
        BY <1>a, <4>1
      <4> QED BY <3>2, <4>1, <4>2
    <3>4. error'[d] = "none" /\ pc'[d] \notin {"idle", "raised"}
      BY <1>0, <2>1, <3>1 DEF CallInv
    <3>5. pc'[d] = "returned" => served'[d] = Len(Args(d)) /\ Op(d) \in FirstOps
      BY <2>1, <3>1, <3>3
    <3>6. pc'[d] \notin {"returned", "raised"} => Op(d) \notin FirstOps
      BY <3>1
    <3> QED BY <1>0, <2>1, <2>2, <3>4, <3>5, <3>6 DEF CallInv
  <2> QED BY <2>3, <2>4
<1>5. ASSUME NEW c \in Calls, Return(c) PROVE CallInv(d)'
  <2>1. UNCHANGED <<request, before, error, sent, read, directory, served, produced, status>>
    BY <1>5 DEF Return, CanReturn
  <2>2. \A b \in before'[d] : pc'[b] = "returned"
    BY <1>0, <2>1 DEF CallInv, Evolves
  <2>3. CASE c # d
    <3>1. pc'[d] = pc[d]
      BY <1>5, <2>3 DEF Return, CanReturn, TypeOK
    <3> QED BY <1>0, <2>1, <2>2, <3>1 DEF CallInv
  <2>4. CASE c = d
    <3>1. /\ pc[d] \in {"open", "listening"} /\ pc'[d] = "returned"
          /\ read[d] = Len(produced[d]) /\ status[d] = "ok" /\ Op(d) \notin FirstOps
      BY <1>5, <2>4, <1>a DEF Return, CanReturn, Unread, TypeOK
    <3> QED BY <1>0, <2>1, <2>2, <3>1 DEF CallInv
  <2> QED BY <2>3, <2>4
<1>6. ASSUME NEW c \in Calls, Serve(c) PROVE CallInv(d)'
  <2> DEFINE cid == Args(c)[served[c] + 1]
  <2>1. /\ status[c] = "open" /\ served[c] < sent[c] /\ cid \in Cids
        /\ request' = request /\ before' = before /\ pc' = pc /\ error' = error
        /\ sent' = sent /\ read' = read
        /\ Answered(c) \/ NotFound(c)
    BY <1>6, ServeLemma
  <2>2. CASE NotFound(c)
    <3>1. served' = served /\ produced' = produced
          /\ (status'[d] = status[d] \/ (status'[d] = "missing" /\ d = c))
      BY <2>2 DEF NotFound, TypeOK
    <3>2. pc[c] # "idle"
      BY <2>1 DEF CallInv, TypeOK
    <3> QED BY <1>0, <2>1, <3>1, <3>2 DEF CallInv
  <2>3. CASE Answered(c) /\ c # d
    <3>1. served'[d] = served[d] /\ produced'[d] = produced[d] /\ status' = status
      BY <2>3 DEF Answered, TypeOK
    <3>2. Op(d) \in PairedOps =>
            /\ Len(produced'[d]) = served'[d]
            /\ \A i \in 1..served'[d] : produced'[d][i] = Args(d)[i]
      BY <1>0, <3>1 DEF CallInv
    <3>3. /\ pc'[d] = pc[d] /\ error'[d] = error[d] /\ sent'[d] = sent[d]
          /\ read'[d] = read[d] /\ status'[d] = status[d] /\ before'[d] = before[d]
      BY <2>1, <3>1
    <3> QED BY <1>0, <2>1, <3>1, <3>2, <3>3 DEF CallInv
  <2>4. CASE Answered(c) /\ c = d
    <3>0. /\ served' = [served EXCEPT ![d] = @ + 1] /\ status' = status
          /\ \E answer \in Responses(Op(d), cid) : produced' = [produced EXCEPT ![d] = @ \o answer]
      BY <2>4, Zenon DEF Answered
    <3>1. PICK answer \in Responses(Op(d), cid) :
            produced' = [produced EXCEPT ![d] = @ \o answer]
      BY <3>0
    <3>6. produced'[d] = produced[d] \o answer
      BY <3>1 DEF TypeOK
    <3>2. served'[d] = served[d] + 1 /\ status' = status
      BY <3>0 DEF TypeOK
    <3>3. pc[d] # "idle" /\ pc[d] # "returned" /\ status[d] = "open"
      <4>1. status[d] = "open" /\ sent[d] # 0 /\ served[d] # Len(Args(d))
        BY <1>a, <2>1, <2>4
      <4> QED BY <1>0, <4>1 DEF CallInv
    <3>4. Op(d) \in PairedOps =>
            /\ Len(produced'[d]) = served'[d]
            /\ \A i \in 1..served'[d] : produced'[d][i] = Args(d)[i]
      <4> SUFFICES ASSUME Op(d) \in PairedOps
                   PROVE  /\ Len(produced'[d]) = served'[d]
                          /\ \A i \in 1..served'[d] : produced'[d][i] = Args(d)[i]
        OBVIOUS
      <4>1. answer = <<cid>>
        BY <2>1, <2>4, ArgsLemma, ResponsesLemma DEF PairedOps
      <4>2. Len(produced[d]) = served[d] /\ \A i \in 1..served[d] : produced[d][i] = Args(d)[i]
        BY <1>0 DEF CallInv
      <4>3. /\ Len(produced'[d]) = Len(produced[d]) + 1
            /\ \A i \in 1..Len(produced[d]) : produced'[d][i] = produced[d][i]
            /\ produced'[d][Len(produced[d]) + 1] = cid
        BY <1>a, <2>1, <3>6, <4>1
      <4> QED BY <1>a, <2>4, <3>2, <4>2, <4>3
    <3> QED BY <1>0, <1>a, <2>1, <3>2, <3>3, <3>4 DEF CallInv
  <2> QED BY <2>1, <2>2, <2>3, <2>4
<1>7. ASSUME NEW c \in Calls, Finish(c) \/ ServerFails(c) PROVE CallInv(d)'
  <2>1. /\ UNCHANGED <<request, before, pc, error, sent, read, served, produced>>
        /\ status'[d] = status[d]
           \/ (pc[d] # "idle" /\ (status'[d] = "ok" => served[d] = Len(Args(d))))
    BY <1>7 DEF Finish, CanFinish, ServerFails, TypeOK
  <2> QED BY <1>0, <2>1 DEF CallInv
<1>8. CASE UNCHANGED vars
  BY <1>0, <1>8 DEF vars, CallInv
<1> QED BY <1>1, <1>2, <1>3, <1>4, <1>5, <1>6, <1>7, <1>8 DEF Next, CallerStep, ServerStep

\* Who has had a request carried out has begun; who has returned, all of them.
LEMMA DoneLemma ==
  ASSUME TypeOK, NEW c \in Calls, CallInv(c), NEW cid
  PROVE  /\ Done(c, cid) => pc[c] # "idle"
         /\ pc[c] = "returned" /\ (\E i \in DOMAIN Args(c) : Args(c)[i] = cid) => Done(c, cid)
         /\ served[c] < sent[c] => pc[c] # "idle" /\ pc[c] # "returned"
<1>1. /\ served[c] \in Nat /\ sent[c] \in Nat /\ served[c] <= sent[c] /\ sent[c] <= Len(Args(c))
      /\ Len(Args(c)) \in Nat /\ DOMAIN Args(c) = 1..Len(Args(c))
  BY ArgsLemma DEF TypeOK
<1>2. Done(c, cid) => sent[c] # 0
  BY <1>1 DEF Done
<1>3. served[c] < sent[c] => sent[c] # 0 /\ served[c] # Len(Args(c))
  BY <1>1
<1>4. pc[c] = "idle" => sent[c] = 0
  BY DEF CallInv
<1>5. pc[c] = "returned" => served[c] = Len(Args(c))
  BY DEF CallInv
<1>6. pc[c] = "returned" /\ (\E i \in DOMAIN Args(c) : Args(c)[i] = cid) => Done(c, cid)
  BY <1>1, <1>5 DEF Done
<1> QED BY <1>2, <1>3, <1>4, <1>5, <1>6

\* Every step but one of the server leaves the records, and what is done, alone.
LEMMA QuietSteps ==
  ASSUME TypeOK, [Next]_vars, \A c \in Calls : ~Serve(c)
  PROVE  /\ directory' = directory /\ served' = served
         /\ \A c \in Calls : status'[c] = "missing" => status[c] = "missing"
<1> USE DEF TypeOK, callVars, clientVars, serverVars
<1>1. ASSUME NEW c \in Calls,
             Begin(c) \/ Refuse(c) \/ ReturnNothing(c) \/ Fail(c) \/ Break(c) \/ Send(c)
               \/ Read(c) \/ Return(c)
      PROVE  directory' = directory /\ served' = served /\ status' = status
  BY <1>1 DEF Begin, Refuse, ReturnNothing, NothingCame, Fail, HasFailed, Break, Send, CanSend, Read, CanRead, Return, CanReturn
<1>2. ASSUME NEW c \in Calls, Finish(c) \/ ServerFails(c)
      PROVE  /\ directory' = directory /\ served' = served
             /\ \A d \in Calls : status'[d] = "missing" => status[d] = "missing"
  BY <1>2 DEF Finish, CanFinish, ServerFails
<1>3. CASE UNCHANGED vars
  BY <1>3 DEF vars
<1> QED BY <1>1, <1>2, <1>3 DEF Next, CallerStep, ServerStep

LEMMA RecordStep ==
  ASSUME TypeOK, TypeOK', IInv, [Next]_vars, NEW cid \in Cids
  PROVE  RecordInv(cid)'
<1>0. /\ Evolves
      /\ RecordInv(cid)
      /\ \A c \in Calls : CallInv(c) /\ Op(c)' = Op(c) /\ Args(c)' = Args(c)
      /\ \A op : Batches(op, cid)' = Batches(op, cid) /\ Batches(op, cid) \subseteq Calls
  <2>1. Evolves
    BY Evolution
  <2> QED BY <2>1 DEF IInv, Evolves, Op, Args, Batches
<1>1. \A d \in Calls : Done(d, cid) =>
        before'[d] = before[d] /\ \A p \in Calls : pc'[p] = "idle" => pc[p] = "idle"
  BY <1>0, DoneLemma DEF Evolves
<1>2. CASE \A c \in Calls : ~Serve(c)
  <2>1. directory' = directory /\ \A c \in Calls : Done(c, cid)' = Done(c, cid)
    BY <1>0, <1>2, QuietSteps DEF Done
  <2>2. ASSUME NEW p \in Batches("push", cid), Done(p, cid),
               \A d \in Batches("delete", cid) : pc'[d] = "idle"
        PROVE  cid \in directory
    BY <1>0, <2>2 DEF RecordInv, Evolves
  <2>3. ASSUME NEW d \in Batches("delete", cid), Done(d, cid),
               \A p \in Batches("push", cid) : pc'[p] = "idle" \/ p \in before'[d]
        PROVE  cid \notin directory
    BY <1>0, <1>1, <2>3 DEF RecordInv
  <2> QED BY <1>0, <2>1, <2>2, <2>3 DEF RecordInv
<1>3. ASSUME NEW c \in Calls, Serve(c) PROVE RecordInv(cid)'
  <2> DEFINE x == Args(c)[served[c] + 1]
  <2>1. /\ served[c] < sent[c] /\ x \in Cids
        /\ served[c] + 1 \in 1..Len(Args(c))
        /\ before' = before /\ pc' = pc
        /\ Answered(c) \/ NotFound(c)
    BY <1>3, ServeLemma
  <2>2. CASE NotFound(c)
    <3>1. directory' = directory /\ \A d \in Calls : Done(d, cid)' = Done(d, cid)
      BY <1>0, <2>2 DEF NotFound, Done
    <3> QED BY <1>0, <2>1, <3>1 DEF RecordInv
  <2>3. CASE Answered(c)
    <3>0. pc[c] # "idle" /\ pc[c] # "returned"
      BY <1>0, <2>1, DoneLemma
    <3>1. /\ Op(c) # "delete" => directory \subseteq directory'
          /\ Op(c) = "push" => x \in directory' /\ directory' \subseteq directory \cup {x}
          /\ Op(c) = "delete" => directory' = directory \ {x}
          /\ Op(c) # "push" => directory' \subseteq directory
      <4>1. directory' = After(directory, Op(c), x) /\ directory \subseteq Cids
        BY <2>3 DEF Answered, TypeOK
      <4> QED BY <2>1, <4>1, AfterLemma
    <3>2. \A d \in Calls : Done(d, cid)' => Done(d, cid) \/ (d = c /\ x = cid)
      <4> SUFFICES ASSUME NEW d \in Calls, Done(d, cid)'
                   PROVE  Done(d, cid) \/ (d = c /\ x = cid)
        OBVIOUS
      <4>1. PICK i \in 1..served'[d] : Args(d)[i] = cid
        BY <1>0 DEF Done
      <4>2. served'[d] = IF d = c THEN served[d] + 1 ELSE served[d]
        BY <2>3 DEF Answered, TypeOK
      <4>3. served[d] \in Nat
        BY DEF TypeOK
      <4> QED BY <4>1, <4>2, <4>3 DEF Done
    <3>3. c \in Calls /\ (x = cid => c \in Batches(Op(c), cid))
      BY <2>1, ArgsLemma DEF Batches
    <3>4. ASSUME NEW p \in Batches("push", cid), Done(p, cid)',
                 \A d \in Batches("delete", cid) : pc[d] = "idle"
          PROVE  cid \in directory'
      <4>1. ~(Op(c) = "delete" /\ x = cid)
        BY <3>0, <3>3, <3>4
      <4>2. CASE Done(p, cid)
        <5>1. cid \in directory
          BY <1>0, <3>4, <4>2 DEF RecordInv
        <5> QED BY <3>1, <4>1, <5>1
      <4>3. CASE p = c /\ x = cid
        <5>1. Op(c) = "push"
          BY <4>3 DEF Batches
        <5> QED BY <3>1, <4>3, <5>1
      <4> QED BY <1>0, <3>2, <3>4, <4>2, <4>3
    <3>5. ASSUME NEW d \in Batches("delete", cid), Done(d, cid)',
                 \A p \in Batches("push", cid) : pc[p] = "idle" \/ p \in before[d]
          PROVE  cid \notin directory'
      <4>1. ~(Op(c) = "push" /\ x = cid)
        <5>1. \A b \in before[d] : pc[b] = "returned"
          BY <1>0 DEF CallInv, Batches
        <5> QED BY <3>0, <3>3, <3>5, <5>1
      <4>2. CASE Done(d, cid)
        <5>1. cid \notin directory
          BY <1>0, <3>5, <4>2 DEF RecordInv
        <5> QED BY <3>1, <4>1, <5>1
      <4>3. CASE d = c /\ x = cid
        <5>1. Op(c) = "delete"
          BY <4>3 DEF Batches
        <5> QED BY <3>1, <4>3, <5>1
      <4> QED BY <1>0, <3>2, <3>5, <4>2, <4>3
    <3> QED BY <1>0, <2>1, <3>4, <3>5 DEF RecordInv
  <2> QED BY <2>1, <2>2, <2>3
<1> QED BY <1>2, <1>3

LEMMA MissingStep ==
  ASSUME TypeOK, IInv, [Next]_vars, NEW d \in Calls
  PROVE  MissingInv(d)'
<1>0. /\ Evolves
      /\ \A c \in Calls : CallInv(c) /\ MissingInv(c)
      /\ \A c \in Calls : Op(c)' = Op(c) /\ Args(c)' = Args(c)
      /\ \A op, cid : Batches(op, cid)' = Batches(op, cid) /\ Batches(op, cid) \subseteq Calls
  <2>1. Evolves
    BY Evolution
  <2> QED BY <2>1 DEF IInv, Evolves, Op, Args, Batches
<1> SUFFICES ASSUME status'[d] = "missing"
             PROVE  \E i \in DOMAIN Args(d) :
                      \/ Batches("push", Args(d)[i]) \cap before'[d] = {}
                      \/ \E e \in Batches("delete", Args(d)[i]) : pc'[e] # "idle"
  BY <1>0 DEF MissingInv
<1>1. CASE status[d] = "missing"
  <2>1. before'[d] = before[d]
    BY <1>0, <1>1 DEF CallInv, Evolves
  <2>2. PICK i \in DOMAIN Args(d) :
          \/ Batches("push", Args(d)[i]) \cap before[d] = {}
          \/ \E e \in Batches("delete", Args(d)[i]) : pc[e] # "idle"
    BY <1>0, <1>1 DEF MissingInv
  <2> QED BY <1>0, <2>1, <2>2 DEF Evolves
<1>2. CASE status[d] # "missing"
  <2>1. PICK c \in Calls : Serve(c)
    BY <1>2, QuietSteps
  <2> DEFINE x == Args(c)[served[c] + 1]
  <2>2. /\ x \in Cids /\ served[c] + 1 \in DOMAIN Args(c)
        /\ before' = before /\ pc' = pc
        /\ Answered(c) \/ NotFound(c)
    BY <2>1, ServeLemma, ArgsLemma
  <2>3. c = d /\ x \notin directory
    BY <1>2, <2>2 DEF Answered, NotFound, TypeOK
  <2>4. ASSUME NEW p \in Batches("push", x) \cap before[d]
        PROVE  \E e \in Batches("delete", x) : pc[e] # "idle"
    <3>1. p \in Calls /\ pc[p] = "returned" /\ \E i \in DOMAIN Args(p) : Args(p)[i] = x
      BY <1>0 DEF CallInv, Batches
    <3>2. Done(p, x)
      BY <1>0, <3>1, DoneLemma
    <3> QED BY <2>2, <2>3, <3>2 DEF IInv, RecordInv
  <2> QED BY <2>2, <2>3, <2>4
<1> QED BY <1>1, <1>2

\* What the code and the server keep true of the calls and the records.
THEOREM Inductive == Spec => []IInv
<1>1. TypeOK /\ TypeOK' /\ IInv /\ [Next]_vars => IInv'
  <2> SUFFICES ASSUME TypeOK, TypeOK', IInv, [Next]_vars PROVE IInv'
    OBVIOUS
  <2>1. \A c \in Calls : CallInv(c)'
    BY CallStep DEF IInv
  <2>2. \A c \in Calls : MissingInv(c)'
    BY MissingStep
  <2>3. \A cid \in Cids : RecordInv(cid)'
    BY RecordStep
  <2> QED BY <2>1, <2>2, <2>3 DEF IInv
<1> QED BY <1>1, InitInv, TypeInvariant, PTL DEF Spec

-----------------------------------------------------------------------------
(* The properties *)

\* A list that is returned is all the server had to say, in its place.
THEOREM Complete == Spec => []AnswersComplete
<1>1. TypeOK /\ IInv => AnswersComplete
  <2> SUFFICES ASSUME TypeOK, IInv, NEW c \in Calls, pc[c] = "returned", Op(c) \notin FirstOps
               PROVE  /\ served[c] = Len(Args(c)) /\ read[c] = Len(produced[c])
                      /\ Op(c) \in PairedOps => produced[c] = Args(c)
    BY DEF AnswersComplete, PairedOps
  <2>1. served[c] = Len(Args(c)) /\ read[c] = Len(produced[c])
    BY DEF IInv, CallInv
  <2>2. ASSUME Op(c) \in PairedOps PROVE produced[c] = Args(c)
    <3>1. Len(produced[c]) = Len(Args(c)) /\ \A i \in 1..Len(Args(c)) : produced[c][i] = Args(c)[i]
      BY <2>1, <2>2 DEF IInv, CallInv
    <3>2. produced[c] \in Seq(Cids) /\ Args(c) \in Seq(Cids)
      BY ArgsLemma DEF TypeOK
    <3> QED BY <3>1, <3>2
  <2> QED BY <2>1, <2>2
<1> QED BY <1>1, TypeInvariant, Inductive, PTL

\* What a push that returned has pushed is found afterwards.
THEOREM Found == Spec => []PushedIsFound
<1>1. IInv => PushedIsFound
  BY DEF IInv, MissingInv, PushedIsFound
<1> QED BY <1>1, Inductive, PTL

\* What a delete that returned has deleted does not come back by itself.
THEOREM Gone == Spec => []DeletedIsGone
<1>1. TypeOK /\ IInv => DeletedIsGone
  <2> SUFFICES ASSUME TypeOK, IInv, NEW cid \in Cids, NEW d \in Batches("delete", cid),
                      pc[d] = "returned",
                      \A p \in Batches("push", cid) : pc[p] = "idle" \/ p \in before[d]
               PROVE  cid \notin directory
    BY DEF DeletedIsGone
  <2>1. d \in Calls /\ \E i \in DOMAIN Args(d) : Args(d)[i] = cid
    BY DEF Batches
  <2>2. Done(d, cid)
    BY <2>1, DoneLemma DEF IInv
  <2> QED BY <2>2 DEF IInv, RecordInv
<1> QED BY <1>1, TypeInvariant, Inductive, PTL

\* A RuntimeError means that nothing was sent.
THEOREM Unsent == Spec => []RuntimeErrorMeansUnsent
<1>1. IInv => RuntimeErrorMeansUnsent
  BY DEF IInv, CallInv, RuntimeErrorMeansUnsent
<1> QED BY <1>1, Inductive, PTL

\* Nothing is carried out for a call that has returned.
THEOREM Quiet == Spec => ReturnedIsQuiet
<1>1. TypeOK /\ IInv /\ [Next]_vars =>
        [\A c \in Calls : pc[c] = "returned" => served'[c] = served[c]]_vars
  <2> SUFFICES ASSUME TypeOK, IInv, [Next]_vars, NEW d \in Calls, pc[d] = "returned"
               PROVE  served'[d] = served[d]
    OBVIOUS
  <2>1. CASE \A c \in Calls : ~Serve(c)
    BY <2>1, QuietSteps
  <2>2. ASSUME NEW c \in Calls, Serve(c) PROVE served'[d] = served[d]
    <3>1. served[c] < sent[c] /\ (Answered(c) \/ NotFound(c))
      BY <2>2, ServeLemma
    <3>2. c # d
      BY <3>1, DoneLemma DEF IInv
    <3> QED BY <3>1, <3>2 DEF Answered, NotFound, TypeOK
  <2> QED BY <2>1, <2>2
<1> QED BY <1>1, TypeInvariant, Inductive, PTL DEF Spec, ReturnedIsQuiet

-----------------------------------------------------------------------------
(* Why every call ends *)

\* Whatever the window and the length of the batch, the sender, the server or the
\* calling thread of a call can go on: both directions are never full and waiting
\* for each other.
THEOREM NoWait == Spec => []NoSelfWait
<1>1. TypeOK /\ IInv => NoSelfWait
  <2> SUFFICES ASSUME TypeOK, IInv, NEW c \in Calls, pc[c] = "open"
               PROVE  \/ CanSend(c) \/ CanServe(c) \/ CanFinish(c)
                      \/ CanRead(c) \/ CanReturn(c) \/ NothingCame(c) \/ HasFailed(c)
    BY DEF NoSelfWait
  <2>1. /\ served[c] \in Nat /\ sent[c] \in Nat /\ served[c] <= sent[c]
        /\ sent[c] <= Len(Args(c)) /\ Len(Args(c)) \in Nat
        /\ read[c] \in Nat /\ read[c] <= Len(produced[c]) /\ Len(produced[c]) \in Nat
        /\ status[c] \in {"open", "ok", "missing", "failed"}
    BY ArgsLemma DEF TypeOK
  <2>2. CASE Unread(c) > 0
    BY <2>2 DEF CanRead
  <2>3. CASE Unread(c) = 0 /\ status[c] = "open"
    <3>1. CASE sent[c] = Len(Args(c)) /\ served[c] = sent[c]
      BY <2>3, <3>1 DEF CanFinish
    <3>2. CASE served[c] < sent[c]
      BY <2>3, <3>2, WindowAssumption DEF CanServe
    <3>3. CASE sent[c] < Len(Args(c)) /\ served[c] = sent[c]
      BY <2>1, <2>3, <3>3, WindowAssumption DEF CanSend
    <3> QED BY <2>1, <3>1, <3>2, <3>3
  <2>4. CASE Unread(c) = 0 /\ status[c] = "ok"
    <3>1. CASE Op(c) \notin FirstOps
      BY <2>4, <3>1 DEF CanReturn
    <3>2. CASE Op(c) \in FirstOps
      <4>1. read[c] = 0
        BY <3>2 DEF IInv, CallInv
      <4>2. produced[c] = <<>>
        BY <2>1, <2>4, <4>1 DEF Unread, TypeOK
      <4> QED BY <2>4, <3>2, <4>2 DEF NothingCame
    <3> QED BY <3>1, <3>2
  <2>5. CASE status[c] \in {"missing", "failed"}
    BY <2>5 DEF HasFailed
  <2>6. Unread(c) > 0 \/ Unread(c) = 0
    BY <2>1 DEF Unread
  <2> QED BY <2>1, <2>2, <2>3, <2>4, <2>5, <2>6
<1> QED BY <1>1, TypeInvariant, Inductive, PTL

\* Each step that NoSelfWait speaks of brings its call nearer to its end.
LEMMA OwnSteps ==
  ASSUME TypeOK, NEW c \in Calls, CallerStep(c) \/ Send(c) \/ ServerStep(c)
  PROVE  Nearer(c)
<1> USE DEF TypeOK, Nearer, callVars, clientVars, serverVars
<1>1. CASE Send(c)
  BY <1>1 DEF Send, CanSend
<1>2. CASE Read(c)
  BY <1>2 DEF Read, CanRead
<1>3. CASE Return(c) \/ ReturnNothing(c) \/ Fail(c)
  BY <1>3 DEF Return, ReturnNothing, Fail, Raise
<1>4. CASE Serve(c)
  <2>1. Answered(c) \/ NotFound(c)
    BY <1>4, ServeLemma
  <2>2. status[c] = "open" /\ sent' = sent
    BY <1>4, ServeLemma
  <2> QED BY <2>1, <2>2 DEF Answered, NotFound
<1>5. CASE Finish(c)
  BY <1>5 DEF Finish, CanFinish
<1> QED BY <1>1, <1>2, <1>3, <1>4, <1>5 DEF CallerStep, ServerStep

\* What a step of one call leaves alone of another.
LEMMA OtherCalls ==
  ASSUME TypeOK, NEW c \in Calls, NEW d \in Calls, c # d,
         \/ Begin(c) \/ Refuse(c) \/ Send(c) \/ CallerStep(c) \/ Break(c)
         \/ ServerStep(c) \/ ServerFails(c)
  PROVE  UNCHANGED <<request, pc[d], error[d], sent[d], served[d], produced[d], read[d],
                     status[d]>>
<1> USE DEF TypeOK, callVars, clientVars, serverVars
<1>1. CASE Begin(c) \/ Refuse(c) \/ Send(c) \/ Break(c) \/ ServerFails(c)
  BY <1>1 DEF Begin, Refuse, Send, Break, Raise, ServerFails
<1>2. CASE CallerStep(c)
  BY <1>2 DEF CallerStep, Read, Return, ReturnNothing, Fail, Raise
<1>3. CASE Serve(c)
  <2>1. Answered(c) \/ NotFound(c)
    BY <1>3, ServeLemma
  <2> QED BY <1>3, <2>1, ServeLemma DEF Answered, NotFound
<1>4. CASE Finish(c)
  BY <1>4 DEF Finish
<1> QED BY <1>1, <1>2, <1>3, <1>4 DEF ServerStep

\* No step of anybody takes a call back, or keeps it busy without advancing it.
THEOREM Advance == Spec => CallsAdvance
<1>1. TypeOK /\ [Next]_vars =>
        [\A c \in Calls : pc[c] = "open" => Nearer(c) \/ Still(c)]_vars
  <2> SUFFICES ASSUME TypeOK, [Next]_vars, NEW d \in Calls, pc[d] = "open"
               PROVE  Nearer(d) \/ Still(d)
    OBVIOUS
  <2>1. CASE UNCHANGED vars
    BY <2>1 DEF Still, vars, callVars, clientVars, serverVars
  <2>2. ASSUME NEW c \in Calls, c # d,
               \/ Begin(c) \/ Refuse(c) \/ Send(c) \/ CallerStep(c) \/ Break(c)
               \/ ServerStep(c) \/ ServerFails(c)
        PROVE  Still(d)
    BY <2>2, OtherCalls DEF Still
  <2>3. CASE CallerStep(d) \/ Send(d) \/ ServerStep(d)
    BY <2>3, OwnSteps
  <2>4. CASE Refuse(d) \/ Break(d)
    BY <2>4 DEF Refuse, Break, Raise, Nearer, TypeOK
  <2>5. CASE ServerFails(d)
    BY <2>5 DEF ServerFails, Nearer, TypeOK, callVars, clientVars
  <2>6. ~Begin(d)
    BY DEF Begin
  <2> QED BY <2>1, <2>2, <2>3, <2>4, <2>5, <2>6 DEF Next
<1> QED BY <1>1, TypeInvariant, PTL DEF Spec, CallsAdvance

-----------------------------------------------------------------------------
(* The refinement of DirectoryCalls *)

\* Both specifications speak of the methods in the same words.
LEMMA SameWords ==
  /\ Directory!FirstOps = FirstOps
  /\ \A op : Directory!LooksUp(op) <=> LooksUp(op)
  /\ \A op, cid : Directory!Responses(op, cid) = Responses(op, cid)
  /\ \A records, op, cid : Directory!After(records, op, cid) = After(records, op, cid)
  /\ \A c : Directory!Op(c) = Op(c) /\ Directory!Args(c) = Args(c)
<1>1. Directory!FirstOps = FirstOps /\ \A op : Directory!LooksUp(op) <=> LooksUp(op)
  BY DEF FirstOps, Directory!FirstOps, LooksUp, Directory!LooksUp
<1>2. \A op, cid : Directory!Responses(op, cid) = Responses(op, cid)
  BY DEF Responses, Directory!Responses, Directory!UploadOps, Directory!LazyOps,
         Directory!ListOps, Directory!FirstOps, UploadOps, LazyOps, ListOps, FirstOps,
         Seqs, Directory!Seqs, Listings, Directory!Listings
<1>3. \A records, op, cid : Directory!After(records, op, cid) = After(records, op, cid)
  BY DEF After, Directory!After
<1>4. \A c : Directory!Op(c) = Op(c) /\ Directory!Args(c) = Args(c)
  BY DEF Op, Directory!Op, Args, Directory!Args
<1> QED BY <1>1, <1>2, <1>3, <1>4

Unsure(c) == error[c] # "RuntimeError" \/ Op(c) \in FirstOps \cup {"verify"}

\* What the mapping makes of each state of a call.
LEMMA PhaseLemma ==
  ASSUME NEW c \in Calls
  PROVE  /\ pc[c] = "idle" => Phase(c) = "idle"
         /\ pc[c] \in {"open", "listening"} => Phase(c) = "running"
         /\ pc[c] = "returned" => Phase(c) = "answered"
         /\ pc[c] = "raised" => Phase(c) = IF Unsure(c) THEN "failed" ELSE "refused"
         /\ pc[c] # "returned" => AnswerOf(c) = <<>>
         /\ Phases[c] = Phase(c) /\ Answers[c] = AnswerOf(c)
<1>1. CASE pc[c] = "idle"
  BY <1>1 DEF Phase, Phases, Answers, AnswerOf
<1>2. CASE pc[c] \in {"open", "listening"}
  BY <1>2 DEF Phase, Phases, Answers, AnswerOf
<1>3. CASE pc[c] = "returned"
  BY <1>3 DEF Phase, Phases, Answers, AnswerOf
<1>4. CASE pc[c] = "raised"
  BY <1>4 DEF Phase, Unsure, Phases, Answers, AnswerOf
<1> QED BY <1>1, <1>2, <1>3, <1>4 DEF Phases, Answers, AnswerOf

\* A step of one call moves that call only, in the mapping too.
LEMMA MapStep ==
  ASSUME TypeOK, NEW c \in Calls,
         \/ Begin(c) \/ Refuse(c) \/ Send(c) \/ CallerStep(c) \/ Break(c)
         \/ ServerStep(c) \/ ServerFails(c)
  PROVE  /\ request' = request
         /\ Phases' = [Phases EXCEPT ![c] = Phase(c)']
         /\ Answers' = [Answers EXCEPT ![c] = AnswerOf(c)']
         /\ status'[c] = "missing" => Missing' = Missing \cup {c}
         /\ status'[c] # "missing" => Missing' = Missing \ {c}
<1>1. request' = request
  <2>1. [Next]_vars
    BY DEF Next
  <2> QED BY <2>1, Evolution DEF Evolves
<1>2. \A d \in Calls : d # c =>
        Phase(d)' = Phase(d) /\ AnswerOf(d)' = AnswerOf(d) /\ status'[d] = status[d]
  <2> TAKE d \in Calls
  <2> HAVE d # c
  <2>1. UNCHANGED <<request, pc[d], error[d], sent[d], served[d], produced[d], read[d],
                    status[d]>>
    BY OtherCalls
  <2> QED BY <2>1 DEF Phase, AnswerOf, Op
<1>3. Phases' = [Phases EXCEPT ![c] = Phase(c)']
  BY <1>2 DEF Phases
<1>4. Answers' = [Answers EXCEPT ![c] = AnswerOf(c)']
  BY <1>2 DEF Answers
<1>5. /\ status'[c] = "missing" => Missing' = Missing \cup {c}
      /\ status'[c] # "missing" => Missing' = Missing \ {c}
  BY <1>2 DEF Missing
<1> QED BY <1>1, <1>3, <1>4, <1>5

\* A call begins, is refused, or fails: the same in the abstract.
LEMMA EndRefines ==
  ASSUME TypeOK, IInv, NEW c \in Calls,
         Begin(c) \/ Refuse(c) \/ ReturnNothing(c) \/ Fail(c) \/ Break(c)
  PROVE  Directory!Ask(c) \/ Directory!Refuse(c) \/ Directory!Fail(c)
<1>1. /\ UNCHANGED <<request, directory, served, produced, status>>
      /\ pc[c] \in {"idle", "open", "listening"}
  BY DEF Begin, Refuse, ReturnNothing, NothingCame, Fail, HasFailed, Break, Raise, callVars,
         serverVars
<1>2. /\ Phases' = [Phases EXCEPT ![c] = Phase(c)']
      /\ Missing' = Missing
  <2>1. status'[c] = status[c]
    BY <1>1
  <2> QED BY <2>1, MapStep DEF CallerStep, Missing
<1>3. AnswerOf(c)' = AnswerOf(c) => Answers' = Answers
  BY MapStep DEF CallerStep, Answers
<1>4. CASE Begin(c)
  <2>1. pc[c] = "idle" /\ pc'[c] \in {"open", "listening"}
    BY <1>4 DEF Begin, TypeOK
  <2>2. Phases[c] = "idle" /\ Phase(c)' = "running" /\ AnswerOf(c)' = AnswerOf(c)
    BY <2>1, PhaseLemma DEF Phase, AnswerOf
  <2> QED BY <1>1, <1>2, <1>3, <2>2 DEF Directory!Ask, Directory!Moves
<1>5. CASE Refuse(c) \/ ReturnNothing(c) \/ Fail(c) \/ Break(c)
  <2>1. pc[c] \in {"open", "listening"} /\ pc'[c] = "raised"
    BY <1>5 DEF Refuse, ReturnNothing, NothingCame, Fail, HasFailed, Break, Raise, TypeOK
  <2>2. Phases[c] = "running" /\ AnswerOf(c)' = AnswerOf(c)
    BY <2>1, PhaseLemma DEF AnswerOf
  <2>3. CASE Unsure(c)'
    <3>1. Phase(c)' = "failed"
      BY <2>1, <2>3 DEF Phase, Unsure
    <3> QED BY <1>1, <1>2, <1>3, <2>2, <3>1 DEF Directory!Fail, Directory!Moves
  <2>4. CASE ~Unsure(c)'
    <3>1. Phase(c)' = "refused"
      BY <2>1, <2>4 DEF Phase, Unsure
    <3>2. sent[c] = 0
      <4>1. Op(c)' = Op(c)
        BY <1>1 DEF Op
      <4> QED BY <1>5, <2>4, <4>1
              DEF Unsure, Refuse, ReturnNothing, NothingCame, Fail, Break, Raise, GrpcErrorOf,
                  TypeOK
    <3>3. served[c] = 0
      BY <3>2 DEF TypeOK
    <3> QED BY <1>1, <1>2, <1>3, <2>2, <3>1, <3>3 DEF Directory!Refuse, Directory!Moves
  <2> QED BY <2>3, <2>4
<1> QED BY <1>4, <1>5

\* The first element of a sequence, as a sequence.
LEMMA HeadLemma ==
  ASSUME NEW S, NEW s \in Seq(S), Len(s) > 0
  PROVE  SubSeq(s, 1, 1) = <<Head(s)>>
<1> DEFINE t == SubSeq(s, 1, 1)
           u == <<Head(s)>>
<1>1. t \in Seq(S) /\ u \in Seq(S)
  OBVIOUS
<1>2. Len(t) = 1 /\ t[1] = s[1] /\ Len(u) = 1 /\ u[1] = s[1]
  OBVIOUS
<1> HIDE DEF t, u
<1>3. t = u
  BY <1>1, <1>2
<1> QED BY <1>3 DEF t, u

\* A call answers when the list is complete, or with its first response; what it
\* reads and sends until then shows nowhere.
LEMMA AnswerRefines ==
  ASSUME TypeOK, IInv, NEW c \in Calls, Send(c) \/ Read(c) \/ Return(c)
  PROVE  Directory!Answer(c) \/ UNCHANGED Directory!vars
<1>1. /\ UNCHANGED <<request, error, directory, served, produced, status>>
      /\ pc[c] \in {"open", "listening"}
  BY DEF Send, CanSend, Read, CanRead, Return, CanReturn, callVars, serverVars
<1>2. /\ Phases' = [Phases EXCEPT ![c] = Phase(c)']
      /\ Answers' = [Answers EXCEPT ![c] = AnswerOf(c)']
      /\ Missing' = Missing
  <2>1. status'[c] = status[c]
    BY <1>1
  <2> QED BY <2>1, MapStep DEF CallerStep, Missing
<1>3. Phases[c] = "running" /\ Phase(c) = "running" /\ AnswerOf(c) = <<>>
  BY <1>1, PhaseLemma
<1>4. /\ served[c] \in Nat /\ sent[c] \in Nat /\ served[c] <= sent[c] /\ sent[c] <= Len(Args(c))
      /\ Len(Args(c)) \in Nat /\ produced[c] \in Seq(Cids) /\ Len(produced[c]) \in Nat
      /\ read[c] \in Nat /\ read[c] <= Len(produced[c])
  BY ArgsLemma DEF TypeOK
<1>5. ASSUME pc'[c] = pc[c]
      PROVE  UNCHANGED Directory!vars
  <2>1. Phase(c)' = Phase(c) /\ AnswerOf(c)' = AnswerOf(c)
    BY <1>1, <1>3, <1>5 DEF Phase, AnswerOf
  <2>2. Phases' = Phases /\ Answers' = Answers
    BY <1>2, <2>1 DEF Phases, Answers
  <2> QED BY <1>1, <1>2, <2>2 DEF Directory!vars
<1>6. ASSUME pc'[c] = "returned", served[c] = Len(Args(c)),
             Op(c) \in FirstOps => produced[c] # <<>>,
             SubSeq(produced[c], 1, read'[c])
               = IF Op(c) \in FirstOps THEN <<Head(produced[c])>> ELSE produced[c]
      PROVE  Directory!Answer(c)
  <2>1. Phase(c)' = "answered" /\ AnswerOf(c)' = SubSeq(produced[c], 1, read'[c])
    BY <1>1, <1>6 DEF Phase, AnswerOf
  <2> QED BY <1>1, <1>2, <1>3, <1>6, <2>1, SameWords DEF Directory!Answer, Directory!Moves
<1>7. CASE Send(c)
  BY <1>5, <1>7 DEF Send
<1>8. CASE Read(c)
  <2>1. CASE Op(c) \notin FirstOps
    BY <1>5, <1>8, <2>1 DEF Read
  <2>2. CASE Op(c) \in FirstOps
    <3>1. pc'[c] = "returned" /\ read'[c] = read[c] + 1 /\ Unread(c) > 0
      BY <1>8, <2>2 DEF Read, CanRead, TypeOK
    <3>2. read[c] = 0 /\ Len(produced[c]) > 0
      BY <1>1, <1>4, <2>2, <3>1 DEF IInv, CallInv, Unread
    <3>3. produced[c] # <<>> /\ SubSeq(produced[c], 1, read'[c]) = <<Head(produced[c])>>
      <4>1. read'[c] = 1 /\ produced[c] # <<>>
        BY <1>4, <3>1, <3>2
      <4>2. SubSeq(produced[c], 1, 1) = <<Head(produced[c])>>
        BY <1>4, <3>2, HeadLemma
      <4> QED BY <4>1, <4>2
    <3>4. served[c] = Len(Args(c))
      <4>1. Op(c) \notin BatchOps \cup UploadOps
        BY <2>2 DEF FirstOps, BatchOps, UploadOps
      <4>2. Len(Args(c)) = 1
        BY <4>1, ArgsLemma
      <4>3. served[c] # 0
        BY <3>3 DEF IInv, CallInv
      <4> QED BY <1>4, <4>2, <4>3
    <3> QED BY <1>6, <2>2, <3>1, <3>3, <3>4
  <2> QED BY <2>1, <2>2
<1>9. CASE Return(c)
  <2>1. /\ pc'[c] = "returned" /\ read'[c] = read[c] /\ Unread(c) = 0
        /\ status[c] = "ok" /\ Op(c) \notin FirstOps
    BY <1>9 DEF Return, CanReturn, TypeOK
  <2>2. served[c] = Len(Args(c))
    BY <2>1 DEF IInv, CallInv
  <2>3. read[c] = Len(produced[c])
    BY <1>4, <2>1 DEF Unread
  <2>4. SubSeq(produced[c], 1, read'[c]) = produced[c]
    BY <1>4, <2>1, <2>3
  <2> QED BY <1>6, <2>1, <2>2, <2>4
<1> QED BY <1>7, <1>8, <1>9

\* A request that is carried out, or whose record is missing, is the same in the
\* abstract, and of a call that was refused or answered nothing is left to do.
LEMMA ServeRefines ==
  ASSUME TypeOK, IInv, NEW c \in Calls, Serve(c)
  PROVE  Directory!Execute(c) \/ Directory!Miss(c)
<1> DEFINE cid == Args(c)[served[c] + 1]
<1>1. /\ status[c] = "open" /\ served[c] < sent[c]
      /\ request' = request /\ pc' = pc /\ error' = error /\ read' = read
      /\ Answered(c) \/ NotFound(c)
  BY ServeLemma
<1>2. /\ served[c] \in Nat /\ sent[c] \in Nat /\ sent[c] <= Len(Args(c)) /\ Len(Args(c)) \in Nat
      /\ CallInv(c) /\ pc[c] \in {"idle", "open", "listening", "returned", "raised"}
  BY ArgsLemma DEF TypeOK, IInv
<1>3. served[c] < Len(Args(c)) /\ sent[c] # 0
  BY <1>1, <1>2
<1>4. pc[c] \notin {"idle", "returned"} /\ (pc[c] = "raised" => Unsure(c))
  BY <1>2, <1>3 DEF CallInv, Unsure
<1>5. Phases[c] \in {"running", "failed"}
  BY <1>2, <1>4, PhaseLemma
<1>6. c \notin Missing
  BY <1>1 DEF Missing
<1>7. Directory!Pending(c)
  BY <1>3, <1>5, <1>6, SameWords DEF Directory!Pending
<1>8. Phase(c)' = Phase(c) /\ AnswerOf(c)' = AnswerOf(c)
  <2>1. AnswerOf(c)' = AnswerOf(c)
    BY <1>1, <1>4 DEF AnswerOf
  <2> QED BY <1>1, <2>1 DEF Phase, Op
<1>9. Phases' = Phases /\ Answers' = Answers
  BY <1>8, MapStep DEF ServerStep, Phases, Answers
<1>10. CASE Answered(c)
  <2>1. /\ LooksUp(Op(c)) => cid \in directory
        /\ directory' = After(directory, Op(c), cid)
        /\ served' = [served EXCEPT ![c] = @ + 1]
        /\ \E answer \in Responses(Op(c), cid) : produced' = [produced EXCEPT ![c] = @ \o answer]
        /\ status' = status
    BY <1>10 DEF Answered
  <2>2. Missing' = Missing
    BY <2>1 DEF Missing
  <2> QED BY <1>1, <1>7, <1>9, <2>1, <2>2, SameWords DEF Directory!Execute
<1>11. CASE NotFound(c)
  <2>1. /\ LooksUp(Op(c)) /\ cid \notin directory
        /\ directory' = directory /\ served' = served /\ produced' = produced
        /\ status'[c] = "missing"
    BY <1>11 DEF NotFound, TypeOK
  <2>2. Missing' = Missing \cup {c}
    BY <2>1, MapStep DEF ServerStep
  <2> QED BY <1>1, <1>7, <1>9, <2>1, <2>2, SameWords DEF Directory!Miss
<1> QED BY <1>1, <1>10, <1>11

\* That the server closes a stream, or fails, shows only in what the caller is told.
LEMMA CloseRefines ==
  ASSUME TypeOK, NEW c \in Calls, Finish(c) \/ ServerFails(c)
  PROVE  UNCHANGED Directory!vars
<1>1. /\ UNCHANGED <<request, pc, error, read, directory, served, produced>>
      /\ status[c] # "missing" /\ status'[c] # "missing"
  BY DEF Finish, CanFinish, ServerFails, callVars, clientVars, TypeOK
<1>2. Phase(c)' = Phase(c) /\ AnswerOf(c)' = AnswerOf(c)
  BY <1>1 DEF Phase, AnswerOf, Op
<1>3. Phases' = Phases /\ Answers' = Answers
  BY <1>2, MapStep DEF ServerStep, Phases, Answers
<1>4. Missing' = Missing
  BY <1>1, MapStep DEF ServerStep, Missing
<1> QED BY <1>1, <1>3, <1>4 DEF Directory!vars

\* Streams, windows, broken connections and late requests notwithstanding, a caller
\* may rely on DirectoryCalls.
THEOREM Refines == Spec => ImplementsDirectory
<1>1. Init => Directory!Init
  <2> SUFFICES ASSUME Init PROVE Directory!Init
    OBVIOUS
  <2>1. Directory!AllRequests = AllRequests
    BY DEF AllRequests, Directory!AllRequests
  <2>2. \A c \in Calls : pc[c] = "idle" /\ status[c] = "open"
    BY DEF Init
  <2>3. Phases = [c \in Calls |-> "idle"]
    BY <2>2, PhaseLemma DEF Phases
  <2>4. Answers = [c \in Calls |-> <<>>]
    BY <2>2, PhaseLemma DEF Answers
  <2>5. Missing = {}
    BY <2>2 DEF Missing
  <2> QED BY <2>1, <2>3, <2>4, <2>5 DEF Init, Directory!Init
<1>2. TypeOK /\ IInv /\ [Next]_vars => [Directory!Next]_(Directory!vars)
  <2> SUFFICES ASSUME TypeOK, IInv, [Next]_vars
               PROVE  Directory!Next \/ UNCHANGED Directory!vars
    OBVIOUS
  <2>1. ASSUME NEW c \in Calls,
               Begin(c) \/ Refuse(c) \/ ReturnNothing(c) \/ Fail(c) \/ Break(c)
        PROVE  Directory!Next
    BY <2>1, EndRefines DEF Directory!Next
  <2>2. ASSUME NEW c \in Calls, Send(c) \/ Read(c) \/ Return(c)
        PROVE  Directory!Next \/ UNCHANGED Directory!vars
    BY <2>2, AnswerRefines DEF Directory!Next
  <2>3. ASSUME NEW c \in Calls, Serve(c) PROVE Directory!Next
    BY <2>3, ServeRefines DEF Directory!Next
  <2>4. ASSUME NEW c \in Calls, Finish(c) \/ ServerFails(c) PROVE UNCHANGED Directory!vars
    BY <2>4, CloseRefines
  <2>5. CASE UNCHANGED vars
    <3>1. UNCHANGED <<request, pc, error, read, directory, served, produced, status>>
      BY <2>5 DEF vars, callVars, clientVars, serverVars
    <3>2. Phases' = Phases /\ Answers' = Answers /\ Missing' = Missing
      BY <3>1 DEF Phases, Phase, Answers, AnswerOf, Missing, Op
    <3> QED BY <3>1, <3>2 DEF Directory!vars
  <2> QED BY <2>1, <2>2, <2>3, <2>4, <2>5 DEF Next, CallerStep, ServerStep
<1> QED BY <1>1, <1>2, TypeInvariant, Inductive, PTL DEF Spec, ImplementsDirectory, Directory!Spec
=============================================================================
