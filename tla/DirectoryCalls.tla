--------------------------- MODULE DirectoryCalls ---------------------------
(***************************************************************************)
(* What a caller of the methods of Client may rely on, without streams,    *)
(* threads, windows and connections.  Each request of a call is carried    *)
(* out in one step, in order and at most once.  A call that is answered    *)
(* has had all of its requests carried out, none remains, and the answer   *)
(* is everything the directory replied.  A call that is refused has had    *)
(* none carried out, and none will be.  Of a call that fails any number    *)
(* were carried out, and more may still be.                                *)
(***************************************************************************)
EXTENDS Methods

VARIABLES
  directory,  \* the records
  request,    \* what each call asks
  phase,      \* where it is: idle, running, answered, refused, failed
  executed,   \* how many of its requests were carried out
  missing,    \* the calls of which a record was not found
  replies,    \* what the directory replied
  answer      \* what the call has returned

vars == <<directory, request, phase, executed, missing, replies, answer>>

Op(c) == request[c].op
Args(c) == request[c].args

Init ==
  /\ directory = {}
  /\ request \in [Calls -> AllRequests]
  /\ \A c \in Calls : request[c] \in Requests[c]
  /\ phase = [c \in Calls |-> "idle"]
  /\ executed = [c \in Calls |-> 0]
  /\ missing = {}
  /\ replies = [c \in Calls |-> <<>>]
  /\ answer = [c \in Calls |-> <<>>]

Moves(c, from, to) ==
  /\ phase[c] = from
  /\ phase' = [phase EXCEPT ![c] = to]
  /\ UNCHANGED <<directory, request, executed, missing, replies>>

Ask(c) == Moves(c, "idle", "running") /\ UNCHANGED answer

\* The requests of a call that has failed may still be on their way.
Pending(c) ==
  /\ phase[c] \in {"running", "failed"}
  /\ c \notin missing
  /\ executed[c] < Len(Args(c))

Execute(c) ==
  /\ Pending(c)
  /\ LET cid == Args(c)[executed[c] + 1] IN
       /\ LooksUp(Op(c)) => cid \in directory
       /\ directory' = After(directory, Op(c), cid)
       /\ \E reply \in Responses(Op(c), cid) :
            replies' = [replies EXCEPT ![c] = @ \o reply]
  /\ executed' = [executed EXCEPT ![c] = @ + 1]
  /\ UNCHANGED <<request, phase, missing, answer>>

Miss(c) ==
  /\ Pending(c)
  /\ LooksUp(Op(c)) /\ Args(c)[executed[c] + 1] \notin directory
  /\ missing' = missing \cup {c}
  /\ UNCHANGED <<directory, request, phase, executed, replies, answer>>

\* delete_referrer answers with the first reply, and must have one.
Answer(c) ==
  /\ executed[c] = Len(Args(c))
  /\ Op(c) \in FirstOps => replies[c] # <<>>
  /\ Moves(c, "running", "answered")
  /\ answer' = [answer EXCEPT ![c] =
                  IF Op(c) \in FirstOps THEN <<Head(replies[c])>> ELSE replies[c]]

Refuse(c) == executed[c] = 0 /\ Moves(c, "running", "refused") /\ UNCHANGED answer

Fail(c) == Moves(c, "running", "failed") /\ UNCHANGED answer

Next ==
  \E c \in Calls : Ask(c) \/ Execute(c) \/ Miss(c) \/ Answer(c) \/ Refuse(c) \/ Fail(c)

Spec == Init /\ [][Next]_vars
=============================================================================
