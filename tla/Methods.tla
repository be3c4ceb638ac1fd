------------------------------ MODULE Methods ------------------------------
(***************************************************************************)
(* The methods of Client (client.py) that are one RPC each, by the shape   *)
(* of the RPC, and what the directory server does with one request of      *)
(* each: shared by ServiceCalls, which has the streams, and DirectoryCalls,*)
(* which has what a caller may rely on.                                    *)
(***************************************************************************)
EXTENDS Naturals, Sequences, FiniteSets

CONSTANTS
  Calls,       \* method calls
  Cids,        \* records
  Requests     \* what each call may be: [op, args], args a sequence of Cids

\* Both directions are streams: iter(records) in, list(responses) out.
BatchOps == {"push", "push_referrer", "pull", "pull_referrer", "lookup"}
\* A stream of requests, one response.
UploadOps == {"delete"}
\* A stream of one request; the first response is returned.
FirstOps == {"delete_referrer"}
\* One request, list(responses) out.
ListOps == {"list", "search_routing", "search_cids", "search_records", "list_syncs",
            "list_publication"}
\* One request, one response, by service; verify is the one with from_server.
RoutingOps == {"publish", "unpublish"}
SyncOps == {"create_sync", "get_sync", "delete_sync"}
PublicationOps == {"create_publication", "get_publication"}
IdentityOps == {"resolve", "get_verification_info"}
SingleOps == RoutingOps \cup SyncOps \cup PublicationOps \cup IdentityOps \cup {"verify"}
\* One request; the stream of responses itself is returned.
LazyOps == {"listen"}
Ops == BatchOps \cup UploadOps \cup FirstOps \cup ListOps \cup SingleOps \cup LazyOps

ASSUME RequestAssumption ==
  \A c \in Calls : \A req \in Requests[c] :
    /\ req = [op |-> req.op, args |-> req.args]
    /\ req.op \in Ops
    /\ req.args \in Seq(Cids)
    /\ req.op \notin BatchOps \cup UploadOps => Len(req.args) = 1
ASSUME FiniteAssumption == IsFiniteSet(Cids)

AllRequests == UNION {Requests[c] : c \in Calls}

-----------------------------------------------------------------------------
(* The server *)

\* Every order the server may list a finite set in.
Listings(S) == {f \in [1..Cardinality(S) -> S] : \A x \in S : \E i \in DOMAIN f : f[i] = x}

Seqs(S) == UNION {Listings(T) : T \in SUBSET S}

\* The records after a request.
After(records, op, cid) ==
  CASE op = "push" -> records \cup {cid}
    [] op = "delete" -> records \ {cid}
    [] OTHER -> records

\* The responses to one request: one; a list of what a search or the index
\* finds; of a delete, none until the end.  What listen streams is left out.
Responses(op, cid) ==
  CASE op \in UploadOps \cup LazyOps -> {<<>>}
    [] op \in ListOps -> Seqs(Cids)
    [] op \in FirstOps \cup {"pull_referrer"} -> {<<cid>>, <<>>}
    [] OTHER -> {<<cid>>}

\* Of these methods a record that is not there ends the stream.
LooksUp(op) == op \in {"pull", "lookup"}
=============================================================================
