--------------------------- MODULE MCServiceCalls ---------------------------
(* Instances of ServiceCalls for TLC. *)
EXTENDS ServiceCalls, TLC

CONSTANTS r1, r2, writer, other, reader

\* One thread pushes batches, one pulls, one deletes, searches, listens or has
\* the server verify.
BatchesPushed == {<<>>, <<r1, r2, r1>>}
MCRequests ==
  writer :> [op : {"push"}, args : BatchesPushed]
    @@ other :> [op : {"delete", "delete_referrer", "list", "listen", "verify"},
                 args : {<<r1>>}]
    @@ reader :> [op : {"pull"}, args : {<<r2>>}]
=============================================================================
