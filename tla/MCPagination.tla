---------------------------- MODULE MCPagination ----------------------------
(* Pagination over a partition of three keys, one global secondary index, *)
(* limits 1 and 2 and a filter matching keys 1 and 3; a binary partition  *)
(* key b1; with_retry callers verifying nothing or that key 3 was read,    *)
(* with max_retries 2.                                                     *)
EXTENDS Pagination

CONSTANTS g1, b1

MCIndexName == {g1}
MCFilterSet == {1, 3}

\* The partition's key is binary, so cursors carry base64 text.
MCPartitionKey == "B" :> b1
MCVerifies == {None, 3}

\* with_retry reads are checked on the base table, without a limit, with a
\* filter that keeps everything and eventually consistent (a cursor of the
\* index still fails validation); query_all / scan_all reads with every
\* parameter.
MCReads == {r \in [mode : {"query", "scan"}, api : {"all", "retry"},
                   index : IndexName \cup {None},
                   forward : BOOLEAN, limit : Limits \cup {NoLimit},
                   filter : {Key, FilterSet}, consistent : BOOLEAN,
                   retryOnEmpty : BOOLEAN, retryOnError : BOOLEAN, verify : Verifies]
              : /\ r.mode = "scan" => r.forward
                /\ r.api = "all" => r.retryOnEmpty /\ r.retryOnError /\ r.verify = None
                /\ r.verify # None => r.retryOnEmpty
                /\ r.api = "retry" => /\ r.limit = NoLimit /\ r.filter = Key
                                      /\ r.index = None /\ ~r.consistent}
=============================================================================
