------------------------------ MODULE Service ------------------------------
(***************************************************************************)
(* The gRPC services of server/grpc.rs over GraphEngineAdapter of          *)
(* server/storage.rs: requests that begin, commit and roll back            *)
(* transactions kept in open_txns, requests that run a query, the metrics  *)
(* that their handlers keep, and the deadline after which the transport    *)
(* drops a handler.                                                        *)
(*                                                                         *)
(* A handler awaits a closure on a blocking thread.  When the deadline     *)
(* drops the handler, the closure still runs to its end; the metrics and   *)
(* the answer, which come after the await, are lost.  A closure is split   *)
(* where it releases one lock and takes the other.                         *)
(***************************************************************************)
EXTENDS Integers, Sequences, FiniteSets

CONSTANTS
    MaxTx,         \* transactions the engine begins
    MaxSvFaults,   \* commits that fail: rejected, or the WAL flush fails
    Workloads      \* the kinds of the concurrent requests: one sequence for each instance

ASSUME ServiceAssumption ==
    MaxTx \in Nat /\ Workloads \subseteq Seq({"begin", "commit", "rollback", "query"})

VARIABLES
    req,        \* each request: kind, transaction, step, result of the closure, answer
    registry,   \* open_txns
    txn,        \* what the transaction manager holds of each transaction id
    metric,     \* the counters of MetricsCollector
    poolHits,   \* the counter of the buffer pool behind cache_stats
    svfaults,
    svpast      \* a handler was dropped; a commit left its transaction active; two record_cache_stats overlapped

svvars == <<req, registry, txn, metric, poolHits, svfaults, svpast>>

TxIds == 1..MaxTx
NoTx == 0
Requests == DOMAIN req

SVInit ==
    /\ \E w \in Workloads :
          req = [c \in DOMAIN w |-> [kind |-> w[c], tx |-> NoTx, pc |-> "idle", result |-> "none", reply |-> "none",
                                     stat |-> 0, prev |-> 0]]
    /\ registry = {}
    /\ txn = [t \in TxIds |-> "none"]
    /\ metric = [begun |-> 0, committed |-> 0, aborted |-> 0, queries |-> 0, failed |-> 0, hits |-> 0]
    /\ poolHits = 0 /\ svfaults = 0
    /\ svpast = [dropped |-> FALSE, abandoned |-> FALSE, overlap |-> FALSE]

\* the closure of c is done
Returns(c, result) == [req EXCEPT ![c].pc = "returned", ![c].result = result]

\* a client sends a request; it may name any transaction id
sv_send(c) ==
    /\ req[c].pc = "idle"
    /\ \E t \in (IF req[c].kind \in {"commit", "rollback"} THEN TxIds ELSE {NoTx}) :
          req' = [req EXCEPT ![c].tx = t, ![c].pc = "spawned"]
    /\ UNCHANGED <<registry, txn, metric, poolHits, svfaults, svpast>>

\* begin_with_isolation, under the read lock of the graph
begin_txn(c) ==
    /\ req[c].pc = "spawned" /\ req[c].kind = "begin"
    /\ \E t \in TxIds :
          /\ txn[t] = "none" /\ \A u \in TxIds : u < t => txn[u] # "none"
          /\ txn' = [txn EXCEPT ![t] = "active"]
          /\ req' = [req EXCEPT ![c].tx = t, ![c].pc = "begun"]
    /\ UNCHANGED <<registry, metric, poolHits, svfaults, svpast>>

register(c) ==
    /\ req[c].pc = "begun"
    /\ registry' = registry \cup {req[c].tx}
    /\ req' = Returns(c, "ok")
    /\ UNCHANGED <<txn, metric, poolHits, svfaults, svpast>>

\* a lookup that leaves the entry for the end of the call
remove_Looks(c) ==
    /\ req[c].pc = "spawned" /\ req[c].kind \in {"commit", "rollback"}
    /\ IF req[c].tx \in registry THEN req' = [req EXCEPT ![c].pc = "removed"]
                                 ELSE req' = Returns(c, "notfound")
    /\ UNCHANGED <<registry, txn, metric, poolHits, svfaults, svpast>>

\* "whatever the outcome, the id is consumed"
remove(c) ==
    /\ req[c].pc = "spawned" /\ req[c].kind \in {"commit", "rollback"}
    /\ registry' = registry \ {req[c].tx}
    /\ IF req[c].tx \in registry THEN req' = [req EXCEPT ![c].pc = "removed"]
                                 ELSE req' = Returns(c, "notfound")
    /\ UNCHANGED <<txn, metric, poolHits, svfaults, svpast>>

\* TransactionManager::commit, under the write lock of the graph.  A doomed transaction is rolled
\* back; a failed WAL flush leaves it active, and its Transaction is dropped with the closure
commit_txn(c) ==
    /\ req[c].pc = "removed" /\ req[c].kind = "commit"
    /\ \/ /\ txn' = [txn EXCEPT ![req[c].tx] = "committed"] /\ req' = Returns(c, "ok")
          /\ UNCHANGED <<svfaults, svpast>>
       \/ /\ svfaults < MaxSvFaults /\ svfaults' = svfaults + 1
          /\ req' = Returns(c, "error")
          /\ \/ txn' = [txn EXCEPT ![req[c].tx] = "aborted"] /\ UNCHANGED svpast
             \/ UNCHANGED txn /\ svpast' = [svpast EXCEPT !.abandoned = TRUE]
    /\ UNCHANGED <<registry, metric, poolHits>>

rollback_txn(c) ==
    /\ req[c].pc = "removed" /\ req[c].kind = "rollback"
    /\ txn' = [txn EXCEPT ![req[c].tx] = "aborted"] /\ req' = Returns(c, "ok")
    /\ UNCHANGED <<registry, metric, poolHits, svfaults, svpast>>

\* a query reads pages whether or not it fails
execute_cypher(c) ==
    /\ req[c].pc = "spawned" /\ req[c].kind = "query"
    /\ poolHits' = poolHits + 1
    /\ \E r \in {"ok", "error"} : req' = Returns(c, r)
    /\ UNCHANGED <<registry, txn, metric, svfaults, svpast>>

Alive(c) == req[c].reply = "none"

Reply(c) == req' = [req EXCEPT ![c].pc = "done", ![c].reply = req[c].result, ![c].stat = 0, ![c].prev = 0]

\* begin, commit and rollback after their await.  NotFound is answered without counting; a failed
\* commit counts as an abort
tx_respond(c) ==
    /\ req[c].pc = "returned" /\ Alive(c) /\ req[c].kind \in {"begin", "commit", "rollback"}
    /\ LET ok == req[c].result = "ok"
           counted == \/ ok /\ req[c].kind = "rollback"
                      \/ req[c].result = "error" /\ req[c].kind = "commit"
       IN metric' = [metric EXCEPT !.begun = @ + (IF ok /\ req[c].kind = "begin" THEN 1 ELSE 0),
                                   !.committed = @ + (IF ok /\ req[c].kind = "commit" THEN 1 ELSE 0),
                                   !.aborted = @ + (IF counted THEN 1 ELSE 0)]
    /\ Reply(c)
    /\ UNCHANGED <<registry, txn, poolHits, svfaults, svpast>>

\* observe_query_latency, before the second await
observe_query_latency(c) ==
    /\ req[c].pc = "returned" /\ Alive(c) /\ req[c].kind = "query"
    /\ metric' = [metric EXCEPT !.queries = @ + 1]
    /\ req' = [req EXCEPT ![c].pc = "stats"]
    /\ UNCHANGED <<registry, txn, poolHits, svfaults, svpast>>

cache_stats(c) ==
    /\ req[c].pc = "stats"
    /\ req' = [req EXCEPT ![c].stat = poolHits, ![c].pc = "record"]
    /\ UNCHANGED <<registry, txn, metric, poolHits, svfaults, svpast>>

\* record_cache_stats reads the counter, then advances it by the difference; nothing holds the
\* two together
record_reads(c) ==
    /\ req[c].pc = "record" /\ Alive(c)
    /\ req' = [req EXCEPT ![c].prev = metric.hits, ![c].pc = "advance"]
    /\ svpast' = [svpast EXCEPT !.overlap = @ \/ \E d \in Requests : req[d].pc = "advance"]
    /\ UNCHANGED <<registry, txn, metric, poolHits, svfaults>>

Advanced(c) == IF req[c].stat > req[c].prev THEN req[c].stat - req[c].prev ELSE 0

record_advances(c) ==
    /\ req[c].pc = "advance"
    /\ metric' = [metric EXCEPT !.hits = @ + Advanced(c),
                                !.failed = @ + (IF req[c].result = "error" THEN 1 ELSE 0)]
    /\ Reply(c)
    /\ UNCHANGED <<registry, txn, poolHits, svfaults, svpast>>

\* the transport's timeout drops the handler at an await
deadline(c) ==
    /\ Alive(c) /\ req[c].pc \notin {"idle", "advance", "done"}
    /\ req' = [req EXCEPT ![c].reply = "deadline"]
    /\ svpast' = [svpast EXCEPT !.dropped = TRUE]
    /\ UNCHANGED <<registry, txn, metric, poolHits, svfaults>>

SVNext == \E c \in Requests :
    \/ sv_send(c) \/ begin_txn(c) \/ register(c) \/ remove(c) \/ commit_txn(c) \/ rollback_txn(c)
    \/ execute_cypher(c) \/ tx_respond(c) \/ observe_query_latency(c) \/ cache_stats(c)
    \/ record_reads(c) \/ record_advances(c) \/ deadline(c)

SVSpec == SVInit /\ [][SVNext]_svvars

-----------------------------------------------------------------------------
\* no closure runs and no handler waits
Quiet == \A c \in Requests : req[c].pc \in {"idle", "done"} \/ (req[c].pc = "returned" /\ ~ Alive(c))

\* A transaction ends once: of the commits and rollbacks that race for one id, remove gives it to
\* at most one, and that one decides what the others' NotFound stands for.
EndedOnce ==
    \A c, d \in Requests :
        (c # d /\ req[c].tx = req[d].tx /\ {req[c].kind, req[d].kind} \subseteq {"commit", "rollback"})
        => ~ ({req[c].result, req[d].result} \subseteq {"ok", "error"})

\* An answer is true of the engine: a client told that its commit (rollback) succeeded finds the
\* transaction committed (aborted), whatever other requests did between the closure and the answer.
AnswersAreTrue ==
    \A c \in Requests :
        req[c].reply = "ok" =>
            /\ req[c].kind = "commit" => txn[req[c].tx] = "committed"
            /\ req[c].kind = "rollback" => txn[req[c].tx] = "aborted"

\* When nothing is in flight the counters account for every transaction: begun ones are committed,
\* aborted or still in open_txns.  A handler dropped by its deadline counts nothing, hence the premise.
MetricsAccount ==
    Quiet /\ ~ svpast.dropped => metric.begun = metric.committed + metric.aborted + Cardinality(registry)

\* A transaction that the manager holds active can still be ended: it is in open_txns or in the
\* hands of a request.  Unless a commit failed at the WAL (ActiveCanEnd is the claim without this premise).
ActiveHasOwner ==
    ~ svpast.abandoned =>
        \A t \in TxIds : txn[t] = "active" =>
            t \in registry \/ \E c \in Requests : req[c].tx = t /\ req[c].pc \in {"begun", "removed"}

\* record_cache_stats never reports more hits than the buffer pool had, when no two of them overlap.
HitsNotOvercounted == ~ svpast.overlap => metric.hits <= poolHits

\* Clients, registry, engine and metrics agree on what became of every transaction, whichever
\* requests race and whichever handler its deadline drops (begin, commit, rollback, metrics.rs).
ServiceTruthful ==
    /\ EndedOnce /\ AnswersAreTrue /\ ActiveHasOwner
    /\ MetricsAccount /\ HitsNotOvercounted

\* manager.rs, commit: "On WAL flush failure, the transaction is left in `Active` state so the caller
\* can retry or roll back."  The caller of the service can do neither: its id is gone.
\* Refuted: README, section 5.
ActiveCanEnd ==
    \A t \in TxIds : txn[t] = "active" =>
        t \in registry \/ \E c \in Requests : req[c].tx = t /\ req[c].pc \in {"begun", "removed"}

\* metrics.rs: "repeated calls do not double-count"
\* Refuted: README, section 5.
HitsExact == metric.hits <= poolHits
=============================================================================
