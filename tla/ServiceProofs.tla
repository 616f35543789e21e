--------------------------- MODULE ServiceProofs ----------------------------
(***************************************************************************)
(* Proofs about the services, for every sequence of requests and any       *)
(* number of transactions.  A transaction is in one pair of hands at a     *)
(* time: those of the begin that has yet to register it, of open_txns, or  *)
(* of the commit or rollback that remove gave it to.  The counters balance *)
(* once the requests are added that are still to be counted.               *)
(***************************************************************************)
EXTENDS Service, FiniteSetTheorems, TLAPS

Kinds == {"begin", "commit", "rollback", "query"}
Places == {"idle", "spawned", "begun", "removed", "returned", "stats", "record", "advance", "done"}
Results == {"none", "ok", "error", "notfound"}

RequestRecord ==
  [kind : Kinds, tx : 0..MaxTx, pc : Places, result : Results, reply : Results \cup {"deadline"},
   stat : Nat, prev : Nat]

MetricRecord == [begun : Nat, committed : Nat, aborted : Nat, queries : Nat, failed : Nat, hits : Nat]

SvPastRecord == [dropped : BOOLEAN, abandoned : BOOLEAN, overlap : BOOLEAN]

Begun(r) == r.pc = "begun"

\* remove gave the transaction to this commit or rollback
Owns(r) == r.kind \in {"commit", "rollback"} /\ (r.pc = "removed" \/ r.result \in {"ok", "error"})

InHand(r) == Begun(r) \/ Owns(r)

\* How far a request is and what it has got so far
Shape(r, past) ==
  /\ r.pc \in {"idle", "spawned", "begun", "removed"} => r.result = "none"
  /\ r.pc = "begun" => r.kind = "begin"
  /\ r.pc = "removed" => r.kind \in {"commit", "rollback"}
  /\ r.pc \in {"begun", "removed"} => r.tx \in TxIds
  /\ r.kind \in {"commit", "rollback"} /\ r.pc # "idle" => r.tx \in TxIds
  /\ r.pc \in {"stats", "record", "advance"} => r.kind = "query"
  /\ r.kind = "rollback" => r.result # "error"
  /\ r.reply \in {"ok", "error", "notfound"} => r.reply = r.result
  /\ r.pc = "done" => r.reply = r.result
  /\ r.reply = "deadline" => past.dropped = TRUE

ServiceTypes ==
  /\ req \in [Requests -> RequestRecord] /\ IsFiniteSet(Requests)
  /\ registry \subseteq TxIds /\ txn \in [TxIds -> {"none", "active", "committed", "aborted"}]
  /\ metric \in MetricRecord /\ poolHits \in Nat /\ svpast \in SvPastRecord
  /\ \A c \in Requests : Shape(req[c], svpast)

\* What a transaction is in the engine while a request holds it, and after
Agrees(r, engine) ==
  /\ Begun(r) => engine[r.tx] = "active"
  /\ Owns(r) => /\ r.pc = "removed" => engine[r.tx] = "active"
                /\ engine[r.tx] # "none"
                /\ r.result = "ok" /\ r.kind = "commit" => engine[r.tx] = "committed"
                /\ r.result = "ok" /\ r.kind = "rollback" => engine[r.tx] = "aborted"

\* A transaction is in one pair of hands: a begin that has yet to register it, open_txns, or the
\* request that remove gave it to
OneHolder ==
  /\ \A t \in registry : txn[t] = "active"
  /\ \A c \in Requests : Agrees(req[c], txn) /\ (InHand(req[c]) => req[c].tx \notin registry)
  /\ \A c, d \in Requests : InHand(req[c]) /\ InHand(req[d]) /\ req[c].tx = req[d].tx => c = d

\* A begin that succeeded and is not counted, an end that is not counted
Uncounted == {c \in Requests : req[c].kind = "begin" /\ req[c].result = "ok" /\ req[c].reply # "ok"}
Unanswered == {c \in Requests : Owns(req[c]) /\ req[c].reply \notin {"ok", "error"}}

Balanced ==
  metric.begun + Cardinality(Uncounted)
    = metric.committed + metric.aborted + Cardinality(registry) + Cardinality(Unanswered)

\* Between the read and the update of the counter nobody else moves it
HitsBounded ==
  /\ \A c \in Requests : req[c].stat <= poolHits
  /\ svpast.overlap = FALSE =>
       /\ metric.hits <= poolHits
       /\ \A c \in Requests : req[c].pc = "advance" => req[c].prev = metric.hits
       /\ \A c, d \in Requests : req[c].pc = "advance" /\ req[d].pc = "advance" => c = d

ServiceInv == ServiceTypes /\ OneHolder /\ ActiveHasOwner /\ Balanced /\ HitsBounded

-----------------------------------------------------------------------------
\* The step makes r the record of request c and changes no other.
Goes(c, r) == req' = [req EXCEPT ![c] = r]

\* A step of a handler or closure changes the record of its request alone.
LEMMA RequestMoves ==
  ASSUME ServiceTypes, NEW c \in Requests, NEW r \in RequestRecord, Goes(c, r)
  PROVE  /\ Requests' = Requests /\ req' \in [Requests' -> RequestRecord] /\ req'[c] = r
         /\ \A d \in Requests : d # c => req'[d] = req[d]
BY DEF ServiceTypes, Requests, Goes

\* A step whose record has the shape of its place keeps ServiceTypes.
LEMMA TypesMove ==
  ASSUME ServiceTypes, NEW c \in Requests, NEW r \in RequestRecord, Goes(c, r), Shape(r, svpast'),
         registry' \subseteq TxIds, txn' \in [TxIds -> {"none", "active", "committed", "aborted"}],
         metric' \in MetricRecord, poolHits' \in Nat, svpast' \in SvPastRecord,
         svpast.dropped = TRUE => svpast'.dropped = TRUE
  PROVE  ServiceTypes'
<1>1. /\ Requests' = Requests /\ req' \in [Requests' -> RequestRecord] /\ req'[c] = r
      /\ \A d \in Requests : d # c => req'[d] = req[d]
  BY RequestMoves
<1>2. \A d \in Requests : Shape(req'[d], svpast')
  <2> SUFFICES ASSUME NEW d \in Requests, d # c PROVE Shape(req[d], svpast')
    BY <1>1
  <2> QED BY DEF ServiceTypes, Shape
<1>3. IsFiniteSet(Requests')
  BY <1>1 DEF ServiceTypes
<1> QED BY <1>1, <1>2, <1>3 DEF ServiceTypes

\* A step that takes no transaction from one pair of hands to another keeps OneHolder and
\* ActiveHasOwner.
LEMMA QuietMove ==
  ASSUME ServiceInv, NEW c \in Requests, NEW r \in RequestRecord, Goes(c, r),
         registry' = registry, txn' = txn, svpast'.abandoned = svpast.abandoned,
         Begun(r) <=> Begun(req[c]), Owns(r) <=> Owns(req[c]), r.pc = "removed" <=> req[c].pc = "removed",
         InHand(r) => r.tx = req[c].tx /\ r.result = req[c].result /\ r.kind = req[c].kind
  PROVE  OneHolder' /\ ActiveHasOwner'
<1>1. /\ Requests' = Requests /\ req'[c] = r
      /\ \A d \in Requests : d # c => req'[d] = req[d]
  BY RequestMoves DEF ServiceInv
<1>2. InHand(r) <=> InHand(req[c])
  BY DEF InHand
<1>3. \A d \in Requests : (InHand(req'[d]) <=> InHand(req[d])) /\ (InHand(req'[d]) => req'[d].tx = req[d].tx)
  BY <1>1, <1>2
<1>4. Agrees(r, txn)
  <2>1. Agrees(req[c], txn)
    BY DEF ServiceInv, OneHolder
  <2> QED BY <1>2, <2>1 DEF Agrees, InHand
<1>5. \A d \in Requests : Agrees(req'[d], txn)
  BY <1>1, <1>4 DEF ServiceInv, OneHolder
<1>6. OneHolder'
  BY <1>1, <1>3, <1>5 DEF ServiceInv, OneHolder
<1>7. \A d \in Requests : req[d].pc \in {"begun", "removed"} => req'[d].pc = req[d].pc /\ req'[d].tx = req[d].tx
  <2>1. req[c].pc \in {"begun", "removed"} => r.pc = req[c].pc /\ r.tx = req[c].tx
    <3>1. req[c].pc = "removed" => Owns(r)
      BY DEF ServiceInv, ServiceTypes, Shape, Owns
    <3> QED BY <3>1 DEF Begun, InHand
  <2> QED BY <1>1, <2>1
<1>8. ActiveHasOwner'
  <2> SUFFICES ASSUME ~ svpast.abandoned, NEW t \in TxIds, txn[t] = "active"
               PROVE  t \in registry \/ \E d \in Requests : req'[d].tx = t /\ req'[d].pc \in {"begun", "removed"}
    BY <1>1 DEF ActiveHasOwner, TxIds
  <2>1. t \in registry \/ \E d \in Requests : req[d].tx = t /\ req[d].pc \in {"begun", "removed"}
    BY DEF ServiceInv, ActiveHasOwner
  <2> QED BY <1>7, <2>1
<1> QED BY <1>6, <1>8

\* A step that counts nothing and makes nothing that is to be counted keeps Balanced.
LEMMA CountsStay ==
  ASSUME ServiceInv, NEW c \in Requests, NEW r \in RequestRecord, Goes(c, r),
         registry' = registry, metric'.begun = metric.begun, metric'.committed = metric.committed,
         metric'.aborted = metric.aborted, r.kind = req[c].kind,
         Owns(r) <=> Owns(req[c]),
         r.kind = "begin" => (r.result = "ok" <=> req[c].result = "ok"),
         r.reply \notin {"ok", "error"} \/ ~ Owns(r), r.reply # "ok" \/ r.kind # "begin",
         req[c].reply \notin {"ok", "error"}
  PROVE  Balanced'
<1>1. /\ Requests' = Requests /\ req'[c] = r
      /\ \A d \in Requests : d # c => req'[d] = req[d]
  BY RequestMoves DEF ServiceInv
<1>2. Uncounted' = Uncounted /\ Unanswered' = Unanswered
  BY <1>1 DEF Uncounted, Unanswered
<1> QED BY <1>2 DEF ServiceInv, Balanced

\* A step that moves neither the counter of hits nor what a handler has read of it keeps HitsBounded.
LEMMA HitsStay ==
  ASSUME ServiceInv, NEW c \in Requests, NEW r \in RequestRecord, Goes(c, r),
         poolHits' \in Nat, poolHits <= poolHits', r.stat <= poolHits', metric'.hits = metric.hits,
         svpast'.overlap = svpast.overlap, r.pc = "advance" => req[c].pc = "advance" /\ r.prev = req[c].prev
  PROVE  HitsBounded'
<1>1. /\ Requests' = Requests /\ req'[c] = r
      /\ \A d \in Requests : d # c => req'[d] = req[d]
  BY RequestMoves DEF ServiceInv
<1>2. poolHits \in Nat /\ metric.hits \in Nat /\ \A d \in Requests : req[d].stat \in Nat
  BY DEF ServiceInv, ServiceTypes, RequestRecord, MetricRecord
<1>3. r.stat \in Nat
  BY DEF RequestRecord
<1>4. \A d \in Requests : req'[d].stat <= poolHits'
  <2> SUFFICES ASSUME NEW d \in Requests, d # c PROVE req[d].stat <= poolHits'
    BY <1>1
  <2> QED BY <1>2 DEF ServiceInv, HitsBounded
<1>5. ASSUME svpast.overlap = FALSE
      PROVE  /\ metric'.hits <= poolHits'
             /\ \A d \in Requests : req'[d].pc = "advance" => req'[d].prev = metric'.hits
             /\ \A d, e \in Requests : req'[d].pc = "advance" /\ req'[e].pc = "advance" => d = e
  <2>1. \A d \in Requests : req'[d].pc = "advance" => req[d].pc = "advance" /\ req'[d].prev = req[d].prev
    BY <1>1
  <2>2. metric.hits <= poolHits
    BY <1>5 DEF ServiceInv, HitsBounded
  <2>3. metric'.hits <= poolHits'
    BY <1>2, <2>2
  <2> QED BY <1>5, <2>1, <2>3, Zenon DEF ServiceInv, HitsBounded
<1> QED BY <1>1, <1>4, <1>5, Zenon DEF HitsBounded

\* The record r of a request that was q before the step
Is(r, q, t, p, x, y, m, n) ==
  /\ r.kind = q.kind /\ r.tx = t /\ r.pc = p /\ r.result = x /\ r.reply = y /\ r.stat = m /\ r.prev = n

\* The request as sv_send and begin_txn leave it: it has its transaction.
LEMMA SetsTx ==
  ASSUME ServiceTypes, NEW c \in Requests, NEW t \in 0..MaxTx, NEW p \in Places,
         req' = [req EXCEPT ![c].tx = t, ![c].pc = p]
  PROVE  \E r \in RequestRecord : Goes(c, r) /\ Is(r, req[c], t, p, req[c].result, req[c].reply, req[c].stat, req[c].prev)
<1> DEFINE q == req[c]
           r == [q EXCEPT !.tx = t, !.pc = p]
<1>1. req \in [Requests -> RequestRecord] /\ q \in RequestRecord
  BY DEF ServiceTypes
<1>2. Goes(c, r)
  BY <1>1, Zenon DEF Goes, Returns, Reply
<1>3. {"returned", "done"} \subseteq Places /\ "deadline" \in Results \cup {"deadline"} /\ 0 \in Nat
  BY DEF Places
<1> HIDE DEF q
<1>4. r \in RequestRecord
  BY <1>1, <1>3, Zenon DEF RequestRecord
<1>5. Is(r, q, t, p, q.result, q.reply, q.stat, q.prev)
  BY <1>1 DEF RequestRecord, Is
<1> HIDE DEF r
<1>6. Is(r, req[c], t, p, req[c].result, req[c].reply, req[c].stat, req[c].prev)
  BY <1>5 DEF q
<1> QED BY <1>2, <1>4, <1>6

\* The request as a closure leaves it that returns.
LEMMA SetsResult ==
  ASSUME ServiceTypes, NEW c \in Requests, NEW x \in Results, req' = Returns(c, x)
  PROVE  \E r \in RequestRecord : Goes(c, r) /\ Is(r, req[c], req[c].tx, "returned", x, req[c].reply, req[c].stat, req[c].prev)
<1> DEFINE q == req[c]
           r == [q EXCEPT !.pc = "returned", !.result = x]
<1>1. req \in [Requests -> RequestRecord] /\ q \in RequestRecord
  BY DEF ServiceTypes
<1>2. Goes(c, r)
  BY <1>1, Zenon DEF Goes, Returns, Reply
<1>3. {"returned", "done"} \subseteq Places /\ "deadline" \in Results \cup {"deadline"} /\ 0 \in Nat
  BY DEF Places
<1> HIDE DEF q
<1>4. r \in RequestRecord
  BY <1>1, <1>3, Zenon DEF RequestRecord
<1>5. Is(r, q, q.tx, "returned", x, q.reply, q.stat, q.prev)
  BY <1>1 DEF RequestRecord, Is
<1> HIDE DEF r
<1>6. Is(r, req[c], req[c].tx, "returned", x, req[c].reply, req[c].stat, req[c].prev)
  BY <1>5 DEF q
<1> QED BY <1>2, <1>4, <1>6, Zenon

\* The request as remove and observe_query_latency leave it: one step further.
LEMMA SetsPc ==
  ASSUME ServiceTypes, NEW c \in Requests, NEW p \in Places, req' = [req EXCEPT ![c].pc = p]
  PROVE  \E r \in RequestRecord : Goes(c, r) /\ Is(r, req[c], req[c].tx, p, req[c].result, req[c].reply, req[c].stat, req[c].prev)
<1> DEFINE q == req[c]
           r == [q EXCEPT !.pc = p]
<1>1. req \in [Requests -> RequestRecord] /\ q \in RequestRecord
  BY DEF ServiceTypes
<1>2. Goes(c, r)
  BY <1>1 DEF Goes, Returns, Reply
<1>3. {"returned", "done"} \subseteq Places /\ "deadline" \in Results \cup {"deadline"} /\ 0 \in Nat
  BY DEF Places
<1> HIDE DEF q
<1>4. r \in RequestRecord
  BY <1>1, <1>3, Zenon DEF RequestRecord
<1>5. Is(r, q, q.tx, p, q.result, q.reply, q.stat, q.prev)
  BY <1>1 DEF RequestRecord, Is
<1> HIDE DEF r
<1>6. Is(r, req[c], req[c].tx, p, req[c].result, req[c].reply, req[c].stat, req[c].prev)
  BY <1>5 DEF q
<1> QED BY <1>2, <1>4, <1>6

\* The request as cache_stats leaves it.
LEMMA SetsStat ==
  ASSUME ServiceTypes, NEW c \in Requests, NEW m \in Nat, NEW p \in Places,
         req' = [req EXCEPT ![c].stat = m, ![c].pc = p]
  PROVE  \E r \in RequestRecord : Goes(c, r) /\ Is(r, req[c], req[c].tx, p, req[c].result, req[c].reply, m, req[c].prev)
<1> DEFINE q == req[c]
           r == [q EXCEPT !.stat = m, !.pc = p]
<1>1. req \in [Requests -> RequestRecord] /\ q \in RequestRecord
  BY DEF ServiceTypes
<1>2. Goes(c, r)
  BY <1>1, Zenon DEF Goes, Returns, Reply
<1>3. {"returned", "done"} \subseteq Places /\ "deadline" \in Results \cup {"deadline"} /\ 0 \in Nat
  BY DEF Places
<1> HIDE DEF q
<1>4. r \in RequestRecord
  BY <1>1, <1>3, Zenon DEF RequestRecord
<1>5. Is(r, q, q.tx, p, q.result, q.reply, m, q.prev)
  BY <1>1 DEF RequestRecord, Is
<1> HIDE DEF r
<1>6. Is(r, req[c], req[c].tx, p, req[c].result, req[c].reply, m, req[c].prev)
  BY <1>5 DEF q
<1> QED BY <1>2, <1>4, <1>6, Zenon

\* The request as record_cache_stats leaves it between its read and its update.
LEMMA SetsPrev ==
  ASSUME ServiceTypes, NEW c \in Requests, NEW n \in Nat, NEW p \in Places,
         req' = [req EXCEPT ![c].prev = n, ![c].pc = p]
  PROVE  \E r \in RequestRecord : Goes(c, r) /\ Is(r, req[c], req[c].tx, p, req[c].result, req[c].reply, req[c].stat, n)
<1> DEFINE q == req[c]
           r == [q EXCEPT !.prev = n, !.pc = p]
<1>1. req \in [Requests -> RequestRecord] /\ q \in RequestRecord
  BY DEF ServiceTypes
<1>2. Goes(c, r)
  BY <1>1, Zenon DEF Goes, Returns, Reply
<1>3. {"returned", "done"} \subseteq Places /\ "deadline" \in Results \cup {"deadline"} /\ 0 \in Nat
  BY DEF Places
<1> HIDE DEF q
<1>4. r \in RequestRecord
  BY <1>1, <1>3, Zenon DEF RequestRecord
<1>5. Is(r, q, q.tx, p, q.result, q.reply, q.stat, n)
  BY <1>1 DEF RequestRecord, Is
<1> HIDE DEF r
<1>6. Is(r, req[c], req[c].tx, p, req[c].result, req[c].reply, req[c].stat, n)
  BY <1>5 DEF q
<1> QED BY <1>2, <1>4, <1>6, Zenon

\* The request whose handler the deadline drops.
LEMMA SetsDeadline ==
  ASSUME ServiceTypes, NEW c \in Requests, req' = [req EXCEPT ![c].reply = "deadline"]
  PROVE  \E r \in RequestRecord : Goes(c, r) /\ Is(r, req[c], req[c].tx, req[c].pc, req[c].result, "deadline", req[c].stat, req[c].prev)
<1> DEFINE q == req[c]
           r == [q EXCEPT !.reply = "deadline"]
<1>1. req \in [Requests -> RequestRecord] /\ q \in RequestRecord
  BY DEF ServiceTypes
<1>2. Goes(c, r)
  BY <1>1 DEF Goes, Returns, Reply
<1>3. {"returned", "done"} \subseteq Places /\ "deadline" \in Results \cup {"deadline"} /\ 0 \in Nat
  BY DEF Places
<1> HIDE DEF q
<1>4. r \in RequestRecord
  BY <1>1, <1>3, Zenon DEF RequestRecord
<1>5. Is(r, q, q.tx, q.pc, q.result, "deadline", q.stat, q.prev)
  BY <1>1 DEF RequestRecord, Is
<1> HIDE DEF r
<1>6. Is(r, req[c], req[c].tx, req[c].pc, req[c].result, "deadline", req[c].stat, req[c].prev)
  BY <1>5 DEF q
<1> QED BY <1>2, <1>4, <1>6, Zenon

\* The request that a handler answers.
LEMMA SetsReply ==
  ASSUME ServiceTypes, NEW c \in Requests, Reply(c), req[c].result \in Results \cup {"deadline"}
  PROVE  \E r \in RequestRecord : Goes(c, r) /\ Is(r, req[c], req[c].tx, "done", req[c].result, req[c].result, 0, 0)
<1> DEFINE q == req[c]
           r == [q EXCEPT !.pc = "done", !.reply = q.result, !.stat = 0, !.prev = 0]
<1>1. req \in [Requests -> RequestRecord] /\ q \in RequestRecord
  BY DEF ServiceTypes
<1>2. Goes(c, r)
  BY <1>1, Zenon DEF Goes, Returns, Reply
<1>3. {"returned", "done"} \subseteq Places /\ "deadline" \in Results \cup {"deadline"} /\ 0 \in Nat
  BY DEF Places
<1> HIDE DEF q
<1>4. r \in RequestRecord
  BY <1>1, <1>3, Zenon DEF RequestRecord
<1>5. Is(r, q, q.tx, "done", q.result, q.result, 0, 0)
  BY <1>1 DEF RequestRecord, Is
<1> HIDE DEF r
<1>6. Is(r, req[c], req[c].tx, "done", req[c].result, req[c].result, 0, 0)
  BY <1>5, Zenon DEF q
<1> QED BY <1>2, <1>4, <1>6, Zenon

\* What ServiceInv says of the record of one request.
LEMMA RequestIs ==
  ASSUME ServiceInv, NEW c \in Requests
  PROVE  /\ req[c] \in RequestRecord /\ Shape(req[c], svpast) /\ req[c].kind \in Kinds /\ req[c].tx \in 0..MaxTx
         /\ req[c].pc \in Places /\ req[c].result \in Results /\ req[c].reply \in Results \cup {"deadline"}
         /\ req[c].stat \in Nat /\ req[c].prev \in Nat /\ req[c].stat <= poolHits
         /\ poolHits \in Nat /\ metric \in MetricRecord /\ svpast \in SvPastRecord
         /\ registry \subseteq TxIds /\ txn \in [TxIds -> {"none", "active", "committed", "aborted"}]
BY Zenon DEF ServiceInv, ServiceTypes, RequestRecord, HitsBounded

\* A step that only moves request c on, with no transaction changing hands and no answer given, keeps
\* all but what is said of the hits.
LEMMA MoveOn ==
  ASSUME ServiceInv, NEW c \in Requests, NEW r \in RequestRecord, Goes(c, r),
         r.kind = req[c].kind, r.reply = req[c].reply,
         registry' = registry, txn' = txn, svpast'.abandoned = svpast.abandoned, svpast' \in SvPastRecord,
         svpast.dropped = TRUE => svpast'.dropped = TRUE,
         metric' \in MetricRecord, metric'.begun = metric.begun, metric'.committed = metric.committed,
         metric'.aborted = metric.aborted, poolHits' \in Nat,
         req[c].pc \notin {"begun", "removed"}, r.pc \notin {"idle", "begun", "removed", "done"},
         r.kind \in {"commit", "rollback"} =>
             r.tx \in TxIds /\ r.result \notin {"ok", "error"} /\ req[c].result \notin {"ok", "error"},
         r.kind = "begin" => r.result # "ok" /\ req[c].result # "ok",
         r.pc = "spawned" => r.result = "none",
         r.pc \in {"stats", "record", "advance"} => r.kind = "query",
         r.reply \notin {"ok", "error", "notfound"}
  PROVE  ServiceTypes' /\ OneHolder' /\ ActiveHasOwner' /\ Balanced'
<1>0. /\ ServiceTypes /\ Shape(req[c], svpast)
      /\ registry \subseteq TxIds /\ txn \in [TxIds -> {"none", "active", "committed", "aborted"}]
  BY RequestIs, Zenon DEF ServiceInv
<1>1. Shape(r, svpast')
  BY <1>0, Zenon DEF Shape
<1>2. ~ Begun(r) /\ ~ Begun(req[c]) /\ ~ Owns(r) /\ ~ Owns(req[c])
  BY DEF Begun, Owns
<1>3. ServiceTypes'
  BY <1>0, <1>1, TypesMove, Zenon
<1>4. OneHolder' /\ ActiveHasOwner'
  BY <1>2, QuietMove, Zenon DEF InHand
<1>5. Balanced'
  BY <1>2, CountsStay, Zenon
<1> QED BY <1>3, <1>4, <1>5, Zenon

\* A request that is sent (sv_send) keeps ServiceInv: it names a transaction and holds none.
LEMMA SendKeeps == ASSUME ServiceInv, NEW c \in Requests, sv_send(c) PROVE ServiceInv'
<1>0. req[c].pc = "idle" /\ UNCHANGED <<registry, txn, metric, poolHits, svpast>>
  BY DEF sv_send
<1>1. PICK t \in (IF req[c].kind \in {"commit", "rollback"} THEN TxIds ELSE {NoTx}) :
        req' = [req EXCEPT ![c].tx = t, ![c].pc = "spawned"]
  BY Zenon DEF sv_send
<1>2. t \in 0..MaxTx /\ (req[c].kind \in {"commit", "rollback"} => t \in TxIds) /\ "spawned" \in Places
  BY <1>1, ServiceAssumption DEF TxIds, NoTx, Places
<1>3. PICK r \in RequestRecord : Goes(c, r) /\ Is(r, req[c], t, "spawned", req[c].result, req[c].reply, req[c].stat, req[c].prev)
  BY <1>1, <1>2, SetsTx, ZenonT(30) DEF ServiceInv
<1>4. /\ Shape(req[c], svpast) /\ metric \in MetricRecord /\ svpast \in SvPastRecord /\ poolHits \in Nat /\ req[c].stat <= poolHits
  BY RequestIs, Zenon
<1>5. req[c].result = "none" /\ req[c].reply \notin {"ok", "error", "notfound"}
  BY <1>0, <1>4 DEF Shape
<1>6. ServiceTypes' /\ OneHolder' /\ ActiveHasOwner' /\ Balanced'
  BY <1>0, <1>2, <1>3, <1>4, <1>5, MoveOn, Zenon DEF Is
<1>7. HitsBounded'
  BY <1>0, <1>3, <1>4, HitsStay, SMTT(30) DEF Is
<1> QED BY <1>6, <1>7, Zenon DEF ServiceInv

\* A step of a query keeps all but what is said of the hits: no transaction is concerned.
LEMMA QueryMoves ==
  ASSUME ServiceInv, NEW c \in Requests, NEW r \in RequestRecord, Goes(c, r), Shape(r, svpast'),
         r.kind = "query", req[c].kind = "query",
         registry' = registry, txn' = txn, svpast' \in SvPastRecord, svpast'.abandoned = svpast.abandoned,
         svpast'.dropped = svpast.dropped,
         metric' \in MetricRecord, metric'.begun = metric.begun, metric'.committed = metric.committed,
         metric'.aborted = metric.aborted, poolHits' \in Nat
  PROVE  ServiceTypes' /\ OneHolder' /\ ActiveHasOwner' /\ Balanced'
<1>0. /\ ServiceTypes /\ Shape(req[c], svpast)
      /\ registry \subseteq TxIds /\ txn \in [TxIds -> {"none", "active", "committed", "aborted"}]
  BY RequestIs, Zenon DEF ServiceInv
<1>1. ServiceTypes'
  BY <1>0, TypesMove, Zenon
<1>2. ~ Begun(r) /\ ~ Begun(req[c]) /\ ~ Owns(r) /\ ~ Owns(req[c]) /\ r.pc # "removed" /\ req[c].pc # "removed"
  BY <1>0, Zenon DEF Begun, Owns, Shape
<1>3. OneHolder' /\ ActiveHasOwner'
  BY <1>2, QuietMove, Zenon DEF InHand
<1>4. Uncounted' = Uncounted /\ Unanswered' = Unanswered
  <2>1. /\ Requests' = Requests /\ req'[c] = r
        /\ \A d \in Requests : d # c => req'[d] = req[d]
    BY RequestMoves, Zenon DEF ServiceInv
  <2> QED BY <2>1, <1>2 DEF Uncounted, Unanswered
<1>5. Balanced'
  BY <1>4 DEF ServiceInv, Balanced
<1> QED BY <1>1, <1>3, <1>5, Zenon

\* execute_cypher keeps ServiceInv: the pool counts its hit before anybody reads the counter.
LEMMA ExecuteKeeps == ASSUME ServiceInv, NEW c \in Requests, execute_cypher(c) PROVE ServiceInv'
<1>0. /\ req[c].pc = "spawned" /\ req[c].kind = "query" /\ poolHits' = poolHits + 1
      /\ UNCHANGED <<registry, txn, metric, svpast>>
  BY DEF execute_cypher
<1>1. PICK x \in {"ok", "error"} : req' = Returns(c, x)
  BY DEF execute_cypher
<1>2. PICK r \in RequestRecord : Goes(c, r) /\ Is(r, req[c], req[c].tx, "returned", x, req[c].reply, req[c].stat, req[c].prev)
  BY <1>1, SetsResult, Zenon DEF ServiceInv, Results
<1>3. /\ Shape(req[c], svpast) /\ metric \in MetricRecord /\ svpast \in SvPastRecord /\ poolHits \in Nat
      /\ req[c].stat <= poolHits /\ req[c].stat \in Nat
  BY RequestIs, Zenon
<1>4. Shape(r, svpast)
  BY <1>0, <1>2, <1>3, Zenon DEF Shape, Is
<1>5. poolHits' \in Nat /\ poolHits <= poolHits' /\ req[c].stat <= poolHits'
  BY <1>0, <1>3, SMTT(30)
<1>6. ServiceTypes' /\ OneHolder' /\ ActiveHasOwner' /\ Balanced'
  BY <1>0, <1>2, <1>3, <1>4, <1>5, QueryMoves, Zenon DEF Is
<1>7. HitsBounded'
  BY <1>0, <1>2, <1>5, HitsStay, Zenon DEF Is
<1> QED BY <1>6, <1>7, Zenon DEF ServiceInv

\* observe_query_latency keeps ServiceInv: it counts a query, which no transaction is concerned with.
LEMMA ObserveKeeps == ASSUME ServiceInv, NEW c \in Requests, observe_query_latency(c) PROVE ServiceInv'
<1>0. /\ req[c].pc = "returned" /\ req[c].kind = "query"
      /\ req' = [req EXCEPT ![c].pc = "stats"] /\ metric' = [metric EXCEPT !.queries = @ + 1]
      /\ UNCHANGED <<registry, txn, poolHits, svpast>> /\ "stats" \in Places
  BY DEF observe_query_latency, Places
<1>1. PICK r \in RequestRecord :
        Goes(c, r) /\ Is(r, req[c], req[c].tx, "stats", req[c].result, req[c].reply, req[c].stat, req[c].prev)
  BY <1>0, SetsPc, Zenon DEF ServiceInv
<1>2. /\ Shape(req[c], svpast) /\ metric \in MetricRecord /\ svpast \in SvPastRecord /\ poolHits \in Nat
      /\ req[c].stat <= poolHits
  BY RequestIs
<1>3. /\ metric' \in MetricRecord /\ metric'.begun = metric.begun /\ metric'.committed = metric.committed
      /\ metric'.aborted = metric.aborted /\ metric'.hits = metric.hits
  BY <1>0, <1>2, SMTT(30) DEF MetricRecord
<1>4. Shape(r, svpast)
  BY <1>0, <1>1, <1>2, Zenon DEF Shape, Is
<1>5. ServiceTypes' /\ OneHolder' /\ ActiveHasOwner' /\ Balanced'
  BY <1>0, <1>1, <1>2, <1>3, <1>4, QueryMoves, Zenon DEF Is
<1>6. HitsBounded'
  BY <1>0, <1>1, <1>2, <1>3, HitsStay, SMTT(30) DEF Is
<1> QED BY <1>5, <1>6, Zenon DEF ServiceInv

\* cache_stats keeps ServiceInv: what the handler takes with it is at most what the pool had.
LEMMA CacheStatsKeeps == ASSUME ServiceInv, NEW c \in Requests, cache_stats(c) PROVE ServiceInv'
<1>0. /\ req[c].pc = "stats" /\ req' = [req EXCEPT ![c].stat = poolHits, ![c].pc = "record"]
      /\ UNCHANGED <<registry, txn, metric, poolHits, svpast>> /\ "record" \in Places
  BY Zenon DEF cache_stats, Places
<1>1. /\ Shape(req[c], svpast) /\ metric \in MetricRecord /\ svpast \in SvPastRecord /\ poolHits \in Nat
  BY RequestIs, Zenon
<1>2. PICK r \in RequestRecord :
        Goes(c, r) /\ Is(r, req[c], req[c].tx, "record", req[c].result, req[c].reply, poolHits, req[c].prev)
  BY <1>0, <1>1, SetsStat, Zenon DEF ServiceInv
<1>3. Shape(r, svpast) /\ req[c].kind = "query"
  BY <1>0, <1>1, <1>2, Zenon DEF Shape, Is
<1>4. ServiceTypes' /\ OneHolder' /\ ActiveHasOwner' /\ Balanced'
  BY <1>0, <1>1, <1>2, <1>3, QueryMoves, Zenon DEF Is
<1>5. HitsBounded'
  BY <1>0, <1>1, <1>2, HitsStay, SMTT(30) DEF Is
<1> QED BY <1>4, <1>5 DEF ServiceInv

\* record_cache_stats keeps ServiceInv when it reads the counter: either it is alone between the
\* read and the update, or the overlap is on record.
LEMMA ReadsKeeps == ASSUME ServiceInv, NEW c \in Requests, record_reads(c) PROVE ServiceInv'
<1> DEFINE busy == svpast.overlap \/ \E d \in Requests : req[d].pc = "advance"
<1>0. /\ req[c].pc = "record" /\ req' = [req EXCEPT ![c].prev = metric.hits, ![c].pc = "advance"]
      /\ svpast' = [svpast EXCEPT !.overlap = busy]
      /\ UNCHANGED <<registry, txn, metric, poolHits>> /\ "advance" \in Places
  BY Zenon DEF record_reads, Places
<1>1. /\ Shape(req[c], svpast) /\ metric \in MetricRecord /\ svpast \in SvPastRecord /\ poolHits \in Nat
      /\ req[c].stat <= poolHits /\ metric.hits \in Nat
  BY RequestIs DEF MetricRecord
<1>2. PICK r \in RequestRecord :
        Goes(c, r) /\ Is(r, req[c], req[c].tx, "advance", req[c].result, req[c].reply, req[c].stat, metric.hits)
  BY <1>0, <1>1, SetsPrev, Zenon DEF ServiceInv
<1>3. busy \in BOOLEAN
  BY <1>1 DEF SvPastRecord
<1>4. (busy = FALSE) => svpast.overlap = FALSE /\ \A d \in Requests : req[d].pc # "advance"
  BY <1>1 DEF SvPastRecord
<1> HIDE DEF busy
<1>5. /\ svpast' \in SvPastRecord /\ svpast'.abandoned = svpast.abandoned /\ svpast'.dropped = svpast.dropped
      /\ svpast'.overlap = busy
  BY <1>0, <1>1, <1>3, Zenon DEF SvPastRecord
<1>6. Shape(r, svpast') /\ req[c].kind = "query"
  BY <1>0, <1>1, <1>2, <1>5, Zenon DEF Shape, Is
<1>7. ServiceTypes' /\ OneHolder' /\ ActiveHasOwner' /\ Balanced'
  BY <1>0, <1>1, <1>2, <1>5, <1>6, QueryMoves, Zenon DEF Is
<1>8. /\ Requests' = Requests /\ req'[c] = r
      /\ \A d \in Requests : d # c => req'[d] = req[d]
  BY <1>2, RequestMoves, Zenon DEF ServiceInv
<1>9. HitsBounded'
  <2>1. \A d \in Requests : req'[d].stat <= poolHits'
    BY <1>0, <1>1, <1>2, <1>8, Zenon DEF ServiceInv, HitsBounded, Is
  <2>2. ASSUME busy = FALSE
        PROVE  /\ metric'.hits <= poolHits'
               /\ \A d \in Requests : req'[d].pc = "advance" => req'[d].prev = metric'.hits
               /\ \A d, e \in Requests : req'[d].pc = "advance" /\ req'[e].pc = "advance" => d = e
    <3>1. \A d \in Requests : req'[d].pc = "advance" => d = c
      BY <1>4, <1>8, <2>2, Zenon
    <3>2. r.prev = metric'.hits
      BY <1>0, <1>2, Zenon DEF Is
    <3>3. metric.hits <= poolHits
      BY <1>4, <2>2, Zenon DEF ServiceInv, HitsBounded
    <3> QED BY <1>0, <1>8, <3>1, <3>2, <3>3, ZenonT(30)
  <2> QED BY <1>5, <1>8, <2>1, <2>2, Zenon DEF HitsBounded
<1> QED BY <1>7, <1>9 DEF ServiceInv

\* record_cache_stats keeps ServiceInv when it advances the counter: the difference is to the value
\* that the counter still has.
LEMMA AdvancesKeeps == ASSUME ServiceInv, NEW c \in Requests, record_advances(c) PROVE ServiceInv'
<1> DEFINE hits == metric.hits + Advanced(c)
           failed == metric.failed + (IF req[c].result = "error" THEN 1 ELSE 0)
<1>0. /\ req[c].pc = "advance" /\ metric' = [metric EXCEPT !.hits = hits, !.failed = failed] /\ Reply(c)
      /\ UNCHANGED <<registry, txn, poolHits, svpast>>
  BY DEF record_advances
<1>1. /\ Shape(req[c], svpast) /\ metric \in MetricRecord /\ svpast \in SvPastRecord /\ poolHits \in Nat
      /\ req[c].stat <= poolHits /\ metric.hits \in Nat /\ metric.failed \in Nat /\ req[c].stat \in Nat /\ req[c].prev \in Nat
      /\ req[c].result \in Results /\ svpast.overlap \in BOOLEAN
  BY RequestIs, Zenon DEF MetricRecord, SvPastRecord
<1>2. PICK r \in RequestRecord : Goes(c, r) /\ Is(r, req[c], req[c].tx, "done", req[c].result, req[c].result, 0, 0)
  BY <1>0, <1>1, SetsReply, Zenon DEF ServiceInv
<1>3. hits \in Nat /\ failed \in Nat
  BY <1>1, SMTT(30) DEF Advanced
<1>4. req[c].prev = metric.hits /\ metric.hits <= poolHits => hits <= poolHits
  BY <1>1 DEF Advanced
<1> HIDE DEF hits, failed
<1>5. metric' \in MetricRecord
  BY <1>0, <1>1, <1>3, Zenon DEF MetricRecord
<1>6. /\ metric'.begun = metric.begun /\ metric'.committed = metric.committed
      /\ metric'.aborted = metric.aborted /\ metric'.hits = hits
  BY <1>0, <1>1, Zenon DEF MetricRecord
<1>7. Shape(r, svpast) /\ req[c].kind = "query"
  BY <1>0, <1>1, <1>2, Zenon DEF Shape, Is, Results
<1>8. ServiceTypes' /\ OneHolder' /\ ActiveHasOwner' /\ Balanced'
  BY <1>0, <1>1, <1>2, <1>5, <1>6, <1>7, QueryMoves, Zenon DEF Is
<1>9. /\ Requests' = Requests /\ req'[c] = r
      /\ \A d \in Requests : d # c => req'[d] = req[d]
  BY <1>2, RequestMoves, Zenon DEF ServiceInv
<1>10. HitsBounded'
  <2>1. \A d \in Requests : req'[d].stat <= poolHits'
    BY <1>0, <1>1, <1>2, <1>9, SMTT(30) DEF ServiceInv, HitsBounded, Is
  <2>2. ASSUME svpast.overlap = FALSE
        PROVE  hits <= poolHits /\ \A d \in Requests : req'[d].pc # "advance"
    <3>1. \A d \in Requests : req[d].pc = "advance" => d = c
      BY <1>0, <2>2, Zenon DEF ServiceInv, HitsBounded
    <3>2. req[c].prev = metric.hits /\ metric.hits <= poolHits
      BY <1>0, <2>2, Zenon DEF ServiceInv, HitsBounded
    <3>3. r.pc # "advance"
      BY <1>2 DEF Is
    <3> QED BY <1>4, <1>9, <3>1, <3>2, <3>3, Zenon
  <2> QED BY <1>0, <1>6, <1>9, <2>1, <2>2, Zenon DEF HitsBounded
<1> QED BY <1>8, <1>10 DEF ServiceInv

\* A deadline that drops a handler keeps ServiceInv: the closure holds its transaction as before.
LEMMA DeadlineKeeps == ASSUME ServiceInv, NEW c \in Requests, deadline(c) PROVE ServiceInv'
<1>0. /\ req[c].reply = "none" /\ req[c].pc \notin {"idle", "advance", "done"}
      /\ req' = [req EXCEPT ![c].reply = "deadline"] /\ svpast' = [svpast EXCEPT !.dropped = TRUE]
      /\ UNCHANGED <<registry, txn, metric, poolHits>>
  BY Zenon DEF deadline, Alive
<1>1. /\ Shape(req[c], svpast) /\ metric \in MetricRecord /\ svpast \in SvPastRecord /\ poolHits \in Nat
      /\ req[c].stat <= poolHits /\ registry \subseteq TxIds /\ txn \in [TxIds -> {"none", "active", "committed", "aborted"}]
  BY RequestIs
<1>2. PICK r \in RequestRecord :
        Goes(c, r) /\ Is(r, req[c], req[c].tx, req[c].pc, req[c].result, "deadline", req[c].stat, req[c].prev)
  BY <1>0, SetsDeadline, Zenon DEF ServiceInv
<1>3. /\ svpast' \in SvPastRecord /\ svpast'.abandoned = svpast.abandoned /\ svpast'.dropped = TRUE
      /\ svpast'.overlap = svpast.overlap
  BY <1>0, <1>1, Zenon DEF SvPastRecord
<1>4. Shape(r, svpast')
  BY <1>0, <1>1, <1>2, <1>3, SMTT(30) DEF Shape, Is
<1>5. ServiceTypes'
  BY <1>0, <1>1, <1>2, <1>3, <1>4, TypesMove, Zenon DEF ServiceInv
<1>6. (Begun(r) <=> Begun(req[c])) /\ (Owns(r) <=> Owns(req[c]))
  BY <1>2, Zenon DEF Begun, Owns, Is
<1>7. OneHolder' /\ ActiveHasOwner'
  BY <1>0, <1>2, <1>3, <1>6, QuietMove, Zenon DEF Is
<1>8. Balanced'
  BY <1>0, <1>2, <1>6, CountsStay, Zenon DEF Is
<1>9. HitsBounded'
  BY <1>0, <1>1, <1>2, <1>3, HitsStay, SMTT(30) DEF Is
<1> QED BY <1>5, <1>7, <1>8, <1>9, Zenon DEF ServiceInv

\* The requests that are still to be counted, and open_txns, are finite.
LEMMA FewRequests ==
  ASSUME ServiceTypes
  PROVE  /\ IsFiniteSet(Uncounted) /\ IsFiniteSet(Unanswered) /\ IsFiniteSet(registry)
         /\ Cardinality(Uncounted) \in Nat /\ Cardinality(Unanswered) \in Nat /\ Cardinality(registry) \in Nat
<1>1. IsFiniteSet(Requests) /\ Uncounted \subseteq Requests /\ Unanswered \subseteq Requests /\ registry \subseteq TxIds
  BY DEF ServiceTypes, Uncounted, Unanswered
<1>2. IsFiniteSet(TxIds)
  BY FS_Interval, ServiceAssumption, SMTT(30) DEF TxIds
<1>3. IsFiniteSet(Uncounted) /\ IsFiniteSet(Unanswered) /\ IsFiniteSet(registry)
  BY <1>1, <1>2, FS_Subset, Zenon
<1> QED BY <1>3, FS_CardinalityType, Zenon

\* The answer of begin, commit and rollback keeps ServiceInv: each counts what its closure did, once.
LEMMA RespondKeeps == ASSUME ServiceInv, NEW c \in Requests, tx_respond(c) PROVE ServiceInv'
<1> DEFINE ok == req[c].result = "ok"
           counted == \/ ok /\ req[c].kind = "rollback"
                      \/ req[c].result = "error" /\ req[c].kind = "commit"
           mb == metric.begun + (IF ok /\ req[c].kind = "begin" THEN 1 ELSE 0)
           mc == metric.committed + (IF ok /\ req[c].kind = "commit" THEN 1 ELSE 0)
           ma == metric.aborted + (IF counted THEN 1 ELSE 0)
<1>0. /\ req[c].pc = "returned" /\ req[c].reply = "none" /\ req[c].kind \in {"begin", "commit", "rollback"}
      /\ metric' = [metric EXCEPT !.begun = mb, !.committed = mc, !.aborted = ma] /\ Reply(c)
      /\ UNCHANGED <<registry, txn, poolHits, svpast>>
  BY Zenon DEF tx_respond, Alive
<1>1. /\ Shape(req[c], svpast) /\ metric \in MetricRecord /\ svpast \in SvPastRecord /\ poolHits \in Nat
      /\ req[c].stat <= poolHits /\ registry \subseteq TxIds /\ txn \in [TxIds -> {"none", "active", "committed", "aborted"}]
      /\ metric.begun \in Nat /\ metric.committed \in Nat /\ metric.aborted \in Nat /\ req[c].result \in Results
  BY RequestIs, Zenon DEF MetricRecord
<1>2. PICK r \in RequestRecord : Goes(c, r) /\ Is(r, req[c], req[c].tx, "done", req[c].result, req[c].result, 0, 0)
  BY <1>0, <1>1, SetsReply, Zenon DEF ServiceInv
<1>3. mb \in Nat /\ mc \in Nat /\ ma \in Nat
  BY <1>1
<1>4. mb = metric.begun + (IF c \in Uncounted THEN 1 ELSE 0)
  BY <1>0, <1>1, Zenon DEF Uncounted
<1>5. mc + ma = metric.committed + metric.aborted + (IF c \in Unanswered THEN 1 ELSE 0)
  <2>1. Owns(req[c]) <=> req[c].kind \in {"commit", "rollback"} /\ req[c].result \in {"ok", "error"}
    BY <1>0, Zenon DEF Owns
  <2>2. req[c].kind = "rollback" => req[c].result # "error"
    BY <1>1, Zenon DEF Shape
  <2>3. c \in Unanswered <=> (ok /\ req[c].kind = "commit") \/ counted
    BY <1>0, <2>1, <2>2, Zenon DEF Unanswered
  <2> QED BY <1>1, <2>3, SMTT(30)
<1> HIDE DEF mb, mc, ma, ok, counted
<1>6. metric' \in MetricRecord
  BY <1>0, <1>1, <1>3, Zenon DEF MetricRecord
<1>7. /\ metric'.begun = mb /\ metric'.committed = mc
      /\ metric'.aborted = ma /\ metric'.hits = metric.hits
  BY <1>0, <1>1, Zenon DEF MetricRecord
<1>8. Shape(r, svpast)
  BY <1>0, <1>1, <1>2, Zenon DEF Shape, Is, Results
<1>9. ServiceTypes'
  BY <1>0, <1>1, <1>2, <1>6, <1>8, TypesMove, Zenon DEF ServiceInv
<1>10. /\ (Begun(r) <=> Begun(req[c])) /\ (Owns(r) <=> Owns(req[c])) /\ r.pc # "removed" /\ req[c].pc # "removed"
       /\ r.kind = req[c].kind /\ r.tx = req[c].tx /\ r.result = req[c].result
  BY <1>0, <1>2, Zenon DEF Begun, Owns, Is
<1>11. OneHolder' /\ ActiveHasOwner'
  BY <1>0, <1>2, <1>10, QuietMove, Zenon DEF Is
<1>12. /\ Requests' = Requests /\ req'[c] = r
       /\ \A d \in Requests : d # c => req'[d] = req[d]
  BY <1>2, RequestMoves, SMTT(30) DEF ServiceInv
<1>13. Uncounted' = Uncounted \ {c} /\ Unanswered' = Unanswered \ {c}
  <2>1. ~ (r.kind = "begin" /\ r.result = "ok" /\ r.reply # "ok") /\ ~ (Owns(r) /\ r.reply \notin {"ok", "error"})
    BY <1>2 DEF Is, Owns
  <2> QED BY <1>12, <2>1, Zenon DEF Uncounted, Unanswered
<1>14. Balanced'
  <2> DEFINE u == Cardinality(Uncounted)
             v == Cardinality(Unanswered)
             g == Cardinality(registry)
  <2>1. u \in Nat /\ v \in Nat /\ g \in Nat
    BY FewRequests, Zenon DEF ServiceInv
  <2>2. /\ Cardinality(Uncounted') = IF c \in Uncounted THEN u - 1 ELSE u
        /\ Cardinality(Unanswered') = IF c \in Unanswered THEN v - 1 ELSE v
    BY <1>13, FewRequests, FS_RemoveElement, Zenon DEF ServiceInv
  <2>3. metric.begun + u = metric.committed + metric.aborted + g + v
    BY DEF ServiceInv, Balanced
  <2> HIDE DEF u, v, g
  <2>4. mb + (IF c \in Uncounted THEN u - 1 ELSE u) = mc + ma + g + (IF c \in Unanswered THEN v - 1 ELSE v)
    <3> DEFINE b == metric.begun
               k == metric.committed
               a == metric.aborted
    <3>1. /\ b \in Nat /\ k \in Nat /\ a \in Nat /\ mb = b + (IF c \in Uncounted THEN 1 ELSE 0)
          /\ mc + ma = k + a + (IF c \in Unanswered THEN 1 ELSE 0) /\ b + u = k + a + g + v
      BY <1>1, <1>4, <1>5, <2>3, Zenon
    <3> HIDE DEF b, k, a
    <3> QED BY <1>3, <2>1, <3>1, SMTT(30)
  <2> QED BY <1>0, <1>7, <2>2, <2>4, Zenon DEF Balanced, g
<1>15. HitsBounded'
  BY <1>0, <1>1, <1>2, <1>7, HitsStay, SMTT(30) DEF Is
<1> QED BY <1>9, <1>11, <1>14, <1>15, SMTT(30) DEF ServiceInv

\* OneHolder is kept by a step that gives a transaction to request c, or takes one from it, and leaves the
\* other requests theirs.
LEMMA HandsMove ==
  ASSUME ServiceInv, NEW c \in Requests, NEW r \in RequestRecord, Goes(c, r), Agrees(r, txn'),
         \A t \in registry' : txn'[t] = "active", InHand(r) => r.tx \notin registry',
         \A d \in Requests : d # c /\ InHand(req[d]) =>
             /\ txn'[req[d].tx] = txn[req[d].tx] /\ req[d].tx \notin registry'
             /\ InHand(r) => req[d].tx # r.tx
  PROVE  OneHolder'
<1>1. /\ Requests' = Requests /\ req'[c] = r
      /\ \A d \in Requests : d # c => req'[d] = req[d]
  BY RequestMoves DEF ServiceInv
<1>2. \A d \in Requests : Agrees(req'[d], txn')
  <2> SUFFICES ASSUME NEW d \in Requests, d # c PROVE Agrees(req[d], txn')
    BY <1>1, Zenon
  <2>1. Agrees(req[d], txn)
    BY Zenon DEF ServiceInv, OneHolder
  <2>2. CASE InHand(req[d])
    BY <2>1, <2>2, Zenon DEF Agrees
  <2>3. CASE ~ InHand(req[d])
    BY <2>3, Zenon DEF Agrees, InHand
  <2> QED BY <2>2, <2>3, Zenon
<1>3. \A d \in Requests : InHand(req'[d]) => req'[d].tx \notin registry'
  BY <1>1, Zenon
<1>4. \A d, e \in Requests : InHand(req'[d]) /\ InHand(req'[e]) /\ req'[d].tx = req'[e].tx => d = e
  BY <1>1 DEF ServiceInv, OneHolder
<1> QED BY <1>1, <1>2, <1>3, <1>4, Zenon DEF OneHolder

\* A transaction in the hands of a request is known to the engine and is not in open_txns.
LEMMA HeldIsKnown ==
  ASSUME ServiceInv, NEW d \in Requests, InHand(req[d])
  PROVE  txn[req[d].tx] # "none" /\ req[d].tx \notin registry /\ req[d].tx \in TxIds
<1>1. txn[req[d].tx] # "none" /\ req[d].tx \notin registry
  BY Zenon DEF ServiceInv, OneHolder, Agrees, InHand
<1>2. req[d].tx \in TxIds
  BY DEF ServiceInv, ServiceTypes, Shape, InHand, Begun, Owns
<1> QED BY <1>1, <1>2, Zenon

\* begin_with_isolation keeps ServiceInv: the transaction is new, so that nobody else holds it.
LEMMA BeginKeeps == ASSUME ServiceInv, NEW c \in Requests, begin_txn(c) PROVE ServiceInv'
<1>0. /\ req[c].pc = "spawned" /\ req[c].kind = "begin" /\ UNCHANGED <<registry, metric, poolHits, svpast>>
  BY DEF begin_txn
<1>1. PICK t \in TxIds : /\ txn[t] = "none" /\ txn' = [txn EXCEPT ![t] = "active"]
                         /\ req' = [req EXCEPT ![c].tx = t, ![c].pc = "begun"]
  BY Zenon DEF begin_txn
<1>2. t \in 0..MaxTx /\ "begun" \in Places
  BY ServiceAssumption DEF TxIds, Places
<1>3. PICK r \in RequestRecord : Goes(c, r) /\ Is(r, req[c], t, "begun", req[c].result, req[c].reply, req[c].stat, req[c].prev)
  BY <1>1, <1>2, SetsTx, Zenon DEF ServiceInv
<1>4. /\ Shape(req[c], svpast) /\ metric \in MetricRecord /\ svpast \in SvPastRecord /\ poolHits \in Nat /\ req[c].stat <= poolHits
      /\ registry \subseteq TxIds /\ txn \in [TxIds -> {"none", "active", "committed", "aborted"}]
  BY RequestIs
<1>5. req[c].result = "none" /\ req[c].reply \notin {"ok", "error", "notfound"}
  BY <1>0, <1>4, Zenon DEF Shape
<1>6. Shape(r, svpast)
  BY <1>0, <1>3, <1>4, <1>5, Zenon DEF Shape, Is
<1>7. txn' \in [TxIds -> {"none", "active", "committed", "aborted"}] /\ txn'[t] = "active" /\ \A u \in TxIds : u # t => txn'[u] = txn[u]
  BY <1>1, <1>4, Zenon
<1>8. ServiceTypes'
  BY <1>0, <1>3, <1>4, <1>6, <1>7, TypesMove, Zenon DEF ServiceInv
<1>9. t \notin registry
  BY <1>1, Zenon DEF ServiceInv, OneHolder
<1>10. OneHolder'
  <2>1. Begun(r) /\ ~ Owns(r) /\ r.tx = t
    BY <1>0, <1>3, <1>5, Zenon DEF Begun, Owns, Is
  <2>2. Agrees(r, txn')
    BY <1>7, <2>1, Zenon DEF Agrees
  <2>3. \A u \in registry' : txn'[u] = "active"
    BY <1>0, <1>4, <1>7, <1>9, Zenon DEF ServiceInv, OneHolder
  <2>4. ASSUME NEW d \in Requests, InHand(req[d])
        PROVE  txn'[req[d].tx] = txn[req[d].tx] /\ req[d].tx \notin registry' /\ req[d].tx # t
    <3>1. txn[req[d].tx] # "none" /\ req[d].tx \notin registry
      BY <2>4, HeldIsKnown, Zenon
    <3> QED BY <1>0, <1>1, <1>4, <3>1, SMTT(30)
  <2> QED BY <1>0, <1>3, <1>9, <2>1, <2>2, <2>3, <2>4, HandsMove, Zenon
<1>11. /\ Requests' = Requests /\ req'[c] = r
       /\ \A d \in Requests : d # c => req'[d] = req[d]
  BY <1>3, RequestMoves, Zenon DEF ServiceInv
<1>12. ActiveHasOwner'
  <2> SUFFICES ASSUME ~ svpast.abandoned, NEW u \in TxIds, txn'[u] = "active"
               PROVE  u \in registry \/ \E d \in Requests : req'[d].tx = u /\ req'[d].pc \in {"begun", "removed"}
    BY <1>0, <1>11, Zenon DEF ActiveHasOwner, TxIds
  <2>1. CASE u = t
    BY <1>3, <1>11, <2>1, Zenon DEF Is
  <2>2. CASE u # t
    <3>1. u \in registry \/ \E d \in Requests : req[d].tx = u /\ req[d].pc \in {"begun", "removed"}
      BY <1>7, <2>2, SMTT(30) DEF ServiceInv, ActiveHasOwner
    <3> QED BY <1>0, <1>11, <3>1, Zenon
  <2> QED BY <2>1, <2>2, Zenon
<1>13. Balanced'
  <2>1. ~ Owns(r) /\ ~ Owns(req[c])
    BY <1>0, <1>3, Zenon DEF Owns, Is
  <2> QED BY <1>0, <1>3, <1>5, <2>1, CountsStay, Zenon DEF Is
<1>14. HitsBounded'
  BY <1>0, <1>3, <1>4, HitsStay, SMTT(30) DEF Is
<1> QED BY <1>8, <1>10, <1>12, <1>13, <1>14, Zenon DEF ServiceInv

\* begin keeps ServiceInv when it puts its transaction into open_txns.
LEMMA RegisterKeeps == ASSUME ServiceInv, NEW c \in Requests, register(c) PROVE ServiceInv'
<1> DEFINE t == req[c].tx
<1>0. /\ req[c].pc = "begun" /\ registry' = registry \cup {t} /\ req' = Returns(c, "ok")
      /\ UNCHANGED <<txn, metric, poolHits, svpast>> /\ "ok" \in Results
  BY Zenon DEF register, Results
<1>1. PICK r \in RequestRecord : Goes(c, r) /\ Is(r, req[c], t, "returned", "ok", req[c].reply, req[c].stat, req[c].prev)
  BY <1>0, SetsResult, Zenon DEF ServiceInv
<1>2. /\ Shape(req[c], svpast) /\ metric \in MetricRecord /\ svpast \in SvPastRecord /\ poolHits \in Nat /\ req[c].stat <= poolHits
      /\ registry \subseteq TxIds /\ txn \in [TxIds -> {"none", "active", "committed", "aborted"}]
      /\ metric.begun \in Nat /\ metric.committed \in Nat /\ metric.aborted \in Nat
  BY RequestIs, Zenon DEF MetricRecord
<1>3. /\ req[c].result = "none" /\ req[c].reply \notin {"ok", "error", "notfound"} /\ req[c].kind = "begin" /\ t \in TxIds
  BY <1>0, <1>2, Zenon DEF Shape
<1>4. Shape(r, svpast)
  BY <1>0, <1>1, <1>2, <1>3, Zenon DEF Shape, Is
<1>5. ServiceTypes'
  BY <1>0, <1>1, <1>2, <1>3, <1>4, TypesMove, ZenonT(30) DEF ServiceInv
<1>6. ~ InHand(r) /\ InHand(req[c]) /\ txn[t] = "active" /\ ~ Owns(r) /\ ~ Owns(req[c]) /\ t \notin registry
  <2>1. ~ InHand(r) /\ InHand(req[c]) /\ Begun(req[c]) /\ ~ Owns(r) /\ ~ Owns(req[c])
    BY <1>0, <1>1, <1>3, Zenon DEF InHand, Begun, Owns, Is
  <2> QED BY <2>1, Zenon DEF ServiceInv, OneHolder, Agrees
<1>7. OneHolder'
  <2>1. Agrees(r, txn')
    BY <1>6, Zenon DEF Agrees, InHand
  <2>2. \A u \in registry' : txn'[u] = "active"
    BY <1>0, <1>6, Zenon DEF ServiceInv, OneHolder
  <2>3. ASSUME NEW d \in Requests, d # c, InHand(req[d])
        PROVE  txn'[req[d].tx] = txn[req[d].tx] /\ req[d].tx \notin registry'
    <3>1. req[d].tx # t
      BY <1>6, <2>3, Zenon DEF ServiceInv, OneHolder
    <3> QED BY <1>0, <2>3, <3>1, HeldIsKnown, ZenonT(30)
  <2> QED BY <1>1, <1>6, <2>1, <2>2, <2>3, HandsMove, SMTT(30)
<1>8. /\ Requests' = Requests /\ req'[c] = r
      /\ \A d \in Requests : d # c => req'[d] = req[d]
  BY <1>1, RequestMoves, Zenon DEF ServiceInv
<1>9. ActiveHasOwner'
  <2> SUFFICES ASSUME ~ svpast.abandoned, NEW u \in TxIds, txn[u] = "active"
               PROVE  u \in registry' \/ \E d \in Requests : req'[d].tx = u /\ req'[d].pc \in {"begun", "removed"}
    BY <1>0, <1>8, Zenon DEF ActiveHasOwner, TxIds
  <2>1. u \in registry \/ \E d \in Requests : req[d].tx = u /\ req[d].pc \in {"begun", "removed"}
    BY Zenon DEF ServiceInv, ActiveHasOwner
  <2> QED BY <1>0, <1>8, <2>1, Zenon
<1>10. Uncounted' = Uncounted \cup {c} /\ Unanswered' = Unanswered /\ c \notin Uncounted
  <2>1. /\ r.kind = "begin" /\ r.result = "ok" /\ r.reply # "ok" /\ req[c].result # "ok"
    BY <1>1, <1>3, Zenon DEF Is
  <2> QED BY <1>6, <1>8, <2>1, SMTT(30) DEF Uncounted, Unanswered
<1>11. Balanced'
  <2> DEFINE u == Cardinality(Uncounted)
             v == Cardinality(Unanswered)
             g == Cardinality(registry)
             b == metric.begun
             k == metric.committed
             a == metric.aborted
  <2>1. u \in Nat /\ v \in Nat /\ g \in Nat /\ b \in Nat /\ k \in Nat /\ a \in Nat
    BY <1>2, FewRequests, Zenon DEF ServiceInv
  <2>2. Cardinality(Uncounted') = u + 1 /\ Cardinality(registry') = g + 1
    BY <1>0, <1>6, <1>10, FewRequests, FS_AddElement, Zenon DEF ServiceInv
  <2>3. b + u = k + a + g + v
    BY DEF ServiceInv, Balanced
  <2> HIDE DEF u, v, g, b, k, a
  <2>4. b + (u + 1) = k + a + (g + 1) + v
    BY <2>1, <2>3, SMTT(30)
  <2> QED BY <1>0, <1>10, <2>2, <2>4, Zenon DEF Balanced, v, b, k, a
<1>12. HitsBounded'
  BY <1>0, <1>1, <1>2, HitsStay, SMTT(30) DEF Is
<1> QED BY <1>5, <1>7, <1>9, <1>11, <1>12, Zenon DEF ServiceInv

\* remove keeps ServiceInv: the request that finds the id takes the transaction from open_txns.
LEMMA RemoveKeeps == ASSUME ServiceInv, NEW c \in Requests, remove(c) PROVE ServiceInv'
<1> DEFINE t == req[c].tx
<1>0. /\ req[c].pc = "spawned" /\ req[c].kind \in {"commit", "rollback"} /\ registry' = registry \ {t}
      /\ UNCHANGED <<txn, metric, poolHits, svpast>> /\ "notfound" \in Results /\ "removed" \in Places
  BY Zenon DEF remove, Results, Places
<1>1. /\ Shape(req[c], svpast) /\ metric \in MetricRecord /\ svpast \in SvPastRecord /\ poolHits \in Nat /\ req[c].stat <= poolHits
      /\ registry \subseteq TxIds /\ txn \in [TxIds -> {"none", "active", "committed", "aborted"}]
      /\ metric.begun \in Nat /\ metric.committed \in Nat /\ metric.aborted \in Nat
  BY RequestIs, Zenon DEF MetricRecord
<1>2. req[c].result = "none" /\ req[c].reply \notin {"ok", "error", "notfound"} /\ t \in TxIds
  BY <1>0, <1>1, Zenon DEF Shape
<1>3. CASE t \notin registry
  <2>1. req' = Returns(c, "notfound") /\ registry' = registry
    BY <1>0, <1>3, Zenon DEF remove
  <2>2. PICK r \in RequestRecord : Goes(c, r) /\ Is(r, req[c], t, "returned", "notfound", req[c].reply, req[c].stat, req[c].prev)
    BY <1>0, <2>1, SetsResult, Zenon DEF ServiceInv
  <2>3. ServiceTypes' /\ OneHolder' /\ ActiveHasOwner' /\ Balanced'
    BY <1>0, <1>1, <1>2, <2>1, <2>2, MoveOn, ZenonT(30) DEF Is
  <2>4. HitsBounded'
    BY <1>0, <1>1, <2>2, HitsStay, SMTT(30) DEF Is
  <2> QED BY <2>3, <2>4 DEF ServiceInv
<1>4. CASE t \in registry
  <2>1. req' = [req EXCEPT ![c].pc = "removed"]
    BY <1>4 DEF remove
  <2>2. PICK r \in RequestRecord :
          Goes(c, r) /\ Is(r, req[c], t, "removed", req[c].result, req[c].reply, req[c].stat, req[c].prev)
    BY <1>0, <2>1, SetsPc, ZenonT(30) DEF ServiceInv
  <2>3. Shape(r, svpast)
    BY <1>0, <1>1, <1>2, <2>2, SMTT(30) DEF Shape, Is
  <2>4. registry' \subseteq TxIds
    BY <1>0, <1>1, Zenon
  <2>5. ServiceTypes'
    BY <1>0, <1>1, <2>2, <2>3, <2>4, TypesMove, ZenonT(30) DEF ServiceInv
  <2>6. /\ Owns(r) /\ ~ Begun(r) /\ InHand(r) /\ ~ Owns(req[c]) /\ r.tx = t /\ r.result = "none"
    BY <1>0, <1>2, <2>2, Zenon DEF Owns, Begun, InHand, Is
  <2>7. OneHolder'
    <3>1. txn[t] = "active"
      BY <1>4, Zenon DEF ServiceInv, OneHolder
    <3>2. Agrees(r, txn')
      BY <1>0, <2>6, <3>1, Zenon DEF Agrees
    <3>3. \A u \in registry' : txn'[u] = "active"
      BY <1>0, Zenon DEF ServiceInv, OneHolder
    <3>4. ASSUME NEW d \in Requests, InHand(req[d])
          PROVE  txn'[req[d].tx] = txn[req[d].tx] /\ req[d].tx \notin registry' /\ req[d].tx # t
      BY <1>0, <1>4, <3>4, HeldIsKnown, Zenon
    <3> QED BY <1>0, <2>2, <2>6, <3>2, <3>3, <3>4, HandsMove, SMTT(30)
  <2>8. /\ Requests' = Requests /\ req'[c] = r
        /\ \A d \in Requests : d # c => req'[d] = req[d]
    BY <2>2, RequestMoves, Zenon DEF ServiceInv
  <2>9. ActiveHasOwner'
    <3> SUFFICES ASSUME ~ svpast.abandoned, NEW u \in TxIds, txn[u] = "active"
                 PROVE  u \in registry' \/ \E d \in Requests : req'[d].tx = u /\ req'[d].pc \in {"begun", "removed"}
      BY <1>0, <2>8, Zenon DEF ActiveHasOwner, TxIds
    <3>1. u \in registry \/ \E d \in Requests : req[d].tx = u /\ req[d].pc \in {"begun", "removed"}
      BY DEF ServiceInv, ActiveHasOwner
    <3>2. r.pc = "removed"
      BY <2>2, Zenon DEF Is
    <3> QED BY <1>0, <2>6, <2>8, <3>1, <3>2, Zenon
  <2>10. Unanswered' = Unanswered \cup {c} /\ Uncounted' = Uncounted /\ c \notin Unanswered
    <3>1. r.reply \notin {"ok", "error"} /\ r.kind # "begin" /\ req[c].kind # "begin"
      BY <1>0, <1>2, <2>2, Zenon DEF Is
    <3> QED BY <2>6, <2>8, <3>1, SMTT(30) DEF Uncounted, Unanswered
  <2>11. Balanced'
    <3> DEFINE u == Cardinality(Uncounted)
               v == Cardinality(Unanswered)
               g == Cardinality(registry)
               b == metric.begun
               k == metric.committed
               a == metric.aborted
    <3>1. u \in Nat /\ v \in Nat /\ g \in Nat /\ b \in Nat /\ k \in Nat /\ a \in Nat
      BY <1>1, FewRequests, Zenon DEF ServiceInv
    <3>2. Cardinality(Unanswered') = v + 1 /\ Cardinality(registry') = g - 1
      BY <1>0, <1>4, <2>10, FewRequests, FS_AddElement, FS_RemoveElement, ZenonT(30) DEF ServiceInv
    <3>3. b + u = k + a + g + v
      BY DEF ServiceInv, Balanced
    <3> HIDE DEF u, v, g, b, k, a
    <3>4. b + u = k + a + (g - 1) + (v + 1)
      BY <3>1, <3>3, SMTT(30)
    <3> QED BY <1>0, <2>10, <3>2, <3>4, Zenon DEF Balanced, u, b, k, a
  <2>12. HitsBounded'
    BY <1>0, <1>1, <2>2, HitsStay, SMTT(30) DEF Is
  <2> QED BY <2>5, <2>7, <2>9, <2>11, <2>12, SMTT(30) DEF ServiceInv
<1> QED BY <1>3, <1>4, Zenon

\* The end of a transaction by the request that remove gave it to keeps ServiceInv (commit, rollback).
LEMMA EndKeeps ==
  ASSUME ServiceInv, NEW c \in Requests, NEW x \in {"ok", "error"}, NEW o \in {"active", "committed", "aborted"},
         req[c].pc = "removed", req' = Returns(c, x),
         txn' \in [TxIds -> {"none", "active", "committed", "aborted"}], txn'[req[c].tx] = o,
         \A u \in TxIds : u # req[c].tx => txn'[u] = txn[u],
         x = "ok" => o = (IF req[c].kind = "commit" THEN "committed" ELSE "aborted"),
         x = "error" => req[c].kind = "commit",
         o = "active" => svpast'.abandoned = TRUE,
         svpast' \in SvPastRecord, svpast.abandoned = TRUE => svpast'.abandoned = TRUE,
         svpast'.dropped = svpast.dropped, svpast'.overlap = svpast.overlap,
         UNCHANGED <<registry, metric, poolHits>>
  PROVE  ServiceInv'
<1> DEFINE t == req[c].tx
<1>0. x \in Results
  BY Zenon DEF Results
<1>1. PICK r \in RequestRecord : Goes(c, r) /\ Is(r, req[c], t, "returned", x, req[c].reply, req[c].stat, req[c].prev)
  BY <1>0, SetsResult, Zenon DEF ServiceInv
<1>2. /\ Shape(req[c], svpast) /\ metric \in MetricRecord /\ poolHits \in Nat /\ req[c].stat <= poolHits
      /\ registry \subseteq TxIds /\ txn \in [TxIds -> {"none", "active", "committed", "aborted"}]
  BY RequestIs, Zenon
<1>3. /\ req[c].kind \in {"commit", "rollback"} /\ t \in TxIds
      /\ req[c].result = "none" /\ req[c].reply \notin {"ok", "error", "notfound"}
  BY <1>2, ZenonT(30) DEF Shape
<1>4. Shape(r, svpast')
  BY <1>1, <1>2, <1>3, Zenon DEF Shape, Is
<1>5. txn'[t] = o /\ \A u \in TxIds : u # t => txn'[u] = txn[u]
  BY Zenon
<1>6. ServiceTypes'
  BY <1>1, <1>2, <1>4, TypesMove, ZenonT(30) DEF ServiceInv
<1>7. Owns(r) /\ Owns(req[c]) /\ ~ Begun(r) /\ InHand(r) /\ InHand(req[c]) /\ r.tx = t /\ r.result = x /\ r.pc = "returned"
      /\ r.kind = req[c].kind
  BY <1>1, <1>3, Zenon DEF Owns, Begun, InHand, Is
<1>8. t \notin registry
  BY <1>7, HeldIsKnown, Zenon
<1>9. OneHolder'
  <2>1. Agrees(r, txn')
    BY <1>3, <1>5, <1>7, Zenon DEF Agrees
  <2>2. \A u \in registry' : txn'[u] = "active"
    BY <1>2, <1>5, <1>8, ZenonT(30) DEF ServiceInv, OneHolder
  <2>3. ASSUME NEW d \in Requests, d # c, InHand(req[d])
        PROVE  txn'[req[d].tx] = txn[req[d].tx] /\ req[d].tx \notin registry' /\ req[d].tx # t
    <3>1. req[d].tx # t
      BY <1>7, <2>3, Zenon DEF ServiceInv, OneHolder
    <3>2. req[d].tx \notin registry /\ req[d].tx \in TxIds
      BY <2>3, HeldIsKnown, Zenon
    <3> QED BY <3>1, <3>2, Zenon
  <2> QED BY <1>1, <1>7, <1>8, <2>1, <2>2, <2>3, HandsMove, SMTT(30)
<1>10. /\ Requests' = Requests /\ req'[c] = r
       /\ \A d \in Requests : d # c => req'[d] = req[d]
  BY <1>1, RequestMoves, Zenon DEF ServiceInv
<1>11. ActiveHasOwner'
  <2> SUFFICES ASSUME ~ svpast'.abandoned, NEW u \in TxIds, txn'[u] = "active"
               PROVE  u \in registry \/ \E d \in Requests : req'[d].tx = u /\ req'[d].pc \in {"begun", "removed"}
    BY <1>10, Zenon DEF ActiveHasOwner, TxIds
  <2>1. u # t /\ txn[u] = "active"
    BY <1>5, Zenon
  <2>2. ~ svpast.abandoned
    BY Zenon DEF ServiceInv, ServiceTypes, SvPastRecord
  <2>3. u \in registry \/ \E d \in Requests : req[d].tx = u /\ req[d].pc \in {"begun", "removed"}
    BY <2>1, <2>2, Zenon DEF ServiceInv, ActiveHasOwner
  <2> QED BY <1>10, <2>1, <2>3, Zenon
<1>12. Balanced'
  BY <1>1, <1>3, <1>7, CountsStay, ZenonT(30) DEF Is
<1>13. HitsBounded'
  BY <1>1, <1>2, HitsStay, SMTT(30) DEF Is
<1> QED BY <1>6, <1>9, <1>11, <1>12, <1>13, Zenon DEF ServiceInv

\* A transaction between remove and its end is active, and its end changes it alone.
LEMMA HeldEnds ==
  ASSUME ServiceInv, NEW c \in Requests, req[c].pc = "removed"
  PROVE  /\ txn[req[c].tx] = "active" /\ req[c].tx \in TxIds
         /\ \A o \in {"active", "committed", "aborted"} :
              LET after == [txn EXCEPT ![req[c].tx] = o]
              IN  /\ after \in [TxIds -> {"none", "active", "committed", "aborted"}] /\ after[req[c].tx] = o
                  /\ \A u \in TxIds : u # req[c].tx => after[u] = txn[u]
<1>1. txn \in [TxIds -> {"none", "active", "committed", "aborted"}] /\ Shape(req[c], svpast)
  BY RequestIs, Zenon
<1>2. Owns(req[c]) /\ req[c].tx \in TxIds
  BY <1>1, Zenon DEF Owns, Shape
<1>3. txn[req[c].tx] = "active"
  BY <1>2, Zenon DEF ServiceInv, OneHolder, Agrees
<1> QED BY <1>1, <1>2, <1>3, Zenon

\* commit keeps ServiceInv, whether it succeeds, rolls back or fails at the WAL.
LEMMA CommitKeeps == ASSUME ServiceInv, NEW c \in Requests, commit_txn(c) PROVE ServiceInv'
<1>0. req[c].pc = "removed" /\ req[c].kind = "commit" /\ UNCHANGED <<registry, metric, poolHits>>
  BY Zenon DEF commit_txn
<1>1. svpast \in SvPastRecord /\ txn \in [TxIds -> {"none", "active", "committed", "aborted"}]
  BY RequestIs, Zenon
<1>2. CASE /\ txn' = [txn EXCEPT ![req[c].tx] = "committed"] /\ req' = Returns(c, "ok") /\ UNCHANGED svpast
  <2>1. /\ txn' \in [TxIds -> {"none", "active", "committed", "aborted"}] /\ txn'[req[c].tx] = "committed"
        /\ \A u \in TxIds : u # req[c].tx => txn'[u] = txn[u]
    BY <1>0, <1>2, HeldEnds, Zenon
  <2>2. req' = Returns(c, "ok") /\ svpast' = svpast
    BY <1>2
  <2> QED BY <1>0, <1>1, <2>1, <2>2, EndKeeps, ZenonT(30)
<1>3. CASE /\ txn' = [txn EXCEPT ![req[c].tx] = "aborted"] /\ req' = Returns(c, "error") /\ UNCHANGED svpast
  <2>1. /\ txn' \in [TxIds -> {"none", "active", "committed", "aborted"}] /\ txn'[req[c].tx] = "aborted"
        /\ \A u \in TxIds : u # req[c].tx => txn'[u] = txn[u]
    BY <1>0, <1>3, HeldEnds, Zenon
  <2>2. req' = Returns(c, "error") /\ svpast' = svpast
    BY <1>3
  <2> QED BY <1>0, <1>1, <2>1, <2>2, EndKeeps, ZenonT(30)
<1>4. CASE /\ UNCHANGED txn /\ req' = Returns(c, "error") /\ svpast' = [svpast EXCEPT !.abandoned = TRUE]
  <2>1. /\ svpast' \in SvPastRecord /\ svpast'.abandoned = TRUE
        /\ svpast'.dropped = svpast.dropped /\ svpast'.overlap = svpast.overlap
    BY <1>1, <1>4, Zenon DEF SvPastRecord
  <2>2. /\ txn' \in [TxIds -> {"none", "active", "committed", "aborted"}] /\ txn'[req[c].tx] = "active"
        /\ \A u \in TxIds : txn'[u] = txn[u]
    BY <1>0, <1>1, <1>4, HeldEnds, Zenon
  <2>3. req' = Returns(c, "error")
    BY <1>4, Zenon
  <2> QED BY <1>0, <2>1, <2>2, <2>3, EndKeeps, Zenon
<1> QED BY <1>2, <1>3, <1>4, Zenon DEF commit_txn

\* rollback keeps ServiceInv.
LEMMA RollbackKeeps == ASSUME ServiceInv, NEW c \in Requests, rollback_txn(c) PROVE ServiceInv'
<1>1. /\ req[c].pc = "removed" /\ req[c].kind = "rollback" /\ UNCHANGED <<registry, metric, poolHits, svpast>>
      /\ req' = Returns(c, "ok")
  BY Zenon DEF rollback_txn
<1>2. /\ txn' \in [TxIds -> {"none", "active", "committed", "aborted"}] /\ txn'[req[c].tx] = "aborted"
      /\ \A u \in TxIds : u # req[c].tx => txn'[u] = txn[u]
  BY <1>1, HeldEnds, Zenon DEF rollback_txn
<1>3. svpast \in SvPastRecord
  BY RequestIs
<1> QED BY <1>1, <1>2, <1>3, EndKeeps, Zenon

\* ServiceInv holds when the server starts: no transaction, nothing counted.
LEMMA ServiceStarts == SVInit => ServiceInv
<1> SUFFICES ASSUME SVInit PROVE ServiceInv
  BY Zenon
<1>1. PICK w \in Workloads :
          req = [c \in DOMAIN w |-> [kind |-> w[c], tx |-> NoTx, pc |-> "idle", result |-> "none", reply |-> "none",
                                     stat |-> 0, prev |-> 0]]
  BY Zenon DEF SVInit
<1>2. /\ registry = {} /\ txn = [t \in TxIds |-> "none"] /\ poolHits = 0
      /\ metric = [begun |-> 0, committed |-> 0, aborted |-> 0, queries |-> 0, failed |-> 0, hits |-> 0]
      /\ svpast = [dropped |-> FALSE, abandoned |-> FALSE, overlap |-> FALSE]
  BY Zenon DEF SVInit
<1>3. w \in Seq(Kinds) /\ MaxTx \in Nat
  BY <1>1, ServiceAssumption, Zenon DEF Kinds
<1>4. Requests = 1..Len(w) /\ DOMAIN w = 1..Len(w) /\ Len(w) \in Nat
  BY <1>1, <1>3, SMTT(30) DEF Requests
<1>5. IsFiniteSet(Requests)
  BY <1>4, FS_Interval, SMTT(30)
<1>6. \A c \in Requests : /\ req[c] \in RequestRecord /\ req[c].tx = 0 /\ req[c].pc = "idle" /\ req[c].result = "none"
                          /\ req[c].reply = "none" /\ req[c].stat = 0
  <2> SUFFICES ASSUME NEW c \in Requests
               PROVE  /\ req[c] \in RequestRecord /\ req[c].tx = 0 /\ req[c].pc = "idle" /\ req[c].result = "none"
                      /\ req[c].reply = "none" /\ req[c].stat = 0
    OBVIOUS
  <2>1. w[c] \in Kinds
    BY <1>3, <1>4, SMTT(30)
  <2>2. req[c] = [kind |-> w[c], tx |-> NoTx, pc |-> "idle", result |-> "none", reply |-> "none", stat |-> 0, prev |-> 0]
    BY <1>1, <1>4, Zenon
  <2> QED BY <1>3, <2>1, <2>2, SMTT(30) DEF RequestRecord, NoTx, Places, Results
<1>7. req \in [Requests -> RequestRecord]
  BY <1>1, <1>4, <1>6, Zenon
<1>8. ServiceTypes
  <2>1. metric \in MetricRecord /\ svpast \in SvPastRecord
    BY <1>2, Zenon DEF MetricRecord, SvPastRecord
  <2>2. \A c \in Requests : Shape(req[c], svpast)
    BY <1>6, Zenon DEF Shape
  <2> QED BY <1>2, <1>5, <1>7, <2>1, <2>2, Zenon DEF ServiceTypes
<1>9. \A c \in Requests : ~ Begun(req[c]) /\ ~ Owns(req[c])
  BY <1>6, Zenon DEF Begun, Owns
<1>10. OneHolder /\ ActiveHasOwner
  BY <1>2, <1>9, Zenon DEF OneHolder, ActiveHasOwner, Agrees, InHand
<1>11. Balanced
  <2>1. Uncounted = {} /\ Unanswered = {} /\ registry = {}
    BY <1>2, <1>6, <1>9, Zenon DEF Uncounted, Unanswered
  <2>2. metric.begun = 0 /\ metric.committed = 0 /\ metric.aborted = 0 /\ Cardinality({}) = 0
    BY <1>2, FS_EmptySet, ZenonT(30)
  <2> QED BY <2>1, <2>2, SMTT(30) DEF Balanced
<1>12. HitsBounded
  BY <1>2, <1>6, SMTT(30) DEF HitsBounded
<1> QED BY <1>8, <1>10, <1>11, <1>12, Zenon DEF ServiceInv

\* Every step of a handler, a closure or a deadline keeps ServiceInv.
LEMMA ServiceStepKeeps == ServiceInv /\ [SVNext]_svvars => ServiceInv'
<1>1. ASSUME ServiceInv, SVNext PROVE ServiceInv'
  <2>1. PICK c \in Requests :
          \/ sv_send(c) \/ begin_txn(c) \/ register(c) \/ remove(c) \/ commit_txn(c) \/ rollback_txn(c)
          \/ execute_cypher(c) \/ tx_respond(c) \/ observe_query_latency(c) \/ cache_stats(c)
          \/ record_reads(c) \/ record_advances(c) \/ deadline(c)
    BY <1>1, ZenonT(30) DEF SVNext
  <2> QED BY <1>1, <2>1, SendKeeps, BeginKeeps, RegisterKeeps, RemoveKeeps, CommitKeeps, RollbackKeeps, ExecuteKeeps,
             RespondKeeps, ObserveKeeps, CacheStatsKeeps, ReadsKeeps, AdvancesKeeps, DeadlineKeeps, ZenonT(30)
<1>2. ASSUME ServiceInv, UNCHANGED svvars PROVE ServiceInv'
  BY <1>2, SMTT(30) DEF svvars, ServiceInv, ServiceTypes, OneHolder, ActiveHasOwner, Balanced, Uncounted, Unanswered, HitsBounded, Requests
<1> QED BY <1>1, <1>2, Zenon

\* ServiceInv implies what clients, open_txns, engine and metrics agree on.
LEMMA ServiceInvSuffices == ServiceInv => ServiceTruthful
<1> SUFFICES ASSUME ServiceInv PROVE ServiceTruthful
  BY Zenon
<1>1. EndedOnce
  <2> SUFFICES ASSUME NEW c \in Requests, NEW d \in Requests, c # d, req[c].tx = req[d].tx,
                      {req[c].kind, req[d].kind} \subseteq {"commit", "rollback"},
                      {req[c].result, req[d].result} \subseteq {"ok", "error"}
               PROVE  FALSE
    BY DEF EndedOnce
  <2>1. Owns(req[c]) /\ Owns(req[d])
    BY Zenon DEF Owns
  <2> QED BY <2>1, Zenon DEF ServiceInv, OneHolder, InHand
<1>2. AnswersAreTrue
  <2> SUFFICES ASSUME NEW c \in Requests, req[c].reply = "ok"
               PROVE  /\ req[c].kind = "commit" => txn[req[c].tx] = "committed"
                      /\ req[c].kind = "rollback" => txn[req[c].tx] = "aborted"
    BY Zenon DEF AnswersAreTrue
  <2>1. req[c].result = "ok"
    BY DEF ServiceInv, ServiceTypes, Shape
  <2> QED BY <2>1, Zenon DEF ServiceInv, OneHolder, Agrees, Owns
<1>3. MetricsAccount
  <2> SUFFICES ASSUME Quiet, ~ svpast.dropped
               PROVE  metric.begun = metric.committed + metric.aborted + Cardinality(registry)
    BY Zenon DEF MetricsAccount
  <2>1. \A c \in Requests : req[c].pc \notin {"begun", "removed"} /\ (req[c].result = req[c].reply \/ req[c].result = "none")
    <3> SUFFICES ASSUME NEW c \in Requests
                 PROVE  req[c].pc \notin {"begun", "removed"} /\ (req[c].result = req[c].reply \/ req[c].result = "none")
      BY Zenon
    <3>1. Shape(req[c], svpast) /\ req[c].reply \in {"none", "ok", "error", "notfound", "deadline"}
      BY RequestIs, Zenon DEF Results
    <3>2. req[c].pc \in {"idle", "done"} \/ (req[c].pc = "returned" /\ req[c].reply # "none")
      BY DEF Quiet, Alive
    <3> QED BY <3>1, <3>2, Zenon DEF Shape
  <2>2. Uncounted = {} /\ Unanswered = {}
    BY <2>1, Zenon DEF Uncounted, Unanswered, Owns
  <2>3. /\ metric.begun \in Nat /\ metric.committed \in Nat /\ metric.aborted \in Nat /\ Cardinality(registry) \in Nat
        /\ Cardinality({}) = 0
    BY FewRequests, FS_EmptySet, Zenon DEF ServiceInv, ServiceTypes, MetricRecord
  <2> QED BY <2>2, <2>3, SMTT(30) DEF ServiceInv, Balanced
<1>4. HitsNotOvercounted
  BY DEF HitsNotOvercounted, ServiceInv, HitsBounded, ServiceTypes, SvPastRecord
<1> QED BY <1>1, <1>2, <1>3, <1>4, Zenon DEF ServiceTruthful, ServiceInv

\* Clients, open_txns, engine and metrics agree on what became of every transaction, for any number
\* of concurrent begin, commit, rollback and query requests and whichever handlers are dropped.
THEOREM ServiceStaysTruthful == SVSpec => []ServiceTruthful
<1>1. ServiceInv /\ [SVNext]_svvars => ServiceInv'
  BY ServiceStepKeeps
<1> QED BY ServiceStarts, <1>1, ServiceInvSuffices, PTL DEF SVSpec
=============================================================================
