------------------------- MODULE CacheSafetyProofs -------------------------
(***************************************************************************)
(* Type correctness of CacheManager; then that Provenance is an invariant  *)
(* of it, and what follows from that: tenant isolation, relevance of hits, *)
(* no early eviction, immutability of entries.                             *)
(*                                                                         *)
(* The proof of the second first says what one step may do to the clock,   *)
(* to a result, to a snapshot, to a point and to the wire, and then        *)
(* derives each conjunct of Provenance from those facts.                   *)
(***************************************************************************)
EXTENDS CacheInvariant, SequenceTheorems, TLAPS

-----------------------------------------------------------------------------
(* Type correctness *)

\* Writing back a counter and perhaps an expiry makes a payload of a payload,
\* and changes nothing else in it.
LEMMA UpdatedPayload ==
    ASSUME NEW old \in Payload, NEW w \in SetPayload
    PROVE  /\ Updated(old, w) \in Payload
           /\ Updated(old, w).tenant_id = old.tenant_id
           /\ Updated(old, w).query_hash = old.query_hash
           /\ Updated(old, w).vector = old.vector
           /\ Updated(old, w).response = old.response
           /\ Updated(old, w).created_at = old.created_at
           /\ Updated(old, w).lfu_count = w.lfu_count
           /\ Updated(old, w).ttl_expiry =
                  IF w.ttl_expiry = None THEN old.ttl_expiry ELSE w.ttl_expiry
BY DEF Updated, Payload, SetPayload

\* The arguments of every request are strings and a threshold below one, and
\* its text normalizes to one of the normalized texts.
LEMMA ArgsTypes ==
    ASSUME NEW r \in Request
    PROVE  /\ Tenant(r) \in String
           /\ Vector(r) \in Norm
           /\ Vector(r) \in String
           /\ Args[r].similarity_threshold \in 0 .. 999
           /\ compute_query_hash(Tenant(r), Args[r].query_text) \in String
           /\ compute_query_hash(Tenant(r), Args[r].query_text) = Tenant(r) \o Vector(r)
<1>1. /\ Args[r].tenant_id \in String
      /\ Args[r].query_text \in Text
      /\ Args[r].similarity_threshold \in 0 .. 999
      /\ normalize_text \in [Text -> String]
  BY ArgsAssumption
<1>2. /\ normalize_text[Args[r].query_text] \in Norm
      /\ normalize_text[Args[r].query_text] \in String
  BY <1>1 DEF Norm
<1>3. Tenant(r) \o Vector(r) \in String
  BY <1>1, <1>2, ConcatProperties DEF Tenant, Vector, String
<1> QED
  BY <1>1, <1>2, <1>3 DEF Tenant, Vector, compute_query_hash

\* A new entry is a payload.
LEMMA NewPayloadType ==
    ASSUME NEW r \in Request, clock \in Nat
    PROVE  NewPayload(r) \in Payload
<1>1. clock + CACHE_TTL_SECONDS \in Nat
  BY SettingsAssumption
<1> QED
  BY <1>1, ArgsTypes DEF NewPayload, Payload

\* A write a task sends is one of the three writes.
LEMMA PromotionType ==
    ASSUME clock \in Nat, NEW n \in Nat
    PROVE  Promotion(n) \in Nat \cup {None}
BY SettingsAssumption DEF Promotion

-----------------------------------------------------------------------------
LEMMA InitTypeOK == Init => TypeOK
BY DEF Init, TypeOK, Stage

LEMMA LookupTypeOK ==
    ASSUME TypeOK, NEW r \in Request, Lookup(r)
    PROVE  TypeOK'
<1> USE DEF TypeOK, Goto, Stage
<1>1. CASE ExactMatchHit(r)
  <2>1. PICK p \in ExactMatches(r) : Found(r, p, "exact")
    BY <1>1 DEF ExactMatchHit
  <2>2. p \in Request /\ points[p] \in Payload
    BY DEF ExactMatches
  <2> QED
    BY <1>1, <2>1, <2>2, SentinelAssumption DEF ExactMatchHit, Found, Snapshot, IsHit
<1>2. CASE ExactMatchNone(r)
  BY <1>2 DEF ExactMatchNone, IsHit
<1>3. CASE VectorSearchHit(r)
  <2>1. PICK p \in SemanticMatches(r) : Found(r, p, "semantic")
    BY <1>3 DEF VectorSearchHit
  <2>2. p \in Request /\ points[p] \in Payload
    BY DEF SemanticMatches
  <2> QED
    BY <1>3, <2>1, <2>2, SentinelAssumption DEF VectorSearchHit, Found, Snapshot, IsHit
<1>4. CASE VectorSearchNone(r)
  BY <1>4 DEF VectorSearchNone, ReturnNone, IsHit
<1>5. CASE EvictStale(r)
  <2>1. [type |-> "delete", by |-> r, point_id |-> payload[r].point_id] \in Delete
    BY <1>5 DEF EvictStale, Snapshot, Delete
  <2> QED
    BY <1>5, <2>1 DEF EvictStale, Send, IsHit
<1>6. CASE ReturnHit(r)
  <2>1. payload[r] \in Snapshot
    BY <1>6 DEF ReturnHit
  <2>2. [vector_id |-> payload[r].point_id,
         response_text |-> payload[r].fields.response,
         match_type |-> payload[r].match_type] \in CacheResult
    BY <2>1 DEF Snapshot, Payload, CacheResult
  <2> QED
    BY <1>6, <2>2, SentinelAssumption DEF ReturnHit, IsHit
<1>7. CASE EvictReturns(r)
  BY <1>7 DEF EvictReturns, ReturnNone, IsHit
<1> QED
  BY <1>1, <1>2, <1>3, <1>4, <1>5, <1>6, <1>7 DEF Lookup

LEMMA RecordHitTypeOK ==
    ASSUME TypeOK, NEW r \in Request, RecordHit(r)
    PROVE  TypeOK'
<1> USE DEF TypeOK, Goto, Stage
<1>1. CASE RecordHitRead(r)
  <2>1. payload[r] \in Snapshot /\ result[r] \in CacheResult
    BY <1>1 DEF RecordHitRead, IsHit
  <2>2. points[result[r].vector_id] \in Payload
    BY <1>1, <2>1 DEF RecordHitRead, CacheResult
  <2>3. [payload[r] EXCEPT !.fields = points[result[r].vector_id]] \in Snapshot
    BY <2>1, <2>2 DEF Snapshot
  <2> QED
    BY <1>1, <2>3, SentinelAssumption DEF RecordHitRead, IsHit
<1>2. CASE RecordHitNotFound(r)
  BY <1>2 DEF RecordHitNotFound, IsHit
<1>3. CASE Increment(r)
  <2>1. payload[r] \in Snapshot /\ result[r] \in CacheResult
    BY <1>3 DEF Increment, IsHit
  <2>2. payload[r].fields.lfu_count + 1 \in Nat
    BY <2>1 DEF Snapshot, Payload
  <2>3. [type |-> "set_payload", by |-> r, point_id |-> result[r].vector_id,
         lfu_count |-> payload[r].fields.lfu_count + 1,
         ttl_expiry |-> Promotion(payload[r].fields.lfu_count + 1)] \in SetPayload
    BY <2>1, <2>2, PromotionType DEF SetPayload, CacheResult
  <2> QED
    BY <1>3, <2>3 DEF Increment, Send, IsHit
<1>4. CASE UpdateReturns(r)
  BY <1>4 DEF UpdateReturns, IsHit
<1> QED
  BY <1>1, <1>2, <1>3, <1>4 DEF RecordHit

LEMMA ServerTypeOK ==
    ASSUME TypeOK, Server
    PROVE  TypeOK'
<1> USE DEF TypeOK, Consume, IsHit
<1>0. PICK w \in wire : \/ ApplyUpsert(w)
                        \/ ApplySetPayload(w)
                        \/ ApplyDelete(w)
                        \/ LoseWrite(w)
  BY DEF Server
<1>1. CASE ApplyUpsert(w)
  <2>1. w \in Upsert
    BY <1>1 DEF ApplyUpsert, Upsert, SetPayload, Delete
  <2> QED
    BY <1>1, <2>1 DEF ApplyUpsert, Upsert
<1>2. CASE ApplySetPayload(w)
  <2>1. w \in SetPayload
    BY <1>2 DEF ApplySetPayload, Upsert, SetPayload, Delete
  <2>2. ASSUME points[w.point_id] # None
        PROVE  Updated(points[w.point_id], w) \in Payload
    BY <2>1, <2>2, UpdatedPayload DEF SetPayload
  <2> QED
    BY <1>2, <2>1, <2>2 DEF ApplySetPayload, SetPayload
<1>3. CASE ApplyDelete(w)
  <2>1. w \in Delete
    BY <1>3 DEF ApplyDelete, Upsert, SetPayload, Delete
  <2> QED
    BY <1>3, <2>1 DEF ApplyDelete, Delete
<1>4. CASE LoseWrite(w)
  BY <1>4 DEF LoseWrite
<1> QED
  BY <1>0, <1>1, <1>2, <1>3, <1>4

LEMMA NextTypeOK == TypeOK /\ [Next]_vars => TypeOK'
<1> SUFFICES ASSUME TypeOK, [Next]_vars
             PROVE  TypeOK'
  OBVIOUS
<1> USE DEF TypeOK, Goto, Stage
<1>1. ASSUME NEW r \in Request, BeginLookup(r)
      PROVE  TypeOK'
  BY <1>1 DEF BeginLookup, IsHit
<1>2. ASSUME NEW r \in Request, StoreBegin(r)
      PROVE  TypeOK'
  <2>1. [type |-> "upsert", by |-> r, point_id |-> r, payload |-> NewPayload(r)] \in Upsert
    BY NewPayloadType DEF Upsert
  <2> QED
    BY <1>2, <2>1 DEF StoreBegin, Send, IsHit
<1>3. ASSUME NEW r \in Request, NoStore(r)
      PROVE  TypeOK'
  BY <1>3 DEF NoStore, IsHit
<1>4. ASSUME NEW r \in Request, StoreReturns(r)
      PROVE  TypeOK'
  BY <1>4 DEF StoreReturns, IsHit
<1>5. CASE Tick
  BY <1>5 DEF Tick, IsHit
<1>6. CASE Crash
  BY <1>6 DEF Crash, IsHit
<1>7. CASE UNCHANGED vars
  BY <1>7 DEF vars, IsHit
<1> QED
  BY <1>1, <1>2, <1>3, <1>4, <1>5, <1>6, <1>7, LookupTypeOK, RecordHitTypeOK, ServerTypeOK
     DEF Next

\* Type correctness: no interleaving of lookups, hit counts, stores, late
\* writes, evictions and crashes makes a task use a payload or a result it
\* does not have, or leaves a malformed payload at the server.
THEOREM TypeCorrect == Spec => []TypeOK
BY InitTypeOK, NextTypeOK, PTL DEF Spec

-----------------------------------------------------------------------------
(* Provenance *)

LEMMA MinLifetimeBounds ==
    /\ MinLifetime \in Nat
    /\ MinLifetime <= CACHE_TTL_SECONDS
    /\ MinLifetime <= LFU_SPIKE_TTL_EXTENSION
BY SettingsAssumption DEF MinLifetime

\* Time does not go back.
LEMMA ClockGrows ==
    ASSUME TypeOK, [Next]_vars
    PROVE  clock' \in Nat /\ clock' >= clock
<1> USE DEF TypeOK
<1>1. ASSUME NEW r \in Request, Lookup(r)
      PROVE  clock' = clock
  BY <1>1 DEF Lookup, ExactMatchHit, ExactMatchNone, VectorSearchHit, VectorSearchNone,
              EvictStale, ReturnHit, EvictReturns, Found, ReturnNone
<1>2. ASSUME NEW r \in Request, RecordHit(r)
      PROVE  clock' = clock
  BY <1>2 DEF RecordHit, RecordHitRead, RecordHitNotFound, Increment, UpdateReturns
<1>3. ASSUME Server
      PROVE  clock' = clock
  BY <1>3 DEF Server, ApplyUpsert, ApplySetPayload, ApplyDelete, LoseWrite
<1>4. ASSUME NEW r \in Request, BeginLookup(r) \/ StoreBegin(r) \/ NoStore(r) \/ StoreReturns(r)
      PROVE  clock' = clock
  BY <1>4 DEF BeginLookup, StoreBegin, NoStore, StoreReturns
<1>5. ASSUME Crash \/ UNCHANGED vars
      PROVE  clock' = clock
  BY <1>5 DEF Crash, vars
<1>6. ASSUME Tick
      PROVE  clock' = clock + 1
  BY <1>6 DEF Tick
<1> QED
  BY <1>1, <1>2, <1>3, <1>4, <1>5, <1>6 DEF Next

\* What lookup returned stays.
LEMMA ResultStable ==
    ASSUME TypeOK, Provenance, [Next]_vars, NEW r \in Request, result[r] # Pending
    PROVE  result'[r] = result[r]
<1> USE DEF TypeOK
<1>1. pc[r] \notin {"idle", "exact", "vector", "validate", "evict"}
  BY DEF Provenance, StageInv
<1>2. ASSUME NEW q \in Request, Lookup(q)
      PROVE  result'[r] = result[r]
  BY <1>1, <1>2 DEF Lookup, ExactMatchHit, ExactMatchNone, VectorSearchHit,
              VectorSearchNone, EvictStale, ReturnHit, EvictReturns, Found, ReturnNone
<1>3. ASSUME NEW q \in Request, RecordHit(q)
      PROVE  result' = result
  BY <1>3 DEF RecordHit, RecordHitRead, RecordHitNotFound, Increment, UpdateReturns
<1>4. ASSUME Server
      PROVE  result' = result
  BY <1>4 DEF Server, ApplyUpsert, ApplySetPayload, ApplyDelete, LoseWrite
<1> QED
  BY <1>2, <1>3, <1>4
     DEF Next, vars, BeginLookup, StoreBegin, NoStore, StoreReturns, Tick, Crash

\* A store that began and whose write is settled stays so.
LEMMA StoredStable ==
    ASSUME TypeOK, [Next]_vars, NEW p \in Request, Stored(p)
    PROVE  Stored(p)'
<1> USE DEF TypeOK, Stored, InFlight, Goto, Send, Consume
<1>1. ASSUME NEW q \in Request, Lookup(q)
      PROVE  Stored(p)'
  BY <1>1 DEF Lookup, ExactMatchHit, ExactMatchNone, VectorSearchHit,
              VectorSearchNone, EvictStale, ReturnHit, EvictReturns, Found, ReturnNone
<1>2. ASSUME NEW q \in Request, RecordHit(q)
      PROVE  Stored(p)'
  BY <1>2 DEF RecordHit, RecordHitRead, RecordHitNotFound, Increment, UpdateReturns
<1>3. ASSUME Server
      PROVE  Stored(p)'
  BY <1>3 DEF Server, ApplyUpsert, ApplySetPayload, ApplyDelete, LoseWrite
<1>4. ASSUME NEW q \in Request, BeginLookup(q) \/ NoStore(q) \/ StoreReturns(q)
      PROVE  Stored(p)'
  BY <1>4 DEF BeginLookup, NoStore, StoreReturns
<1>5. ASSUME NEW q \in Request, StoreBegin(q)
      PROVE  Stored(p)'
  BY <1>5 DEF StoreBegin
<1>6. CASE Tick \/ UNCHANGED vars
  BY <1>6 DEF Tick, vars
<1>7. CASE Crash
  BY <1>7 DEF Crash, Active
<1> QED
  BY <1>1, <1>2, <1>3, <1>4, <1>5, <1>6, <1>7 DEF Next

\* A task keeps the snapshot it took, but for one refresh of its fields, by
\* record_hit, from the very same point.
LEMMA SnapshotStable ==
    ASSUME TypeOK, Provenance, [Next]_vars, NEW r \in Request, payload[r] # None
    PROVE  \/ payload'[r] = payload[r]
           \/ LET p == payload[r].point_id
              IN  /\ points[p] # None
                  /\ points' = points
                  /\ payload'[r] = [payload[r] EXCEPT !.fields = points[p]]
<1> USE DEF TypeOK
<1>1. pc[r] \notin {"idle", "exact", "vector"}
  BY DEF Provenance, StageInv
<1>2. ASSUME NEW q \in Request, Lookup(q)
      PROVE  payload'[r] = payload[r]
  BY <1>1, <1>2 DEF Lookup, ExactMatchHit, ExactMatchNone, VectorSearchHit,
              VectorSearchNone, EvictStale, ReturnHit, EvictReturns, Found, ReturnNone
<1>3. ASSUME NEW q \in Request, RecordHitRead(q)
      PROVE  \/ payload'[r] = payload[r]
             \/ LET p == payload[r].point_id
                IN  /\ points[p] # None
                    /\ points' = points
                    /\ payload'[r] = [payload[r] EXCEPT !.fields = points[p]]
  <2>1. CASE q = r
    <3>1. result[r].vector_id = payload[r].point_id
      BY <1>3, <2>1 DEF Provenance, ResultInv, RecordHitRead
    <3> QED
      BY <1>3, <2>1, <3>1 DEF RecordHitRead
  <2>2. CASE q # r
    BY <1>3, <2>2 DEF RecordHitRead
  <2> QED
    BY <2>1, <2>2
<1>4. ASSUME NEW q \in Request, RecordHitNotFound(q) \/ Increment(q) \/ UpdateReturns(q)
      PROVE  payload' = payload
  BY <1>4 DEF RecordHitNotFound, Increment, UpdateReturns
<1>5. ASSUME Server
      PROVE  payload' = payload
  BY <1>5 DEF Server, ApplyUpsert, ApplySetPayload, ApplyDelete, LoseWrite
<1>6. CASE \E q \in Request : Lookup(q)
  BY <1>2, <1>6
<1>7. CASE \E q \in Request : RecordHit(q)
  BY <1>3, <1>4, <1>7 DEF RecordHit
<1>8. CASE Server
  BY <1>5, <1>8
<1>9. CASE ~(\E q \in Request : Lookup(q) \/ RecordHit(q)) /\ ~Server
  BY <1>9 DEF Next, vars, BeginLookup, StoreBegin, NoStore, StoreReturns, Tick, Crash
<1> QED
  BY <1>6, <1>7, <1>8, <1>9

-----------------------------------------------------------------------------
(* What one step may do to the server and to the wire *)

\* A point stays, goes, is created by the one upsert that can create it, or
\* has its counter and perhaps its expiry set.
LEMMA PointStep ==
    ASSUME TypeOK, Provenance, [Next]_vars, NEW p \in Request
    PROVE  \/ points'[p] = points[p]
           \/ points[p] # None /\ \E w \in wire : /\ w \in Delete
                                                /\ w.point_id = p
                                                /\ points'[p] = None
           \/ \E w \in wire : /\ w \in Upsert
                             /\ w.by = p
                             /\ points'[p] = w.payload
                             /\ ApplyUpsert(w)
           \/ points[p] # None /\ \E w \in wire : /\ w \in SetPayload
                                                /\ w.point_id = p
                                                /\ points'[p] = Updated(points[p], w)
<1> USE DEF TypeOK
<1>1. ASSUME NEW r \in Request, Lookup(r)
      PROVE  points' = points
  BY <1>1 DEF Lookup, ExactMatchHit, ExactMatchNone, VectorSearchHit, VectorSearchNone,
              EvictStale, ReturnHit, EvictReturns, Found, ReturnNone
<1>2. ASSUME NEW r \in Request, RecordHit(r)
      PROVE  points' = points
  BY <1>2 DEF RecordHit, RecordHitRead, RecordHitNotFound, Increment, UpdateReturns
<1>3. ASSUME NEW r \in Request, BeginLookup(r) \/ StoreBegin(r) \/ NoStore(r) \/ StoreReturns(r)
      PROVE  points' = points
  BY <1>3 DEF BeginLookup, StoreBegin, NoStore, StoreReturns
<1>4. ASSUME Crash \/ Tick \/ UNCHANGED vars
      PROVE  points' = points
  BY <1>4 DEF Crash, Tick, vars
<1>5. ASSUME NEW w \in wire, ApplyUpsert(w)
      PROVE  \/ points'[p] = points[p]
             \/ /\ w \in Upsert
                /\ w.by = p
                /\ points'[p] = w.payload
  <2>1. w \in Upsert
    BY <1>5 DEF ApplyUpsert, Upsert, SetPayload, Delete
  <2>2. w.point_id = w.by
    BY <1>5 DEF Provenance, WireInv, UpsertInv, ApplyUpsert
  <2> QED
    BY <1>5, <2>1, <2>2 DEF ApplyUpsert
<1>6. ASSUME NEW w \in wire, ApplySetPayload(w)
      PROVE  \/ points'[p] = points[p]
             \/ /\ points[p] # None
                /\ w \in SetPayload
                /\ w.point_id = p
                /\ points'[p] = Updated(points[p], w)
  <2>1. w \in SetPayload
    BY <1>6 DEF ApplySetPayload, Upsert, SetPayload, Delete
  <2> QED
    BY <1>6, <2>1 DEF ApplySetPayload
<1>7. ASSUME NEW w \in wire, ApplyDelete(w)
      PROVE  \/ points'[p] = points[p]
             \/ points[p] # None /\ w \in Delete /\ w.point_id = p /\ points'[p] = None
  <2>1. w \in Delete
    BY <1>7 DEF ApplyDelete, Upsert, SetPayload, Delete
  <2> QED
    BY <1>7, <2>1 DEF ApplyDelete
<1>8. ASSUME NEW w \in wire, LoseWrite(w)
      PROVE  points' = points
  BY <1>8 DEF LoseWrite
<1>9. CASE Server
  BY <1>5, <1>6, <1>7, <1>8, <1>9 DEF Server
<1> QED
  BY <1>1, <1>2, <1>3, <1>4, <1>9 DEF Next

\* A write on the wire was there before, or the task at the stage that sends
\* it just sent it.
LEMMA WireStep ==
    ASSUME TypeOK, [Next]_vars, NEW w \in wire'
    PROVE  \/ w \in wire
           \/ EvictStale(w.by) /\ w.by \in Request /\ w \in Delete
           \/ Increment(w.by) /\ w.by \in Request /\ w \in SetPayload
           \/ StoreBegin(w.by) /\ w.by \in Request /\ w \in Upsert
<1> USE DEF TypeOK
<1>1. ASSUME NEW r \in Request, Lookup(r)
      PROVE  w \in wire \/ (EvictStale(r) /\ w.by = r /\ w \in Delete)
  <2>1. ASSUME EvictStale(r)
        PROVE  w \in wire \/ (w.by = r /\ w \in Delete)
    <3>1. [type |-> "delete", by |-> r, point_id |-> payload[r].point_id] \in Delete
      BY <2>1 DEF EvictStale, Snapshot, Delete
    <3> QED
      BY <2>1, <3>1 DEF EvictStale, Send
  <2> QED
    BY <1>1, <2>1 DEF Lookup, ExactMatchHit, ExactMatchNone, VectorSearchHit,
              VectorSearchNone, ReturnHit, EvictReturns, Found, ReturnNone
<1>2. ASSUME NEW r \in Request, RecordHit(r)
      PROVE  w \in wire \/ (Increment(r) /\ w.by = r /\ w \in SetPayload)
  <2>1. ASSUME Increment(r)
        PROVE  w \in wire \/ (w.by = r /\ w \in SetPayload)
    <3>1. w \in wire \/ (w.type = "set_payload" /\ w.by = r)
      BY <2>1 DEF Increment, Send
    <3>2. w \in Upsert \cup SetPayload \cup Delete
      BY NextTypeOK
    <3> QED
      BY <3>1, <3>2 DEF Upsert, SetPayload, Delete
  <2> QED
    BY <1>2, <2>1 DEF RecordHit, RecordHitRead, RecordHitNotFound, UpdateReturns
<1>3. ASSUME NEW r \in Request, StoreBegin(r)
      PROVE  w \in wire \/ (w.by = r /\ w \in Upsert)
  <2>1. [type |-> "upsert", by |-> r, point_id |-> r, payload |-> NewPayload(r)] \in Upsert
    BY NewPayloadType DEF Upsert
  <2> QED
    BY <1>3, <2>1 DEF StoreBegin, Send
<1>4. ASSUME NEW r \in Request, BeginLookup(r) \/ NoStore(r) \/ StoreReturns(r)
      PROVE  w \in wire
  BY <1>4 DEF BeginLookup, NoStore, StoreReturns
<1>5. ASSUME Crash \/ Tick \/ UNCHANGED vars
      PROVE  w \in wire
  BY <1>5 DEF Crash, Tick, vars
<1>6. ASSUME Server
      PROVE  w \in wire
  BY <1>6 DEF Server, ApplyUpsert, ApplySetPayload, ApplyDelete, LoseWrite, Consume
<1>7. CASE \E r \in Request : Lookup(r)
  BY <1>1, <1>7
<1>8. CASE \E r \in Request : RecordHit(r)
  BY <1>2, <1>8
<1>9. CASE \E r \in Request : StoreBegin(r)
  BY <1>3, <1>9
<1> QED
  BY <1>4, <1>5, <1>6, <1>7, <1>8, <1>9 DEF Next

\* What a request may be offered: an exact match has the very same normalized
\* text, because equal hashes and equal tenants leave equal texts.
LEMMA ExactMatchIsSame ==
    ASSUME Provenance, NEW r \in Request, NEW p \in ExactMatches(r)
    PROVE  Vector(p) = Vector(r) /\ MayAnswer(p, r)
<1>1. p \in Request /\ points[p] # None
  BY DEF ExactMatches
<1>a. Faithful(p, points[p])
  BY <1>1 DEF Provenance, PointInv
<1>b. /\ points[p].tenant_id = Tenant(r)
      /\ points[p].query_hash = compute_query_hash(Tenant(r), Args[r].query_text)
  BY DEF ExactMatches
<1>c. /\ Tenant(p) = Tenant(r)
      /\ compute_query_hash(Tenant(p), Args[p].query_text)
             = compute_query_hash(Tenant(r), Args[r].query_text)
  BY <1>a, <1>b DEF Faithful
<1>2. Tenant(r) \o Vector(p) = Tenant(r) \o Vector(r)
  BY <1>c DEF compute_query_hash, Vector
<1>3. Vector(p) = Vector(r)
  <2>1. Tenant(r) \in Seq(Piece) /\ Vector(p) \in Seq(Piece) /\ Vector(r) \in Seq(Piece)
    BY <1>1, ArgsTypes DEF String
  <2>2. \A s, t, v \in Seq(Piece) : s \o t = s \o v => t = v
    BY ConcatSimplifications
  <2> QED
    BY <1>2, <2>1, <2>2
<1>4. Vector(r) \in Norm /\ Args[r].similarity_threshold \in 0 .. 999
  BY ArgsTypes
<1>5. Similarity[<<Vector(r), Vector(p)>>] = 1000
  <2>1. Similarity[<<Vector(r), Vector(r)>>] = 1000
    BY <1>4, SimilarityAssumption
  <2> QED
    BY <1>3, <2>1, Zenon
<1>6. Similarity[<<Vector(r), Vector(p)>>] >= Args[r].similarity_threshold
  <2>1. 1000 >= Args[r].similarity_threshold
    BY <1>4
  <2> QED
    BY <1>5, <2>1, Zenon
<1> QED
  BY <1>c, <1>3, <1>6 DEF MayAnswer

LEMMA SemanticMatchIsClose ==
    ASSUME Provenance, NEW r \in Request, NEW p \in SemanticMatches(r)
    PROVE  MayAnswer(p, r)
BY DEF SemanticMatches, Score, MayAnswer, Provenance, PointInv, Faithful

\* A first snapshot is taken by one of the two reads of lookup.
LEMMA SnapshotTaken ==
    ASSUME TypeOK, [Next]_vars, NEW r \in Request, payload[r] = None, payload'[r] # None
    PROVE  \/ \E p \in ExactMatches(r) : Found(r, p, "exact")
           \/ \E p \in SemanticMatches(r) : Found(r, p, "semantic")
<1> USE DEF TypeOK
<1>1. ASSUME NEW q \in Request, Lookup(q)
      PROVE  ExactMatchHit(r) \/ VectorSearchHit(r)
  BY <1>1 DEF Lookup, ExactMatchHit, ExactMatchNone, VectorSearchHit, VectorSearchNone,
              EvictStale, ReturnHit, EvictReturns, Found, ReturnNone
<1>2. ASSUME NEW q \in Request, RecordHit(q)
      PROVE  FALSE
  <2>1. CASE RecordHitRead(q)
    BY <2>1 DEF RecordHitRead
  <2> QED
    BY <1>2, <2>1 DEF RecordHit, RecordHitNotFound, Increment, UpdateReturns
<1>3. ASSUME Server
      PROVE  FALSE
  BY <1>3 DEF Server, ApplyUpsert, ApplySetPayload, ApplyDelete, LoseWrite
<1>4. ASSUME NEW q \in Request, BeginLookup(q) \/ StoreBegin(q) \/ NoStore(q) \/ StoreReturns(q)
      PROVE  FALSE
  BY <1>4 DEF BeginLookup, StoreBegin, NoStore, StoreReturns
<1>5. ASSUME Crash \/ Tick \/ UNCHANGED vars
      PROVE  FALSE
  BY <1>5 DEF Crash, Tick, vars
<1>6. ExactMatchHit(r) \/ VectorSearchHit(r)
  BY <1>1, <1>2, <1>3, <1>4, <1>5 DEF Next
<1> QED
  BY <1>6 DEF ExactMatchHit, VectorSearchHit

\* A hit is returned by ReturnHit, from a snapshot.
LEMMA HitReturned ==
    ASSUME TypeOK, [Next]_vars, NEW r \in Request, ~IsHit(r), IsHit(r)'
    PROVE  ReturnHit(r)
<1> USE DEF TypeOK, IsHit
<1>1. ASSUME NEW q \in Request, Lookup(q)
      PROVE  ReturnHit(r)
  BY <1>1 DEF Lookup, ExactMatchHit, ExactMatchNone, VectorSearchHit, VectorSearchNone,
              EvictStale, ReturnHit, EvictReturns, Found, ReturnNone
<1>2. ASSUME NEW q \in Request, RecordHit(q)
      PROVE  FALSE
  BY <1>2 DEF RecordHit, RecordHitRead, RecordHitNotFound, Increment, UpdateReturns
<1>3. ASSUME Server
      PROVE  FALSE
  BY <1>3 DEF Server, ApplyUpsert, ApplySetPayload, ApplyDelete, LoseWrite
<1>4. ASSUME NEW q \in Request, BeginLookup(q) \/ StoreBegin(q) \/ NoStore(q) \/ StoreReturns(q)
      PROVE  FALSE
  BY <1>4 DEF BeginLookup, StoreBegin, NoStore, StoreReturns
<1>5. ASSUME Crash \/ Tick \/ UNCHANGED vars
      PROVE  FALSE
  BY <1>5 DEF Crash, Tick, vars
<1> QED
  BY <1>1, <1>2, <1>3, <1>4, <1>5 DEF Next

-----------------------------------------------------------------------------
(* Provenance is inductive *)

LEMMA InitProvenance == Init => Provenance
BY DEF Init, Provenance, StageInv, PointInv, PayloadInv, ResultInv, IsHit

LEMMA StageStep ==
    ASSUME TypeOK, Provenance, [Next]_vars, NEW r \in Request
    PROVE  StageInv(r)'
<1> USE DEF TypeOK, StageInv, Goto
<1>0. StageInv(r)
  BY DEF Provenance
<1>1. ASSUME NEW q \in Request, Lookup(q)
      PROVE  StageInv(r)'
  <2>1. CASE ExactMatchHit(q) \/ VectorSearchHit(q)
    <3>1. PICK p \in Request, m \in {"exact", "semantic"} : Found(q, p, m)
      BY <2>1 DEF ExactMatchHit, VectorSearchHit, ExactMatches, SemanticMatches
    <3>2. pc[q] \in {"exact", "vector"}
      BY <2>1 DEF ExactMatchHit, VectorSearchHit
    <3>3. [point_id |-> p, match_type |-> m, fields |-> points[p]] # None
      <4>1. payload'[q] = [point_id |-> p, match_type |-> m, fields |-> points[p]]
        BY <3>1 DEF Found
      <4>2. points[p] \in Payload
        BY <2>1, <3>1, <4>1 DEF ExactMatchHit, VectorSearchHit, ExactMatches,
                                SemanticMatches, Found
      <4> QED
        BY <4>2, SentinelAssumption DEF Snapshot
    <3> QED
      BY <1>0, <3>1, <3>2, <3>3 DEF Found
  <2>2. CASE ExactMatchNone(q) \/ EvictStale(q)
    BY <1>0, <2>2 DEF ExactMatchNone, EvictStale
  <2>3. CASE VectorSearchNone(q) \/ EvictReturns(q)
    BY <1>0, <2>3 DEF VectorSearchNone, EvictReturns, ReturnNone
  <2>4. CASE ReturnHit(q)
    BY <1>0, <2>4 DEF ReturnHit
  <2> QED
    BY <1>1, <2>1, <2>2, <2>3, <2>4 DEF Lookup
<1>2. ASSUME NEW q \in Request, RecordHit(q)
      PROVE  StageInv(r)'
  BY <1>0, <1>2 DEF RecordHit, RecordHitRead, RecordHitNotFound, Increment, UpdateReturns
<1>3. ASSUME Server
      PROVE  StageInv(r)'
  BY <1>0, <1>3 DEF Server, ApplyUpsert, ApplySetPayload, ApplyDelete, LoseWrite
<1>4. ASSUME NEW q \in Request, BeginLookup(q) \/ StoreBegin(q) \/ NoStore(q) \/ StoreReturns(q)
      PROVE  StageInv(r)'
  <2>1. StageInv(q)
    BY DEF Provenance
  <2> QED
    BY <1>0, <1>4, <2>1 DEF BeginLookup, StoreBegin, NoStore, StoreReturns
<1>5. ASSUME Crash
      PROVE  StageInv(r)'
  BY <1>0, <1>5 DEF Crash
<1>6. ASSUME Tick \/ UNCHANGED vars
      PROVE  StageInv(r)'
  BY <1>0, <1>6 DEF Tick, vars
<1> QED
  BY <1>1, <1>2, <1>3, <1>4, <1>5, <1>6 DEF Next

LEMMA PointInvStep ==
    ASSUME TypeOK, Provenance, [Next]_vars, NEW p \in Request
    PROVE  PointInv(p)'
<1> SUFFICES ASSUME points'[p] # None
             PROVE  Faithful(p, points[p])' /\ Stored(p)'
  BY DEF PointInv
<1>0. TypeOK' /\ clock' >= clock /\ PointInv(p)
  BY NextTypeOK, ClockGrows DEF Provenance
<1>1. CASE points'[p] = points[p]
  <2>1. Faithful(p, points[p]) /\ Stored(p)
    BY <1>0, <1>1 DEF PointInv
  <2>2. points[p].created_at \in Nat
    BY <1>1 DEF TypeOK, Payload
  <2> QED
    BY <1>0, <1>1, <2>1, <2>2, StoredStable DEF Faithful, TypeOK
<1>2. ASSUME NEW w \in wire, w \in Upsert, w.by = p, points'[p] = w.payload,
             ApplyUpsert(w)
      PROVE  Faithful(p, points[p])' /\ Stored(p)'
  <2>1. UpsertInv(w)
    BY <1>2 DEF Provenance, WireInv, Upsert
  <2>2. w.payload.created_at \in Nat
    BY <1>2 DEF Upsert, Payload
  <2>3. Faithful(p, points[p])'
    BY <1>0, <1>2, <2>1, <2>2 DEF UpsertInv, Faithful, TypeOK
  <2>4. Stored(p)'
    BY <1>2, <2>1 DEF UpsertInv, Stored, InFlight, ApplyUpsert, Consume
  <2> QED
    BY <2>3, <2>4
<1>3. ASSUME points[p] # None, NEW w \in wire, w \in SetPayload, w.point_id = p,
             points'[p] = Updated(points[p], w)
      PROVE  Faithful(p, points[p])' /\ Stored(p)'
  <2>1. SetPayloadInv(w)
    BY <1>3 DEF Provenance, WireInv, SetPayload
  <2>2. Faithful(p, points[p]) /\ Stored(p)
    BY <1>0, <1>3 DEF PointInv
  <2>3. points[p] \in Payload
    BY <1>3 DEF TypeOK
  <2>4. points[p].created_at \in Nat
    BY <2>3 DEF Payload
  <2>5. points'[p].ttl_expiry >= points[p].created_at + MinLifetime
    BY <1>3, <2>1, <2>2, <2>3, UpdatedPayload DEF SetPayloadInv, Faithful
  <2>6. Faithful(p, points[p])'
    BY <1>0, <1>3, <2>2, <2>3, <2>4, <2>5, UpdatedPayload DEF Faithful, TypeOK
  <2> QED
    BY <2>2, <2>6, StoredStable
<1> QED
  BY <1>1, <1>2, <1>3, PointStep

\* Once the write of its store is settled, a point that is not there never
\* appears, and one that is there keeps all but its counter and its expiry.
LEMMA EntryStable ==
    ASSUME TypeOK, Provenance, [Next]_vars, NEW p \in Request, Stored(p), points'[p] # None
    PROVE  /\ points[p] # None
           /\ points'[p].tenant_id = points[p].tenant_id
           /\ points'[p].query_hash = points[p].query_hash
           /\ points'[p].vector = points[p].vector
           /\ points'[p].response = points[p].response
           /\ points'[p].created_at = points[p].created_at
<1>1. CASE points'[p] = points[p]
  BY <1>1
<1>2. ASSUME NEW w \in wire, w \in Upsert, w.by = p
      PROVE  FALSE
  BY <1>2 DEF Stored, InFlight, Upsert
<1>3. ASSUME points[p] # None, NEW w \in wire, w \in SetPayload, w.point_id = p,
             points'[p] = Updated(points[p], w)
      PROVE  /\ points'[p].tenant_id = points[p].tenant_id
             /\ points'[p].query_hash = points[p].query_hash
             /\ points'[p].vector = points[p].vector
             /\ points'[p].response = points[p].response
             /\ points'[p].created_at = points[p].created_at
  BY <1>3, UpdatedPayload DEF TypeOK
<1> QED
  BY <1>1, <1>2, <1>3, PointStep

LEMMA PayloadInvStep ==
    ASSUME TypeOK, Provenance, [Next]_vars, NEW r \in Request
    PROVE  PayloadInv(r)'
<1> SUFFICES ASSUME payload'[r] # None
             PROVE  PayloadInv(r)'
  BY DEF PayloadInv
<1>0. TypeOK' /\ clock' >= clock /\ clock \in Nat /\ clock' \in Nat
  BY NextTypeOK, ClockGrows DEF TypeOK
<1>1. CASE payload[r] # None
  <2>p. PICK p \in Request : payload[r].point_id = p
    BY <1>1 DEF TypeOK, Snapshot
  <2>1. payload[r] \in Snapshot /\ payload'[r] \in Snapshot
    BY <1>0, <1>1 DEF TypeOK
  <2>2. /\ Faithful(p, payload[r].fields)
        /\ Stored(p)
        /\ MayAnswer(p, r)
        /\ payload[r].match_type = "exact" => Vector(p) = Vector(r)
        /\ points[p] # None => points[p].created_at = payload[r].fields.created_at
    BY <1>1, <2>p DEF Provenance, PayloadInv
  <2>3. Stored(p)'
    BY <2>2, StoredStable
  <2>4. /\ payload'[r].point_id = p
        /\ payload'[r].match_type = payload[r].match_type
        /\ \/ payload'[r].fields = payload[r].fields
           \/ points[p] # None /\ payload'[r].fields = points[p]
    BY <1>1, <2>p, <2>1, SnapshotStable DEF Snapshot
  <2>5. /\ Faithful(p, payload'[r].fields)
        /\ payload'[r].fields.created_at = payload[r].fields.created_at
    BY <2>2, <2>4 DEF Provenance, PointInv
  <2>6. payload'[r].fields.created_at \in Nat
    BY <2>1 DEF Snapshot, Payload
  <2>7. Faithful(p, payload[r].fields)'
    BY <1>0, <2>5, <2>6 DEF Faithful
  <2>8. points'[p] # None => points'[p].created_at = payload'[r].fields.created_at
    BY <2>2, <2>5, EntryStable
  <2> QED
    BY <2>2, <2>3, <2>4, <2>7, <2>8 DEF PayloadInv
<1>2. CASE payload[r] = None
  <2>1. PICK p \in Request, m \in {"exact", "semantic"} :
            /\ Found(r, p, m)
            /\ points[p] # None
            /\ MayAnswer(p, r)
            /\ m = "exact" => Vector(p) = Vector(r)
    <3>1. CASE \E p \in ExactMatches(r) : Found(r, p, "exact")
      BY <3>1, ExactMatchIsSame DEF ExactMatches
    <3>2. CASE \E p \in SemanticMatches(r) : Found(r, p, "semantic")
      BY <3>2, SemanticMatchIsClose DEF SemanticMatches
    <3> QED
      BY <1>2, <3>1, <3>2, SnapshotTaken
  <2>2. /\ payload'[r].point_id = p
        /\ payload'[r].match_type = m
        /\ payload'[r].fields = points[p]
        /\ points' = points
        /\ clock' = clock
    BY <2>1 DEF Found, TypeOK
  <2>3. Faithful(p, points[p]) /\ Stored(p)
    BY <2>1 DEF Provenance, PointInv
  <2>4. Stored(p)'
    BY <2>3, StoredStable
  <2>5. Faithful(p, payload[r].fields)'
    BY <2>2, <2>3 DEF Faithful
  <2> QED
    BY <2>1, <2>2, <2>4, <2>5 DEF PayloadInv
<1> QED
  BY <1>1, <1>2

LEMMA ResultInvStep ==
    ASSUME TypeOK, Provenance, [Next]_vars, NEW r \in Request
    PROVE  ResultInv(r)'
<1> SUFFICES ASSUME IsHit(r)'
             PROVE  ResultInv(r)'
  BY DEF ResultInv
<1>0. TypeOK'
  BY NextTypeOK
<1>1. CASE IsHit(r)
  <2>1. result'[r] = result[r]
    BY <1>1, ResultStable DEF IsHit
  <2>2. /\ payload[r] # None
        /\ result[r].vector_id = payload[r].point_id
        /\ result[r].response_text = result[r].vector_id
        /\ result[r].match_type = payload[r].match_type
    BY <1>1 DEF Provenance, ResultInv
  <2>3. payload[r] \in Snapshot
    BY <2>2 DEF TypeOK
  <2>4. /\ payload'[r] \in Snapshot
        /\ payload'[r].point_id = payload[r].point_id
        /\ payload'[r].match_type = payload[r].match_type
    <3>1. points[payload[r].point_id] # None => points[payload[r].point_id] \in Payload
      BY <2>3 DEF TypeOK, Snapshot
    <3> QED
      BY <2>2, <2>3, <3>1, SnapshotStable DEF Snapshot
  <2>5. payload'[r] # None
    BY <2>4, SentinelAssumption
  <2> QED
    BY <2>1, <2>2, <2>4, <2>5 DEF ResultInv
<1>2. CASE ~IsHit(r)
  <2>1. ReturnHit(r)
    BY <1>2, HitReturned
  <2>2. payload[r] # None /\ payload' = payload
    BY <2>1 DEF ReturnHit, TypeOK
  <2>3. payload[r].fields.response = payload[r].point_id
    BY <2>2 DEF Provenance, PayloadInv, Faithful
  <2>4. /\ result'[r].vector_id = payload[r].point_id
        /\ result'[r].response_text = payload[r].fields.response
        /\ result'[r].match_type = payload[r].match_type
    BY <2>1 DEF ReturnHit, TypeOK
  <2> QED
    BY <2>2, <2>3, <2>4 DEF ResultInv
<1> QED
  BY <1>1, <1>2

\* A task that began its store never looks up or sends an upsert again.
LEMMA StoreBegunStable ==
    ASSUME TypeOK, [Next]_vars, NEW r \in Request, pc[r] \in {"store", "done", "crashed"}
    PROVE  pc'[r] \in {"store", "done", "crashed"}
<1> USE DEF TypeOK, Goto
<1>1. ASSUME NEW q \in Request, Lookup(q)
      PROVE  pc'[r] = pc[r]
  BY <1>1 DEF Lookup, ExactMatchHit, ExactMatchNone, VectorSearchHit,
              VectorSearchNone, EvictStale, ReturnHit, EvictReturns, Found, ReturnNone
<1>2. ASSUME NEW q \in Request, RecordHit(q)
      PROVE  pc'[r] = pc[r]
  BY <1>2 DEF RecordHit, RecordHitRead, RecordHitNotFound, Increment, UpdateReturns
<1>3. ASSUME Server
      PROVE  pc' = pc
  BY <1>3 DEF Server, ApplyUpsert, ApplySetPayload, ApplyDelete, LoseWrite
<1>4. ASSUME NEW q \in Request, BeginLookup(q) \/ StoreBegin(q) \/ NoStore(q) \/ StoreReturns(q)
      PROVE  pc'[r] \in {"store", "done", "crashed"}
  BY <1>4 DEF BeginLookup, StoreBegin, NoStore, StoreReturns
<1>5. ASSUME Crash
      PROVE  pc'[r] \in {"store", "done", "crashed"}
  BY <1>5 DEF Crash
<1>6. ASSUME Tick \/ UNCHANGED vars
      PROVE  pc' = pc
  BY <1>6 DEF Tick, vars
<1> QED
  BY <1>1, <1>2, <1>3, <1>4, <1>5, <1>6 DEF Next

LEMMA UpsertInvStep ==
    ASSUME TypeOK, Provenance, [Next]_vars, NEW w \in wire', w.type = "upsert"
    PROVE  UpsertInv(w)'
<1>0. TypeOK' /\ clock' >= clock /\ clock \in Nat /\ clock' \in Nat
  BY NextTypeOK, ClockGrows DEF TypeOK
<1>1. w \in Upsert
  BY <1>0 DEF TypeOK, Upsert, SetPayload, Delete
<1>2. CASE w \in wire
  <2>1. UpsertInv(w)
    BY <1>2 DEF Provenance, WireInv
  <2>2. w.by \in Request /\ w.payload.created_at \in Nat
    BY <1>1 DEF Upsert, Payload
  <2>3. Faithful(w.by, w.payload)'
    BY <1>0, <2>1, <2>2 DEF UpsertInv, Faithful
  <2>4. pc'[w.by] \in {"store", "done", "crashed"}
    BY <2>1, <2>2, StoreBegunStable DEF UpsertInv
  <2>5. result'[w.by] = None
    BY <2>1, <2>2, ResultStable, SentinelAssumption DEF UpsertInv
  <2>6. ASSUME NEW v \in wire', v.type = "upsert", v.by = w.by
        PROVE  v = w
    <3>1. v \in wire
      BY <2>1, <2>6, WireStep DEF UpsertInv, StoreBegin, Delete, SetPayload
    <3> QED
      BY <2>1, <2>6, <3>1 DEF UpsertInv
  <2> QED
    BY <2>1, <2>3, <2>4, <2>5, <2>6 DEF UpsertInv
<1>3. CASE w \notin wire
  <2>r. PICK r \in Request : r = w.by
    BY <1>1 DEF Upsert
  <2>1. StoreBegin(r)
    BY <1>1, <1>3, <2>r, WireStep DEF Upsert, SetPayload, Delete
  <2>2. w = [type |-> "upsert", by |-> r, point_id |-> r, payload |-> NewPayload(r)]
    BY <1>3, <2>1 DEF StoreBegin, Send
  <2>3. /\ w.point_id = r
        /\ w.payload = NewPayload(r)
        /\ clock' = clock
        /\ pc'[r] = "store"
        /\ result'[r] = result[r]
    BY <2>1, <2>2 DEF StoreBegin, Goto, TypeOK
  <2>4. Faithful(r, NewPayload(r))
    <3>1. clock + CACHE_TTL_SECONDS >= clock + MinLifetime
      BY <1>0, MinLifetimeBounds, SettingsAssumption
    <3>2. clock <= clock
      BY <1>0
    <3> QED
      BY <3>1, <3>2 DEF Faithful, NewPayload
  <2>5. Faithful(r, w.payload)'
    <3>1. w.payload.created_at = clock
      BY <2>3 DEF NewPayload
    <3> QED
      BY <1>0, <2>3, <2>4, <3>1 DEF Faithful
  <2>6. result[r] = None
    BY <2>1 DEF StoreBegin, Provenance, StageInv
  <2>7. ASSUME NEW v \in wire', v.type = "upsert", v.by = r
        PROVE  v = w
    <3>1. CASE v \in wire
      <4>1. pc[r] \in {"store", "done", "crashed"}
        BY <2>7, <3>1 DEF Provenance, WireInv, UpsertInv
      <4> QED
        BY <2>1, <4>1 DEF StoreBegin
    <3>2. CASE v \notin wire
      BY <2>1, <2>2, <3>2 DEF StoreBegin, Send
    <3> QED
      BY <3>1, <3>2
  <2> QED
    BY <2>r, <2>3, <2>5, <2>6, <2>7 DEF UpsertInv
<1> QED
  BY <1>2, <1>3

LEMMA SetPayloadInvStep ==
    ASSUME TypeOK, Provenance, [Next]_vars, NEW w \in wire', w.type = "set_payload"
    PROVE  SetPayloadInv(w)'
<1>0. TypeOK' /\ clock \in Nat
  BY NextTypeOK DEF TypeOK
<1>1. w \in SetPayload /\ w.by \in Request /\ w.point_id \in Request
  BY <1>0 DEF TypeOK, Upsert, SetPayload, Delete
<1>2. CASE w \in wire
  <2>1. SetPayloadInv(w)
    BY <1>2 DEF Provenance, WireInv
  <2>2. result'[w.by] = result[w.by]
    BY <1>1, <2>1, ResultStable DEF SetPayloadInv, IsHit
  <2>3. Stored(w.point_id)
    BY <1>1, <2>1 DEF SetPayloadInv, Provenance, ResultInv, PayloadInv
  <2>4. points'[w.point_id] # None =>
            /\ points[w.point_id] # None
            /\ points'[w.point_id].created_at = points[w.point_id].created_at
    BY <1>1, <2>3, EntryStable
  <2> QED
    BY <2>1, <2>2, <2>4 DEF SetPayloadInv, IsHit
<1>3. CASE w \notin wire
  <2>r. PICK r \in Request : r = w.by
    BY <1>1
  <2>1. Increment(r)
    BY <1>1, <1>3, <2>r, WireStep DEF Upsert, SetPayload, Delete
  <2>2. /\ w.point_id = result[r].vector_id
        /\ w.ttl_expiry = Promotion(payload[r].fields.lfu_count + 1)
    BY <1>3, <2>1 DEF Increment, Send
  <2>3. result' = result /\ points' = points /\ IsHit(r)
    BY <2>1 DEF Increment, TypeOK
  <2>4. ASSUME w.ttl_expiry # None, points[w.point_id] # None
        PROVE  w.ttl_expiry >= points[w.point_id].created_at + MinLifetime
    <3>1. w.ttl_expiry = clock + LFU_SPIKE_TTL_EXTENSION
      BY <2>2, <2>4 DEF Promotion
    <3>2. points[w.point_id].created_at <= clock
      BY <1>1, <2>4 DEF Provenance, PointInv, Faithful
    <3>3. points[w.point_id].created_at \in Nat
      BY <1>1, <2>4 DEF TypeOK, Payload
    <3> QED
      BY <1>0, <3>1, <3>2, <3>3, MinLifetimeBounds, SettingsAssumption
  <2> QED
    BY <2>r, <2>2, <2>3, <2>4 DEF SetPayloadInv, IsHit
<1> QED
  BY <1>2, <1>3

\* The task that evicts reads no payload again, and never serves a hit.
LEMMA EvictingStable ==
    ASSUME TypeOK, Provenance, [Next]_vars, NEW r \in Request, payload[r] # None,
           pc[r] \in {"evict", "miss", "store", "done", "crashed"}, ~IsHit(r)
    PROVE  /\ payload'[r] = payload[r]
           /\ pc'[r] \in {"evict", "miss", "store", "done", "crashed"}
           /\ ~IsHit(r)'
<1> USE DEF TypeOK, Goto
<1>1. ~IsHit(r)'
  BY HitReturned DEF ReturnHit
<1>2. ASSUME NEW q \in Request, Lookup(q)
      PROVE  /\ payload'[r] = payload[r]
             /\ pc'[r] \in {"evict", "miss", "store", "done", "crashed"}
  BY <1>2 DEF Lookup, ExactMatchHit, ExactMatchNone, VectorSearchHit,
              VectorSearchNone, EvictStale, ReturnHit, EvictReturns, Found, ReturnNone
<1>3. ASSUME NEW q \in Request, RecordHit(q)
      PROVE  payload'[r] = payload[r] /\ pc'[r] = pc[r]
  BY <1>3 DEF RecordHit, RecordHitRead, RecordHitNotFound, Increment, UpdateReturns
<1>4. ASSUME Server
      PROVE  payload' = payload /\ pc' = pc
  BY <1>4 DEF Server, ApplyUpsert, ApplySetPayload, ApplyDelete, LoseWrite
<1>5. ASSUME NEW q \in Request, BeginLookup(q) \/ StoreBegin(q) \/ NoStore(q) \/ StoreReturns(q)
      PROVE  /\ payload' = payload
             /\ pc'[r] \in {"evict", "miss", "store", "done", "crashed"}
  BY <1>5 DEF BeginLookup, StoreBegin, NoStore, StoreReturns
<1>6. ASSUME Crash
      PROVE  payload' = payload /\ pc'[r] \in {"evict", "miss", "store", "done", "crashed"}
  BY <1>6 DEF Crash
<1>7. ASSUME Tick \/ UNCHANGED vars
      PROVE  payload' = payload /\ pc' = pc
  BY <1>7 DEF Tick, vars
<1> QED
  BY <1>1, <1>2, <1>3, <1>4, <1>5, <1>6, <1>7 DEF Next

LEMMA DeleteInvStep ==
    ASSUME TypeOK, Provenance, [Next]_vars, NEW w \in wire', w.type = "delete"
    PROVE  DeleteInv(w)'
<1>0. TypeOK' /\ clock' >= clock /\ clock \in Nat /\ clock' \in Nat
  BY NextTypeOK, ClockGrows DEF TypeOK
<1>1. w \in Delete /\ w.by \in Request
  BY <1>0 DEF TypeOK, Upsert, SetPayload, Delete
<1>2. CASE w \in wire
  <2>1. DeleteInv(w)
    BY <1>2 DEF Provenance, WireInv
  <2>2. /\ payload'[w.by] = payload[w.by]
        /\ pc'[w.by] \in {"evict", "miss", "store", "done", "crashed"}
        /\ ~IsHit(w.by)'
    BY <1>1, <2>1, EvictingStable DEF DeleteInv
  <2>3. payload[w.by].fields.ttl_expiry \in Nat
    BY <1>1, <2>1 DEF DeleteInv, TypeOK, Snapshot, Payload
  <2>4. clock' > payload[w.by].fields.ttl_expiry
    BY <1>0, <2>1, <2>3 DEF DeleteInv
  <2> QED
    BY <2>1, <2>2, <2>4 DEF DeleteInv
<1>3. CASE w \notin wire
  <2>r. PICK r \in Request : r = w.by
    BY <1>1
  <2>1. EvictStale(r)
    BY <1>1, <1>3, <2>r, WireStep DEF Upsert, SetPayload, Delete
  <2>2. w.point_id = payload[r].point_id
    BY <1>3, <2>1 DEF EvictStale, Send
  <2>3. /\ payload[r] # None
        /\ payload' = payload
        /\ clock' > payload[r].fields.ttl_expiry
        /\ pc'[r] = "evict"
    BY <2>1 DEF EvictStale, Goto, TypeOK
  <2>4. ~IsHit(r)'
    BY <2>1 DEF EvictStale, Provenance, StageInv, IsHit
  <2> QED
    BY <2>r, <2>2, <2>3, <2>4 DEF DeleteInv
<1> QED
  BY <1>2, <1>3

LEMMA NextProvenance == TypeOK /\ Provenance /\ [Next]_vars => Provenance'
<1> SUFFICES ASSUME TypeOK, Provenance, [Next]_vars
             PROVE  Provenance'
  OBVIOUS
<1>1. \A r \in Request : StageInv(r)' /\ PointInv(r)' /\ PayloadInv(r)' /\ ResultInv(r)'
  BY StageStep, PointInvStep, PayloadInvStep, ResultInvStep
<1>2. \A w \in wire' : WireInv(w)'
  BY UpsertInvStep, SetPayloadInvStep, DeleteInvStep DEF WireInv
<1> QED
  BY <1>1, <1>2 DEF Provenance

\* Whatever the interleaving, every payload, be it at the server, held by a
\* task or on the wire, is what its author stored, no younger than its TTL
\* tells, and belongs where it is used.
THEOREM ProvenanceInvariant == Spec => [](TypeOK /\ Provenance)
<1>1. Init => TypeOK /\ Provenance
  BY InitTypeOK, InitProvenance
<1>2. TypeOK /\ Provenance /\ [Next]_vars => (TypeOK /\ Provenance)'
  BY NextTypeOK, NextProvenance
<1> QED
  BY <1>1, <1>2, PTL DEF Spec

-----------------------------------------------------------------------------
(* What Provenance gives *)

LEMMA HitMayAnswer ==
    ASSUME TypeOK, Provenance, NEW r \in Request, IsHit(r)
    PROVE  /\ MayAnswer(result[r].response_text, r)
           /\ result[r].match_type = "exact" =>
                  Vector(result[r].response_text) = Vector(r)
           /\ result[r].vector_id = result[r].response_text
BY DEF Provenance, ResultInv, PayloadInv

LEMMA ProvenanceIsolates == TypeOK /\ Provenance => TenantIsolation
<1> SUFFICES ASSUME TypeOK, Provenance
             PROVE  TenantIsolation
  OBVIOUS
<1>1. ASSUME NEW r \in Request, IsHit(r)
      PROVE  Tenant(result[r].response_text) = Tenant(r)
  BY <1>1, HitMayAnswer DEF MayAnswer
<1>2. ASSUME NEW w \in wire
      PROVE  Tenant(w.point_id) = Tenant(w.by)
  <2>1. CASE w \in Upsert
    BY <2>1 DEF Provenance, WireInv, UpsertInv, Upsert
  <2>2. CASE w \in SetPayload
    <3>1. w.by \in Request /\ SetPayloadInv(w)
      BY <2>2 DEF Provenance, WireInv, SetPayload
    <3> QED
      BY <3>1, <1>1, HitMayAnswer DEF SetPayloadInv
  <2>3. CASE w \in Delete
    <3>1. w.by \in Request /\ DeleteInv(w)
      BY <2>3 DEF Provenance, WireInv, Delete
    <3> QED
      BY <3>1 DEF DeleteInv, Provenance, PayloadInv, MayAnswer
  <2> QED
    BY <2>1, <2>2, <2>3 DEF TypeOK
<1> QED
  BY <1>1, <1>2 DEF TenantIsolation

\* For any tenants, texts and settings, no interleaving answers a request
\* with another tenant's response or touches another tenant's point for it.
THEOREM TenantsAreIsolated == Spec => []TenantIsolation
BY ProvenanceInvariant, ProvenanceIsolates, PTL

\* Every hit is as close to the request's question as its threshold asks, and
\* an exact hit is the same normalized question: equal tenants and equal
\* hashes leave no room for a collision.
THEOREM HitsAreRelevant == Spec => []HitIsRelevant
<1>1. TypeOK /\ Provenance => HitIsRelevant
  BY HitMayAnswer DEF HitIsRelevant, MayAnswer
<1> QED
  BY <1>1, ProvenanceInvariant, PTL

\* Only a delete removes a point, and it was decided on a snapshot of that very
\* point, which had expired.
LEMMA EvictionStep ==
    ASSUME TypeOK, Provenance, [Next]_vars,
           NEW p \in Request, points[p] # None, points'[p] = None
    PROVE  \E r \in Request :
               /\ payload[r] # None
               /\ payload[r].point_id = p
               /\ payload[r].fields.created_at = points[p].created_at
               /\ clock > payload[r].fields.ttl_expiry
<1>0. TypeOK'
  BY NextTypeOK
<1>1. ASSUME NEW w \in wire, w \in Upsert, points'[p] = w.payload
      PROVE  FALSE
  BY <1>1, SentinelAssumption DEF Upsert
<1>2. ASSUME NEW w \in wire, w \in SetPayload, points'[p] = Updated(points[p], w)
      PROVE  FALSE
  BY <1>2, UpdatedPayload, SentinelAssumption DEF TypeOK
<1>3. PICK w \in wire : w \in Delete /\ w.point_id = p
  BY <1>1, <1>2, PointStep
<1>4. DeleteInv(w) /\ w.by \in Request
  BY <1>3 DEF Provenance, WireInv, Delete
<1>5. points[p].created_at = payload[w.by].fields.created_at
  BY <1>3, <1>4 DEF DeleteInv, Provenance, PayloadInv
<1> QED
  BY <1>3, <1>4, <1>5 DEF DeleteInv

\* No point goes before it had its shortest life: no snapshot of it expires
\* sooner.
THEOREM EvictionIsNotEarly == Spec => NoEarlyEviction
<1>1. TypeOK /\ Provenance /\ [Next]_vars =>
          [\A p \in Request :
               points[p] # None /\ points'[p] = None =>
                   clock > points[p].created_at + MinLifetime]_vars
  <2> SUFFICES ASSUME TypeOK, Provenance, [Next]_vars,
                      NEW p \in Request, points[p] # None, points'[p] = None
               PROVE  clock > points[p].created_at + MinLifetime
    OBVIOUS
  <2>1. PICK r \in Request :
            /\ payload[r] # None
            /\ payload[r].fields.created_at = points[p].created_at
            /\ clock > payload[r].fields.ttl_expiry
    BY EvictionStep
  <2>2. payload[r].fields.ttl_expiry >= payload[r].fields.created_at + MinLifetime
    BY <2>1 DEF Provenance, PayloadInv, Faithful
  <2>3. /\ payload[r].fields.ttl_expiry \in Nat
        /\ payload[r].fields.created_at \in Nat
        /\ clock \in Nat
    BY <2>1 DEF TypeOK, Snapshot, Payload
  <2> QED
    BY <2>1, <2>2, <2>3, MinLifetimeBounds
<1> QED
  BY <1>1, ProvenanceInvariant, PTL DEF Spec, NoEarlyEviction

\* What an author stored stays as it is until it goes.
THEOREM EntriesAreImmutable == Spec => EntryIsImmutable
<1>1. TypeOK /\ Provenance /\ [Next]_vars =>
          [\A p \in Request :
               points[p] # None /\ points'[p] # None =>
                   \A f \in DOMAIN points[p] \ {"lfu_count", "ttl_expiry"} :
                       points'[p][f] = points[p][f]]_vars
  <2> SUFFICES ASSUME TypeOK, Provenance, [Next]_vars,
                      NEW p \in Request, points[p] # None, points'[p] # None,
                      NEW f \in DOMAIN points[p] \ {"lfu_count", "ttl_expiry"}
               PROVE  points'[p][f] = points[p][f]
    OBVIOUS
  <2>1. points[p] \in Payload /\ Stored(p)
    BY DEF TypeOK, Provenance, PointInv
  <2>2. f \in {"tenant_id", "query_hash", "vector", "response", "created_at"}
    BY <2>1 DEF Payload
  <2> QED
    BY <2>1, <2>2, EntryStable
<1> QED
  BY <1>1, ProvenanceInvariant, PTL DEF Spec, EntryIsImmutable
=============================================================================
