------------------------ MODULE CacheCountingProofs ------------------------
(***************************************************************************)
(* Counting is an invariant of CacheManager: record_hit's unlocked read,   *)
(* increment and write may lose counts and never invents one, so only an   *)
(* entry with enough hits outlives its base TTL.                           *)
(***************************************************************************)
EXTENDS CacheSafetyProofs, FiniteSetTheorems

LEMMA SettledFinite ==
    ASSUME NEW p \in Request
    PROVE  IsFiniteSet(SettledHits(p)) /\ IsFiniteSet(HitsOn(p))
BY RequestAssumption, FS_Subset DEF SettledHits, HitsOn

\* A settled hit stays settled, so the bound the counters are held to grows.
LEMMA SettledGrows ==
    ASSUME TypeOK, Provenance, [Next]_vars, NEW p \in Request
    PROVE  SettledHits(p) \subseteq SettledHits(p)'
<1> SUFFICES ASSUME NEW r \in SettledHits(p)
             PROVE  r \in SettledHits(p)'
  OBVIOUS
<1> USE DEF TypeOK, Goto
<1>0. /\ r \in Request
      /\ IsHit(r)
      /\ result[r].vector_id = p
      /\ pc[r] \notin {"hit", "increment"}
  BY DEF SettledHits, HitsOn
<1>1. pc[r] \in {"update", "done", "crashed"}
  <2>1. StageInv(r)
    BY <1>0 DEF Provenance
  <2> QED
    BY <1>0, <2>1 DEF StageInv, IsHit, Stage
<1>2. result'[r] = result[r]
  BY <1>0, ResultStable DEF IsHit
<1>3. pc'[r] \notin {"hit", "increment"}
  <2>1. ASSUME NEW q \in Request, Lookup(q)
        PROVE  pc'[r] = pc[r]
    BY <1>0, <1>1, <2>1 DEF Lookup, ExactMatchHit, ExactMatchNone, VectorSearchHit,
                VectorSearchNone, EvictStale, ReturnHit, EvictReturns, Found, ReturnNone
  <2>2. ASSUME NEW q \in Request, RecordHit(q)
        PROVE  pc'[r] \in {"update", "done", "crashed"}
    BY <1>0, <1>1, <2>2 DEF RecordHit, RecordHitRead, RecordHitNotFound, Increment, UpdateReturns
  <2>3. ASSUME Server
        PROVE  pc' = pc
    BY <2>3 DEF Server, ApplyUpsert, ApplySetPayload, ApplyDelete, LoseWrite
  <2>4. ASSUME NEW q \in Request, BeginLookup(q) \/ StoreBegin(q) \/ NoStore(q) \/ StoreReturns(q)
        PROVE  pc'[r] = pc[r]
    BY <1>0, <1>1, <2>4 DEF BeginLookup, StoreBegin, NoStore, StoreReturns
  <2>5. ASSUME Crash
        PROVE  pc'[r] \in {"update", "done", "crashed"}
    BY <1>0, <1>1, <2>5 DEF Crash
  <2>6. ASSUME Tick \/ UNCHANGED vars
        PROVE  pc' = pc
    BY <2>6 DEF Tick, vars
  <2> QED
    BY <1>1, <2>1, <2>2, <2>3, <2>4, <2>5, <2>6 DEF Next
<1> QED
  BY <1>0, <1>2, <1>3 DEF SettledHits, HitsOn, IsHit

LEMMA BoundGrows ==
    ASSUME TypeOK, Provenance, [Next]_vars, NEW p \in Request
    PROVE  /\ Cardinality(SettledHits(p)) \in Nat
           /\ Cardinality(SettledHits(p))' \in Nat
           /\ Cardinality(SettledHits(p)) <= Cardinality(SettledHits(p))'
<1>1. IsFiniteSet(SettledHits(p))'
  BY RequestAssumption, FS_Subset DEF SettledHits, HitsOn
<1> QED
  BY <1>1, SettledFinite, SettledGrows, FS_Subset, FS_CardinalityType

\* The task that increments settles its own hit.
LEMMA IncrementSettles ==
    ASSUME TypeOK, Provenance, [Next]_vars,
           NEW r \in Request, Increment(r), NEW p \in Request, result[r].vector_id = p
    PROVE  Cardinality(SettledHits(p)) + 1 <= Cardinality(SettledHits(p))'
<1>1. r \notin SettledHits(p)
  BY DEF Increment, SettledHits
<1>2. r \in SettledHits(p)'
  BY DEF Increment, SettledHits, HitsOn, Goto, TypeOK, IsHit
<1>3. SettledHits(p) \cup {r} \subseteq SettledHits(p)'
  BY <1>2, SettledGrows
<1>4. IsFiniteSet(SettledHits(p)')
  BY RequestAssumption, FS_Subset DEF SettledHits, HitsOn
<1>5. Cardinality(SettledHits(p) \cup {r}) = Cardinality(SettledHits(p)) + 1
  BY <1>1, SettledFinite, FS_AddElement
<1>6. Cardinality(SettledHits(p) \cup {r}) <= Cardinality(SettledHits(p)')
  BY <1>3, <1>4, FS_Subset
<1> QED
  BY <1>5, <1>6

-----------------------------------------------------------------------------
(* Counting is inductive *)

LEMMA InitCounting == Init => Counting
BY DEF Init, Counting

LEMMA PointCountingStep ==
    ASSUME TypeOK, Provenance, Counting, [Next]_vars, NEW p \in Request, points'[p] # None
    PROVE  Counted(p, points[p])'
<1> DEFINE old == Cardinality(SettledHits(p))
           new == Cardinality(SettledHits(p)')
<1>0. old \in Nat /\ new \in Nat /\ old <= new
  BY BoundGrows
<1>1. ASSUME points[p] # None
      PROVE  points[p] \in Payload /\ Counted(p, points[p])
  BY <1>1 DEF TypeOK, Counting, Counted
<1>2. CASE points'[p] = points[p]
  <2>1. points[p].lfu_count \in Nat
    BY <1>1, <1>2 DEF Payload
  <2> QED
    BY <1>0, <1>1, <1>2, <2>1, SettingsAssumption DEF Counted
<1>3. ASSUME NEW w \in wire, w \in Upsert, points'[p] = w.payload
      PROVE  Counted(p, points[p])'
  <2>1. /\ w.payload.lfu_count = 1
        /\ w.payload.ttl_expiry = w.payload.created_at + CACHE_TTL_SECONDS
    BY <1>3 DEF Counting, Upsert
  <2> QED
    BY <1>0, <1>3, <2>1, SettingsAssumption DEF Counted
<1>4. ASSUME points[p] # None, NEW w \in wire, w \in SetPayload, w.point_id = p,
             points'[p] = Updated(points[p], w)
      PROVE  Counted(p, points[p])'
  <2>1. /\ w.lfu_count <= 1 + old
        /\ w.ttl_expiry # None => old >= LFU_SPIKE_THRESHOLD
    BY <1>4 DEF Counting, SetPayload
  <2>2. /\ points'[p].lfu_count = w.lfu_count
        /\ points'[p].created_at = points[p].created_at
        /\ w.ttl_expiry = None => points'[p].ttl_expiry = points[p].ttl_expiry
    BY <1>1, <1>4, UpdatedPayload
  <2>3. w.lfu_count \in Nat
    BY <1>4 DEF SetPayload
  <2> QED
    BY <1>0, <1>1, <1>4, <2>1, <2>2, <2>3, SettingsAssumption DEF Counted
<1> QED
  BY <1>2, <1>3, <1>4, PointStep

\* A task's snapshot is the one it had, or what the server holds.
LEMMA SnapshotSource ==
    ASSUME TypeOK, Provenance, [Next]_vars, NEW r \in Request, payload'[r] # None,
           NEW p \in Request, p = payload'[r].point_id
    PROVE  \/ points[p] # None /\ payload'[r].fields = points[p]
           \/ payload[r] # None /\ payload[r].point_id = p /\ payload'[r].fields = payload[r].fields
<1>1. CASE payload[r] # None
  <2>1. payload[r] \in Snapshot
    BY <1>1 DEF TypeOK
  <2>q. PICK q \in Request : q = payload[r].point_id
    BY <2>1 DEF Snapshot
  <2>2. /\ payload'[r].point_id = q
        /\ \/ payload'[r].fields = payload[r].fields
           \/ points[q] # None /\ payload'[r].fields = points[q]
    BY <1>1, <2>1, <2>q, SnapshotStable DEF Snapshot
  <2> QED
    BY <1>1, <2>q, <2>2
<1>2. CASE payload[r] = None
  <2>1. PICK q \in Request, m \in {"exact", "semantic"} :
            Found(r, q, m) /\ points[q] # None
    BY <1>2, SnapshotTaken DEF ExactMatches, SemanticMatches
  <2> QED
    BY <2>1 DEF Found, TypeOK
<1> QED
  BY <1>1, <1>2

LEMMA SnapshotCountingStep ==
    ASSUME TypeOK, Provenance, Counting, [Next]_vars, NEW r \in Request, payload'[r] # None
    PROVE  Counted(payload[r].point_id, payload[r].fields)'
<1>0. TypeOK'
  BY NextTypeOK
<1>p. PICK p \in Request : p = payload'[r].point_id
  BY <1>0 DEF TypeOK, Snapshot
<1>1. \/ points[p] # None /\ payload'[r].fields = points[p]
      \/ payload[r] # None /\ payload[r].point_id = p /\ payload'[r].fields = payload[r].fields
  BY <1>p, SnapshotSource
<1>2. Counted(p, payload'[r].fields)
  BY <1>1 DEF Counting
<1>3. payload'[r].fields.lfu_count \in Nat
  BY <1>0 DEF TypeOK, Snapshot, Payload
<1>4. /\ Cardinality(SettledHits(p)) \in Nat
      /\ Cardinality(SettledHits(p))' \in Nat
      /\ Cardinality(SettledHits(p)) <= Cardinality(SettledHits(p))'
  BY BoundGrows
<1> QED
  BY <1>p, <1>2, <1>3, <1>4, SettingsAssumption DEF Counted

LEMMA WireCountingStep ==
    ASSUME TypeOK, Provenance, Counting, [Next]_vars, NEW w \in wire'
    PROVE  /\ w.type = "upsert" =>
                  /\ w.payload.lfu_count = 1
                  /\ w.payload.ttl_expiry = w.payload.created_at + CACHE_TTL_SECONDS
           /\ w.type = "set_payload" =>
                  /\ w.lfu_count <= 1 + Cardinality(SettledHits(w.point_id))'
                  /\ w.ttl_expiry # None =>
                         Cardinality(SettledHits(w.point_id))' >= LFU_SPIKE_THRESHOLD
<1>1. ASSUME w.type = "upsert"
      PROVE  /\ w.payload.lfu_count = 1
             /\ w.payload.ttl_expiry = w.payload.created_at + CACHE_TTL_SECONDS
  <2>1. CASE w \in wire
    BY <1>1, <2>1 DEF Counting
  <2>2. CASE w \notin wire
    <3>1. StoreBegin(w.by)
      BY <1>1, <2>2, WireStep DEF Delete, SetPayload
    <3>2. w.payload = NewPayload(w.by)
      BY <2>2, <3>1 DEF StoreBegin, Send
    <3> QED
      BY <3>2 DEF NewPayload
  <2> QED
    BY <2>1, <2>2
<1>2. ASSUME w.type = "set_payload"
      PROVE  /\ w.lfu_count <= 1 + Cardinality(SettledHits(w.point_id))'
             /\ w.ttl_expiry # None =>
                    Cardinality(SettledHits(w.point_id))' >= LFU_SPIKE_THRESHOLD
  <2>1. w \in SetPayload
    BY <1>2, NextTypeOK DEF TypeOK, Upsert, SetPayload, Delete
  <2>p. PICK p \in Request : p = w.point_id
    BY <2>1 DEF SetPayload
  <2>2. /\ Cardinality(SettledHits(p)) \in Nat
        /\ Cardinality(SettledHits(p))' \in Nat
        /\ Cardinality(SettledHits(p)) <= Cardinality(SettledHits(p))'
    BY BoundGrows
  <2>3. w.lfu_count \in Nat /\ LFU_SPIKE_THRESHOLD \in Nat
    BY <2>1, SettingsAssumption DEF SetPayload
  <2>4. CASE w \in wire
    <3>1. /\ w.lfu_count <= 1 + Cardinality(SettledHits(p))
          /\ w.ttl_expiry # None => Cardinality(SettledHits(p)) >= LFU_SPIKE_THRESHOLD
      BY <1>2, <2>p, <2>4 DEF Counting
    <3> QED
      BY <2>p, <2>2, <2>3, <3>1
  <2>5. CASE w \notin wire
    <3>r. PICK r \in Request : r = w.by
      BY <2>1 DEF SetPayload
    <3>1. Increment(r)
      BY <1>2, <2>5, <3>r, WireStep DEF Delete, Upsert
    <3>2. /\ w.point_id = result[r].vector_id
          /\ w.lfu_count = payload[r].fields.lfu_count + 1
          /\ w.ttl_expiry = Promotion(w.lfu_count)
      BY <2>5, <3>1 DEF Increment, Send
    <3>3. payload[r] # None /\ payload[r].point_id = p
      BY <2>p, <3>1, <3>2 DEF Increment, TypeOK, Provenance, ResultInv
    <3>4. /\ payload[r].fields.lfu_count <= 1 + Cardinality(SettledHits(p))
          /\ payload[r].fields.lfu_count \in Nat
      BY <3>3 DEF Counting, Counted, TypeOK, Snapshot, Payload
    <3>5. Cardinality(SettledHits(p)) + 1 <= Cardinality(SettledHits(p))'
      BY <2>p, <3>1, <3>2, IncrementSettles
    <3>6. w.lfu_count <= 1 + Cardinality(SettledHits(p))'
      BY <2>2, <3>2, <3>4, <3>5
    <3>7. w.ttl_expiry # None => Cardinality(SettledHits(p))' >= LFU_SPIKE_THRESHOLD
      <4>1. w.ttl_expiry # None => w.lfu_count > LFU_SPIKE_THRESHOLD
        BY <3>2 DEF Promotion
      <4> QED
        BY <2>2, <2>3, <3>6, <4>1
    <3> QED
      BY <2>p, <3>6, <3>7
  <2> QED
    BY <2>4, <2>5
<1> QED
  BY <1>1, <1>2

LEMMA NextCounting == TypeOK /\ Provenance /\ Counting /\ [Next]_vars => Counting'
<1> SUFFICES ASSUME TypeOK, Provenance, Counting, [Next]_vars
             PROVE  Counting'
  OBVIOUS
<1>1. \A p \in Request : points'[p] # None => Counted(p, points[p])'
  BY PointCountingStep
<1> QED
  BY <1>1, SnapshotCountingStep, WireCountingStep DEF Counting

THEOREM CountingInvariant == Spec => [](TypeOK /\ Counting)
<1>1. Init => Counting
  BY InitCounting
<1>2. (TypeOK /\ Provenance) /\ Counting /\ [Next]_vars => Counting'
  BY NextCounting
<1> QED
  BY <1>1, <1>2, ProvenanceInvariant, PTL DEF Spec

LEMMA SettledHitsAreHits ==
    ASSUME NEW p \in Request
    PROVE  /\ Cardinality(SettledHits(p)) \in Nat
           /\ Cardinality(HitsOn(p)) \in Nat
           /\ Cardinality(SettledHits(p)) <= Cardinality(HitsOn(p))
BY SettledFinite, FS_Subset, FS_CardinalityType DEF SettledHits

\* However the unlocked read-increment-write of concurrent hits interleaves,
\* and however late their writes land, a counter never exceeds one plus the
\* hits that were served.
THEOREM CountersNeverInvent == Spec => []LfuCountsHits
<1>1. TypeOK /\ Counting => LfuCountsHits
  <2> SUFFICES ASSUME TypeOK, Counting, NEW p \in Request, points[p] # None
               PROVE  points[p].lfu_count <= 1 + Cardinality(HitsOn(p))
    BY DEF LfuCountsHits
  <2>1. points[p].lfu_count <= 1 + Cardinality(SettledHits(p)) /\ points[p].lfu_count \in Nat
    BY DEF Counting, Counted, TypeOK, Payload
  <2> QED
    BY <2>1, SettledHitsAreHits
<1> QED
  BY <1>1, CountingInvariant, PTL

\* An entry that outlives its base TTL served at least LFU_SPIKE_THRESHOLD hits.
THEOREM PromotionsAreEarned == Spec => []PromotionIsEarned
<1>1. TypeOK /\ Counting => PromotionIsEarned
  <2> SUFFICES ASSUME TypeOK, Counting, NEW p \in Request, points[p] # None,
                      points[p].ttl_expiry > points[p].created_at + CACHE_TTL_SECONDS
               PROVE  Cardinality(HitsOn(p)) >= LFU_SPIKE_THRESHOLD
    BY DEF PromotionIsEarned
  <2>1. Cardinality(SettledHits(p)) >= LFU_SPIKE_THRESHOLD
    <3>1. points[p].created_at + CACHE_TTL_SECONDS \in Nat /\ points[p].ttl_expiry \in Nat
      BY SettingsAssumption DEF TypeOK, Payload
    <3> QED
      BY <3>1 DEF Counting, Counted
  <2> QED
    BY <2>1, SettledHitsAreHits, SettingsAssumption
<1> QED
  BY <1>1, CountingInvariant, PTL

\* A delete that lands on a fresh entry was decided before the entry was
\* promoted: the stale snapshot and the fresh entry differ in expiry, so one of
\* the two is not what was stored, and that takes LFU_SPIKE_THRESHOLD hits.
THEOREM FreshEvictionsAreOfHotEntries == Spec => FreshEvictionIsOfHotEntry
<1>1. TypeOK /\ Provenance /\ Counting /\ [Next]_vars =>
          [\A p \in Request :
               points[p] # None /\ points'[p] = None =>
                   \/ clock > points[p].ttl_expiry
                   \/ Cardinality(HitsOn(p)) >= LFU_SPIKE_THRESHOLD]_vars
  <2> SUFFICES ASSUME TypeOK, Provenance, Counting, [Next]_vars,
                      NEW p \in Request, points[p] # None, points'[p] = None,
                      ~(clock > points[p].ttl_expiry)
               PROVE  Cardinality(HitsOn(p)) >= LFU_SPIKE_THRESHOLD
    OBVIOUS
  <2>1. PICK r \in Request :
            /\ payload[r] # None
            /\ payload[r].point_id = p
            /\ payload[r].fields.created_at = points[p].created_at
            /\ clock > payload[r].fields.ttl_expiry
    BY EvictionStep
  <2>2. payload[r].fields.ttl_expiry # points[p].ttl_expiry
    BY <2>1
  <2>3. Counted(p, payload[r].fields) /\ Counted(p, points[p])
    BY <2>1 DEF Counting
  <2>4. Cardinality(SettledHits(p)) >= LFU_SPIKE_THRESHOLD
    BY <2>1, <2>2, <2>3 DEF Counted
  <2> QED
    BY <2>4, SettledHitsAreHits, SettingsAssumption
<1> QED
  BY <1>1, ProvenanceInvariant, CountingInvariant, PTL DEF Spec, FreshEvictionIsOfHotEntry

\* However long ago the payload was read, an answer served from it is younger
\* than the base TTL or that of an entry that was hot.
THEOREM ServedAnswersAreFresh == Spec => AnswersAreFresh
<1>1. TypeOK /\ Provenance /\ Counting /\ [Next]_vars =>
          [\A r \in Request :
               ~IsHit(r) /\ IsHit(r)' =>
                   \/ clock <= payload[r].fields.created_at + CACHE_TTL_SECONDS
                   \/ Cardinality(HitsOn(payload[r].point_id)) >= LFU_SPIKE_THRESHOLD]_vars
  <2> SUFFICES ASSUME TypeOK, Provenance, Counting, [Next]_vars,
                      NEW r \in Request, ~IsHit(r), IsHit(r)',
                      ~(clock <= payload[r].fields.created_at + CACHE_TTL_SECONDS)
               PROVE  Cardinality(HitsOn(payload[r].point_id)) >= LFU_SPIKE_THRESHOLD
    OBVIOUS
  <2>1. ReturnHit(r)
    BY HitReturned
  <2>2. payload[r] # None /\ clock <= payload[r].fields.ttl_expiry
    BY <2>1 DEF ReturnHit, TypeOK
  <2>3. payload[r].point_id \in Request
    BY <2>2 DEF TypeOK, Snapshot
  <2>4. Counted(payload[r].point_id, payload[r].fields)
    BY <2>2 DEF Counting
  <2>5. payload[r].fields.ttl_expiry # payload[r].fields.created_at + CACHE_TTL_SECONDS
    BY <2>2
  <2>6. Cardinality(SettledHits(payload[r].point_id)) >= LFU_SPIKE_THRESHOLD
    BY <2>4, <2>5 DEF Counted
  <2> QED
    BY <2>3, <2>6, SettledHitsAreHits, SettingsAssumption
<1> QED
  BY <1>1, ProvenanceInvariant, CountingInvariant, PTL DEF Spec, AnswersAreFresh

\* How StaleEntryHidesNothing may fail: the fresh entry of the same question
\* that a lookup gives up is a duplicate, stored by another miss, or the very
\* entry it read, which became hot meanwhile.
OnlyDuplicatesAreHidden ==
    [][\A r \in Request :
           pc[r] = "validate" /\ pc'[r] = "evict" =>
               \A p \in ExactMatches(r) :
                   \/ clock > points[p].ttl_expiry
                   \/ p # payload[r].point_id
                   \/ Cardinality(HitsOn(p)) >= LFU_SPIKE_THRESHOLD]_vars

\* While a question has one entry and that is not hot, a lookup that finds it
\* stale hides nothing.
THEOREM StaleEntriesHideDuplicates == Spec => OnlyDuplicatesAreHidden
<1>1. TypeOK /\ Provenance /\ Counting /\ [Next]_vars =>
          [\A r \in Request :
               pc[r] = "validate" /\ pc'[r] = "evict" =>
                   \A p \in ExactMatches(r) :
                       \/ clock > points[p].ttl_expiry
                       \/ p # payload[r].point_id
                       \/ Cardinality(HitsOn(p)) >= LFU_SPIKE_THRESHOLD]_vars
  <2> SUFFICES ASSUME TypeOK, Provenance, Counting, [Next]_vars,
                      NEW r \in Request, pc[r] = "validate", pc'[r] = "evict",
                      NEW p \in ExactMatches(r),
                      ~(clock > points[p].ttl_expiry), p = payload[r].point_id
               PROVE  Cardinality(HitsOn(p)) >= LFU_SPIKE_THRESHOLD
    OBVIOUS
  <2>1. p \in Request /\ points[p] # None
    BY DEF ExactMatches
  <2>2. payload[r] # None /\ clock > payload[r].fields.ttl_expiry
    <3>1. ASSUME NEW q \in Request, Lookup(q)
          PROVE  clock > payload[r].fields.ttl_expiry
      BY <3>1 DEF Lookup, ExactMatchHit, ExactMatchNone, VectorSearchHit, VectorSearchNone,
         EvictStale, ReturnHit, EvictReturns, Found, ReturnNone, Goto, TypeOK
    <3>2. ASSUME NEW q \in Request,
                 RecordHit(q) \/ BeginLookup(q) \/ StoreBegin(q) \/ NoStore(q) \/ StoreReturns(q)
          PROVE  FALSE
      BY <3>2 DEF RecordHit, RecordHitRead, RecordHitNotFound, Increment, UpdateReturns,
         BeginLookup, StoreBegin, NoStore, StoreReturns, Goto, TypeOK
    <3>3. ASSUME Server \/ Tick \/ Crash \/ UNCHANGED vars
          PROVE  FALSE
      BY <3>3 DEF Server, ApplyUpsert, ApplySetPayload, ApplyDelete, LoseWrite, Tick,
         Crash, vars, TypeOK
    <3> QED
      BY <3>1, <3>2, <3>3 DEF Next, TypeOK
  <2>3. payload[r].fields.created_at = points[p].created_at
    BY <2>1, <2>2 DEF Provenance, PayloadInv
  <2>4. Counted(p, payload[r].fields) /\ Counted(p, points[p])
    BY <2>1, <2>2 DEF Counting
  <2>5. Cardinality(SettledHits(p)) >= LFU_SPIKE_THRESHOLD
    BY <2>2, <2>3, <2>4 DEF Counted
  <2> QED
    BY <2>1, <2>5, SettledHitsAreHits, SettingsAssumption
<1> QED
  BY <1>1, ProvenanceInvariant, CountingInvariant, PTL DEF Spec, OnlyDuplicatesAreHidden
=============================================================================
