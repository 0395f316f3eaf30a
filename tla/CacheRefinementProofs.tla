----------------------- MODULE CacheRefinementProofs -----------------------
(***************************************************************************)
(* CacheManager implements AbstractCache.  A step that gives a request a   *)
(* snapshot is an Offer, one that returns a hit is a Serve, one that       *)
(* returns None is a Miss, the one that applies an upsert is a Put, and    *)
(* every other step, whatever it does, is seen as a Forget.                *)
(***************************************************************************)
EXTENDS CacheSafetyProofs

LEMMA InitRefines == Init => Abstract!Init
BY DEF Init, Abstract!Init, Kept, Gone, Offers, Answers, IsHit

\* What is gone stays gone.
LEMMA GoneGrows ==
    ASSUME TypeOK, Provenance, [Next]_vars
    PROVE  Gone \subseteq Gone'
<1> SUFFICES ASSUME NEW p \in Request, points[p] = None, Stored(p)
             PROVE  points'[p] = None /\ Stored(p)'
  BY DEF Gone, Stored
<1> QED
  BY StoredStable, EntryStable

\* The server loses entries for good, and gains one by an upsert only.
LEMMA KeptStep ==
    ASSUME TypeOK, Provenance, [Next]_vars
    PROVE  \/ Kept' = Kept \ Gone'
           \/ \E w \in wire : w \in Upsert /\ ApplyUpsert(w)
<1> SUFFICES ASSUME ~ \E w \in wire : w \in Upsert /\ ApplyUpsert(w)
             PROVE  Kept' = Kept \ Gone'
  OBVIOUS
<1>1. ASSUME NEW p \in Request, points[p] # None, points'[p] = None
      PROVE  p \in Gone'
  <2>1. Stored(p)'
    BY <1>1, StoredStable DEF Provenance, PointInv
  <2> QED
    BY <1>1, <2>1 DEF Gone, Stored
<1>2. ASSUME NEW p \in Request, points[p] = None, points'[p] # None
      PROVE  FALSE
  BY <1>2, PointStep
<1> QED
  BY <1>1, <1>2 DEF Kept, Gone

\* Steps at stages before the store begins do not touch what is kept or gone.
LEMMA LookupKeeps ==
    ASSUME TypeOK, NEW r \in Request, NEW stage \in {"validate", "hit", "miss"},
           pc[r] \in {"exact", "vector", "validate", "evict"}, Goto(r, stage),
           UNCHANGED <<points, wire>>
    PROVE  Kept' = Kept /\ Gone' = Gone
BY DEF Kept, Gone, Goto, InFlight, TypeOK

LEMMA FoundIsOffer ==
    ASSUME TypeOK, Provenance, [Next]_vars, NEW r \in Request, NEW p \in Request,
           NEW m \in {"exact", "semantic"}, Found(r, p, m),
           pc[r] \in {"exact", "vector"}, points[p] # None, MayAnswer(p, r)
    PROVE  Abstract!Offer(r, p)
<1>1. Kept' = Kept /\ Gone' = Gone
  BY LookupKeeps DEF Found
<1>2. payload[r] = None /\ result[r] = Pending
  BY DEF Provenance, StageInv
<1>3. Offers[r] = Pending /\ Answers[r] = Pending
  BY <1>2 DEF Offers, Answers, IsHit
<1>4. [point_id |-> p, match_type |-> m, fields |-> points[p]] # None
  BY SentinelAssumption DEF TypeOK, Snapshot
<1>5. Offers' = [Offers EXCEPT ![r] = p]
  BY <1>4 DEF Offers, Found, TypeOK
<1>6. Answers' = Answers
  BY DEF Answers, IsHit, Found
<1>7. p \in Kept /\ <<p, r>> \in Compatible
  BY DEF Kept, Compatible
<1> QED
  BY <1>1, <1>3, <1>5, <1>6, <1>7 DEF Abstract!Offer

LEMMA HitIsServe ==
    ASSUME TypeOK, Provenance, NEW r \in Request, ReturnHit(r)
    PROVE  Abstract!Serve(r)
<1>1. Kept' = Kept /\ Gone' = Gone
  BY LookupKeeps DEF ReturnHit
<1>2. payload[r] # None /\ payload[r] \in Snapshot /\ result[r] = Pending
  BY DEF ReturnHit, TypeOK, Provenance, StageInv
<1>3. payload[r].fields.response = payload[r].point_id /\ payload[r].point_id \in Request
  BY <1>2 DEF Provenance, PayloadInv, Faithful, Snapshot
<1>4. Answers[r] = Pending /\ Offers[r] = payload[r].point_id
  BY <1>2 DEF Answers, Offers, IsHit
<1>5. Offers[r] # Pending
  BY <1>3, <1>4, SentinelAssumption
<1>6. [vector_id |-> payload[r].point_id,
       response_text |-> payload[r].fields.response,
       match_type |-> payload[r].match_type] \in CacheResult
  BY <1>2, <1>3 DEF CacheResult, Snapshot
<1>7. Answers' = [Answers EXCEPT ![r] = Offers[r]]
  BY <1>3, <1>4, <1>6, SentinelAssumption DEF Answers, IsHit, ReturnHit, TypeOK
<1>8. Offers' = Offers
  BY DEF Offers, ReturnHit
<1> QED
  BY <1>1, <1>4, <1>5, <1>7, <1>8 DEF Abstract!Serve

LEMMA NoneIsMiss ==
    ASSUME TypeOK, Provenance, NEW r \in Request, ReturnNone(r), pc[r] \in {"vector", "evict"}
    PROVE  Abstract!Miss(r)
<1>1. Kept' = Kept /\ Gone' = Gone
  BY LookupKeeps DEF ReturnNone
<1>2. result[r] = Pending
  BY DEF Provenance, StageInv
<1>3. Answers[r] = Pending
  BY <1>2 DEF Answers, IsHit
<1>4. Answers' = [Answers EXCEPT ![r] = None]
  BY DEF Answers, IsHit, ReturnNone, TypeOK
<1>5. Offers' = Offers
  BY DEF Offers, ReturnNone
<1> QED
  BY <1>1, <1>3, <1>4, <1>5 DEF Abstract!Miss

LEMMA UpsertIsPut ==
    ASSUME TypeOK, Provenance, NEW w \in wire, w \in Upsert, ApplyUpsert(w)
    PROVE  Abstract!Put(w.by)
<1>p. PICK p \in Request : p = w.by
  BY DEF Upsert
<1>1. UpsertInv(w)
  BY DEF Provenance, WireInv, Upsert
<1>2. /\ points' = [points EXCEPT ![p] = w.payload]
      /\ wire' = wire \ {w}
      /\ w.payload # None
      /\ UNCHANGED <<pc, payload, result>>
  BY <1>p, <1>1, SentinelAssumption DEF ApplyUpsert, Consume, UpsertInv, Upsert
<1>3. InFlight(p, "upsert")
  BY <1>p DEF InFlight, Upsert
<1>4. points[p] = None
  BY <1>3 DEF Provenance, PointInv, Stored
<1>5. p \notin Kept \cup Gone
  BY <1>3, <1>4 DEF Kept, Gone
<1>6. Kept' = Kept \cup {p}
  BY <1>2 DEF Kept, TypeOK
<1>7. Gone' = Gone
  <2>1. ASSUME NEW q \in Request, q # p
        PROVE  InFlight(q, "upsert")' = InFlight(q, "upsert")
    BY <1>p, <1>2, <2>1 DEF InFlight
  <2> QED
    BY <1>2, <1>5, <2>1 DEF Gone, TypeOK
<1>8. Answers[p] = None
  BY <1>p, <1>1 DEF UpsertInv, Answers, IsHit
<1>9. Offers' = Offers /\ Answers' = Answers
  BY <1>2 DEF Offers, Answers, IsHit
<1> QED
  BY <1>p, <1>5, <1>6, <1>7, <1>8, <1>9 DEF Abstract!Put

\* Every other step leaves offers and answers alone.
LEMMA OtherIsForget ==
    ASSUME TypeOK, Provenance, [Next]_vars, Offers' = Offers, Answers' = Answers,
           ~ \E w \in wire : w \in Upsert /\ ApplyUpsert(w)
    PROVE  Abstract!Next
<1>1. Kept' = Kept \ Gone'
  BY KeptStep
<1>2. Gone' = Gone \cup Gone'
  BY GoneGrows
<1>3. Gone' \in SUBSET Request
  BY DEF Gone
<1>4. Abstract!Forget(Gone')
  BY <1>1, <1>2 DEF Abstract!Forget
<1> QED
  BY <1>3, <1>4 DEF Abstract!Next

LEMMA NextRefines == TypeOK /\ Provenance /\ [Next]_vars => [Abstract!Next]_(Abstract!vars)
<1> SUFFICES ASSUME TypeOK, Provenance, [Next]_vars
             PROVE  Abstract!Next
  OBVIOUS
<1>1. ASSUME NEW r \in Request, ExactMatchHit(r)
      PROVE  Abstract!Next
  <2>1. PICK p \in ExactMatches(r) : Found(r, p, "exact")
    BY <1>1 DEF ExactMatchHit
  <2>2. p \in Request /\ points[p] # None /\ pc[r] = "exact" /\ MayAnswer(p, r)
    BY <1>1, ExactMatchIsSame DEF ExactMatchHit, ExactMatches
  <2> QED
    BY <2>1, <2>2, FoundIsOffer DEF Abstract!Next
<1>2. ASSUME NEW r \in Request, VectorSearchHit(r)
      PROVE  Abstract!Next
  <2>1. PICK p \in SemanticMatches(r) : Found(r, p, "semantic")
    BY <1>2 DEF VectorSearchHit
  <2>2. p \in Request /\ points[p] # None /\ pc[r] = "vector" /\ MayAnswer(p, r)
    BY <1>2, SemanticMatchIsClose DEF VectorSearchHit, SemanticMatches
  <2> QED
    BY <2>1, <2>2, FoundIsOffer DEF Abstract!Next
<1>3. ASSUME NEW r \in Request, ReturnHit(r)
      PROVE  Abstract!Next
  BY <1>3, HitIsServe DEF Abstract!Next
<1>4. ASSUME NEW r \in Request, VectorSearchNone(r) \/ EvictReturns(r)
      PROVE  Abstract!Next
  BY <1>4, NoneIsMiss DEF VectorSearchNone, EvictReturns, Abstract!Next
<1>5. ASSUME NEW w \in wire, w \in Upsert, ApplyUpsert(w)
      PROVE  Abstract!Next
  BY <1>5, UpsertIsPut DEF Upsert, Abstract!Next
<1>6. ASSUME NEW r \in Request,
             \/ BeginLookup(r) \/ ExactMatchNone(r) \/ EvictStale(r)
             \/ RecordHit(r) \/ StoreBegin(r) \/ NoStore(r) \/ StoreReturns(r)
      PROVE  Offers' = Offers /\ Answers' = Answers
  <2>1. result' = result
    BY <1>6 DEF BeginLookup, ExactMatchNone, EvictStale, RecordHit, RecordHitRead,
                RecordHitNotFound, Increment, UpdateReturns, StoreBegin, NoStore, StoreReturns
  <2>2. Offers' = Offers
    <3>1. CASE RecordHitRead(r)
      <4>1. payload[r] \in Snapshot
        BY <3>1 DEF RecordHitRead, TypeOK
      <4>2. result[r].vector_id \in Request
        BY <3>1 DEF RecordHitRead, TypeOK, IsHit, CacheResult
      <4>3. points[result[r].vector_id] \in Payload
        BY <3>1, <4>2 DEF RecordHitRead, TypeOK
      <4>4. /\ payload'[r] \in Snapshot
            /\ payload'[r].point_id = payload[r].point_id
            /\ \A q \in Request \ {r} : payload'[q] = payload[q]
        BY <3>1, <4>1, <4>3 DEF RecordHitRead, TypeOK, Snapshot
      <4> QED
        BY <4>1, <4>4, SentinelAssumption DEF Offers
    <3>2. CASE ~RecordHitRead(r)
      <4>1. payload' = payload
        BY <1>6, <3>2 DEF BeginLookup, ExactMatchNone, EvictStale, RecordHit,
               RecordHitNotFound, Increment, UpdateReturns, StoreBegin, NoStore, StoreReturns
      <4> QED
        BY <4>1 DEF Offers
    <3> QED
      BY <3>1, <3>2
  <2> QED
    BY <2>1, <2>2 DEF Answers, IsHit
<1>7. ASSUME Tick \/ Crash \/ Server \/ UNCHANGED vars
      PROVE  Offers' = Offers /\ Answers' = Answers
  <2>1. payload' = payload /\ result' = result
    BY <1>7 DEF Tick, Crash, Server, ApplyUpsert, ApplySetPayload, ApplyDelete, LoseWrite, vars
  <2> QED
    BY <2>1 DEF Offers, Answers, IsHit
<1>8. CASE Offers' = Offers /\ Answers' = Answers
  BY <1>5, <1>8, OtherIsForget
<1> QED
  BY <1>1, <1>2, <1>3, <1>4, <1>6, <1>7, <1>8 DEF Next, Lookup

\* Seen from the requests, the cache with all its failures only ever forgets:
\* an answer is one a request of the same tenant paid for, to a question close
\* enough, kept at some moment while the answered request was looking; and what
\* is gone is gone, late writes notwithstanding.
THEOREM Refinement == Spec => ImplementsAbstractCache
BY InitRefines, NextRefines, ProvenanceInvariant, PTL
   DEF Spec, ImplementsAbstractCache, Abstract!Spec
=============================================================================
