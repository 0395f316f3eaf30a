---------------------------- MODULE GatewayProofs ----------------------------
(***************************************************************************)
(* The chat handler drives the cache as CacheManager allows, so everything *)
(* proved of the cache holds of the gateway; what is cached was sent to a  *)
(* client first; and what is counted was sent to one, too.                 *)
(***************************************************************************)
EXTENDS Gateway, CacheCountingProofs, CacheRefinementProofs

\* The steps of one request take the cache's steps, or leave the cache alone.
LEMMA RequestDrivesCache ==
    ASSUME NEW r \in Request,
           \/ RefuseDefect(r) \/ RateLimited(r) \/ Embed(r) \/ Handle(r)
           \/ StreamCompletes(r) \/ StreamBreaks(r)
    PROVE  [Next]_vars
<1>1. CASE EmbeddingReturns(r)
  BY <1>1 DEF EmbeddingReturns, Next
<1>2. CASE LookupStep(r)
  BY <1>2 DEF LookupStep, Next
<1>3. CASE RecordHitStep(r)
  BY <1>3 DEF RecordHitStep, Next
<1>4. CASE StoreStep(r)
  BY <1>4 DEF StoreStep, Next
<1>5. CASE NotConfigured(r) \/ StreamBreaks(r)
  BY <1>5 DEF NotConfigured, StreamBreaks, Next
<1>6. CASE \/ RefuseDefect(r) \/ RateLimited(r) \/ Embed(r) \/ EmbeddingFails(r)
           \/ HitResponse(r) \/ MissResponse(r) \/ Count(r) \/ HitSent(r)
           \/ StreamCompletes(r)
  BY <1>6 DEF RefuseDefect, RateLimited, Embed, EmbeddingFails, HitResponse,
              MissResponse, Count, HitSent, StreamCompletes, vars
<1> QED
  BY <1>1, <1>2, <1>3, <1>4, <1>5, <1>6 DEF Handle

\* When the process dies at work, the tasks of the cache die with it; those
\* that were not consulting the cache leave it alone.
LEMMA CrashDrivesCache ==
    ASSUME TypeOK, ChatCrash
    PROVE  [Next]_vars
<1>1. CASE \E r \in Request : Active(r)
  BY <1>1 DEF ChatCrash, Crash, Next
<1>2. CASE \A r \in Request : ~Active(r)
  <2>1. pc' = pc
    BY <1>2 DEF ChatCrash, TypeOK
  <2> QED
    BY <2>1 DEF ChatCrash, vars
<1> QED
  BY <1>1, <1>2

LEMMA ChatDrivesCache == TypeOK /\ [ChatNext]_allVars => [Next]_vars
<1> SUFFICES ASSUME TypeOK, [ChatNext]_allVars
             PROVE  [Next]_vars
  OBVIOUS
<1>1. CASE ServerStep
  BY <1>1 DEF ServerStep, Next
<1>2. CASE Tick
  BY <1>2 DEF Next
<1>3. CASE UNCHANGED allVars
  BY <1>3 DEF allVars
<1> QED
  BY <1>1, <1>2, <1>3, RequestDrivesCache, CrashDrivesCache DEF ChatNext

\* Every run of the gateway is, seen from the cache, a run of the cache: the
\* theorems about CacheManager hold of POST /v1/chat.
THEOREM GatewayDrivesTheCache == ChatSpec => DrivesTheCache
<1>1. ChatInit => Init
  BY DEF ChatInit
<1>2. Init => TypeOK
  BY InitTypeOK
<1>3. TypeOK /\ [ChatNext]_allVars => TypeOK' /\ [Next]_vars
  BY ChatDrivesCache, NextTypeOK
<1> QED
  BY <1>1, <1>2, <1>3, PTL DEF ChatSpec, DrivesTheCache, Spec

\* The cache's own invariants, in the gateway.
THEOREM GatewayProvenance == ChatSpec => [](TypeOK /\ Provenance)
BY GatewayDrivesTheCache, ProvenanceInvariant, PTL DEF DrivesTheCache

\* No request to the gateway is answered from another tenant's entry.
THEOREM GatewayIsolatesTenants == ChatSpec => []TenantIsolation
BY GatewayDrivesTheCache, TenantsAreIsolated, PTL DEF DrivesTheCache

\* The rest of what is proved of the cache on its own, in the gateway, which
\* calls it in fewer orders: a handler cannot make a hit irrelevant, a counter
\* too high, an entry change or go too early, or an answer too old.
THEOREM GatewayKeepsTheCache ==
    ChatSpec => /\ [](HitIsRelevant /\ LfuCountsHits /\ PromotionIsEarned)
                /\ NoEarlyEviction
                /\ FreshEvictionIsOfHotEntry
                /\ AnswersAreFresh
                /\ EntryIsImmutable
                /\ ImplementsAbstractCache
BY GatewayDrivesTheCache, HitsAreRelevant, CountersNeverInvent, PromotionsAreEarned,
   EvictionIsNotEarly, FreshEvictionsAreOfHotEntries, ServedAnswersAreFresh,
   EntriesAreImmutable, Refinement, PTL DEF DrivesTheCache

-----------------------------------------------------------------------------
(* The clamp *)

\* What chat passes to lookup lies between the configured bounds, whatever the
\* header says.
LEMMA ThresholdIsClamped ==
    ASSUME NEW h \in Nat \cup {None}
    PROVE  /\ threshold(h) >= MIN_SIMILARITY_THRESHOLD
           /\ threshold(h) <= MAX_SIMILARITY_THRESHOLD
BY ThresholdAssumption, HttpAssumption DEF threshold

\* And it is what the header or the default asks, or the maximum, or more.
LEMMA ThresholdIsAsked ==
    ASSUME NEW h \in Nat \cup {None}
    PROVE  LET asked == IF h = None THEN DEFAULT_SIMILARITY_THRESHOLD ELSE h
           IN  threshold(h) >= asked \/ threshold(h) >= MAX_SIMILARITY_THRESHOLD
BY ThresholdAssumption, HttpAssumption DEF threshold

\* Whatever x-cache-threshold says, a hit is at least as similar to its question
\* as was asked or the maximum demands, and as the minimum demands in any case.
THEOREM HitsClear == ChatSpec => []HitsClearTheThreshold
<1>1. TypeOK /\ Provenance => HitsClearTheThreshold
  <2> SUFFICES ASSUME TypeOK, Provenance, NEW r \in Request, IsHit(r)
               PROVE  LET score == Similarity[<<Vector(r), Vector(result[r].response_text)>>]
                          h == Http[r].x_cache_threshold
                          asked == IF h = None THEN DEFAULT_SIMILARITY_THRESHOLD ELSE h
                      IN  /\ score >= MIN_SIMILARITY_THRESHOLD
                          /\ score >= asked \/ score >= MAX_SIMILARITY_THRESHOLD
    BY DEF HitsClearTheThreshold
  <2> DEFINE score == Similarity[<<Vector(r), Vector(result[r].response_text)>>]
             h == Http[r].x_cache_threshold
             asked == IF h = None THEN DEFAULT_SIMILARITY_THRESHOLD ELSE h
             passed == Args[r].similarity_threshold
  <2>1. score >= passed
    BY HitMayAnswer DEF MayAnswer
  <2>2. h \in Nat \cup {None} /\ passed = threshold(h)
    BY HttpAssumption
  <2>3. /\ passed >= MIN_SIMILARITY_THRESHOLD
        /\ passed >= asked \/ passed >= MAX_SIMILARITY_THRESHOLD
    <3> HIDE DEF h, passed
    <3> QED
      BY <2>2, ThresholdIsClamped, ThresholdIsAsked
  <2>4. asked \in Nat
    BY <2>2, ThresholdAssumption
  <2>5. result[r] \in CacheResult
    BY DEF TypeOK, IsHit
  <2>6. score \in 0 .. 1000 /\ passed \in 0 .. 999
    <3>1. result[r].response_text \in Request
      BY <2>5 DEF CacheResult
    <3>2. Vector(r) \in Norm /\ Vector(result[r].response_text) \in Norm
      BY <3>1, ArgsTypes
    <3>3. score \in 0 .. 1000
      <4>1. \A pair \in Norm \X Norm : Similarity[pair] \in 0 .. 1000
        BY SimilarityAssumption
      <4>2. <<Vector(r), Vector(result[r].response_text)>> \in Norm \X Norm
        BY <3>2
      <4> QED
        BY <4>1, <4>2, Zenon
    <3> QED
      BY <3>3, ArgsTypes
  <2> HIDE DEF score, asked, passed
  <2>7. /\ score >= MIN_SIMILARITY_THRESHOLD
        /\ score >= asked \/ score >= MAX_SIMILARITY_THRESHOLD
    BY <2>1, <2>3, <2>4, <2>6, ThresholdAssumption
  <2> QED
    BY <2>7 DEF score, asked
<1> QED
  BY <1>1, GatewayProvenance, PTL

-----------------------------------------------------------------------------
(* The handler and the cache stay in step *)

LEMMA LookupStage ==
    ASSUME TypeOK, NEW r \in Request, Lookup(r)
    PROVE  /\ \A q \in Request \ {r} : pc'[q] = pc[q]
           /\ pc'[r] \in {"exact", "vector", "validate", "evict", "hit", "miss"}
BY DEF Lookup, ExactMatchHit, ExactMatchNone, VectorSearchHit, VectorSearchNone,
       EvictStale, ReturnHit, EvictReturns, Found, ReturnNone, Goto, TypeOK

LEMMA RecordHitStage ==
    ASSUME TypeOK, NEW r \in Request, RecordHit(r)
    PROVE  /\ \A q \in Request \ {r} : pc'[q] = pc[q]
           /\ pc[r] \in {"hit", "increment", "update"}
           /\ pc'[r] \in {"increment", "update", "done"}
BY DEF RecordHit, RecordHitRead, RecordHitNotFound, Increment, UpdateReturns, Goto, TypeOK

LEMMA StoreStage ==
    ASSUME TypeOK, NEW r \in Request, StoreBegin(r) \/ StoreReturns(r)
    PROVE  /\ \A q \in Request \ {r} : pc'[q] = pc[q]
           /\ pc[r] \in {"miss", "store"}
           /\ pc'[r] \in {"store", "done"}
BY DEF StoreBegin, StoreReturns, Goto, TypeOK

LEMMA ServerStage ==
    ASSUME Server
    PROVE  pc' = pc
BY DEF Server, ApplyUpsert, ApplySetPayload, ApplyDelete, LoseWrite

LEMMA InitChatTypeOK == ChatInit => ChatTypeOK
BY DEF ChatInit, Init, ChatTypeOK, InStep, Active, ChatStage

\* A refusal, whatever its status.
LEMMA RefuseTypeOK ==
    ASSUME ChatTypeOK, NEW r \in Request, NEW s \in Status, Refuse(r, s),
           pc'[r] \in {"idle", "done"}, \A q \in Request \ {r} : pc'[q] = pc[q]
    PROVE  ChatTypeOK'
BY DEF Refuse, SetStatus, ChatGoto, ChatTypeOK, InStep, Active, ChatStage

LEMMA RequestTypeOK ==
    ASSUME TypeOK, ChatTypeOK, NEW r \in Request,
           \/ RefuseDefect(r) \/ RateLimited(r) \/ Embed(r) \/ Handle(r)
           \/ StreamCompletes(r) \/ StreamBreaks(r)
    PROVE  ChatTypeOK'
<1>1. CASE RefuseDefect(r)
  <2>1. Http[r].defect \in Defect
    BY <1>1, HttpAssumption DEF RefuseDefect
  <2>2. RefusalOf[Http[r].defect] \in Status
    BY <2>1 DEF RefusalOf, Defect, Status
  <2> QED
    BY <1>1, <2>2, RefuseTypeOK DEF RefuseDefect, vars, ChatTypeOK, InStep
<1>2. CASE RateLimited(r)
  BY <1>2, RefuseTypeOK DEF RateLimited, vars, Status, ChatTypeOK, InStep
<1>3. CASE Embed(r)
  BY <1>3 DEF Embed, vars, ChatGoto, ChatTypeOK, InStep, Active, ChatStage
<1>4. CASE EmbeddingFails(r)
  BY <1>4, RefuseTypeOK DEF EmbeddingFails, vars, Status, ChatTypeOK, InStep
<1>5. CASE EmbeddingReturns(r)
  BY <1>5 DEF EmbeddingReturns, BeginLookup, Goto, ChatGoto, ChatTypeOK, InStep, Active,
              ChatStage, TypeOK
<1>6. CASE LookupStep(r)
  BY <1>6, LookupStage DEF LookupStep, httpVars, ChatTypeOK, InStep, Active
<1>7. CASE HitResponse(r)
  BY <1>7 DEF HitResponse, vars, SetStatus, ChatGoto, ChatTypeOK, InStep, Active, ChatStage, Status
<1>8. CASE MissResponse(r)
  <2>1. \A q \in Request : InStep(q)'
    BY <1>8 DEF MissResponse, vars, SetStatus, ChatGoto, ChatTypeOK, InStep, Active
  <2> QED
    BY <1>8, <2>1 DEF MissResponse, SetStatus, ChatGoto, ChatTypeOK, ChatStage, Status
<1>9. CASE NotConfigured(r)
  <2>1. pc'[r] = "done" /\ \A q \in Request \ {r} : pc'[q] = pc[q]
    BY <1>9 DEF NotConfigured, NoStore, Goto, TypeOK
  <2> QED
    BY <1>9, <2>1, RefuseTypeOK DEF NotConfigured, Status
<1>10. CASE Count(r)
  <2>1. counters' \in [requests_total : Nat, cache_hits : Nat, cache_misses : Nat]
    <3>1. /\ counters \in [requests_total : Nat, cache_hits : Nat, cache_misses : Nat]
          /\ counters.requests_total + 1 \in Nat
          /\ counters.cache_hits + 1 \in Nat
          /\ counters.cache_misses + 1 \in Nat
      BY DEF ChatTypeOK
    <3>2. PICK n \in Nat, h \in Nat, m \in Nat :
              counters' = [counters EXCEPT !.requests_total = n,
                                           !.cache_hits = h, !.cache_misses = m]
      BY <1>10, <3>1 DEF Count
    <3> QED
      BY <3>1, <3>2
  <2>2. \A q \in Request : InStep(q)'
    BY <1>10 DEF Count, vars, ChatGoto, ChatTypeOK, InStep, Active
  <2> QED
    BY <1>10, <2>1, <2>2 DEF Count, ChatGoto, ChatTypeOK, ChatStage
<1>11. CASE HitSent(r)
  BY <1>11 DEF HitSent, vars, ChatGoto, ChatTypeOK, InStep, Active, ChatStage
<1>12. CASE RecordHitStep(r)
  BY <1>12, RecordHitStage DEF RecordHitStep, httpVars, ChatTypeOK, InStep, Active
<1>13. CASE StoreStep(r)
  BY <1>13, StoreStage, HttpAssumption DEF StoreStep, httpVars, ChatTypeOK, InStep, Active
<1>14. CASE StreamCompletes(r)
  BY <1>14 DEF StreamCompletes, vars, ChatGoto, ChatTypeOK, InStep, Active, ChatStage
<1>15. CASE StreamBreaks(r)
  BY <1>15 DEF StreamBreaks, NoStore, Goto, ChatGoto, ChatTypeOK, InStep, Active, ChatStage, TypeOK
<1> QED
  BY <1>1, <1>2, <1>3, <1>4, <1>5, <1>6, <1>7, <1>8, <1>9, <1>10, <1>11, <1>12,
     <1>13, <1>14, <1>15 DEF Handle

LEMMA NextChatTypeOK == TypeOK /\ ChatTypeOK /\ [ChatNext]_allVars => ChatTypeOK'
<1> SUFFICES ASSUME TypeOK, ChatTypeOK, [ChatNext]_allVars
             PROVE  ChatTypeOK'
  OBVIOUS
<1>1. CASE ServerStep
  BY <1>1, ServerStage DEF ServerStep, httpVars, ChatTypeOK, InStep, Active
<1>2. CASE Tick /\ UNCHANGED httpVars
  BY <1>2 DEF Tick, httpVars, ChatTypeOK, InStep, Active
<1>3. CASE ChatCrash
  BY <1>3 DEF ChatCrash, InProgress, ChatTypeOK, InStep, Active, ChatStage, TypeOK
<1>4. CASE UNCHANGED allVars
  BY <1>4 DEF allVars, vars, httpVars, ChatTypeOK, InStep, Active
<1> QED
  BY <1>1, <1>2, <1>3, <1>4, RequestTypeOK DEF ChatNext

\* Type correctness of the gateway: however requests interleave, the handler
\* and the cache agree on how far each one got.
THEOREM GatewayTyped == ChatSpec => []ChatTypeOK
<1>1. TypeOK /\ ChatTypeOK /\ [ChatNext]_allVars => ChatTypeOK'
  BY NextChatTypeOK
<1> QED
  BY <1>1, InitChatTypeOK, GatewayProvenance, PTL DEF ChatSpec

-----------------------------------------------------------------------------
(* What is written was delivered *)

\* A point appears, or the write that creates it is on its way, only if its
\* store sent that write.
LEMMA UpsertStep ==
    ASSUME TypeOK, Provenance, [Next]_vars, NEW p \in Request,
           points'[p] # None \/ InFlight(p, "upsert")'
    PROVE  points[p] # None \/ InFlight(p, "upsert") \/ StoreBegin(p)
<1>1. CASE InFlight(p, "upsert")'
  <2>1. PICK w \in wire' : w.by = p /\ w.type = "upsert"
    BY <1>1 DEF InFlight
  <2> QED
    BY <2>1, WireStep DEF InFlight, Delete, SetPayload
<1>2. CASE points'[p] # None
  <2>1. ASSUME NEW w \in wire, w \in Upsert, w.by = p
        PROVE  InFlight(p, "upsert")
    BY <2>1 DEF InFlight, Upsert
  <2>2. \/ points'[p] = points[p]
        \/ points[p] # None
        \/ \E w \in wire : w \in Upsert /\ w.by = p
    BY PointStep
  <2> QED
    BY <1>2, <2>1, <2>2
<1> QED
  BY <1>1, <1>2

LEMMA SetPayloadStep ==
    ASSUME TypeOK, [Next]_vars, NEW r \in Request, InFlight(r, "set_payload")'
    PROVE  InFlight(r, "set_payload") \/ Increment(r)
<1>1. PICK w \in wire' : w.by = r /\ w.type = "set_payload"
  BY DEF InFlight
<1> QED
  BY <1>1, WireStep DEF InFlight, Delete, Upsert

\* Once a write may be under way, the response is what it is.
LEMMA ResponseStable ==
    ASSUME ChatTypeOK, [ChatNext]_allVars, NEW p \in Request,
           pc[p] \in {"update", "store", "done", "crashed"}
    PROVE  status'[p] = status[p] /\ body'[p] = body[p]
<1> USE DEF ChatTypeOK
<1>0. chat[p] \in {"background", "closed", "crashed"}
  BY DEF InStep, ChatStage
<1>1. ASSUME NEW r \in Request,
             \/ RefuseDefect(r) \/ RateLimited(r) \/ Embed(r) \/ Handle(r)
             \/ StreamCompletes(r) \/ StreamBreaks(r)
      PROVE  status'[p] = status[p] /\ body'[p] = body[p]
  BY <1>0, <1>1 DEF RefuseDefect, RateLimited, Embed, Handle, EmbeddingFails,
     EmbeddingReturns, LookupStep, HitResponse, MissResponse, NotConfigured, Count,
     HitSent, RecordHitStep, StoreStep, StreamCompletes, StreamBreaks, Refuse,
     SetStatus, httpVars
<1> QED
  BY <1>1 DEF ChatNext, ServerStep, ChatCrash, allVars, httpVars

\* The write of a hit count is under way only past record_hit's increment.
CountFollows(r) ==
    InFlight(r, "set_payload") =>
        pc[r] \in {"update", "done", "crashed"} /\ body[r] = "whole"

LEMMA CountFollowsStep ==
    ASSUME TypeOK, ChatTypeOK, ChatTypeOK', [ChatNext]_allVars, [Next]_vars,
           NEW r \in Request, CountFollows(r)
    PROVE  CountFollows(r)'
<1> SUFFICES ASSUME InFlight(r, "set_payload")'
             PROVE  pc'[r] \in {"update", "done", "crashed"} /\ body'[r] = "whole"
  BY DEF CountFollows
<1>1. CASE Increment(r)
  <2>1. pc'[r] = "update"
    BY <1>1 DEF Increment, Goto, TypeOK
  <2> QED
    BY <2>1 DEF ChatTypeOK, InStep, ChatStage, Active
<1>2. CASE InFlight(r, "set_payload")
  <2>1. pc[r] \in {"update", "done", "crashed"} /\ body[r] = "whole"
    BY <1>2 DEF CountFollows
  <2>2. body'[r] = "whole"
    BY <2>1, ResponseStable
  <2>3. ASSUME NEW q \in Request, Lookup(q)
        PROVE  pc'[r] = pc[r]
    BY <2>1, <2>3 DEF Lookup, ExactMatchHit, ExactMatchNone, VectorSearchHit,
       VectorSearchNone, EvictStale, ReturnHit, EvictReturns, Found, ReturnNone,
       Goto, TypeOK
  <2>4. ASSUME NEW q \in Request, RecordHit(q)
        PROVE  pc'[r] \in {"update", "done", "crashed"}
    BY <2>1, <2>4 DEF RecordHit, RecordHitRead, RecordHitNotFound, Increment,
       UpdateReturns, Goto, TypeOK
  <2>5. pc'[r] \in {"update", "done", "crashed"}
    BY <2>1, <2>3, <2>4, ServerStage
       DEF Next, BeginLookup, StoreBegin, NoStore, StoreReturns, Tick, Crash, vars,
           Goto, TypeOK
  <2> QED
    BY <2>2, <2>5
<1> QED
  BY <1>1, <1>2, SetPayloadStep

LEMMA DeliveredStep ==
    ASSUME TypeOK, Provenance, ChatTypeOK, ChatTypeOK', [ChatNext]_allVars, [Next]_vars,
           StoredAnswersWereDelivered
    PROVE  StoredAnswersWereDelivered'
<1> SUFFICES ASSUME NEW p \in Request, points'[p] # None \/ InFlight(p, "upsert")'
             PROVE  status'[p] = "MISS" /\ body'[p] = "whole"
  BY DEF StoredAnswersWereDelivered
<1>1. CASE StoreBegin(p)
  <2>1. pc'[p] = "store"
    BY <1>1 DEF StoreBegin, Goto, TypeOK
  <2> QED
    BY <2>1 DEF ChatTypeOK, InStep, ChatStage, Active
<1>2. CASE points[p] # None \/ InFlight(p, "upsert")
  <2>1. pc[p] \in {"store", "done", "crashed"}
    BY <1>2 DEF Provenance, PointInv, Stored, InFlight, WireInv, UpsertInv
  <2> QED
    BY <1>2, <2>1, ResponseStable DEF StoredAnswersWereDelivered
<1> QED
  BY <1>1, <1>2, UpsertStep

\* A snapshot is of a delivered answer, whatever became of the entry.
SnapshotDelivered(r) ==
    payload[r] # None =>
        LET author == payload[r].point_id
        IN  status[author] = "MISS" /\ body[author] = "whole"

LEMMA SnapshotDeliveredStep ==
    ASSUME TypeOK, Provenance, ChatTypeOK, [ChatNext]_allVars, [Next]_vars,
           StoredAnswersWereDelivered, NEW r \in Request, SnapshotDelivered(r)
    PROVE  SnapshotDelivered(r)'
<1> SUFFICES ASSUME payload'[r] # None
             PROVE  /\ status'[payload'[r].point_id] = "MISS"
                    /\ body'[payload'[r].point_id] = "whole"
  BY DEF SnapshotDelivered
<1>p. PICK p \in Request : p = payload'[r].point_id
  BY NextTypeOK DEF TypeOK, Snapshot
<1>1. points[p] # None \/ (payload[r] # None /\ payload[r].point_id = p)
  BY <1>p, SnapshotSource
<1>2. status[p] = "MISS" /\ body[p] = "whole"
  BY <1>1 DEF StoredAnswersWereDelivered, SnapshotDelivered
<1>3. Stored(p)
  BY <1>1 DEF Provenance, PointInv, PayloadInv
<1>4. status'[p] = status[p] /\ body'[p] = body[p]
  BY <1>3, ResponseStable DEF Stored
<1> QED
  BY <1>p, <1>2, <1>4

Deliveries ==
    /\ StoredAnswersWereDelivered
    /\ \A r \in Request : CountFollows(r) /\ SnapshotDelivered(r)

THEOREM DeliveryInvariant == ChatSpec => [](ChatTypeOK /\ Deliveries)
<1>1. ChatInit => Deliveries
  BY DEF ChatInit, Init, Deliveries, StoredAnswersWereDelivered, CountFollows,
     SnapshotDelivered, InFlight
<1>2. (TypeOK /\ Provenance) /\ ChatTypeOK /\ ChatTypeOK' /\ Deliveries /\ [ChatNext]_allVars
        => Deliveries'
  BY ChatDrivesCache, CountFollowsStep, DeliveredStep, SnapshotDeliveredStep
     DEF Deliveries
<1> QED
  BY <1>1, <1>2, GatewayTyped, GatewayProvenance, PTL DEF ChatSpec

\* Only an answer that was sent to its client to the end is ever in the cache or
\* on its way there, across crashes and late writes.
THEOREM OnlyDeliveredIsStored == ChatSpec => []StoredAnswersWereDelivered
BY DeliveryInvariant, PTL DEF Deliveries

\* No client is served, from the cache, an answer that was not sent to the end
\* to the client it was made for.
THEOREM OnlyDeliveredIsServed == ChatSpec => []ServedAnswersWereDelivered
<1>1. Provenance /\ Deliveries => ServedAnswersWereDelivered
  BY DEF Provenance, ResultInv, Deliveries, SnapshotDelivered, ServedAnswersWereDelivered
<1> QED
  BY <1>1, DeliveryInvariant, GatewayProvenance, PTL

\* No client waits for a write of its own request to the cache.
THEOREM WritesComeLast == ChatSpec => []WritesFollowTheAnswer
<1>1. ChatTypeOK /\ Deliveries => WritesFollowTheAnswer
  <2> SUFFICES ASSUME ChatTypeOK, Deliveries, NEW r \in Request,
                      \/ pc[r] \in {"increment", "update", "store"}
                      \/ InFlight(r, "upsert")
                      \/ InFlight(r, "set_payload")
               PROVE  body[r] = "whole"
    BY DEF WritesFollowTheAnswer
  <2>1. CASE pc[r] \in {"increment", "update", "store"}
    BY <2>1 DEF ChatTypeOK, InStep, ChatStage, Active
  <2>2. CASE InFlight(r, "upsert")
    BY <2>2 DEF Deliveries, StoredAnswersWereDelivered
  <2>3. CASE InFlight(r, "set_payload")
    BY <2>3 DEF Deliveries, CountFollows
  <2> QED
    BY <2>1, <2>2, <2>3
<1> QED
  BY <1>1, DeliveryInvariant, PTL

-----------------------------------------------------------------------------
(* What is counted was sent *)

\* No body before the response is sent.
BodyLater ==
    \A r \in Request :
        chat[r] \in {"new", "embed", "lookup", "started", "sending"} => body[r] = "none"

\* The steps of q that send a body, or end the exchange without one.
Sends(q) ==
    \/ RefuseDefect(q) \/ RateLimited(q) \/ EmbeddingFails(q) \/ NotConfigured(q)
    \/ HitSent(q) \/ StreamCompletes(q) \/ StreamBreaks(q)

\* The other steps of q.
Proceeds(q) ==
    \/ Embed(q) \/ EmbeddingReturns(q) \/ LookupStep(q) \/ HitResponse(q)
    \/ MissResponse(q) \/ Count(q) \/ RecordHitStep(q) \/ StoreStep(q)

LEMMA StepKinds ==
    ASSUME [ChatNext]_allVars
    PROVE  \/ \E q \in Request : Sends(q) \/ Proceeds(q)
           \/ ChatCrash
           \/ UNCHANGED httpVars
BY DEF ChatNext, Handle, Sends, Proceeds, ServerStep, allVars

LEMMA BodyLaterStep ==
    ASSUME ChatTypeOK, BodyLater, [ChatNext]_allVars
    PROVE  BodyLater'
<1> SUFFICES ASSUME NEW r \in Request,
                    chat'[r] \in {"new", "embed", "lookup", "started", "sending"}
             PROVE  body'[r] = "none"
  BY DEF BodyLater
<1> USE DEF ChatTypeOK, BodyLater
<1>1. ASSUME NEW q \in Request, Sends(q)
      PROVE  body'[r] = "none"
  BY <1>1 DEF Sends, RefuseDefect, RateLimited, EmbeddingFails, NotConfigured, HitSent,
     StreamCompletes, StreamBreaks, Refuse, ChatGoto
<1>2. ASSUME NEW q \in Request, Proceeds(q)
      PROVE  body'[r] = "none"
  BY <1>2 DEF Proceeds, Embed, EmbeddingReturns, LookupStep, HitResponse, MissResponse,
     Count, RecordHitStep, StoreStep, ChatGoto, httpVars
<1>3. CASE ChatCrash
  BY <1>3 DEF ChatCrash
<1>4. CASE UNCHANGED httpVars
  BY <1>4 DEF httpVars
<1> QED
  BY <1>1, <1>2, <1>3, <1>4, StepKinds

\* A request that was answered by a hit says so from its response on, and for
\* ever once its body was sent.
HitIsStated(r) ==
    IsHit(r) =>
        /\ chat[r] \in {"lookup", "started", "sending", "background", "crashed"}
        /\ chat[r] \in {"started", "sending", "background"} => status[r] = "HIT"
        /\ body[r] = "whole" => status[r] = "HIT"

LEMMA HitStatedStep ==
    ASSUME TypeOK, Provenance, ChatTypeOK, BodyLater, [ChatNext]_allVars, [Next]_vars,
           NEW r \in Request, HitIsStated(r)
    PROVE  HitIsStated(r)'
<1> DEFINE Stated == /\ chat'[r] \in {"lookup", "started", "sending", "background", "crashed"}
                     /\ chat'[r] \in {"started", "sending", "background"} => status'[r] = "HIT"
                     /\ body'[r] = "whole" => status'[r] = "HIT"
<1> SUFFICES ASSUME IsHit(r)'
             PROVE  Stated
  BY DEF HitIsStated
<1> USE DEF ChatTypeOK
<1>1. pc[r] \in {"idle", "miss", "store"} => ~IsHit(r)
  BY DEF Provenance, StageInv, IsHit
<1>2. chat[r] \in {"new", "embed"} => pc[r] = "idle"
  BY DEF InStep
<1>3. CASE chat[r] = "lookup" /\ chat' = chat
  BY <1>3, BodyLaterStep DEF BodyLater
<1>4. CASE result'[r] = result[r]
  <2>1. IsHit(r)
    BY <1>4 DEF IsHit
  <2>2. /\ chat[r] \in {"lookup", "started", "sending", "background", "crashed"}
        /\ chat[r] \in {"started", "sending", "background"} => status[r] = "HIT"
        /\ body[r] = "whole" => status[r] = "HIT"
    BY <2>1 DEF HitIsStated
  <2>3. pc[r] \notin {"idle", "miss", "store"}
    BY <1>1, <2>1
  <2>4. ASSUME NEW q \in Request, Sends(q)
        PROVE  Stated
    BY <2>2, <2>3, <2>4 DEF Sends, RefuseDefect, RateLimited, EmbeddingFails, NotConfigured,
       NoStore, HitSent, StreamCompletes, StreamBreaks, Refuse, SetStatus, ChatGoto
  <2>5. ASSUME NEW q \in Request, Proceeds(q)
        PROVE  Stated
    BY <2>2, <2>3, <2>5 DEF Proceeds, Embed, EmbeddingReturns, LookupStep, HitResponse,
       MissResponse, Count, RecordHitStep, StoreStep, SetStatus, ChatGoto, httpVars
  <2>6. CASE ChatCrash
    BY <2>2, <2>6 DEF ChatCrash
  <2>7. CASE UNCHANGED httpVars
    BY <2>2, <2>7 DEF httpVars
  <2> QED
    BY <2>4, <2>5, <2>6, <2>7, StepKinds
<1>5. result'[r] = result[r] \/ (chat[r] = "lookup" /\ chat' = chat)
  <2>1. ASSUME NEW q \in Request, LookupStep(q), q # r
        PROVE  result'[r] = result[r]
    BY <2>1 DEF LookupStep, Lookup, ExactMatchHit, ExactMatchNone, VectorSearchHit,
       VectorSearchNone, EvictStale, ReturnHit, EvictReturns, Found, ReturnNone, TypeOK
  <2>2. ASSUME LookupStep(r)
        PROVE  chat[r] = "lookup" /\ chat' = chat
    BY <2>2 DEF LookupStep, httpVars
  <2>3. ASSUME NEW q \in Request,
               \/ RefuseDefect(q) \/ RateLimited(q) \/ Embed(q) \/ EmbeddingFails(q)
               \/ EmbeddingReturns(q) \/ HitResponse(q)
               \/ MissResponse(q) \/ NotConfigured(q) \/ Count(q) \/ HitSent(q)
               \/ RecordHitStep(q) \/ StoreStep(q) \/ StreamCompletes(q) \/ StreamBreaks(q)
        PROVE  result' = result
    BY <2>3 DEF RefuseDefect, RateLimited, Embed, EmbeddingFails, EmbeddingReturns,
       BeginLookup, HitResponse, MissResponse, NotConfigured, NoStore, Count, HitSent,
       RecordHitStep, RecordHit, RecordHitRead, RecordHitNotFound, Increment,
       UpdateReturns, StoreStep, StoreBegin, StoreReturns, StreamCompletes, StreamBreaks, vars
  <2>4. ASSUME ServerStep \/ Tick \/ ChatCrash \/ UNCHANGED allVars
        PROVE  result' = result
    BY <2>4 DEF ServerStep, Server, ApplyUpsert, ApplySetPayload, ApplyDelete, LoseWrite,
       Tick, ChatCrash, allVars, vars
  <2> QED
    BY <2>1, <2>2, <2>3, <2>4 DEF ChatNext, Handle
<1> QED
  BY <1>3, <1>4, <1>5

\* The response to a hit is never cut off.
HitsStayOpen == \A r \in Request : chat[r] = "closed" => status[r] # "HIT"

LEMMA HitsStayOpenStep ==
    ASSUME ChatTypeOK, HitsStayOpen, [ChatNext]_allVars
    PROVE  HitsStayOpen'
<1> SUFFICES ASSUME NEW r \in Request, chat'[r] = "closed"
             PROVE  status'[r] # "HIT"
  BY DEF HitsStayOpen
<1> USE DEF ChatTypeOK, HitsStayOpen
<1>1. ASSUME NEW q \in Request, Sends(q)
      PROVE  status'[r] # "HIT"
  BY <1>1, HttpAssumption DEF Sends, RefuseDefect, RateLimited, EmbeddingFails, NotConfigured,
     HitSent, StreamCompletes, StreamBreaks, Refuse, RefusalOf, Defect, SetStatus, ChatGoto
<1>2. ASSUME NEW q \in Request, Proceeds(q)
      PROVE  status'[r] # "HIT"
  BY <1>2 DEF Proceeds, Embed, EmbeddingReturns, LookupStep, HitResponse, MissResponse,
     Count, RecordHitStep, StoreStep, SetStatus, ChatGoto, httpVars
<1>3. CASE ChatCrash
  BY <1>3 DEF ChatCrash
<1>4. CASE UNCHANGED httpVars
  BY <1>4 DEF httpVars
<1> QED
  BY <1>1, <1>2, <1>3, <1>4, StepKinds

LEMMA ResponsesFinite ==
    ASSUME NEW outcome
    PROVE  /\ IsFiniteSet(Responses(outcome))
           /\ Cardinality(Responses(outcome)) \in Nat
BY RequestAssumption, FS_Subset, FS_CardinalityType DEF Responses

\* A response becomes one of those the middleware saw when it counts it.
LEMMA CountedResponse ==
    ASSUME ChatTypeOK, NEW r \in Request, Count(r), NEW outcome \in {"HIT", "MISS"}
    PROVE  Cardinality(Responses(outcome))' =
               IF status[r] = outcome THEN Cardinality(Responses(outcome)) + 1
                                      ELSE Cardinality(Responses(outcome))
<1> USE DEF ChatTypeOK
<1>1. CASE status[r] = outcome
  <2>1. Responses(outcome)' = Responses(outcome) \cup {r} /\ r \notin Responses(outcome)
    BY <1>1 DEF Count, ChatGoto, Responses
  <2>2. Cardinality(Responses(outcome) \cup {r}) = Cardinality(Responses(outcome)) + 1
    BY <2>1, ResponsesFinite, FS_AddElement
  <2> QED
    BY <1>1, <2>1, <2>2
<1>2. CASE status[r] # outcome
  <2>1. Responses(outcome)' = Responses(outcome)
    BY <1>2 DEF Count, ChatGoto, Responses
  <2> QED
    BY <1>2, <2>1
<1> QED
  BY <1>1, <1>2

\* No other step of a request makes it one, or takes it away.
LEMMA OtherResponses ==
    ASSUME ChatTypeOK, NEW r \in Request, Sends(r) \/ (Proceeds(r) /\ ~Count(r)),
           NEW outcome \in {"HIT", "MISS"}
    PROVE  /\ Responses(outcome)' = Responses(outcome)
           /\ counters' = counters
<1> USE DEF ChatTypeOK
<1>1. CASE RefuseDefect(r) \/ RateLimited(r) \/ EmbeddingFails(r) \/ NotConfigured(r)
  <2>1. PICK s \in Status \ {"HIT", "MISS"} : Refuse(r, s)
    BY <1>1, HttpAssumption DEF RefuseDefect, RateLimited, EmbeddingFails, NotConfigured,
       RefusalOf, Defect, Status
  <2>2. chat[r] \in {"new", "embed", "lookup"}
    BY <1>1 DEF RefuseDefect, RateLimited, EmbeddingFails, NotConfigured
  <2> QED
    BY <2>1, <2>2 DEF Refuse, SetStatus, ChatGoto, Responses
<1>2. CASE HitSent(r) \/ StreamCompletes(r) \/ StreamBreaks(r)
  BY <1>2 DEF HitSent, StreamCompletes, StreamBreaks, ChatGoto, Responses
<1>3. CASE Embed(r) \/ EmbeddingReturns(r) \/ HitResponse(r) \/ MissResponse(r)
  BY <1>3 DEF Embed, EmbeddingReturns, HitResponse, MissResponse, SetStatus, ChatGoto, Responses
<1>4. CASE LookupStep(r) \/ RecordHitStep(r) \/ StoreStep(r)
  BY <1>4 DEF LookupStep, RecordHitStep, StoreStep, httpVars, Responses
<1> QED
  BY <1>1, <1>2, <1>3, <1>4 DEF Sends, Proceeds

\* A request of a dead process takes no step.
LEMMA CrashedStays ==
    ASSUME ChatTypeOK, [ChatNext]_allVars, \E r \in Request : chat[r] = "crashed"
    PROVE  \E r \in Request : chat'[r] = "crashed"
<1> USE DEF ChatTypeOK
<1>1. PICK r \in Request : chat[r] = "crashed"
  OBVIOUS
<1>2. ASSUME NEW q \in Request, Sends(q)
      PROVE  chat'[r] = "crashed"
  BY <1>1, <1>2 DEF Sends, RefuseDefect, RateLimited, EmbeddingFails, NotConfigured, HitSent,
     StreamCompletes, StreamBreaks, Refuse, ChatGoto
<1>3. ASSUME NEW q \in Request, Proceeds(q)
      PROVE  chat'[r] = "crashed"
  BY <1>1, <1>3 DEF Proceeds, Embed, EmbeddingReturns, LookupStep, HitResponse, MissResponse,
     Count, RecordHitStep, StoreStep, ChatGoto, httpVars
<1>4. CASE ChatCrash
  BY <1>1, <1>4 DEF ChatCrash, InProgress
<1>5. CASE UNCHANGED httpVars
  BY <1>1, <1>5 DEF httpVars
<1> QED
  BY <1>2, <1>3, <1>4, <1>5, StepKinds

\* The counters of the living process.
MetricsAgree ==
    /\ counters.cache_hits = Cardinality(Responses("HIT"))
    /\ counters.cache_misses <= Cardinality(Responses("MISS"))
    /\ (\A r \in Request : chat[r] # "crashed") =>
           counters.cache_misses = Cardinality(Responses("MISS"))

LEMMA MetricsAgreeStep ==
    ASSUME ChatTypeOK, HitsStayOpen, MetricsAgree, [ChatNext]_allVars
    PROVE  MetricsAgree'
<1>0. counters.cache_hits \in Nat /\ counters.cache_misses \in Nat
  BY DEF ChatTypeOK
<1>1. ASSUME NEW r \in Request, Count(r)
      PROVE  MetricsAgree'
  <2>1. /\ counters'.cache_hits =
               IF status[r] = "HIT" THEN counters.cache_hits + 1 ELSE counters.cache_hits
        /\ counters'.cache_misses =
               IF status[r] = "MISS" THEN counters.cache_misses + 1 ELSE counters.cache_misses
    BY <1>1 DEF Count, ChatTypeOK
  <2>2. (\A q \in Request : chat'[q] # "crashed") => \A q \in Request : chat[q] # "crashed"
    BY CrashedStays
  <2>3. /\ Cardinality(Responses("HIT")) \in Nat
        /\ Cardinality(Responses("MISS")) \in Nat
    BY ResponsesFinite
  <2>4. /\ Cardinality(Responses("HIT"))' =
               IF status[r] = "HIT" THEN Cardinality(Responses("HIT")) + 1
                                    ELSE Cardinality(Responses("HIT"))
        /\ Cardinality(Responses("MISS"))' =
               IF status[r] = "MISS" THEN Cardinality(Responses("MISS")) + 1
                                     ELSE Cardinality(Responses("MISS"))
    BY <1>1, CountedResponse
  <2> QED
    BY <1>0, <2>1, <2>2, <2>3, <2>4 DEF MetricsAgree
<1>2. ASSUME counters' = counters, \A o \in {"HIT", "MISS"} : Responses(o)' = Responses(o)
      PROVE  MetricsAgree'
  <2>1. (\A q \in Request : chat'[q] # "crashed") => \A q \in Request : chat[q] # "crashed"
    BY CrashedStays
  <2>2. Responses("HIT")' = Responses("HIT") /\ Responses("MISS")' = Responses("MISS")
    BY <1>2
  <2> QED
    BY <1>2, <2>1, <2>2 DEF MetricsAgree
<1>3. CASE ChatCrash
  <2>1. counters'.cache_hits = 0 /\ counters'.cache_misses = 0
    BY <1>3 DEF ChatCrash
  <2>2. Responses("HIT")' = {}
    BY <1>3 DEF ChatCrash, InProgress, Responses, HitsStayOpen
  <2>3. Cardinality(Responses("HIT"))' = 0
    BY <2>2, FS_EmptySet
  <2>4. Cardinality(Responses("MISS"))' \in Nat
    <3>1. IsFiniteSet(Responses("MISS")')
      BY RequestAssumption, FS_Subset DEF Responses
    <3> QED
      BY <3>1, FS_CardinalityType
  <2>5. \E r \in Request : chat'[r] = "crashed"
    BY <1>3 DEF ChatCrash
  <2> QED
    BY <2>1, <2>3, <2>4, <2>5 DEF MetricsAgree
<1>4. CASE UNCHANGED httpVars
  BY <1>2, <1>4 DEF httpVars, Responses
<1>5. ASSUME NEW r \in Request, Sends(r) \/ (Proceeds(r) /\ ~Count(r))
      PROVE  MetricsAgree'
  BY <1>2, <1>5, OtherResponses
<1> QED
  BY <1>1, <1>3, <1>4, <1>5, StepKinds

\* The settled hits on p whose response was sent to its end.
CreditedHits(p) == {r \in SettledHits(p) : body[r] = "whole"}

LEMMA CreditedFinite ==
    ASSUME NEW p \in Request
    PROVE  IsFiniteSet(CreditedHits(p)) /\ Cardinality(CreditedHits(p)) \in Nat
BY SettledFinite, FS_Subset, FS_CardinalityType DEF CreditedHits

LEMMA CreditedGrows ==
    ASSUME TypeOK, Provenance, ChatTypeOK, [ChatNext]_allVars, [Next]_vars, NEW p \in Request
    PROVE  CreditedHits(p) \subseteq CreditedHits(p)'
<1> SUFFICES ASSUME NEW r \in CreditedHits(p)
             PROVE  r \in CreditedHits(p)'
  OBVIOUS
<1>1. /\ r \in Request /\ r \in SettledHits(p) /\ body[r] = "whole"
      /\ IsHit(r) /\ pc[r] \notin {"hit", "increment"}
  BY DEF CreditedHits, SettledHits, HitsOn
<1>2. pc[r] \in {"update", "done", "crashed"}
  BY <1>1 DEF TypeOK, Provenance, StageInv, IsHit, Stage
<1>3. body'[r] = "whole"
  BY <1>1, <1>2, ResponseStable
<1>4. r \in SettledHits(p)'
  BY <1>1, SettledGrows
<1> QED
  BY <1>3, <1>4 DEF CreditedHits

LEMMA CreditGrows ==
    ASSUME TypeOK, Provenance, ChatTypeOK, [ChatNext]_allVars, [Next]_vars, NEW p \in Request
    PROVE  /\ Cardinality(CreditedHits(p)) \in Nat
           /\ Cardinality(CreditedHits(p))' \in Nat
           /\ Cardinality(CreditedHits(p)) <= Cardinality(CreditedHits(p))'
<1>1. IsFiniteSet(CreditedHits(p))'
  BY RequestAssumption, FS_Subset DEF CreditedHits, SettledHits, HitsOn
<1> QED
  BY <1>1, CreditedFinite, CreditedGrows, FS_Subset, FS_CardinalityType

\* The task that increments runs after its response, and earns its own credit.
LEMMA IncrementCredits ==
    ASSUME TypeOK, Provenance, ChatTypeOK, ChatTypeOK', [ChatNext]_allVars, [Next]_vars,
           NEW r \in Request, Increment(r), NEW p \in Request, result[r].vector_id = p
    PROVE  Cardinality(CreditedHits(p)) + 1 <= Cardinality(CreditedHits(p))'
<1>1. r \notin CreditedHits(p)
  BY DEF Increment, CreditedHits, SettledHits
<1>2. r \in SettledHits(p)'
  BY DEF Increment, SettledHits, HitsOn, Goto, TypeOK, IsHit
<1>3. body'[r] = "whole"
  <2>1. pc'[r] = "update"
    BY DEF Increment, Goto, TypeOK
  <2> QED
    BY <2>1 DEF ChatTypeOK, InStep, ChatStage, Active
<1>4. CreditedHits(p) \cup {r} \subseteq CreditedHits(p)'
  BY <1>2, <1>3, CreditedGrows DEF CreditedHits
<1>5. IsFiniteSet(CreditedHits(p)')
  BY RequestAssumption, FS_Subset DEF CreditedHits, SettledHits, HitsOn
<1>6. Cardinality(CreditedHits(p) \cup {r}) = Cardinality(CreditedHits(p)) + 1
  BY <1>1, CreditedFinite, FS_AddElement
<1>7. Cardinality(CreditedHits(p) \cup {r}) <= Cardinality(CreditedHits(p)')
  BY <1>4, <1>5, FS_Subset
<1> QED
  BY <1>6, <1>7

\* No count, wherever it is, exceeds one plus the hits that were sent.
Crediting ==
    /\ \A p \in Request :
           points[p] # None => points[p].lfu_count <= 1 + Cardinality(CreditedHits(p))
    /\ \A r \in Request :
           payload[r] # None =>
               payload[r].fields.lfu_count
                   <= 1 + Cardinality(CreditedHits(payload[r].point_id))
    /\ \A w \in wire :
           w.type = "set_payload" =>
               w.lfu_count <= 1 + Cardinality(CreditedHits(w.point_id))

LEMMA PointCreditingStep ==
    ASSUME TypeOK, Provenance, Counting, ChatTypeOK, Crediting, [ChatNext]_allVars,
           [Next]_vars, NEW p \in Request, points'[p] # None
    PROVE  points'[p].lfu_count <= 1 + Cardinality(CreditedHits(p))'
<1> DEFINE old == Cardinality(CreditedHits(p))
           new == Cardinality(CreditedHits(p)')
<1>0. old \in Nat /\ new \in Nat /\ old <= new
  BY CreditGrows
<1>1. ASSUME points[p] # None
      PROVE  /\ points[p] \in Payload
             /\ points[p].lfu_count \in Nat
             /\ points[p].lfu_count <= 1 + old
  BY <1>1 DEF TypeOK, Crediting, Payload
<1>2. CASE points'[p] = points[p]
  BY <1>0, <1>1, <1>2
<1>3. ASSUME NEW w \in wire, w \in Upsert, points'[p] = w.payload
      PROVE  points'[p].lfu_count <= 1 + new
  <2>1. w.payload.lfu_count = 1
    BY <1>3 DEF Counting, Upsert
  <2> QED
    BY <1>0, <1>3, <2>1
<1>4. ASSUME points[p] # None, NEW w \in wire, w \in SetPayload, w.point_id = p,
             points'[p] = Updated(points[p], w)
      PROVE  points'[p].lfu_count <= 1 + new
  <2>1. w.lfu_count <= 1 + old /\ w.lfu_count \in Nat
    BY <1>4 DEF Crediting, SetPayload
  <2>2. points'[p].lfu_count = w.lfu_count
    BY <1>1, <1>4, UpdatedPayload
  <2> QED
    BY <1>0, <2>1, <2>2
<1> QED
  BY <1>2, <1>3, <1>4, PointStep

LEMMA SnapshotCreditingStep ==
    ASSUME TypeOK, Provenance, ChatTypeOK, Crediting, [ChatNext]_allVars, [Next]_vars,
           NEW r \in Request, payload'[r] # None
    PROVE  payload'[r].fields.lfu_count
               <= 1 + Cardinality(CreditedHits(payload[r].point_id))'
<1>0. TypeOK'
  BY NextTypeOK
<1>p. PICK p \in Request : p = payload'[r].point_id
  BY <1>0 DEF TypeOK, Snapshot
<1>1. \/ points[p] # None /\ payload'[r].fields = points[p]
      \/ payload[r] # None /\ payload[r].point_id = p /\ payload'[r].fields = payload[r].fields
  BY <1>p, SnapshotSource
<1>2. payload'[r].fields.lfu_count <= 1 + Cardinality(CreditedHits(p))
  BY <1>1 DEF Crediting
<1>3. payload'[r].fields.lfu_count \in Nat
  BY <1>0 DEF TypeOK, Snapshot, Payload
<1>4. /\ Cardinality(CreditedHits(p)) \in Nat
      /\ Cardinality(CreditedHits(p))' \in Nat
      /\ Cardinality(CreditedHits(p)) <= Cardinality(CreditedHits(p))'
  BY CreditGrows
<1> QED
  BY <1>p, <1>2, <1>3, <1>4

LEMMA WireCreditingStep ==
    ASSUME TypeOK, Provenance, ChatTypeOK, ChatTypeOK', Crediting, [ChatNext]_allVars,
           [Next]_vars, NEW w \in wire', w.type = "set_payload"
    PROVE  w.lfu_count <= 1 + Cardinality(CreditedHits(w.point_id))'
<1>1. w \in SetPayload
  BY NextTypeOK DEF TypeOK, Upsert, SetPayload, Delete
<1>p. PICK p \in Request : p = w.point_id
  BY <1>1 DEF SetPayload
<1>2. /\ Cardinality(CreditedHits(p)) \in Nat
      /\ Cardinality(CreditedHits(p))' \in Nat
      /\ Cardinality(CreditedHits(p)) <= Cardinality(CreditedHits(p))'
  BY CreditGrows
<1>3. w.lfu_count \in Nat
  BY <1>1 DEF SetPayload
<1>4. CASE w \in wire
  <2>1. w.lfu_count <= 1 + Cardinality(CreditedHits(p))
    BY <1>p, <1>4 DEF Crediting
  <2> QED
    BY <1>p, <1>2, <1>3, <2>1
<1>5. CASE w \notin wire
  <2>r. PICK r \in Request : r = w.by
    BY <1>1 DEF SetPayload
  <2>1. Increment(r)
    BY <1>5, <2>r, WireStep DEF Delete, Upsert
  <2>2. w.point_id = result[r].vector_id /\ w.lfu_count = payload[r].fields.lfu_count + 1
    BY <1>5, <2>1 DEF Increment, Send
  <2>3. payload[r] # None /\ payload[r].point_id = p
    BY <1>p, <2>1, <2>2 DEF Increment, TypeOK, Provenance, ResultInv
  <2>4. /\ payload[r].fields.lfu_count <= 1 + Cardinality(CreditedHits(p))
        /\ payload[r].fields.lfu_count \in Nat
    BY <2>3 DEF Crediting, TypeOK, Snapshot, Payload
  <2>5. Cardinality(CreditedHits(p)) + 1 <= Cardinality(CreditedHits(p))'
    BY <1>p, <2>1, <2>2, IncrementCredits
  <2> QED
    BY <1>p, <1>2, <2>2, <2>4, <2>5
<1> QED
  BY <1>4, <1>5

Reporting ==
    /\ BodyLater
    /\ HitsStayOpen
    /\ MetricsAgree
    /\ \A r \in Request : HitIsStated(r)
    /\ Crediting

LEMMA InitReporting == ChatInit => Reporting
<1> SUFFICES ASSUME ChatInit
             PROVE  Reporting
  OBVIOUS
<1>1. Responses("HIT") = {} /\ Responses("MISS") = {}
  BY DEF ChatInit, Responses
<1>2. MetricsAgree
  BY <1>1, FS_EmptySet DEF ChatInit, MetricsAgree
<1> QED
  BY <1>2, HttpAssumption DEF ChatInit, Init, Reporting, BodyLater, HitsStayOpen, HitIsStated,
     IsHit, Crediting, Status

LEMMA NextReporting ==
    ASSUME TypeOK, Provenance, Counting, ChatTypeOK, ChatTypeOK', Reporting,
           [ChatNext]_allVars
    PROVE  Reporting'
<1>1. [Next]_vars
  BY ChatDrivesCache
<1>2. BodyLater' /\ HitsStayOpen' /\ MetricsAgree'
  BY BodyLaterStep, HitsStayOpenStep, MetricsAgreeStep DEF Reporting
<1>3. \A r \in Request : HitIsStated(r)'
  BY <1>1, HitStatedStep DEF Reporting
<1>4. Crediting'
  BY <1>1, PointCreditingStep, SnapshotCreditingStep, WireCreditingStep DEF Reporting, Crediting
<1> QED
  BY <1>2, <1>3, <1>4 DEF Reporting

THEOREM ReportingInvariant == ChatSpec => []Reporting
<1>1. (TypeOK /\ Provenance) /\ Counting /\ ChatTypeOK /\ ChatTypeOK' /\ Reporting
        /\ [ChatNext]_allVars => Reporting'
  BY NextReporting
<1>2. ChatSpec => [](TypeOK /\ Counting)
  BY GatewayDrivesTheCache, CountingInvariant, PTL DEF DrivesTheCache
<1> QED
  BY <1>1, <1>2, InitReporting, GatewayTyped, GatewayProvenance, PTL DEF ChatSpec

\* /metrics counts the responses, and no entry is credited with a hit whose
\* response was not sent, whatever dies when.
THEOREM CountsAreOfResponses == ChatSpec => []CountersFollowResponses
<1>1. TypeOK /\ Reporting => CountersFollowResponses
  <2> SUFFICES ASSUME TypeOK, Reporting, NEW p \in Request, points[p] # None
               PROVE  points[p].lfu_count - 1
                          <= Cardinality({r \in HitsOn(p) : status[r] = "HIT" /\ body[r] = "whole"})
    BY DEF CountersFollowResponses, Reporting, MetricsAgree
  <2> DEFINE sent == {r \in HitsOn(p) : status[r] = "HIT" /\ body[r] = "whole"}
  <2>1. CreditedHits(p) \subseteq sent
    BY DEF CreditedHits, SettledHits, HitsOn, Reporting, HitIsStated
  <2>2. IsFiniteSet(sent)
    BY SettledFinite, FS_Subset
  <2>3. /\ Cardinality(CreditedHits(p)) \in Nat /\ Cardinality(sent) \in Nat
        /\ Cardinality(CreditedHits(p)) <= Cardinality(sent)
    BY <2>1, <2>2, CreditedFinite, FS_Subset, FS_CardinalityType
  <2>4. points[p].lfu_count <= 1 + Cardinality(CreditedHits(p)) /\ points[p].lfu_count \in Nat
    BY DEF Reporting, Crediting, TypeOK, Payload
  <2> HIDE DEF sent
  <2>5. points[p].lfu_count - 1 <= Cardinality(sent)
    BY <2>3, <2>4
  <2> QED
    BY <2>5 DEF sent
<1> QED
  BY <1>1, GatewayProvenance, ReportingInvariant, PTL

-----------------------------------------------------------------------------
(* Streams *)

\* A step that sends is one of the streamed answer, if the response is one.
LEMMA SendingStep ==
    ASSUME ChatTypeOK, BodyLater, NEW r \in Request, NEW q \in Request, Sends(q)
    PROVE  [Answer(r)!Next]_(Answer(r)!vars)
<1> USE DEF ChatTypeOK, BodyLater, Answer!vars
<1>1. CASE q # r
  BY <1>1 DEF Sends, RefuseDefect, RateLimited, EmbeddingFails, NotConfigured, HitSent,
     StreamCompletes, StreamBreaks, Refuse, SetStatus
<1>2. CASE q = r /\ StreamCompletes(r)
  BY <1>2 DEF StreamCompletes, InStep, Answer!Next, Answer!Complete
<1>3. CASE q = r /\ StreamBreaks(r)
  BY <1>3 DEF StreamBreaks, Answer!Next, Answer!Break
<1>4. CASE q = r /\ HitSent(r)
  BY <1>4 DEF HitSent
<1>5. CASE /\ q = r
           /\ RefuseDefect(r) \/ RateLimited(r) \/ EmbeddingFails(r) \/ NotConfigured(r)
  <2>1. body[r] = "none"
    BY <1>5 DEF RefuseDefect, RateLimited, EmbeddingFails, NotConfigured
  <2>2. status'[r] # "MISS" /\ task' = task
    BY <1>5, HttpAssumption DEF RefuseDefect, RateLimited, EmbeddingFails, NotConfigured,
       Refuse, SetStatus, RefusalOf, Defect
  <2> QED
    BY <2>1, <2>2
<1> QED
  BY <1>1, <1>2, <1>3, <1>4, <1>5 DEF Sends

\* No other step touches it.
LEMMA OtherStep ==
    ASSUME ChatTypeOK, BodyLater, NEW r \in Request, NEW q \in Request, Proceeds(q)
    PROVE  UNCHANGED Answer(r)!vars
<1> USE DEF ChatTypeOK, BodyLater, Answer!vars
<1>1. CASE Embed(q) \/ EmbeddingReturns(q) \/ LookupStep(q) \/ Count(q)
           \/ RecordHitStep(q) \/ StoreStep(q)
  BY <1>1 DEF Embed, EmbeddingReturns, LookupStep, Count, RecordHitStep, StoreStep, httpVars
<1>2. CASE HitResponse(q)
  <2>1. body[q] = "none" /\ task[q] = None
    BY <1>2 DEF HitResponse, InStep
  <2>2. /\ status' = [status EXCEPT ![q] = "HIT"]
        /\ task' = [task EXCEPT ![q] = "record_hit"]
        /\ body' = body
    BY <1>2 DEF HitResponse, SetStatus
  <2>3. task[q] # "store"
    BY <2>1, HttpAssumption
  <2> QED
    BY <2>1, <2>2, <2>3
<1>3. CASE MissResponse(q)
  <2>1. body[q] = "none"
    BY <1>3 DEF MissResponse
  <2>2. status' = [status EXCEPT ![q] = "MISS"] /\ task' = task /\ body' = body
    BY <1>3 DEF MissResponse, SetStatus
  <2> QED
    BY <2>1, <2>2
<1> QED
  BY <1>1, <1>2, <1>3 DEF Proceeds

\* The handler relies on no more than what StreamIsAnswer, in StreamingProofs,
\* says of the stream: together they say that a store caches what a stream
\* that came to its end has sent.
THEOREM GatewayStreams == ChatSpec => StreamsAsPromised
<1>1. ChatInit => BodyLater /\ \A r \in Request : Answer(r)!Init
  BY HttpAssumption DEF ChatInit, BodyLater, Answer!Init, Status
<1>2. ChatTypeOK /\ BodyLater /\ [ChatNext]_allVars => BodyLater'
  BY BodyLaterStep
<1>3. ChatTypeOK /\ BodyLater /\ [ChatNext]_allVars
        => [\A r \in Request : [Answer(r)!Next]_(Answer(r)!vars)]_<<status, body, task>>
  <2> SUFFICES ASSUME ChatTypeOK, BodyLater, [ChatNext]_allVars, NEW r \in Request,
                      ~ UNCHANGED <<status, body, task>>
               PROVE  [Answer(r)!Next]_(Answer(r)!vars)
    OBVIOUS
  <2>1. ASSUME NEW q \in Request, Sends(q)
        PROVE  [Answer(r)!Next]_(Answer(r)!vars)
    BY <2>1, SendingStep
  <2>2. ASSUME NEW q \in Request, Proceeds(q)
        PROVE  [Answer(r)!Next]_(Answer(r)!vars)
    BY <2>2, OtherStep
  <2>3. ~ ChatCrash /\ ~ UNCHANGED httpVars
    BY DEF ChatCrash, httpVars
  <2> QED
    BY <2>1, <2>2, <2>3, StepKinds
<1> QED
  BY <1>1, <1>2, <1>3, GatewayTyped, PTL DEF ChatSpec, StreamsAsPromised
=============================================================================
