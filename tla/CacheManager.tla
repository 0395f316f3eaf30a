---------------------------- MODULE CacheManager ----------------------------
(***************************************************************************)
(* The semantic cache: db/cache_manager.py (lookup, record_hit, store) on  *)
(* top of db/qdrant_client.py and the two decorators of                    *)
(* core/circuit_breaker.py, driven by the tasks of concurrent chat         *)
(* requests.                                                               *)
(*                                                                         *)
(* A request runs lookup; after a hit its background task runs record_hit, *)
(* after a miss it may run store.  Everything between two awaits is one    *)
(* action, so tasks interleave exactly where the event loop may switch.  A *)
(* read of Qdrant is one action: the server's answer is what the task      *)
(* resumes with, however late it resumes.  A write is sent by one action,  *)
(* takes effect at the server in another, and returns to its task in a     *)
(* third: after a timeout, which the decorator swallows, the task goes on  *)
(* and the write may still land.                                           *)
(*                                                                         *)
(* Texts are abstract.  A tenant id and a normalized text are sequences of *)
(* the pieces between their colons, because the hash is taken over         *)
(* "{tenant}:{text}" and a colon may occur in both.  An embedding is       *)
(* determined by the normalized text, so a vector is that text, and        *)
(* similarities are in thousandths.  The uuid4 a store generates is the    *)
(* request that runs it, and so is the text its LLM stream produced.       *)
(***************************************************************************)
EXTENDS Integers, Sequences, FiniteSets

CONSTANTS
    Request,                  \* the chat requests; each runs once
    Args,                     \* Args[r]: what chat passes to lookup and store
    Text,                     \* query texts as the client sent them
    Piece,                    \* what stands between the colons of a string
    normalize_text,           \* normalize_text[q]: a query text, normalized
    Similarity,               \* Similarity[<<n, m>>]: cosine score, in thousandths
    CACHE_TTL_SECONDS,        \* life of a new entry
    LFU_SPIKE_THRESHOLD,      \* hits that make an entry hot
    LFU_SPIKE_TTL_EXTENSION,  \* life of a hot entry from its last counted hit
    QdrantMayFail,            \* may calls to Qdrant time out or be refused?
    ProcessMayCrash,          \* may the worker process die?
    MaxClock,                 \* bound on the clock
    None,                     \* Python's None
    Pending                   \* lookup has not returned

String == Seq(Piece)

Norm == {normalize_text[q] : q \in Text}

\* The requests of one deployment, however many.
ASSUME RequestAssumption == IsFiniteSet(Request)

\* A tenant id is free text that chat only checks for not being blank; the
\* threshold it passes is clamped below MAX_SIMILARITY_THRESHOLD < 1.
ASSUME ArgsAssumption ==
    /\ normalize_text \in [Text -> String]
    /\ Args \in [Request -> [tenant_id : String, query_text : Text,
                             similarity_threshold : 0 .. 999]]

\* A text is as similar to itself as can be: equal texts embed equally.
ASSUME SimilarityAssumption ==
    /\ Similarity \in [Norm \X Norm -> 0 .. 1000]
    /\ \A n \in Norm : Similarity[<<n, n>>] = 1000

ASSUME SettingsAssumption ==
    /\ CACHE_TTL_SECONDS \in Nat
    /\ LFU_SPIKE_THRESHOLD \in Nat
    /\ LFU_SPIKE_TTL_EXTENSION \in Nat
    /\ QdrantMayFail \in BOOLEAN
    /\ ProcessMayCrash \in BOOLEAN
    /\ MaxClock \in Nat

VARIABLES
    clock,    \* _utcnow(), in seconds
    pc,       \* pc[r]: the await or the stage r's task is at
    payload,  \* payload[r]: the last payload a read brought r's task, or None
    result,   \* result[r]: what lookup returned: a CacheResult, None, or Pending
    points,   \* points[p]: the payload of point p at the server, or None
    wire      \* the writes sent and not yet dealt with by the server

vars == <<clock, pc, payload, result, points, wire>>

-----------------------------------------------------------------------------
(* Types *)

Stage == {"idle", "exact", "vector", "validate", "evict", "hit", "increment",
          "update", "miss", "store", "done", "crashed"}

Payload == [tenant_id : String, query_hash : String, vector : Norm,
            response : Request, created_at : Nat, ttl_expiry : Nat,
            lfu_count : Nat]

\* A payload with _point_id injected, and the tier that found it.
Snapshot == [point_id : Request, match_type : {"exact", "semantic"},
             fields : Payload]

CacheResult == [vector_id : Request, response_text : Request,
                match_type : {"exact", "semantic"}]

\* The writes, with the request whose task sent them.
Upsert == [type : {"upsert"}, by : Request, point_id : Request, payload : Payload]
SetPayload == [type : {"set_payload"}, by : Request, point_id : Request,
               lfu_count : Nat, ttl_expiry : Nat \cup {None}]
Delete == [type : {"delete"}, by : Request, point_id : Request]

\* None and Pending are no records, and Pending is no request.
ASSUME SentinelAssumption ==
    /\ None # Pending
    /\ None \notin Nat \cup Payload \cup Snapshot \cup CacheResult
    /\ Pending \notin CacheResult \cup Request

-----------------------------------------------------------------------------
(* Helpers *)

\* SHA-256 of "{tenant_id}:{normalized}", taken to be collision-free: the
\* pieces of the tenant followed by the pieces of the text.
compute_query_hash(tenant_id, query_text) ==
    tenant_id \o normalize_text[query_text]

Tenant(r) == Args[r].tenant_id

Vector(r) == normalize_text[Args[r].query_text]

Score(r, p) == Similarity[<<Vector(r), points[p].vector>>]

\* Wrong: relies on the hash alone to keep tenants apart.
ExactMatchesByHashOnly(r) ==
    {p \in Request :
        /\ points[p] # None
        /\ points[p].query_hash = compute_query_hash(Tenant(r), Args[r].query_text)}

\* The points the scroll filter on tenant_id and query_hash admits.
ExactMatches(r) ==
    {p \in Request :
        /\ points[p] # None
        /\ points[p].tenant_id = Tenant(r)
        /\ points[p].query_hash = compute_query_hash(Tenant(r), Args[r].query_text)}

\* Wrong: no score_threshold.
SemanticMatchesAnyScore(r) ==
    {p \in Request : points[p] # None /\ points[p].tenant_id = Tenant(r)}

\* The points of the tenant whose score reaches the threshold.
SemanticMatches(r) ==
    {p \in Request :
        /\ points[p] # None
        /\ points[p].tenant_id = Tenant(r)
        /\ Score(r, p) >= Args[r].similarity_threshold}

IsHit(r) == result[r] # None /\ result[r] # Pending

\* Stages in which the task of a request exists.
Active(r) == pc[r] \notin {"idle", "done", "crashed"}

Send(write) == wire' = wire \cup {write}

\* A write of r's of that type is still on its way to the server.
InFlight(r, type) == \E w \in wire : w.by = r /\ w.type = type

Goto(r, stage) == pc' = [pc EXCEPT ![r] = stage]

-----------------------------------------------------------------------------
Init ==
    /\ clock = 0
    /\ pc = [r \in Request |-> "idle"]
    /\ payload = [r \in Request |-> None]
    /\ result = [r \in Request |-> Pending]
    /\ points = [p \in Request |-> None]
    /\ wire = {}

-----------------------------------------------------------------------------
(* lookup *)

BeginLookup(r) ==
    /\ pc[r] = "idle"
    /\ Goto(r, "exact")
    /\ UNCHANGED <<clock, payload, result, points, wire>>

Found(r, p, match_type) ==
    /\ payload' = [payload EXCEPT ![r] =
           [point_id |-> p, match_type |-> match_type, fields |-> points[p]]]
    /\ Goto(r, "validate")
    /\ UNCHANGED <<clock, result, points, wire>>

\* exact_match_lookup with limit=1: the scroll may return any admitted point,
\* since point ids are random.
ExactMatchHit(r) ==
    /\ pc[r] = "exact"
    /\ \E p \in ExactMatches(r) : Found(r, p, "exact")

\* No point, or a failed call degraded to None by with_cache_fallback.
ExactMatchNone(r) ==
    /\ pc[r] = "exact"
    /\ ExactMatches(r) = {} \/ QdrantMayFail
    /\ Goto(r, "vector")
    /\ UNCHANGED <<clock, payload, result, points, wire>>

\* vector_search with limit=1 returns a point of the highest score.
VectorSearchHit(r) ==
    /\ pc[r] = "vector"
    /\ \E p \in SemanticMatches(r) :
           /\ \A q \in SemanticMatches(r) : Score(r, q) <= Score(r, p)
           /\ Found(r, p, "semantic")

ReturnNone(r) ==
    /\ result' = [result EXCEPT ![r] = None]
    /\ Goto(r, "miss")
    /\ UNCHANGED <<clock, payload, points, wire>>

VectorSearchNone(r) ==
    /\ pc[r] = "vector"
    /\ SemanticMatches(r) = {} \/ QdrantMayFail
    /\ ReturnNone(r)

\* Wrong: an entry is stale in its last second.
EvictStaleEarly(r) ==
    /\ pc[r] = "validate"
    /\ clock >= payload[r].fields.ttl_expiry
    /\ Send([type |-> "delete", by |-> r, point_id |-> payload[r].point_id])
    /\ Goto(r, "evict")
    /\ UNCHANGED <<clock, payload, result, points>>

\* Step C, stale: the delete is sent and awaited before lookup returns None.
EvictStale(r) ==
    /\ pc[r] = "validate"
    /\ clock > payload[r].fields.ttl_expiry
    /\ Send([type |-> "delete", by |-> r, point_id |-> payload[r].point_id])
    /\ Goto(r, "evict")
    /\ UNCHANGED <<clock, payload, result, points>>

\* Wrong: what the vector tier found is not validated.
ReturnHitUnvalidated(r) ==
    /\ pc[r] = "validate"
    /\ payload[r].match_type = "exact" => clock <= payload[r].fields.ttl_expiry
    /\ result' = [result EXCEPT ![r] =
           [vector_id |-> payload[r].point_id,
            response_text |-> payload[r].fields.response,
            match_type |-> payload[r].match_type]]
    /\ Goto(r, "hit")
    /\ UNCHANGED <<clock, payload, points, wire>>

\* Step C, fresh: _build_cache_result.
ReturnHit(r) ==
    /\ pc[r] = "validate"
    /\ clock <= payload[r].fields.ttl_expiry
    /\ result' = [result EXCEPT ![r] =
           [vector_id |-> payload[r].point_id,
            response_text |-> payload[r].fields.response,
            match_type |-> payload[r].match_type]]
    /\ Goto(r, "hit")
    /\ UNCHANGED <<clock, payload, points, wire>>

\* An awaited write is answered once the server has dealt with it, or it
\* fails: VectorDBError is swallowed by fire_and_forget_with_log, and the
\* write, if it is still under way, may land later.
WriteReturned(r, type) == ~InFlight(r, type) \/ QdrantMayFail

\* Wrong: waits to see the entry gone.
EvictReturnsWhenGone(r) ==
    /\ pc[r] = "evict"
    /\ points[payload[r].point_id] = None
    /\ ReturnNone(r)

EvictReturns(r) ==
    /\ pc[r] = "evict"
    /\ WriteReturned(r, "delete")
    /\ ReturnNone(r)

-----------------------------------------------------------------------------
(* record_hit, the background task of a hit *)

\* Wrong: no check that the point was found.
RecordHitReadUnchecked(r) ==
    /\ pc[r] = "hit"
    /\ payload' = [payload EXCEPT ![r].fields = points[result[r].vector_id]]
    /\ Goto(r, "increment")
    /\ UNCHANGED <<clock, result, points, wire>>

RecordHitRead(r) ==
    /\ pc[r] = "hit"
    /\ points[result[r].vector_id] # None
    /\ payload' = [payload EXCEPT ![r].fields = points[result[r].vector_id]]
    /\ Goto(r, "increment")
    /\ UNCHANGED <<clock, result, points, wire>>

\* _get_raw_payload finds no point, or fails and is degraded to None.
RecordHitNotFound(r) ==
    /\ pc[r] = "hit"
    /\ points[result[r].vector_id] = None \/ QdrantMayFail
    /\ Goto(r, "done")
    /\ UNCHANGED <<clock, payload, result, points, wire>>

\* Wrong: promotes one hit too soon.
PromotionTooSoon(new_count) ==
    IF new_count >= LFU_SPIKE_THRESHOLD
    THEN clock + LFU_SPIKE_TTL_EXTENSION
    ELSE None

\* The new ttl_expiry of an entry with that many hits, or None to keep it.
Promotion(new_count) ==
    IF new_count > LFU_SPIKE_THRESHOLD
    THEN clock + LFU_SPIKE_TTL_EXTENSION
    ELSE None

Increment(r) ==
    /\ pc[r] = "increment"
    /\ LET new_count == payload[r].fields.lfu_count + 1
       IN  Send([type |-> "set_payload", by |-> r, point_id |-> result[r].vector_id,
                 lfu_count |-> new_count, ttl_expiry |-> Promotion(new_count)])
    /\ Goto(r, "update")
    /\ UNCHANGED <<clock, payload, result, points>>

\* Wrong: record_hit is retried when its write times out.
UpdateRetries(r) ==
    /\ pc[r] = "update"
    /\ WriteReturned(r, "set_payload")
    /\ \/ Goto(r, "done")
       \/ QdrantMayFail /\ Goto(r, "hit")
    /\ UNCHANGED <<clock, payload, result, points, wire>>

UpdateReturns(r) ==
    /\ pc[r] = "update"
    /\ WriteReturned(r, "set_payload")
    /\ Goto(r, "done")
    /\ UNCHANGED <<clock, payload, result, points, wire>>

-----------------------------------------------------------------------------
(* store, the background task of a miss whose stream ran to its end *)

NewPayload(r) ==
    [tenant_id  |-> Tenant(r),
     query_hash |-> compute_query_hash(Tenant(r), Args[r].query_text),
     vector     |-> Vector(r),
     response   |-> r,
     created_at |-> clock,
     ttl_expiry |-> clock + CACHE_TTL_SECONDS,
     lfu_count  |-> 1]

StoreBegin(r) ==
    /\ pc[r] = "miss"
    /\ Send([type |-> "upsert", by |-> r, point_id |-> r, payload |-> NewPayload(r)])
    /\ Goto(r, "store")
    /\ UNCHANGED <<clock, payload, result, points>>

\* The provider is not configured, or the stream failed or was cut off.
NoStore(r) ==
    /\ pc[r] = "miss"
    /\ Goto(r, "done")
    /\ UNCHANGED <<clock, payload, result, points, wire>>

\* Wrong: waits to see the entry stored.
StoreReturnsWhenStored(r) ==
    /\ pc[r] = "store"
    /\ points[r] # None
    /\ Goto(r, "done")
    /\ UNCHANGED <<clock, payload, result, points, wire>>

StoreReturns(r) ==
    /\ pc[r] = "store"
    /\ WriteReturned(r, "upsert")
    /\ Goto(r, "done")
    /\ UNCHANGED <<clock, payload, result, points, wire>>

-----------------------------------------------------------------------------
(* The Qdrant server *)

Consume(write) == wire' = wire \ {write}

\* Wrong: an entry with the same hash is overwritten in place.
ApplyUpsertByHash(w) ==
    /\ w.type = "upsert"
    /\ \E p \in ExactMatches(w.by) \cup {w.point_id} :
           /\ p = w.point_id => ExactMatches(w.by) = {}
           /\ points' = [points EXCEPT ![p] = w.payload]
    /\ Consume(w)
    /\ UNCHANGED <<clock, pc, payload, result>>

ApplyUpsert(w) ==
    /\ w.type = "upsert"
    /\ points' = [points EXCEPT ![w.point_id] = w.payload]
    /\ Consume(w)
    /\ UNCHANGED <<clock, pc, payload, result>>

Updated(old, w) ==
    [old EXCEPT !.lfu_count = w.lfu_count,
                !.ttl_expiry = IF w.ttl_expiry = None
                               THEN old.ttl_expiry ELSE w.ttl_expiry]

\* Wrong: the whole payload is written back, as by an upsert.
ApplySetPayloadAsUpsert(w) ==
    /\ w.type = "set_payload"
    /\ points' = [points EXCEPT ![w.point_id] = Updated(payload[w.by].fields, w)]
    /\ Consume(w)
    /\ UNCHANGED <<clock, pc, payload, result>>

\* set_payload overwrites the keys it is given, and creates no point.
ApplySetPayload(w) ==
    /\ w.type = "set_payload"
    /\ points' = [points EXCEPT ![w.point_id] =
           IF points[w.point_id] = None THEN None ELSE Updated(points[w.point_id], w)]
    /\ Consume(w)
    /\ UNCHANGED <<clock, pc, payload, result>>

ApplyDelete(w) ==
    /\ w.type = "delete"
    /\ points' = [points EXCEPT ![w.point_id] = None]
    /\ Consume(w)
    /\ UNCHANGED <<clock, pc, payload, result>>

LoseWrite(w) ==
    /\ QdrantMayFail
    /\ Consume(w)
    /\ UNCHANGED <<clock, pc, payload, result, points>>

-----------------------------------------------------------------------------
(* The environment *)

Tick ==
    /\ clock < MaxClock
    /\ clock' = clock + 1
    /\ UNCHANGED <<pc, payload, result, points, wire>>

\* The process dies with all its tasks; what they sent is on its way.
Crash ==
    /\ ProcessMayCrash
    /\ \E r \in Request : Active(r)
    /\ pc' = [r \in Request |-> IF Active(r) THEN "crashed" ELSE pc[r]]
    /\ UNCHANGED <<clock, payload, result, points, wire>>

-----------------------------------------------------------------------------
Lookup(r) ==
    \/ ExactMatchHit(r)
    \/ ExactMatchNone(r)
    \/ VectorSearchHit(r)
    \/ VectorSearchNone(r)
    \/ EvictStale(r)
    \/ ReturnHit(r)
    \/ EvictReturns(r)

RecordHit(r) ==
    \/ RecordHitRead(r)
    \/ RecordHitNotFound(r)
    \/ Increment(r)
    \/ UpdateReturns(r)

Server ==
    \E w \in wire :
        \/ ApplyUpsert(w)
        \/ ApplySetPayload(w)
        \/ ApplyDelete(w)
        \/ LoseWrite(w)

Next ==
    \/ \E r \in Request :
           \/ BeginLookup(r)
           \/ Lookup(r)
           \/ RecordHit(r)
           \/ StoreBegin(r)
           \/ NoStore(r)
           \/ StoreReturns(r)
    \/ Server
    \/ Tick
    \/ Crash

Spec == Init /\ [][Next]_vars

-----------------------------------------------------------------------------
(* Properties *)

\* Every variable has its type; a stage past the reads of lookup implies the
\* payload or the result the code there relies on.
TypeOK ==
    /\ clock \in Nat
    /\ pc \in [Request -> Stage]
    /\ payload \in [Request -> Snapshot \cup {None}]
    /\ result \in [Request -> CacheResult \cup {None, Pending}]
    /\ points \in [Request -> Payload \cup {None}]
    /\ wire \subseteq Upsert \cup SetPayload \cup Delete
    /\ \A r \in Request :
           /\ pc[r] \in {"validate", "evict", "hit", "increment"} => payload[r] # None
           /\ pc[r] \in {"hit", "increment", "update"} => IsHit(r)

\* No request is answered with, and no task counts a hit on or evicts, an
\* entry whose response was produced for another tenant: not even when two
\* tenants' "{tenant}:{text}" strings, and so their query hashes, are equal,
\* and although record_hit and delete_point address points by id alone.
TenantIsolation ==
    /\ \A r \in Request :
           IsHit(r) => Tenant(result[r].response_text) = Tenant(r)
    /\ \A w \in wire : Tenant(w.point_id) = Tenant(w.by)

\* The response a hit serves was produced for a question that is close enough
\* to the request's own by the request's own threshold, and for the very same
\* normalized question when the hit is reported as exact.
HitIsRelevant ==
    \A r \in Request :
        IsHit(r) =>
            LET author == result[r].response_text
            IN  /\ Similarity[<<Vector(r), Vector(author)>>]
                       >= Args[r].similarity_threshold
                /\ result[r].match_type = "exact" => Vector(author) = Vector(r)

\* The hits served from point p so far.
HitsOn(p) == {r \in Request : IsHit(r) /\ result[r].vector_id = p}

\* record_hit reads, increments and writes back without a lock, so counts can
\* be lost; but no interleaving, late write or crash makes an entry's counter
\* exceed one (its store) plus the hits it really served.
LfuCountsHits ==
    \A p \in Request :
        points[p] # None => points[p].lfu_count <= 1 + Cardinality(HitsOn(p))

\* An entry outlives its base TTL only if it served enough hits to be hot,
\* although the counter that the promotion was decided on can be overwritten
\* by a lower one.
PromotionIsEarned ==
    \A p \in Request :
        points[p] # None /\ points[p].ttl_expiry > points[p].created_at + CACHE_TTL_SECONDS
            => Cardinality(HitsOn(p)) >= LFU_SPIKE_THRESHOLD

\* The shortest life the settings give an entry: its base TTL, or the
\* extension if that is shorter.
MinLifetime ==
    IF CACHE_TTL_SECONDS <= LFU_SPIKE_TTL_EXTENSION
    THEN CACHE_TTL_SECONDS ELSE LFU_SPIKE_TTL_EXTENSION

\* A point disappears only by the eviction of an entry that has had its
\* shortest life: a delete decided on an old read, sent long ago, or left over
\* by a dead process never hits an entry younger than that.
NoEarlyEviction ==
    [][\A p \in Request :
           points[p] # None /\ points'[p] = None =>
               clock > points[p].created_at + MinLifetime]_vars

\* How EvictOnlyExpired, below, may fail: when a delete decided on an old read
\* takes a fresh entry away, the entry was promoted meanwhile.  An entry that
\* is not hot is never evicted while it is fresh, whatever lands late.
FreshEvictionIsOfHotEntry ==
    [][\A p \in Request :
           points[p] # None /\ points'[p] = None =>
               \/ clock > points[p].ttl_expiry
               \/ Cardinality(HitsOn(p)) >= LFU_SPIKE_THRESHOLD]_vars

\* No answer is served past the base TTL of its entry, from however old a read,
\* unless the entry had served enough hits to be hot before.
AnswersAreFresh ==
    [][\A r \in Request :
           ~IsHit(r) /\ IsHit(r)' =>
               \/ clock <= payload[r].fields.created_at + CACHE_TTL_SECONDS
               \/ Cardinality(HitsOn(payload[r].point_id)) >= LFU_SPIKE_THRESHOLD]_vars

\* An entry is what its author stored for as long as it lives: hits and late
\* writes touch its counter and its expiry only, and a point that a request
\* was pointed to is never taken over by another response.
EntryIsImmutable ==
    [][\A p \in Request :
           points[p] # None /\ points'[p] # None =>
               \A f \in DOMAIN points[p] \ {"lfu_count", "ttl_expiry"} :
                   points'[p][f] = points[p][f]]_vars

\* The background task of a hit, and a store once it began, come to an end.
BackgroundTasksEnd ==
    \A r \in Request :
        pc[r] \in {"hit", "store"} ~> pc[r] \in {"done", "crashed"}

-----------------------------------------------------------------------------
(* What docstrings say and interleavings break *)

\* db/qdrant_client.py:315: delete_point is "used for evicting expired entries".
EvictOnlyExpired ==
    [][\A p \in Request :
           points[p] # None /\ points'[p] = None => clock > points[p].ttl_expiry]_vars

\* db/cache_manager.py:12: "stale entries behave as misses", and a miss of the
\* exact tier goes on to the vector tier: a stale entry found there does not
\* hide a fresh one.
StaleEntryHidesNothing ==
    [][\A r \in Request :
           pc[r] = "validate" /\ pc'[r] = "evict" =>
               \A p \in ExactMatches(r) : clock > points[p].ttl_expiry]_vars

-----------------------------------------------------------------------------
(* Refinement *)

\* The answer p paid for may be given to r.
MayAnswer(p, r) ==
    /\ Tenant(p) = Tenant(r)
    /\ Similarity[<<Vector(r), Vector(p)>>] >= Args[r].similarity_threshold

Compatible == {pair \in Request \X Request : MayAnswer(pair[1], pair[2])}

Kept == {p \in Request : points[p] # None}

\* No write that could still create such a point is or will be under way.
Gone ==
    {p \in Request :
        /\ points[p] = None
        /\ pc[p] \in {"store", "done", "crashed"}
        /\ ~InFlight(p, "upsert")}

Offers ==
    [r \in Request |-> IF payload[r] = None THEN Pending ELSE payload[r].point_id]

Answers ==
    [r \in Request |-> IF IsHit(r) THEN result[r].response_text ELSE result[r]]

Abstract == INSTANCE AbstractCache WITH
    kept <- Kept, gone <- Gone, offer <- Offers, answer <- Answers, Missed <- None

\* The cache, seen from the requests, only ever forgets: it implements the
\* abstract cache.
ImplementsAbstractCache == Abstract!Spec
=============================================================================
