------------------------------ MODULE Gateway ------------------------------
(***************************************************************************)
(* POST /v1/chat from end to end: the middlewares of main.py and           *)
(* core/auth.py, the limiter, the handler chat of api/router.py and the    *)
(* background tasks it leaves, on top of the cache of CacheManager.        *)
(*                                                                         *)
(* This module decides when a request's task may take which step of the    *)
(* cache: lookup once its question is embedded, record_hit and store when  *)
(* its response has been sent.  The streamed answer is one step here, with *)
(* the outcomes of module Streaming; whether a miss can be answered at all *)
(* is decided by module Routing from the settings and the model named.     *)
(***************************************************************************)
EXTENDS CacheManager

CONSTANTS
    Http,                         \* Http[r]: what the handler makes of request r
    DEFAULT_SIMILARITY_THRESHOLD, \* in thousandths, as the scores are
    MIN_SIMILARITY_THRESHOLD,
    MAX_SIMILARITY_THRESHOLD,
    ProviderSettings,             \* the settings that choose provider and key
    Model, StartsWith, Contains   \* model names, as in Routing

R == INSTANCE Routing

ASSUME ThresholdAssumption ==
    /\ DEFAULT_SIMILARITY_THRESHOLD \in Nat
    /\ MIN_SIMILARITY_THRESHOLD \in Nat
    /\ MAX_SIMILARITY_THRESHOLD \in Nat
    /\ MIN_SIMILARITY_THRESHOLD <= MAX_SIMILARITY_THRESHOLD

\* What is first found wrong with a request, in the order of the checks: no
\* valid token, a missing header or body, a blank tenant id, no content in the
\* last message.
Defect == {"token", "validation", "tenant", "content"}

VARIABLES
    chat,     \* chat[r]: how far the exchange with the client of r got
    status,   \* status[r]: the response's status or X-Cache header, or None
    body,     \* body[r]: how much of the body was sent
    task,     \* task[r]: the background task added to the response, or None
    counters  \* _counters of main.py

httpVars == <<chat, status, body, task, counters>>

allVars == <<vars, httpVars>>

-----------------------------------------------------------------------------
ChatStage == {"new", "embed", "lookup", "started", "sending",
              "background", "closed", "crashed"}

\* X-Cache tells HIT and MISS; the other responses have no such header.
Status == {"HIT", "MISS", "400", "401", "422", "429", "500", "502", "503"}

\* A request that the process is working on.
InProgress(r) == chat[r] \notin {"new", "closed", "crashed"}

\* Wrong: the header is taken as it comes.
thresholdUnclamped(x_cache_threshold) ==
    IF x_cache_threshold = None THEN DEFAULT_SIMILARITY_THRESHOLD ELSE x_cache_threshold

\* max(MIN, min(MAX, _)) of the header or the default.  (A nan clamps to MAX,
\* like any value above it.)
threshold(x_cache_threshold) ==
    LET raw == IF x_cache_threshold = None
               THEN DEFAULT_SIMILARITY_THRESHOLD ELSE x_cache_threshold
    IN  IF raw < MIN_SIMILARITY_THRESHOLD THEN MIN_SIMILARITY_THRESHOLD
        ELSE IF raw > MAX_SIMILARITY_THRESHOLD THEN MAX_SIMILARITY_THRESHOLD
        ELSE raw

\* What is wrong with r, the model its body names and its header; the threshold
\* is what chat passes to lookup.
ASSUME HttpAssumption ==
    /\ Http \in [Request -> [defect : Defect \cup {None}, model : Model \cup {None},
                             x_cache_threshold : Nat \cup {None}]]
    /\ ProviderSettings \in R!Settings
    /\ \A r \in Request :
           Args[r].similarity_threshold = threshold(Http[r].x_cache_threshold)
    /\ None \notin Nat \cup Defect \cup Status \cup {"record_hit", "store"}

\* There is a key for the model that routing or the body chose.
Configured(r) == R!api_key(ProviderSettings, Http[r].model) # None

ChatGoto(r, stage) == chat' = [chat EXCEPT ![r] = stage]

SetStatus(r, s) == status' = [status EXCEPT ![r] = s]

ChatInit ==
    /\ Init
    /\ chat = [r \in Request |-> "new"]
    /\ status = [r \in Request |-> None]
    /\ body = [r \in Request |-> "none"]
    /\ task = [r \in Request |-> None]
    /\ counters = [requests_total |-> 0, cache_hits |-> 0, cache_misses |-> 0]

-----------------------------------------------------------------------------
(* Up to the lookup: a request arrives and is refused, or its last message *)
(* is embedded.                                                            *)

\* A response that ends the request, and leaves the cache alone.
Refuse(r, s) ==
    /\ SetStatus(r, s)
    /\ body' = [body EXCEPT ![r] = "whole"]
    /\ ChatGoto(r, "closed")
    /\ UNCHANGED <<task, counters>>

RefusalOf == [token |-> "401", validation |-> "422", tenant |-> "400", content |-> "500"]

RefuseDefect(r) ==
    /\ chat[r] = "new"
    /\ Http[r].defect # None
    /\ Refuse(r, RefusalOf[Http[r].defect])
    /\ UNCHANGED vars

\* The limiter counts the requests that reach the handler, and may refuse any.
RateLimited(r) ==
    /\ chat[r] = "new"
    /\ Http[r].defect \notin {"token", "validation"}
    /\ Refuse(r, "429")
    /\ UNCHANGED vars

\* get_embedding is awaited.
Embed(r) ==
    /\ chat[r] = "new"
    /\ Http[r].defect = None
    /\ ChatGoto(r, "embed")
    /\ UNCHANGED <<vars, status, body, task, counters>>

EmbeddingFails(r) ==
    /\ chat[r] = "embed"
    /\ Refuse(r, "502")
    /\ UNCHANGED vars

\* The vector is there, and lookup runs to its first await.
EmbeddingReturns(r) ==
    /\ chat[r] = "embed"
    /\ BeginLookup(r)
    /\ ChatGoto(r, "lookup")
    /\ UNCHANGED <<status, body, task, counters>>

LookupStep(r) ==
    /\ chat[r] = "lookup"
    /\ Lookup(r)
    /\ UNCHANGED httpVars

-----------------------------------------------------------------------------
(* From the lookup to the response *)

\* HIT: a JSONResponse, and record_hit as its background task.
HitResponse(r) ==
    /\ chat[r] = "lookup"
    /\ pc[r] = "hit"
    /\ task' = [task EXCEPT ![r] = "record_hit"]
    /\ SetStatus(r, "HIT")
    /\ ChatGoto(r, "started")
    /\ UNCHANGED <<vars, body, counters>>

\* Wrong: the store is added before the stream has run.
MissResponseStores(r) ==
    /\ chat[r] = "lookup"
    /\ pc[r] = "miss"
    /\ Configured(r)
    /\ task' = [task EXCEPT ![r] = "store"]
    /\ SetStatus(r, "MISS")
    /\ ChatGoto(r, "started")
    /\ UNCHANGED <<vars, body, counters>>

\* MISS: the question is routed, and a StreamingResponse returned.
MissResponse(r) ==
    /\ chat[r] = "lookup"
    /\ pc[r] = "miss"
    /\ Configured(r)
    /\ SetStatus(r, "MISS")
    /\ ChatGoto(r, "started")
    /\ UNCHANGED <<vars, body, task, counters>>

\* Wrong: without a provider, the cache is asked once more.
NotConfiguredRetries(r) ==
    /\ chat[r] = "lookup"
    /\ pc[r] = "miss"
    /\ ~Configured(r)
    /\ Goto(r, "exact")
    /\ UNCHANGED <<clock, payload, result, points, wire, httpVars>>

\* ConfigurationError.
NotConfigured(r) ==
    /\ chat[r] = "lookup"
    /\ ~Configured(r)
    /\ NoStore(r)
    /\ Refuse(r, "503")

\* request_tracking_middleware has the response's headers.
Count(r) ==
    /\ chat[r] = "started"
    /\ counters' = [counters EXCEPT
           !.requests_total = @ + 1,
           !.cache_hits = IF status[r] = "HIT" THEN @ + 1 ELSE @,
           !.cache_misses = IF status[r] = "MISS" THEN @ + 1 ELSE @]
    /\ ChatGoto(r, "sending")
    /\ UNCHANGED <<vars, status, body, task>>

-----------------------------------------------------------------------------
(* The body of the response, and what runs after it *)

HitSent(r) ==
    /\ chat[r] = "sending"
    /\ status[r] = "HIT"
    /\ body' = [body EXCEPT ![r] = "whole"]
    /\ ChatGoto(r, "background")
    /\ UNCHANGED <<vars, status, task, counters>>

\* Streaming "completed": on_complete adds the store.
StreamCompletes(r) ==
    /\ chat[r] = "sending"
    /\ status[r] = "MISS"
    /\ body' = [body EXCEPT ![r] = "whole"]
    /\ task' = [task EXCEPT ![r] = "store"]
    /\ ChatGoto(r, "background")
    /\ UNCHANGED <<vars, status, counters>>

\* Wrong: what was captured is cached however the stream ends.
StreamBreaksStores(r) ==
    /\ chat[r] = "sending"
    /\ status[r] = "MISS"
    /\ body' = [body EXCEPT ![r] = "part"]
    /\ task' = [task EXCEPT ![r] = "store"]
    /\ ChatGoto(r, "background")
    /\ UNCHANGED <<vars, status, counters>>

\* Streaming "failed" or "cancelled": there is no background task to run.
StreamBreaks(r) ==
    /\ chat[r] = "sending"
    /\ status[r] = "MISS"
    /\ NoStore(r)
    /\ body' = [body EXCEPT ![r] = "part"]
    /\ ChatGoto(r, "closed")
    /\ UNCHANGED <<status, task, counters>>

\* Wrong: record_hit is started along with the response.
RecordHitStepEarly(r) ==
    /\ task[r] = "record_hit"
    /\ RecordHit(r)
    /\ UNCHANGED httpVars

RecordHitStep(r) ==
    /\ chat[r] = "background"
    /\ task[r] = "record_hit"
    /\ RecordHit(r)
    /\ UNCHANGED httpVars

StoreStep(r) ==
    /\ chat[r] = "background"
    /\ task[r] = "store"
    /\ StoreBegin(r) \/ StoreReturns(r)
    /\ UNCHANGED httpVars

-----------------------------------------------------------------------------
\* The process dies at work, with its counters; another one takes its place.
ChatCrash ==
    /\ ProcessMayCrash
    /\ \E r \in Request : InProgress(r)
    /\ pc' = [r \in Request |-> IF Active(r) THEN "crashed" ELSE pc[r]]
    /\ chat' = [r \in Request |-> IF InProgress(r) THEN "crashed" ELSE chat[r]]
    /\ counters' = [requests_total |-> 0, cache_hits |-> 0, cache_misses |-> 0]
    /\ UNCHANGED <<clock, payload, result, points, wire, status, body, task>>

ServerStep == Server /\ UNCHANGED httpVars

\* The steps of the process for r, which the event loop runs when it can.
Handle(r) ==
    \/ EmbeddingFails(r)
    \/ EmbeddingReturns(r)
    \/ LookupStep(r)
    \/ HitResponse(r)
    \/ MissResponse(r)
    \/ NotConfigured(r)
    \/ Count(r)
    \/ HitSent(r)
    \/ RecordHitStep(r)
    \/ StoreStep(r)

ChatNext ==
    \/ \E r \in Request :
           \/ RefuseDefect(r)
           \/ RateLimited(r)
           \/ Embed(r)
           \/ Handle(r)
           \/ StreamCompletes(r)
           \/ StreamBreaks(r)
    \/ ServerStep
    \/ Tick /\ UNCHANGED httpVars
    \/ ChatCrash

ChatSpec == ChatInit /\ [][ChatNext]_allVars

\* The event loop runs every ready task.  Embeddings return or fail, calls to
\* Qdrant return or time out, a request the server received it deals with, and a
\* response that is complete gets sent.  Requests need not arrive, streams need
\* not end, and the clock need not tick.
ChatFairness ==
    /\ WF_allVars(ServerStep)
    /\ \A r \in Request : WF_allVars(Handle(r))

ChatFairSpec == ChatSpec /\ ChatFairness

-----------------------------------------------------------------------------
(* Properties *)

\* The handler and the cache agree on how far r got: the response to a hit
\* carries the task that counts it, and nothing runs after a response but the
\* task it carries, nor before its end.
InStep(r) ==
    /\ chat[r] \in {"new", "embed"} => pc[r] = "idle"
    /\ chat[r] = "lookup" =>
           pc[r] \in {"exact", "vector", "validate", "evict", "hit", "miss"}
    /\ chat[r] \in {"new", "embed", "lookup"} => task[r] = None
    /\ chat[r] \in {"started", "sending"} =>
           \/ status[r] = "HIT" /\ pc[r] = "hit" /\ task[r] = "record_hit"
           \/ status[r] = "MISS" /\ pc[r] = "miss" /\ task[r] = None
    /\ chat[r] = "background" =>
           /\ body[r] = "whole"
           /\ \/ task[r] = "record_hit"
                 /\ pc[r] \in {"hit", "increment", "update", "done"}
              \/ task[r] = "store" /\ status[r] = "MISS"
                 /\ pc[r] \in {"miss", "store", "done"}
    /\ chat[r] \in {"closed", "crashed"} => ~Active(r)

\* Every variable has its type, and handler and cache are in step.
ChatTypeOK ==
    /\ chat \in [Request -> ChatStage]
    /\ status \in [Request -> Status \cup {None}]
    /\ body \in [Request -> {"none", "part", "whole"}]
    /\ task \in [Request -> {None, "record_hit", "store"}]
    /\ counters \in [requests_total : Nat, cache_hits : Nat, cache_misses : Nat]
    /\ \A r \in Request : InStep(r)

\* Only an answer that was sent to its client to the end is ever cached, or
\* under way to the cache, although the process may die and writes may land
\* late: no client gets half an answer from the cache.
StoredAnswersWereDelivered ==
    \A p \in Request :
        points[p] # None \/ InFlight(p, "upsert") => status[p] = "MISS" /\ body[p] = "whole"

\* Only such an answer is ever served from the cache, although a snapshot of it
\* outlives the entry, and its author's process may be gone.
ServedAnswersWereDelivered ==
    \A r \in Request :
        IsHit(r) =>
            LET author == result[r].response_text
            IN  status[author] = "MISS" /\ body[author] = "whole"

\* README.md:19: "the client never waits on the cache write": no request has a
\* store or a hit count under way before its body is sent.
WritesFollowTheAnswer ==
    \A r \in Request :
        \/ pc[r] \in {"increment", "update", "store"}
        \/ InFlight(r, "upsert")
        \/ InFlight(r, "set_payload")
        => body[r] = "whole"

\* A hit is as similar as its client asked, with the header or by default, or at
\* least as the configured maximum; and, however little it asked, as the
\* configured minimum.
HitsClearTheThreshold ==
    \A r \in Request :
        IsHit(r) =>
            LET score == Similarity[<<Vector(r), Vector(result[r].response_text)>>]
                asked == IF Http[r].x_cache_threshold = None
                         THEN DEFAULT_SIMILARITY_THRESHOLD ELSE Http[r].x_cache_threshold
            IN  /\ score >= MIN_SIMILARITY_THRESHOLD
                /\ score >= asked \/ score >= MAX_SIMILARITY_THRESHOLD

\* The responses that request_tracking_middleware of the living process has seen,
\* and of broken streams those an earlier one saw.
Responses(outcome) ==
    {r \in Request : status[r] = outcome /\ chat[r] \in {"sending", "background", "closed"}}

\* What /metrics counts and what the entries count are both told by the responses:
\* the process has counted the hits it answered, and of misses none that was
\* refused in the end; and an entry is credited with no hit whose response was
\* not sent to its end, even if the process that sent it is gone with its
\* counters, before or after its write landed.
CountersFollowResponses ==
    /\ counters.cache_hits = Cardinality(Responses("HIT"))
    /\ counters.cache_misses <= Cardinality(Responses("MISS"))
    /\ (\A r \in Request : chat[r] # "crashed") =>
           counters.cache_misses = Cardinality(Responses("MISS"))
    /\ \A p \in Request :
           points[p] # None =>
               points[p].lfu_count - 1
                   <= Cardinality({r \in HitsOn(p) : status[r] = "HIT" /\ body[r] = "whole"})

\* The handler takes the steps of the cache in an order the cache allows.
DrivesTheCache == Spec

\* The response to a miss as a streamed answer; the other responses are none.
Answer(r) == INSTANCE AnswerStream WITH
    body   <- IF status[r] = "MISS" THEN body[r] ELSE "none",
    handed <- task[r] = "store",
    over   <- status[r] = "MISS" /\ body[r] # "none"

\* The handler lets every stream run as module Streaming does: it stores what
\* was handed over, once, and neither before the answer's end nor after a
\* broken one.
StreamsAsPromised ==
    /\ \A r \in Request : Answer(r)!Init
    /\ [][\A r \in Request : [Answer(r)!Next]_(Answer(r)!vars)]_<<status, body, task>>

\* README.md:20: "losing it should never take the gateway down": whatever
\* Qdrant does, a request that is not refused at once gets a response, or dies
\* with its process.
EveryRequestIsAnswered ==
    \A r \in Request : chat[r] = "embed" ~> status[r] # None \/ chat[r] = "crashed"
=============================================================================
