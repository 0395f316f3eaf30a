# Verification of the LLM semantic cache gateway

TLA+ models of the gateway in this repository, the TLC configurations that check
them on small instances, and TLAPS proofs of what matters most for every
instance. Paths below are relative to the repository's source (`src/`).

    tlc -config CacheFaults.cfg MCCacheManager.tla      # a model-checking run
    tlapm CacheSafetyProofs.tla                         # a proof module

`PROJECT.json` lists the runs, and for every definition the source lines it stands for.

## 1. The system

The gateway is one asyncio process (FastAPI) in front of an LLM. `POST /v1/chat`
answers a question from a semantic cache kept in Qdrant, or streams the answer
of an LLM and caches it.

| component | state it keeps | operations | hard behaviour |
|---|---|---|---|
| `db/cache_manager.py` | none of its own; the entries are points in Qdrant | `lookup`, `record_hit`, `store`, `get_stats` | read-modify-write without a lock; reads that are stale when acted on; duplicates from concurrent misses |
| `db/qdrant_client.py` | `_client`; the collection, its two payload indexes, the points | three reads, three writes, `get_qdrant_client` | check-then-create by several processes; points addressed by id alone |
| `core/circuit_breaker.py` | none | two decorators | a failed read is a miss; a failed write is forgotten, and may still land |
| `core/utils.py` | none | `normalize_text`, `compute_query_hash` | the hash joins tenant and text by a colon that both may contain |
| `api/streaming.py` | `collected_tokens` of one stream | `stream_llm_response`, `stream_and_capture` | provider failure or client disconnect at every await |
| `api/router.py` | `background_tasks` of one request | `chat` | what runs after the response, and when |
| `main.py` | `_counters`, `_boot_time` | `lifespan`, tracking middleware, `/metrics` | startup against a shared Qdrant; counters lost with the process |
| `core/auth.py` | none | refuse a request | its place before the handler |
| `core/rate_limit.py` | for every client and limit a counter with an expiry, in the process | admit, refuse | fixed windows, several limits at once, restarts |
| `core/embeddings.py` | the loaded model | `get_embedding` | failure and wrong dimension |
| `core/config.py`, `core/router_engine.py`, `core/model_registry.py` | cached settings, a static table | provider and key resolution, scoring, selection | many settings, two resolutions with an order of their own; thresholds on doubles; tiers that are missing |

A request meets, in this order: tracking middleware, bearer auth (401), body and
header validation (422), rate limiter (429), tenant check (400), clamping of the
threshold, `messages[-1]["content"]` (500), embedding (502), `lookup`. On a hit it
gets a JSON response with `record_hit` as background task. On a miss the question
is routed (503 without a configured provider) and streamed; if the stream comes
to its own end, `_on_complete` adds `store` as background task. All processes
share the collection in Qdrant; within a process, tasks interleave at every await.

What makes each part correct:

* **Cache.** No tenant is answered from another one's entry; a hit is close enough
  to the question; an entry is what its author stored for as long as it lives; it
  is evicted only after it had its life; counters are lost, never invented, and
  only hot entries outlive their TTL; `lookup` always returns.
* **Stream.** What is handed over for caching was delivered, whole, in order.
* **Chat.** Only delivered answers are cached, no client waits for a cache write,
  a client cannot lower the threshold below the minimum, `/metrics` and the entries
  count what was answered and nothing else, every request is answered.
* **Routing.** The key is that of the provider the called model's name tells, whichever
  way it was chosen, or of the configured provider if it tells none; any single key is enough; the tier is the nearest one there is, and a
  harder question never gets a weaker model.
* **Limiter.** What a client gets through within a period is bounded, a refusal is
  earned, and no client is shut out for good.
* **Startup.** Whoever serves finds the collection and both indexes, and no start
  takes them away from the others.

## 2. Modules

| module | models | builds on |
|---|---|---|
| `AbstractCache` | what the cache promises: it may forget, and never lies | |
| `CacheManager` | cache manager, the reads and writes of the Qdrant wrapper, both decorators, `utils` | |
| `CacheInvariant` | the inductive invariants `Provenance` and `Counting` | `CacheManager` |
| `AnswerStream` | what a streamed answer promises to the handler | |
| `Streaming` | the two generators of `api/streaming.py`, one stream | implements `AnswerStream` |
| `Startup` | `lifespan` and `get_qdrant_client`, many processes | |
| `Gateway` | `POST /v1/chat` with middlewares, handler and background tasks | `CacheManager`; `Routing`, `AnswerStream` as instances |
| `Routing` | `router_engine`, `model_registry`, provider and key resolution of `config`, `_infer_provider_from_model`: operators, no state | |
| `Dispatch` | step 7 of `chat`: what a gateway makes of its misses with them | `Routing` |
| `RateLimit` | the limiter's counters, one process at a time | |
| `MC...` | instances for TLC | |
| `...Proofs` | theorems and proofs | |

**`CacheManager`.** `pc[r]` is the await at which the task of request `r` is
suspended; everything between two awaits is one action. `payload[r]` is the local
variable `payload` (with `_point_id` and the tier), `result[r]` what `lookup`
returned, `points[p]` the points at the server, `wire` the writes that were sent
and that the server has not dealt with. `lookup` is `BeginLookup`, `ExactMatchHit`
or `ExactMatchNone`, `VectorSearchHit` or `VectorSearchNone`, then `ReturnHit`, or
`EvictStale` and `EvictReturns`; `record_hit` is `RecordHitRead` or
`RecordHitNotFound`, `Increment`, `UpdateReturns`; `store` is `StoreBegin`,
`StoreReturns`. A read is one action: the server's answer is what the task resumes
with, however late. A write is three: it is sent (`Send`), takes effect at the
server (`ApplyUpsert`, `ApplySetPayload`, `ApplyDelete`) or is lost (`LoseWrite`),
and returns (`WriteReturned`). With `QdrantMayFail` a call may return at any time,
which is what `fire_and_forget_with_log` makes of a timeout, and the write may
land later, even after a `Crash`. With `FALSE` a write returns after it took effect.

What is abstracted: tenant ids and normalized texts are sequences of the pieces
between their colons, so that the hash, a concatenation, collides exactly where
the string `"{tenant}:{text}"` does (SHA-256 itself is taken to be collision-free);
a vector is the normalized text it was computed from; similarity is a table in
thousandths; the `uuid4` of an entry, and the text of its answer, are the request
that stored it, so each request stores at most once and ids are never reused.
`last_accessed` is written and never read. The scroll with `limit=1` may return
any admitted point (Qdrant orders by id, and ids are random); the vector search
returns a point of the highest score, i.e. the index is taken to be exact, and
its misses are among the failures.

**`Streaming`.** `pc` is where the task awaits: the call, the next chunk, or the
sending of the frame it yielded. "Sent", here and in `Gateway`, means taken by the
middlewares around the handler (Starlette's `BaseHTTPMiddleware` passes the body on
through a stream of its own), which is slightly before the ASGI server writes it to the
connection: no more is promised of what the client received. Texts are three model values: an ordinary one, one that contains
`[DONE]`, and one whose JSON contains `"error"` in quotes.

**`Startup`.** Each process has its own settings (`EMBEDDING_DIM`, the output
dimension of its model). Writes are sent, answered and awaited separately; `by` of
a request becomes `None` when its sender has given up or died, and it may land in
anyone's later life. Creating an index that exists is no error, creating a
collection that exists is refused.

**`Gateway`.** EXTENDS `CacheManager` and conjoins its actions with the handler's
own state: `chat[r]` (how far the exchange got), `status[r]`, `body[r]`, `task[r]`
(the background task added to the response) and `counters`. `DrivesTheCache` says
that this is faithful to the cache: every behaviour of the gateway is one of
`CacheManager!Spec`. The stream is one step, `StreamCompletes` or `StreamBreaks`.
The link to `Streaming` is `AnswerStream`: `Streaming` implements it
(`ImplementsAnswerStream`, from the frames that were sent), and the responses of the
gateway are such streams (`StreamsAsPromised`), so that neither module assumes
more of the other than it keeps. Whether a miss can be answered (`Configured`) is
`Routing!api_key` of the settings and of the model the body names. The limiter may
refuse any request that reaches it, which is all its windows can do to the handler.

**`Routing`, `Dispatch`.** A question is what `score_complexity` counts in it, a model
name what the code looks for in it, a key the setting it came from. Scores are
counted in three-hundredths, in which every weight is whole; the comparisons are
those of the doubles (0.35 comes out exact, the sums that are 0.70 come out above
it, as evaluating all of them shows). `Dispatch` chooses settings and a catalog once
and then takes one miss after the other: `NoProvider`, `NoKey`, `CallModel`, `Respond`.

**`RateLimit`.** The limiter is slowapi's with its default strategy: fixed windows in
memory, opened by the first request counted in them, that count refused requests
too; several limits are tried in order up to the first exceeded one. `window[c][i]`
is the counter of client `c` for the `i`-th limit; `asked` and `admitted` are the
history the properties speak of. The library is external; which limits there are,
whom they count and where they are applied is the gateway's. `Restart` is a new
process with empty windows. `RATE_LIMIT = ""` is the empty sequence of limits.

Definitions marked "Wrong:" are variants of the definition after them with a
plausible bug. No specification uses them; each is there to show that a property
fails when the code is wrong that way (`mutants` in `PROJECT.json`).

## 3. Runs

| run | question | instance | states |
|---|---|---|---|
| `CacheFaults` | types, `Provenance`, relevance, early and fresh evictions, freshness of answers, immutability, refinement of `AbstractCache` | 3 requests of one tenant (one question twice, one close to it), TTL 2, extension 1, clock to 3, failures and a crash | 251 k |
| `CacheHot` | isolation, counters and promotions | 3 requests of tenant `a` with the question `b:c` and one of tenant `a:b` with `c` (equal hashes), TTL 0, threshold 2, extension 1, clock to 2, failures and a crash, symmetric | 1.8 M |
| `CacheEvictFresh` | violation, see 6 | 3 requests, no failures | |
| `CacheMasked` | violation, see 6 | 3 requests with one question, no failures | |
| `Stream` | whole answers, capture follows delivery, implements `AnswerStream` | up to 4 chunks of 3 kinds or empty | 3.2 k |
| `StreamDrops` | violation, see 6 | the same | |
| `Startup` | readiness, schema kept, replies matched, what is refused | 3 processes of 3 deployments that stop and start without bound, failures | 137 k |
| `StartupDim`, `StartupRace` | violations, see 6 | 2 processes, no failures | |
| `Gateway` | the whole request, safety and liveness | 4 requests: three with neighbouring questions (one without a header, one with a threshold above the maximum, one below the minimum that names a model without a key), one without a token; TTL 0, clock to 1, failures and a crash | 94 k |
| `Dispatch` | keys, prices, tiers | 83 settings, the catalog of the code and one with tiers missing, 42 questions on both sides of every threshold, 13 models and none named | 98 k |
| `RateLimit` | bursts and the rate in the long run, refusals, no starvation | limits 2 per 2 and 3 per 5, clock to 10, 9 requests, restarts | 353 k |

**Why the bounds are enough.** The hazards of the cache take two tasks on one entry
and one that created it: three requests. In
`CacheFaults` the extension is shorter than the TTL, so that a promotion may bring the
expiry forward as well as extend it: within its three seconds entries are evicted below
their base TTL, answers served beyond it, and stale reads followed by a delete of what is
fresh. In `CacheHot` and `Gateway` the extension is the longer one. Promotion takes two hits and a third
request that evicts or overwrites; the fourth of `CacheHot` asks from the other side
of the hash collision. Four chunks let any two kinds follow each other with an
empty one between. For `RateLimit`, the clock holds two windows of the longer limit
and five of the shorter one, and the longer one outlasts two of the shorter; one
client is enough, since clients share nothing but the clock. `Dispatch` has
questions on both sides of 0.35 and 0.70 (0, 1, 14, 15, 44, 45, 53 words) with every
signal. Only the clock, the chunks, the requests of a client and the set of requests
are bounded; the theorems of section 5 hold for any number of requests, processes,
models and limits, and any clock.

`CHECK_DEADLOCK FALSE` in the runs of cache, stream and gateway: each request (or
stream) runs once and the clock is bounded, so these systems do come to rest.

**Fairness** (`ChatFairness`): weak fairness of each task's own steps, because the
event loop runs every ready task and the Qdrant client times out its calls; of the
server, because what it received it deals with. No fairness for the arrival of
requests, the end of a stream (the code sets no timeout on the provider), the clock,
failures and crashes. A crashed request counts as ended: its connection breaks.

## 4. Properties, and what they could catch

Each is stated with its comment in the module. The less obvious ones:

* `TenantIsolation`: `record_hit` and `delete_point` address points by id only.
  (The docstring at `db/cache_manager.py:4-6` says that nothing in that file touches
  Qdrant without a tenant filter; these two do. The theorem shows that it is of no
  consequence: the id always stems from a read that was filtered.)
* `NoEarlyEviction`: evictions can hit a fresh entry (section 6), but never one
  younger than `min(CACHE_TTL_SECONDS, LFU_SPIKE_TTL_EXTENSION)`. It takes the
  minimum because a promotion sets the expiry to now + extension, and so shortens
  it when the extension is the shorter one.
* `FreshEvictionIsOfHotEntry`: and a fresh entry goes only if it is hot. Beside
  `EvictOnlyExpired`, which fails, it says exactly what a stale read can cost.
* `AnswersAreFresh`: the answer is served from a payload that an earlier await returned;
  the entry may have changed or gone since, and it is compared with the entry's age and
  hits, not with the `ttl_expiry` that the code looked at.
* `LfuCountsHits`, `PromotionIsEarned`: the lost increments that `README.md:117`
  and `record_hit` acknowledge only ever lose; no race makes an entry hot that
  has not been hit often enough.
* `ImplementsAbstractCache`: a forgotten entry never comes back, although writes
  of dead tasks still land: `set_payload` creates no point and ids are not reused.
* `StoredAnswersWereDelivered`: relates the cache, the wire and the response across
  the whole life of a request.
* `ServedAnswersWereDelivered`: relates the answer one client is served to what another
  client, possibly of a process that died since, was sent.
* `CountersFollowResponses`: the counters of the process, which die with it, and those
  in Qdrant, which do not, are both held to the responses. A 503 on a miss is no miss; a
  hit whose process dies before the body is sent credits nothing, and one whose write
  outlives the process credits one response that was sent, which `/metrics` has forgotten.
* `HitsClearTheThreshold`: a header below the minimum, above the maximum or missing never
  lets through less than it should. (A value above the maximum is lowered to it, which
  only adds hits: the lemma `ThresholdIsClamped`.)
* `CaptureFollowsDelivery`: one order-preserving map from what was captured onto the
  capturable texts that were sent, and one from those onto what the provider sent.
  The text of a frame on its way is never captured, even when the client hangs up.
* `OnlyWholeAnswersComplete`: not only is the stream whole, what is handed over is
  every capturable text its provider sent, in order, none twice.
* `KeyMatchesModel`: the body may name a model of another provider than the settings
  resolve to. The property computes the key from the model that is called, the code from
  the body and the settings, and it exempts none: see section 6 for what that means for
  names that tell no provider. `CatalogModelsArePriced`: the price is then looked up at that provider.
* `AnyKeyWorks`: `resolved_provider` and `api_key_for_provider` each have an order of
  their own over seven settings; no combination resolves to a provider without key.
* `HarderIsNotWeaker`: monotonic through score, thresholds and fallbacks, also when
  tiers are missing (a fallback upwards for an easy question and downwards for a hard
  one must not cross).
* `BurstBound`: the tight bound of fixed windows is `2 * amount - 1` within a period. It
  is stated for any m periods, `(m + 1) * amount - 1`: in the long run the rate is kept.
  `RefusalIsEarned` and `RefusedWereServed`: refused requests are counted, by the
  earlier limits only, and yet nobody patient is refused and nobody impatient starves.
* `OnlyCreationIsRefused`: an index is never asked for before its collection is there,
  across requests that outlive their process.
* `Startup!TypeOK` holds the matching of answers to calls, over restarts.

## 5. Proofs

| theorem | says |
|---|---|
| `CacheSafetyProofs!TypeCorrect`, `ProvenanceInvariant` | `Spec => [](TypeOK /\ Provenance)` |
| `TenantsAreIsolated`, `HitsAreRelevant`, `EvictionIsNotEarly`, `EntriesAreImmutable` | the properties of the same module, from `Provenance` |
| `CacheCountingProofs!CountingInvariant`, `CountersNeverInvent`, `PromotionsAreEarned` | `Counting`, and the counters |
| `FreshEvictionsAreOfHotEntries`, `ServedAnswersAreFresh`, `StaleEntriesHideDuplicates` | what stale reads can cost: evictions, answers, misses |
| `CacheRefinementProofs!Refinement` | `Spec => ImplementsAbstractCache` |
| `StreamingProofs!StreamTyped`, `WholeAnswers`, `CapturesWhatIsSent`, `StreamIsAnswer` | types, `OnlyWholeAnswersComplete`, `CaptureFollowsDelivery`, `ImplementsAnswerStream` |
| `OrdinaryAnswersAreCaptured` | `Spec => [](OrdinaryAnswer => FullTextIsCaptured)` |
| `StartupProofs!StartupTyped`, `ServingIsReady`, `SchemaKept` | types, `ServingMeansReady`, `SchemaIsKept` |
| `RefusalsAreRaces`, `LiveQdrantIsFatalToRacers`, `AgreeingDeploymentsMatch` | `OnlyCreationIsRefused`; when a start fails on a live Qdrant; when the vector config is right |
| `GatewayProofs!GatewayDrivesTheCache`, `GatewayStreams` | `ChatSpec => DrivesTheCache`, `ChatSpec => StreamsAsPromised` |
| `GatewayIsolatesTenants`, `GatewayKeepsTheCache` | the properties of the cache, its refinement included, of `ChatSpec` |
| `HitsClear`, `GatewayTyped`, `OnlyDeliveredIsStored`, `OnlyDeliveredIsServed`, `WritesComeLast`, `CountsAreOfResponses` | the gateway's safety properties |
| `DispatchProofs!DispatchTyped`, `KeysFollowModels`, `CatalogIsPriced`, `EveryKeyWorks`, `TierOfDecision`, `HarderIsServedNoWorse` | the properties of `Dispatch`, for any settings, catalogs, models and questions |
| `RateLimitProofs!LimiterTyped`, `BurstsAreBounded`, `RefusalsAreEarned`, `RefusedAreServed` | the limiter, for any list of limits and any number of clients |

They hold for every value of the constants that satisfies the modules' ASSUMEs:
the settings are naturals, requests are finitely many, a text is as similar to
itself as can be, the sentinels are no data; for the gateway, that what `chat`
passes to `lookup` is the clamped header; for routing, that every provider has a
model, that the catalog's names are ones their provider is inferred from, and that
a text without a word has no signals; for the limiter, that amounts and periods are
positive. Three theorems say when a statement that section 6 refutes does hold, and have
that condition as a hypothesis: `OrdinaryAnswersAreCaptured` (no text of this answer
fails the test on the frames), `LiveQdrantIsFatalToRacers` (`QdrantMayFail = FALSE`),
`AgreeingDeploymentsMatch` (one `EMBEDDING_DIM` everywhere).

**Why an invariant.** What a request is answered with was read in a state that may
be long gone, and a write stays on the wire after its task ended. `Provenance`
therefore says of every place a payload can be (server, task, wire) whose it is and
how old: it is what its author stored but for counter and expiry (`Faithful`); the
store of its author is settled, so it cannot be created a second time (`Stored`); a
snapshot is of an entry the request may be given, and if a point of that id is
still there, it is the same one; a delete was decided on a snapshot old enough.
The proof says what one step may do to each variable (`PointStep`, `WireStep`,
`SnapshotStable`, `ResultStable`), and derives each conjunct from that.

`Counting` bounds every counter by the *settled* hits, those whose task will not
increment any more: `LfuCountsHits` itself is not inductive, since a task that has
read a count still adds one to it. The step lemma is that `Increment` settles its
own hit. `Counting` also says that an expiry other than the one an entry was stored with
takes enough settled hits, wherever the copy is: at the server, in a task, on the wire.

What a stale read can cost follows from the two together. The task that sent a delete
keeps the snapshot the delete was decided on while the delete is on the wire, also when
it has returned or died (`DeleteInv`). If the entry is fresh when the delete lands, it and
that snapshot differ in their expiry, so one of them is not what was stored, and by
`Counted` the entry was hot (`FreshEvictionsAreOfHotEntries`). The same difference decides
`StaleEntriesHideDuplicates`; `ServedAnswersAreFresh` applies `Counted` to the snapshot
that is served.

For the gateway, `InStep` ties the handler's stage to the cache's `pc`. Because
`StoreBegin` moves `pc` to "store", `InStep` of the *next* state already says that
the answer was delivered; that the response then stays as it is (`ResponseStable`)
gives `StoredAnswersWereDelivered`. A snapshot outlives its entry, so that it does not give
`ServedAnswersWereDelivered`: that takes a conjunct of its own (`SnapshotDelivered`), which a
read establishes from the entry it finds. `GatewayDrivesTheCache` carries every theorem
about the cache over (`GatewayKeepsTheCache`).

`CountsAreOfResponses` needs a bound of its own. `Counting` lets the hit of a process that
died before its response count as settled; `Crediting` bounds every copy of a counter (at
the server, in a task, on the wire) by the settled hits whose body was sent
(`CreditedHits`), which stays true across a crash because the increment is made after the
body (`InStep` of the next state) and the response of a settled hit no longer changes.
Whoever was answered by a hit says so from its response on (`HitIsStated`), and
`MetricsAgree` follows the middleware's counters over `Count` and the crash.
`GatewayStreams` needs that no body is sent before the response (`BodyLater`).

For the stream, `CaptureFollowsDelivery` asks for a map; its proof extends the map of
the previous state by the one place that is new, and keeps it when nothing is.
`WholeAnswers` composes the two maps (`SameOrderComposes`): from what was handed over onto
what was sent, and from there onto what the provider sent; `HandedOver` says that nothing
moves any more once `on_complete` was called.

For startup, `Progress` says what is at the server once a process is past it. That an
index cannot be refused needs it of the state before: whoever asks for one has been past
the collection, and `SchemaIsKept`. `Sizes` follows the vector size from a process's
settings through its request, which may outlive it, to the collection.

For routing, the invariant is that decision and call are functions of settings,
catalog and request; the rest is about operators: the score is monotonic in each part
of the question, the target tier in the score, and the tier with its fallbacks in the
target, for every set of tiers a catalog can lack.

For the limiter, the invariant says of every counter what it knows of its client
(`Windowed`): as many requests as it has counted came since its window opened, a
period before it expires (`Reached`); and with `h` the smaller of its count and the
amount, the last admitted request but `h` was not later than the opening, and the last
but `h + m * amount`, for every m, m whole periods earlier (`Served`). Counting a request keeps this, in
an open window as in a new one, and `BurstBound` is `Served` at the moment a request
is admitted.

`RefusedWereServed` needs `Standing` besides: every counter that has counted stands for
an admitted request, no earlier than the periods from its limit on take before it
expires. A counter that opens for a request which a later limit refuses stands for
what the later counter stands for. The sum of periods is the constant `Rest`, fixed by
an assumption for each list of limits, since a fold is out of the prover's reach.

**Model-checked only.** Liveness (`BackgroundTasksEnd`, `EveryRequestIsAnswered`), which
the prover cannot treat. Every other property that a passing run checks is a theorem.

## 6. Where documents and code disagree

1. `db/qdrant_client.py:315`: `delete_point` is "used for evicting expired entries".
   `CacheEvictFresh`: a promotion between the read and the delete is wiped out.
   Only an entry that is hot can be lost that way: `FreshEvictionsAreOfHotEntries`.
2. `db/cache_manager.py:12`: "stale entries behave as misses". `CacheMasked`: a stale
   duplicate ends the lookup, and a fresh entry of the same question is not found. What
   is hidden is a duplicate, or became hot meanwhile: `StaleEntriesHideDuplicates`.
3. `api/streaming.py:120-122`: `on_complete` gets "the full response text".
   `StreamDrops`: a token that contains `[DONE]` (or is the text `error`) is left out.
   Of all other answers it does get the full text: `OrdinaryAnswersAreCaptured`.
4. `db/qdrant_client.py:8-9`: "ensures the collection exists with the correct vector
   config". `StartupDim`: only the name is compared. With one `EMBEDDING_DIM` in all
   deployments it holds: `AgreeingDeploymentsMatch`.
5. `main.py:72`, `db/qdrant_client.py:49`: `StartupRace`: of two processes that start
   together, one exits although Qdrant is alive. Nothing else makes a live one fatal
   (`LiveQdrantIsFatalToRacers`, `RefusalsAreRaces`).

Seen on the way, where no run is about it:

* `core/rate_limit.py:3-4` speaks of a ceiling per minute. Over a window that slides
  it is `2 * amount - 1`, and the amount per minute in the long run only (`BurstBound`).
  Line 5 names "brute-force key guessing", but a 401 is answered before the limiter is
  reached; lines 25-26 say that `/health` does not touch the cache, but it asks for the
  statistics of its collection.
* `core/router_engine.py:116`: a score above 0.70 is "powerful". The sums that should
  be 0.70 come out as 0.7000000000000001 and count as such.
* A body may name a model whose provider `_infer_provider_from_model` does not know
  (`mistral/...`, `bedrock/...`): it is called with the configured provider's key
  (`api/router.py:187`), whoever the model's provider is. And the legacy key goes along with
  any model whose provider has no key of its own, though `core/config.py:123-130` takes it
  to be of the provider `LLM_MODEL` looks like. `KeyMatchesModel` states both.
* `core/router_engine.py:4`: the "cheapest model tier that can handle" the question.
  In the registry, OpenAI's "powerful" model is cheaper than its "balanced" one.
* `tests/test_router_engine.py:10,28` expect gemini-2.5 models; the registry has 3.x.
* `LLM_MODEL` decides only for which provider the legacy key is taken; the model called
  is always one of the registry, or the one the body names.
* The CORS middleware lies inside the authentication, so a preflight request without
  a token is refused when a key is set. `/v1/health`, unlike `/health`, needs a token.

## 7. Not modelled

* Authentication of other paths and the comparison of tokens: whether a token passes is an
  input of `Gateway`. One comparison without state, and no order of steps to get wrong.
* `get_stats`, `/health`, `/v1/cache/stats`, `/v1/health`: read-only queries, whose failure is
  reported as such. `/metrics` derives from the counters.
* Cost estimation, logging, time to first token: no effect on state.
* Counting words and matching phrases in a text: `Routing` starts from the counts.
* An empty catalog of a provider (`select_model` would raise): the registry has none, and
  nothing changes it.
* An unhandled exception in `lookup` beyond a failed call: caught and turned into a
  miss, as the failures are.
* `core/exceptions.py` declares types; which is caught where is in every action's outcomes.
* `benchmarks/sim_cli.py`: a client.
* The death of a process with no request at work: nothing is lost but its counters.
* An empty answer: allowed and cached by code and model; no document says otherwise.

## 8. Plan

Done, in this order: the cache (`CacheManager`, `AbstractCache`) and its proofs, the
stream, startup, the gateway and its proofs, routing and dispatch, the limiter, the
link between stream and gateway, and the theorems that bound what goes wrong in the
disagreements of section 6. What is left is the limiter inside the gateway, if a property
comes to relate its windows to what the handler does; today a refusal is the only thing
that passes between them.
