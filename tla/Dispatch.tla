------------------------------ MODULE Dispatch ------------------------------
(***************************************************************************)
(* Step 7 of the handler chat in api/router.py: what a gateway with some   *)
(* settings and catalog makes of the misses it gets, one after the other.  *)
(***************************************************************************)
EXTENDS Routing

CONSTANTS
    Deployment,  \* the settings considered
    Catalog,     \* the catalogs considered
    Question     \* the questions considered

\* A model of the catalog has a name its provider is inferred from.
WellNamed(catalog) ==
    \A p \in Provider : \A i \in DOMAIN catalog[p] :
        infer_provider(catalog[p][i].model_id) = p

ASSUME DispatchAssumption ==
    /\ Deployment \subseteq Settings
    /\ Catalog \subseteq {c \in Catalogs : WellNamed(c)}
    /\ Question \subseteq Questions

VARIABLES
    settings,  \* get_settings(), loaded once
    catalog,   \* PROVIDER_MODELS
    request,   \* the miss in hand: its question and the model its body names
    decision,  \* routing_decision for it, or None
    call       \* the call to LiteLLM it led to, or None for a 503

vars == <<settings, catalog, request, decision, call>>

Request == [question : Question, model : Model \cup {None}]

Call == [model : Model, key : Provider \cup {"legacy"}, spec : ModelSpec \cup {None}]

\* None is no record.
ASSUME SentinelAssumption == None \notin Request \cup ModelSpec \cup Call

Init ==
    /\ settings \in Deployment
    /\ catalog \in Catalog
    /\ request = None
    /\ decision = None
    /\ call = None

\* ConfigurationError before routing: no provider, or an unsupported one.
NoProvider(r) ==
    /\ request = None
    /\ resolved_provider(settings) = None
    /\ request' = r
    /\ decision' = None
    /\ call' = None
    /\ UNCHANGED <<settings, catalog>>

\* route: the question is scored, and a model of the provider selected.
route(r) ==
    /\ request = None
    /\ resolved_provider(settings) # None
    /\ request' = r
    /\ decision' = select_model(score_complexity(r.question),
                                catalog[resolved_provider(settings)])
    /\ UNCHANGED <<settings, catalog>>

\* Wrong: the model is called without a key.
NoKeyCallsAnyway(r) ==
    /\ route(r)
    /\ api_key(settings, r.model) = None
    /\ call' = [model |-> decision'.model_id, key |-> None, spec |-> decision']

\* ConfigurationError after routing: the provider of the model has no key.
NoKey(r) ==
    /\ route(r)
    /\ api_key(settings, r.model) = None
    /\ call' = None

CallModel(r) ==
    /\ route(r)
    /\ api_key(settings, r.model) # None
    /\ LET model == IF r.model # None THEN r.model ELSE decision'.model_id
       IN  call' = [model |-> model,
                    key   |-> api_key(settings, r.model),
                    spec  |-> get_model_spec(model,
                                  catalog[api_key_provider(settings, r.model)])]

\* The response is returned, and nothing is kept for the next request.
Respond ==
    /\ request # None
    /\ request' = None
    /\ decision' = None
    /\ call' = None
    /\ UNCHANGED <<settings, catalog>>

Next ==
    \/ \E r \in Request : NoProvider(r) \/ NoKey(r) \/ CallModel(r)
    \/ Respond

Spec == Init /\ [][Next]_vars

-----------------------------------------------------------------------------
(* Properties *)

\* Every variable has its type: with a provider there always is a model.
TypeOK ==
    /\ settings \in Deployment
    /\ catalog \in Catalog
    /\ request \in Request \cup {None}
    /\ decision \in ModelSpec \cup {None}
    /\ call \in Call \cup {None}
    /\ call # None => decision # None

\* The key goes by the model that is called, named by the client or routed: it is
\* the key of the provider its name tells, or of the configured provider if the
\* name tells none (so "mistral/..." is sent with that one's key), and the legacy
\* key only where that provider has none of its own.
KeyMatchesModel ==
    call # None =>
        LET home == IF infer_provider(call.model) # None
                    THEN infer_provider(call.model) ELSE resolved_provider(settings)
        IN  \/ home \in settings.keys /\ call.key = home
            \/ home \notin settings.keys /\ settings.LLM_API_KEY /\ call.key = "legacy"

\* A client that names a model of the catalog gets it as if it had been routed
\* there: with a price, whichever provider the settings resolve to.
CatalogModelsArePriced ==
    call # None /\ (\E p \in Provider : \E i \in DOMAIN catalog[p] :
                        catalog[p][i].model_id = call.model)
        => call.spec # None /\ call.spec.model_id = call.model

\* README.md:124: "working against whichever LLM provider key you drop into
\* .env": without LLM_PROVIDER any single key will do, and routed requests are
\* refused only when there is none.
AnyKeyWorks ==
    request # None /\ request.model = None /\ settings.LLM_PROVIDER = None =>
        (call = None <=> settings.keys = {} /\ ~settings.LLM_API_KEY)

Rank == [fast |-> 1, balanced |-> 2, powerful |-> 3]

Distance(tier1, tier2) ==
    IF Rank[tier1] < Rank[tier2] THEN Rank[tier2] - Rank[tier1] ELSE Rank[tier1] - Rank[tier2]

\* core/router_engine.py:119-121: "falls back to the nearest available tier";
\* of two that are equally near, to the cheaper one (149).
NearestTier ==
    decision # None =>
        LET target == target_tier(score_complexity(request.question))
            models == catalog[resolved_provider(settings)]
        IN  \A i \in DOMAIN models :
                \/ Distance(decision.tier, target) < Distance(models[i].tier, target)
                \/ /\ Distance(decision.tier, target) = Distance(models[i].tier, target)
                   /\ Rank[decision.tier] <= Rank[models[i].tier]

\* q has all that r has.
AtLeastAsComplex(q, r) ==
    /\ q.words >= r.words
    /\ q.question_marks >= r.question_marks
    /\ r.code => q.code
    /\ r.has_numbered_list => q.has_numbered_list
    /\ r.depth => q.depth

\* More words or signals never lead to a weaker model, whatever tiers the
\* catalog lacks.
HarderIsNotWeaker ==
    decision # None =>
        \A q \in Question :
            AtLeastAsComplex(q, request.question) =>
                Rank[select_model(score_complexity(q),
                                  catalog[resolved_provider(settings)]).tier]
                    >= Rank[decision.tier]
=============================================================================
