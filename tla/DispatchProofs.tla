--------------------------- MODULE DispatchProofs ---------------------------
(***************************************************************************)
(* What Dispatch does, for every settings and every catalog that names its *)
(* models recognizably: types; whose key every model is called with; every *)
(* model of the catalog priced; any key works; nearest tier; and no weaker *)
(* model for a harder question.                                            *)
(*                                                                         *)
(* The state of a request is a function of the settings, the catalog and   *)
(* the request: that is the invariant, and the rest is about the operators *)
(* of Routing.                                                             *)
(***************************************************************************)
EXTENDS Dispatch, WellFoundedInduction, TLAPS

-----------------------------------------------------------------------------
(* The first entry of a list with some property *)

\* A set of naturals that is not empty has a least one.
LEMMA LeastExists ==
    ASSUME NEW S \in SUBSET Nat, S # {}
    PROVE  \E x \in S : \A y \in S : x <= y
<1>1. PICK x \in S : \A y \in S : ~ (<<y, x>> \in OpToRel(<, Nat))
  BY NatLessThanWellFounded, WFMin, Zenon
<1>2. ASSUME NEW y \in S
      PROVE  x <= y
  <2>1. ~ (<<y, x>> \in OpToRel(<, Nat))
    BY <1>1, Zenon
  <2>2. <<y, x>> \in Nat \X Nat
    OBVIOUS
  <2>3. ~ (y < x)
    BY <2>1, <2>2 DEF OpToRel
  <2> QED
    BY <2>3
<1> QED
  BY <1>2

\* What the two searches of router_engine.py return: an index of the kind they
\* look for, and none before it.
LEMMA FirstExists ==
    ASSUME NEW models \in Seq(ModelSpec), NEW S \in SUBSET DOMAIN models, S # {}
    PROVE  \E i \in S : \A j \in 1 .. i-1 : j \notin S
<1>1. S \subseteq Nat
  OBVIOUS
<1>2. PICK i \in S : \A j \in S : i <= j
  BY <1>1, LeastExists
<1> QED
  BY <1>1, <1>2

-----------------------------------------------------------------------------
(* The operators of Routing *)

\* The tier of a decision is one that the list offers.
LEMMA TierIsOffered ==
    ASSUME NEW models \in Seq(ModelSpec), models # <<>>, NEW target \in Tier
    PROVE  /\ TierFor(models, target) \in Tier
           /\ Offers(models, TierFor(models, target))
<1>1. 1 \in DOMAIN models /\ models[1] \in ModelSpec
  OBVIOUS
<1>2. Offers(models, models[1].tier) /\ models[1].tier \in Tier
  BY <1>1 DEF Offers, ModelSpec
<1>3. CASE target = "fast"
  BY <1>2, <1>3 DEF TierFor, fallback_order, Tier
<1>4. CASE target = "balanced"
  BY <1>2, <1>4 DEF TierFor, fallback_order, Tier
<1>5. CASE target = "powerful"
  BY <1>2, <1>5 DEF TierFor, fallback_order, Tier
<1> QED
  BY <1>3, <1>4, <1>5 DEF Tier

\* select_model returns an entry of the list, of that tier.
LEMMA SelectedModel ==
    ASSUME NEW models \in Seq(ModelSpec), models # <<>>, NEW score \in Int
    PROVE  /\ target_tier(score) \in Tier
           /\ \E i \in DOMAIN models :
                  /\ select_model(score, models) = models[i]
                  /\ models[i].tier = TierFor(models, target_tier(score))
<1> DEFINE tier == TierFor(models, target_tier(score))
           S == {i \in DOMAIN models : models[i].tier = tier}
<1>1. target_tier(score) \in Tier
  BY DEF target_tier, Tier
<1>2. S # {}
  BY <1>1, TierIsOffered DEF Offers
<1>3. PICK i \in S : \A j \in 1 .. i-1 : j \notin S
  BY <1>2, FirstExists
<1>4. \E k \in DOMAIN models :
          models[k].tier = tier /\ \A j \in 1 .. k-1 : models[j].tier # tier
  <2>1. \A j \in 1 .. i-1 : j \in DOMAIN models
    BY <1>3
  <2> QED
    BY <1>3, <2>1
<1>5. select_model(score, models) =
          models[CHOOSE k \in DOMAIN models :
                     models[k].tier = tier /\ \A j \in 1 .. k-1 : models[j].tier # tier]
  BY DEF select_model
<1> HIDE DEF tier
<1> QED
  BY <1>1, <1>4, <1>5 DEF tier

\* get_model_spec finds the name if it is there, and nothing else.
LEMMA FoundSpec ==
    ASSUME NEW models \in Seq(ModelSpec), NEW model_id
    PROVE  /\ get_model_spec(model_id, models) \in ModelSpec \cup {None}
           /\ (\E i \in DOMAIN models : models[i].model_id = model_id) =>
                  /\ get_model_spec(model_id, models) \in ModelSpec
                  /\ get_model_spec(model_id, models).model_id = model_id
<1> DEFINE S == {i \in DOMAIN models : models[i].model_id = model_id}
<1>1. CASE S = {}
  BY <1>1 DEF get_model_spec
<1>2. CASE S # {}
  <2>1. PICK i \in S : \A j \in 1 .. i-1 : j \notin S
    BY <1>2, FirstExists
  <2>2. \A j \in 1 .. i-1 : j \in DOMAIN models
    BY <2>1
  <2>3. \E k \in DOMAIN models :
            /\ models[k].model_id = model_id
            /\ \A j \in 1 .. k-1 : models[j].model_id # model_id
    BY <2>1, <2>2
  <2>4. get_model_spec(model_id, models) =
            models[CHOOSE k \in DOMAIN models :
                       /\ models[k].model_id = model_id
                       /\ \A j \in 1 .. k-1 : models[j].model_id # model_id]
    BY <1>2 DEF get_model_spec
  <2> QED
    BY <2>3, <2>4
<1> QED
  BY <1>1, <1>2

\* Providers and keys are what they are called.
LEMMA ResolutionTyped ==
    ASSUME NEW s \in Settings, NEW override \in Model \cup {None}
    PROVE  /\ resolved_provider(s) \in Provider \cup {None}
           /\ resolved_provider(s) # None => api_key_provider(s, override) \in Provider
           /\ api_key(s, override) \in Provider \cup {"legacy", None}
           /\ api_key(s, override) # None => resolved_provider(s) # None
<1>1. resolved_provider(s) \in Provider \cup {None}
  BY DEF resolved_provider, legacy_provider, Provider
<1>2. infer_provider(override) \in Provider \cup {None}
  BY DEF infer_provider, Provider
<1> QED
  BY <1>1, <1>2 DEF api_key_provider, api_key, api_key_for_provider

\* The key is the one api_key_provider has, or else the legacy one.
LEMMA KeyOfProvider ==
    ASSUME NEW s \in Settings, NEW override \in Model \cup {None},
           api_key(s, override) # None
    PROVE  LET provider == api_key_provider(s, override)
           IN  \/ provider \in s.keys /\ api_key(s, override) = provider
               \/ provider \notin s.keys /\ s.LLM_API_KEY /\ api_key(s, override) = "legacy"
  BY DEF api_key, api_key_for_provider

LEMMA ScoreIsInt ==
    ASSUME NEW q \in Questions
    PROVE  score_complexity(q) \in Int
  BY DEF score_complexity, Weight, Questions

-----------------------------------------------------------------------------
(* The invariant *)

Chosen(s, c, r) ==
    select_model(score_complexity(r.question), c[resolved_provider(s)])

CalledModel(s, c, r) == IF r.model # None THEN r.model ELSE Chosen(s, c, r).model_id

\* decision and call are computed from the settings, the catalog and the request.
Computed ==
    /\ settings \in Deployment
    /\ catalog \in Catalog
    /\ request \in Request \cup {None}
    /\ request = None => decision = None /\ call = None
    /\ request # None =>
           /\ decision = IF resolved_provider(settings) = None
                         THEN None ELSE Chosen(settings, catalog, request)
           /\ call = IF api_key(settings, request.model) = None THEN None
                     ELSE [model |-> CalledModel(settings, catalog, request),
                           key   |-> api_key(settings, request.model),
                           spec  |-> get_model_spec(
                                         CalledModel(settings, catalog, request),
                                         catalog[api_key_provider(settings, request.model)])]

LEMMA ComputedInit == Init => Computed
  BY DEF Init, Computed

\* Each step answers the request it takes, or forgets the one it answered.
LEMMA ComputedStep == Computed /\ [Next]_vars => Computed'
<1> SUFFICES ASSUME Computed, [Next]_vars
             PROVE  Computed'
  OBVIOUS
<1>1. ASSUME NEW r \in Request, NoProvider(r)
      PROVE  Computed'
  <2>1. api_key(settings, r.model) = None
    BY <1>1 DEF NoProvider, api_key
  <2> QED
    BY <1>1, <2>1, SentinelAssumption DEF Computed, NoProvider
<1>2. ASSUME NEW r \in Request, NoKey(r)
      PROVE  Computed'
  BY <1>2, SentinelAssumption DEF Computed, NoKey, route, Chosen
<1>3. ASSUME NEW r \in Request, CallModel(r)
      PROVE  Computed'
  BY <1>3, SentinelAssumption DEF Computed, CallModel, route, Chosen, CalledModel
<1>4. CASE Respond
  BY <1>4 DEF Computed, Respond
<1>5. CASE UNCHANGED vars
  BY <1>5 DEF Computed, vars
<1> QED
  BY <1>1, <1>2, <1>3, <1>4, <1>5 DEF Next

\* At all times.
THEOREM ComputedInvariant == Spec => []Computed
<1> QED
  BY ComputedInit, ComputedStep, PTL DEF Spec

-----------------------------------------------------------------------------
(* What follows from it *)

\* The decision is an entry of the provider's catalog, of the tier that
\* fallback_order finds.
LEMMA DecisionIsListed ==
    ASSUME Computed, decision # None
    PROVE  /\ resolved_provider(settings) \in Provider
           /\ request \in Request
           /\ target_tier(score_complexity(request.question)) \in Tier
           /\ \E i \in DOMAIN catalog[resolved_provider(settings)] :
                  /\ decision = catalog[resolved_provider(settings)][i]
                  /\ decision.tier = TierFor(catalog[resolved_provider(settings)],
                                            target_tier(score_complexity(request.question)))
<1> DEFINE p == resolved_provider(settings)
<1>1. request \in Request /\ p # None /\ decision = Chosen(settings, catalog, request)
  BY DEF Computed
<1>2. settings \in Settings /\ catalog \in Catalogs /\ request.question \in Questions
  BY <1>1, DispatchAssumption DEF Computed, Request
<1>3. request.model \in Model \cup {None}
  BY <1>1 DEF Request
<1>4. p \in Provider
  BY <1>1, <1>2, <1>3, ResolutionTyped
<1>5. catalog[p] \in Seq(ModelSpec) /\ catalog[p] # <<>>
  BY <1>2, <1>4 DEF Catalogs
<1>6. score_complexity(request.question) \in Int
  BY <1>2, ScoreIsInt
<1> QED
  BY <1>1, <1>4, <1>5, <1>6, SelectedModel DEF Chosen

\* What is called is a model, with the key of its provider or the legacy one.
LEMMA CallIsComputed ==
    ASSUME Computed,
           call # None \/ (request # None /\ api_key(settings, request.model) # None)
    PROVE  /\ request \in Request /\ request.model \in Model \cup {None}
           /\ settings \in Settings /\ catalog \in Catalogs /\ WellNamed(catalog)
           /\ decision # None
           /\ api_key_provider(settings, request.model) \in Provider
           /\ call.model = CalledModel(settings, catalog, request)
           /\ call.key = api_key(settings, request.model) /\ call.key # None
           /\ call.spec = get_model_spec(call.model,
                             catalog[api_key_provider(settings, request.model)])
           /\ call = [model |-> call.model, key |-> call.key, spec |-> call.spec]
           /\ request.model = None => call.model = decision.model_id
           /\ request.model # None => call.model = request.model
<1>1. request \in Request /\ request.model \in Model \cup {None}
  BY DEF Computed, Request
<1>2. settings \in Settings /\ catalog \in Catalogs /\ WellNamed(catalog)
  BY DispatchAssumption DEF Computed
<1>3. api_key(settings, request.model) # None
  BY <1>1, SentinelAssumption DEF Computed
<1>4. resolved_provider(settings) # None
  BY <1>1, <1>2, <1>3, ResolutionTyped
<1>5. api_key_provider(settings, request.model) \in Provider
  BY <1>1, <1>2, <1>4, ResolutionTyped
<1>6. decision = Chosen(settings, catalog, request)
  BY <1>1, <1>4, SentinelAssumption DEF Computed
<1>7. decision # None
  <2>1. resolved_provider(settings) \in Provider
    BY <1>1, <1>2, <1>4, ResolutionTyped
  <2>2. /\ catalog[resolved_provider(settings)] \in Seq(ModelSpec)
        /\ catalog[resolved_provider(settings)] # <<>>
    BY <1>2, <2>1 DEF Catalogs
  <2>3. score_complexity(request.question) \in Int
    BY <1>1, DispatchAssumption, ScoreIsInt DEF Request
  <2>4. decision \in ModelSpec
    BY <1>6, <2>2, <2>3, SelectedModel DEF Chosen
  <2> QED
    BY <2>4, SentinelAssumption
<1>8. call = [model |-> CalledModel(settings, catalog, request),
              key   |-> api_key(settings, request.model),
              spec  |-> get_model_spec(CalledModel(settings, catalog, request),
                            catalog[api_key_provider(settings, request.model)])]
  BY <1>1, <1>3, SentinelAssumption DEF Computed
<1> QED
  BY <1>1, <1>2, <1>3, <1>5, <1>6, <1>7, <1>8 DEF CalledModel

LEMMA DecisionIsTyped ==
    ASSUME Computed
    PROVE  decision \in ModelSpec \cup {None}
<1> SUFFICES ASSUME decision # None
             PROVE  decision \in ModelSpec
  OBVIOUS
<1>1. catalog \in Catalogs
  BY DispatchAssumption DEF Computed
<1>2. catalog[resolved_provider(settings)] \in Seq(ModelSpec)
  BY <1>1, DecisionIsListed DEF Catalogs
<1> QED
  BY <1>2, DecisionIsListed

LEMMA CallIsTyped ==
    ASSUME Computed,
           call # None \/ (request # None /\ api_key(settings, request.model) # None)
    PROVE  call \in Call
<1> DEFINE models == catalog[api_key_provider(settings, request.model)]
<1>1. call.model \in Model
  BY DecisionIsTyped, CallIsComputed DEF ModelSpec
<1>2. call.key \in Provider \cup {"legacy"}
  BY CallIsComputed, ResolutionTyped
<1>3. models \in Seq(ModelSpec)
  BY CallIsComputed DEF Catalogs
<1>4. call.spec \in ModelSpec \cup {None}
  BY <1>3, CallIsComputed, FoundSpec
<1> QED
  BY <1>1, <1>2, <1>4, CallIsComputed DEF Call

\* Every variable has its type, for all settings and catalogs.
THEOREM DispatchTyped == Spec => []TypeOK
<1>1. Computed => TypeOK
  BY DecisionIsTyped, CallIsTyped, CallIsComputed DEF TypeOK, Computed
<1> QED
  BY <1>1, ComputedInvariant, PTL

\* KeyMatchesModel, for all settings and catalogs: which key a model is called
\* with follows from its own name, however it was chosen.
THEOREM KeysFollowModels == Spec => []KeyMatchesModel
<1>1. Computed => KeyMatchesModel
  <2> SUFFICES ASSUME Computed, call # None
               PROVE  KeyMatchesModel
    BY DEF KeyMatchesModel
  <2> DEFINE home == IF infer_provider(call.model) # None
                     THEN infer_provider(call.model) ELSE resolved_provider(settings)
             provider == api_key_provider(settings, request.model)
  <2>1. \/ provider \in settings.keys /\ call.key = provider
        \/ provider \notin settings.keys /\ settings.LLM_API_KEY /\ call.key = "legacy"
    BY CallIsComputed, KeyOfProvider
  <2>2. provider = home
    <3>1. CASE request.model # None
      BY <3>1, CallIsComputed DEF api_key_provider
    <3>2. CASE request.model = None
      <4>1. infer_provider(decision.model_id) = resolved_provider(settings)
        BY CallIsComputed, DecisionIsListed DEF WellNamed
      <4>2. call.model = decision.model_id
        BY <3>2, CallIsComputed
      <4> QED
        BY <3>2, <4>1, <4>2 DEF api_key_provider
    <3> QED
      BY <3>1, <3>2
  <2> HIDE DEF provider
  <2> QED
    BY <2>1, <2>2 DEF KeyMatchesModel
<1> QED
  BY <1>1, ComputedInvariant, PTL

\* CatalogModelsArePriced: a name in anyone's catalog leads to the catalog it
\* is in, since its provider is inferred from it.
THEOREM CatalogIsPriced == Spec => []CatalogModelsArePriced
<1>1. Computed => CatalogModelsArePriced
  <2> SUFFICES ASSUME Computed, call # None,
                      NEW p \in Provider, NEW i \in DOMAIN catalog[p],
                      catalog[p][i].model_id = call.model
               PROVE  call.spec # None /\ call.spec.model_id = call.model
    BY DEF CatalogModelsArePriced
  <2>1. infer_provider(call.model) = p
    BY CallIsComputed DEF WellNamed
  <2>2. p # None
    BY ModelAssumption
  <2>3. api_key_provider(settings, request.model) = p
    <3>1. CASE request.model # None
      BY <2>1, <2>2, <3>1, CallIsComputed DEF api_key_provider
    <3>2. CASE request.model = None
      <4>1. infer_provider(decision.model_id) = resolved_provider(settings)
        BY CallIsComputed, DecisionIsListed DEF WellNamed
      <4> QED
        BY <2>1, <3>2, <4>1, CallIsComputed DEF api_key_provider
    <3> QED
      BY <3>1, <3>2
  <2>4. catalog[p] \in Seq(ModelSpec)
    BY CallIsComputed DEF Catalogs
  <2>5. call.spec = get_model_spec(call.model, catalog[p])
    BY <2>3, CallIsComputed
  <2>6. call.spec \in ModelSpec /\ call.spec.model_id = call.model
    BY <2>4, <2>5, FoundSpec
  <2> QED
    BY <2>6, SentinelAssumption
<1> QED
  BY <1>1, ComputedInvariant, PTL

\* AnyKeyWorks, for all settings: one key is enough, and needed.
THEOREM EveryKeyWorks == Spec => []AnyKeyWorks
<1>1. Computed => AnyKeyWorks
  <2> SUFFICES ASSUME Computed, request # None, request.model = None,
                      settings.LLM_PROVIDER = None
               PROVE  call = None <=> settings.keys = {} /\ ~settings.LLM_API_KEY
    BY DEF AnyKeyWorks
  <2>1. settings \in Settings
    BY DispatchAssumption DEF Computed
  <2>2. call = None <=> api_key(settings, None) = None
    BY CallIsTyped, SentinelAssumption DEF Computed
  <2>3. api_key(settings, None) = None <=> settings.keys = {} /\ ~settings.LLM_API_KEY
    BY <2>1, ModelAssumption
       DEF api_key, api_key_provider, api_key_for_provider, resolved_provider,
           legacy_provider, Settings, Provider
  <2> QED
    BY <2>2, <2>3
<1> QED
  BY <1>1, ComputedInvariant, PTL

-----------------------------------------------------------------------------
(* Tiers *)

\* No tier of the list is nearer to the target than the one found, nor as near
\* and weaker.
LEMMA TierIsNearest ==
    ASSUME NEW models \in Seq(ModelSpec), NEW target \in Tier, NEW i \in DOMAIN models
    PROVE  LET tier == TierFor(models, target)
           IN  \/ Distance(tier, target) < Distance(models[i].tier, target)
               \/ /\ Distance(tier, target) = Distance(models[i].tier, target)
                  /\ Rank[tier] <= Rank[models[i].tier]
<1>1. models[i].tier \in Tier /\ Offers(models, models[i].tier)
  <2>1. models[i] \in ModelSpec
    OBVIOUS
  <2> QED
    BY <2>1 DEF ModelSpec, Offers
<1>2. CASE target = "fast"
  BY <1>1, <1>2 DEF TierFor, fallback_order, Tier, Distance, Rank
<1>3. CASE target = "balanced"
  BY <1>1, <1>3 DEF TierFor, fallback_order, Tier, Distance, Rank
<1>4. CASE target = "powerful"
  BY <1>1, <1>4 DEF TierFor, fallback_order, Tier, Distance, Rank
<1> QED
  BY <1>2, <1>3, <1>4 DEF Tier

\* NearestTier, for all settings and catalogs.
THEOREM TierOfDecision == Spec => []NearestTier
<1>1. Computed => NearestTier
  <2> SUFFICES ASSUME Computed, decision # None
               PROVE  NearestTier
    BY DEF NearestTier
  <2> DEFINE models == catalog[resolved_provider(settings)]
             target == target_tier(score_complexity(request.question))
  <2>1. target \in Tier /\ decision.tier = TierFor(models, target)
    BY DecisionIsListed
  <2>2. models \in Seq(ModelSpec)
    BY DispatchAssumption, DecisionIsListed DEF Computed, Catalogs
  <2> HIDE DEF models, target
  <2>3. \A i \in DOMAIN models :
            \/ Distance(decision.tier, target) < Distance(models[i].tier, target)
            \/ /\ Distance(decision.tier, target) = Distance(models[i].tier, target)
               /\ Rank[decision.tier] <= Rank[models[i].tier]
    BY <2>1, <2>2, TierIsNearest
  <2> QED
    BY <2>3 DEF NearestTier, models, target
<1> QED
  BY <1>1, ComputedInvariant, PTL

\* A question that has all another one has scores as high at least.
LEMMA ScoreGrows ==
    ASSUME NEW q \in Questions, NEW r \in Questions, AtLeastAsComplex(q, r)
    PROVE  score_complexity(q) >= score_complexity(r)
<1> DEFINE Length(x) == IF x.words < 60 THEN 2 * x.words ELSE 120
           Parts(x) == x.question_marks >= 2 \/ x.has_numbered_list
<1>1. Length(q) \in Int /\ Length(r) \in Int /\ Length(q) >= Length(r)
  BY DEF AtLeastAsComplex, Questions
<1>2. /\ Weight(q.code, 75) \in Int /\ Weight(r.code, 75) \in Int
      /\ Weight(q.code, 75) >= Weight(r.code, 75)
  BY DEF AtLeastAsComplex, Weight
<1>3. /\ Weight(Parts(q), 60) \in Int /\ Weight(Parts(r), 60) \in Int
      /\ Weight(Parts(q), 60) >= Weight(Parts(r), 60)
  BY DEF AtLeastAsComplex, Weight, Questions
<1>4. /\ Weight(q.depth, 45) \in Int /\ Weight(r.depth, 45) \in Int
      /\ Weight(q.depth, 45) >= Weight(r.depth, 45)
  BY DEF AtLeastAsComplex, Weight
<1>5. \A x \in Questions :
          score_complexity(x) = Length(x) + Weight(x.code, 75) + Weight(Parts(x), 60)
                                    + Weight(x.depth, 45)
  BY DEF score_complexity
<1> HIDE DEF Length, Parts
<1> QED
  BY <1>1, <1>2, <1>3, <1>4, <1>5

\* A target that is no weaker finds a tier that is no weaker.
LEMMA TierGrows ==
    ASSUME NEW models \in Seq(ModelSpec), models # <<>>,
           NEW high \in Int, NEW low \in Int, high >= low
    PROVE  Rank[TierFor(models, target_tier(high))] >= Rank[TierFor(models, target_tier(low))]
<1> DEFINE t1 == target_tier(high)
           t2 == target_tier(low)
<1>1. /\ TierFor(models, t1) \in Tier /\ Offers(models, TierFor(models, t1))
      /\ TierFor(models, t2) \in Tier /\ Offers(models, TierFor(models, t2))
  BY TierIsOffered DEF target_tier, Tier
<1>2. t1 = t2 \/ t2 = "fast" \/ t1 = "powerful"
  BY DEF target_tier
<1>3. t1 \in Tier /\ t2 \in Tier
  BY DEF target_tier, Tier
<1> HIDE DEF t1, t2
<1>4. Rank[TierFor(models, t1)] >= Rank[TierFor(models, t2)]
  <2>1. CASE t1 = t2
    BY <1>1, <2>1 DEF Tier, Rank
  <2>2. CASE t2 = "fast"
    BY <1>1, <1>3, <2>2 DEF TierFor, fallback_order, Tier, Rank
  <2>3. CASE t1 = "powerful"
    BY <1>1, <1>3, <2>3 DEF TierFor, fallback_order, Tier, Rank
  <2> QED
    BY <1>2, <2>1, <2>2, <2>3
<1> QED
  BY <1>4 DEF t1, t2

\* HarderIsNotWeaker, for all questions, settings and catalogs.
THEOREM HarderIsServedNoWorse == Spec => []HarderIsNotWeaker
<1>1. Computed => HarderIsNotWeaker
  <2> SUFFICES ASSUME Computed, decision # None, NEW q \in Question,
                      AtLeastAsComplex(q, request.question)
               PROVE  Rank[select_model(score_complexity(q),
                                catalog[resolved_provider(settings)]).tier]
                          >= Rank[decision.tier]
    BY DEF HarderIsNotWeaker
  <2> DEFINE models == catalog[resolved_provider(settings)]
             high == score_complexity(q)
             low == score_complexity(request.question)
  <2>1. models \in Seq(ModelSpec) /\ models # <<>>
    BY DispatchAssumption, DecisionIsListed DEF Computed, Catalogs
  <2>2. q \in Questions /\ request.question \in Questions
    BY DispatchAssumption, DecisionIsListed DEF Request
  <2>3. high \in Int /\ low \in Int /\ high >= low
    BY <2>2, ScoreIsInt, ScoreGrows
  <2>4. decision.tier = TierFor(models, target_tier(low))
    BY DecisionIsListed
  <2> HIDE DEF models, high, low
  <2>5. select_model(high, models).tier = TierFor(models, target_tier(high))
    BY <2>1, <2>3, SelectedModel
  <2>6. Rank[TierFor(models, target_tier(high))] >= Rank[TierFor(models, target_tier(low))]
    BY <2>1, <2>3, TierGrows
  <2> QED
    BY <2>4, <2>5, <2>6 DEF models, high
<1> QED
  BY <1>1, ComputedInvariant, PTL
=============================================================================
