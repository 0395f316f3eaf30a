------------------------------ MODULE Routing ------------------------------
(***************************************************************************)
(* Which model answers a miss, and with whose key: core/router_engine.py,  *)
(* core/model_registry.py, the provider resolution of core/config.py and   *)
(* the inference of a provider from a model name of api/router.py.  No     *)
(* state: the settings and the catalog are loaded once, and everything     *)
(* else is computed for each request.                                      *)
(*                                                                         *)
(* A question is what score_complexity counts in it, a model name what the *)
(* code looks for in it, and an API key the setting it was taken from.     *)
(***************************************************************************)
EXTENDS Integers, Sequences

CONSTANTS
    Model,       \* model names, as LiteLLM takes them
    StartsWith,  \* StartsWith[m]: the prefixes the lowered name m starts with
    Contains,    \* Contains[m]: the words the lowered name m contains
    None         \* Python's None, "", or a raised ConfigurationError

\* _SUPPORTED_PROVIDERS, and the keys of PROVIDER_MODELS.
Provider == {"gemini", "openai", "anthropic"}

OpenAIPrefix == {"openai/", "gpt-", "o1", "o3", "o4"}

ASSUME ModelAssumption ==
    /\ StartsWith \in [Model -> SUBSET ({"gemini/", "anthropic/"} \cup OpenAIPrefix)]
    /\ Contains \in [Model -> SUBSET {"gemini", "claude", "anthropic"}]
    /\ None \notin Model \cup Provider \cup {"legacy", "unsupported"}

-----------------------------------------------------------------------------
(* core/config.py *)

\* keys: the providers whose *_API_KEY is set.  LLM_API_KEY: is the legacy key
\* set?  An LLM_PROVIDER that is none of the supported ones is "unsupported".
Settings == [LLM_PROVIDER : Provider \cup {"unsupported", None},
             keys : SUBSET Provider, LLM_API_KEY : BOOLEAN, LLM_MODEL : Model]

\* The legacy key is taken for the provider that LLM_MODEL looks like.
legacy_provider(s) ==
    IF "gemini" \in Contains[s.LLM_MODEL] THEN "gemini"
    ELSE IF Contains[s.LLM_MODEL] \cap {"claude", "anthropic"} # {} THEN "anthropic"
    ELSE "openai"

\* Wrong: the legacy key counts only when LLM_PROVIDER is set.
resolved_provider_keys_only(s) ==
    CASE s.LLM_PROVIDER \in Provider -> s.LLM_PROVIDER
      [] s.LLM_PROVIDER = "unsupported" -> None
      [] OTHER -> IF "gemini" \in s.keys THEN "gemini"
                  ELSE IF "openai" \in s.keys THEN "openai"
                  ELSE IF "anthropic" \in s.keys THEN "anthropic"
                  ELSE None

\* The active provider, or None for a ConfigurationError.
resolved_provider(s) ==
    CASE s.LLM_PROVIDER \in Provider -> s.LLM_PROVIDER
      [] s.LLM_PROVIDER = "unsupported" -> None
      [] OTHER -> IF "gemini" \in s.keys THEN "gemini"
                  ELSE IF "openai" \in s.keys THEN "openai"
                  ELSE IF "anthropic" \in s.keys THEN "anthropic"
                  ELSE IF s.LLM_API_KEY THEN legacy_provider(s)
                  ELSE None

\* The key used for a provider: its own, else the legacy one, else an error.
api_key_for_provider(s, provider) ==
    IF provider \in s.keys THEN provider
    ELSE IF s.LLM_API_KEY THEN "legacy" ELSE None

-----------------------------------------------------------------------------
(* core/model_registry.py and core/router_engine.py *)

Tier == {"fast", "balanced", "powerful"}

ModelSpec == [model_id : Model, tier : Tier]

\* PROVIDER_MODELS: every provider has at least one model.
Catalogs == [Provider -> Seq(ModelSpec) \ {<<>>}]

\* What a query text has: words, code signals, question marks, a numbered
\* list, depth phrases.  A text without a word has nothing else.
Questions ==
    {q \in [words : Nat, code : BOOLEAN, question_marks : Nat,
            has_numbered_list : BOOLEAN, depth : BOOLEAN] :
        q.words = 0 => /\ ~q.code /\ ~q.has_numbered_list /\ ~q.depth
                       /\ q.question_marks = 0}

Weight(signal, points) == IF signal THEN points ELSE 0

\* The score in three-hundredths: 0.40 for 60 words and more, 0.25, 0.20, 0.15.
score_complexity(q) ==
    (IF q.words < 60 THEN 2 * q.words ELSE 120)
        + Weight(q.code, 75)
        + Weight(q.question_marks >= 2 \/ q.has_numbered_list, 60)
        + Weight(q.depth, 45)

\* score < 0.35 and score > 0.70 on doubles.  The sums that are 0.35 come out
\* as 0.35, those that are 0.70 (15 words and all signals, or 45 words, code
\* and depth) as 0.7000000000000001, and so count as powerful.
target_tier(score) ==
    IF score < 105 THEN "fast" ELSE IF score >= 210 THEN "powerful" ELSE "balanced"

\* Wrong: a fast model that is missing is made up for by the strongest.
fallback_order_strongest_first ==
    [fast     |-> <<"fast", "powerful", "balanced">>,
     balanced |-> <<"balanced", "fast", "powerful">>,
     powerful |-> <<"powerful", "balanced", "fast">>]

\* Wrong: ties go to the stronger tier.
fallback_order_stronger_on_ties ==
    [fast     |-> <<"fast", "balanced", "powerful">>,
     balanced |-> <<"balanced", "powerful", "fast">>,
     powerful |-> <<"powerful", "balanced", "fast">>]

\* The target tier itself, then its fallbacks.
fallback_order ==
    [fast     |-> <<"fast", "balanced", "powerful">>,
     balanced |-> <<"balanced", "fast", "powerful">>,
     powerful |-> <<"powerful", "balanced", "fast">>]

Offers(models, tier) == \E i \in DOMAIN models : models[i].tier = tier

\* The tier of the decision for a target tier.
TierFor(models, target) ==
    LET order == fallback_order[target]
    IN  IF Offers(models, order[1]) THEN order[1]
        ELSE IF Offers(models, order[2]) THEN order[2] ELSE order[3]

\* The first model of the tier that is nearest to the target.
select_model(score, models) ==
    LET tier == TierFor(models, target_tier(score))
    IN  models[CHOOSE i \in DOMAIN models :
                   models[i].tier = tier /\ \A j \in 1 .. i-1 : models[j].tier # tier]

\* Wrong: the loop gives up at the first entry.
get_model_spec_returns_in_loop(model_id, models) ==
    IF models[1].model_id = model_id THEN models[1] ELSE None

\* The first entry of that name, or None.
get_model_spec(model_id, models) ==
    IF \E i \in DOMAIN models : models[i].model_id = model_id
    THEN models[CHOOSE i \in DOMAIN models :
                    /\ models[i].model_id = model_id
                    /\ \A j \in 1 .. i-1 : models[j].model_id # model_id]
    ELSE None

-----------------------------------------------------------------------------
(* api/router.py *)

\* _infer_provider_from_model.
infer_provider(model) ==
    IF "gemini/" \in StartsWith[model] \/ "gemini" \in Contains[model] THEN "gemini"
    ELSE IF "anthropic/" \in StartsWith[model] \/ "claude" \in Contains[model]
         THEN "anthropic"
    ELSE IF StartsWith[model] \cap OpenAIPrefix # {} THEN "openai"
    ELSE None

\* Wrong: the key of the configured provider, whatever the model.
api_key_provider_ignores_override(s, override) == resolved_provider(s)

\* The provider whose key and prices are used; override is the model the body
\* names, or None.
api_key_provider(s, override) ==
    IF override # None /\ infer_provider(override) # None
    THEN infer_provider(override) ELSE resolved_provider(s)

\* The key the model is called with, or None for a ConfigurationError.
api_key(s, override) ==
    IF resolved_provider(s) = None THEN None
    ELSE api_key_for_provider(s, api_key_provider(s, override))
=============================================================================
