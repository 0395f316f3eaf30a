----------------------------- MODULE MCDispatch -----------------------------
(***************************************************************************)
(* Dispatch for TLC: every combination of keys, with LLM_PROVIDER set or   *)
(* not; PROVIDER_MODELS as it is, and a catalog with tiers missing; models *)
(* of the catalog, other models of each provider, and nobody's; questions  *)
(* at both sides of every threshold.                                       *)
(***************************************************************************)
EXTENDS Dispatch, TLC

Gemini == {"gemini/gemini-3.5-flash-lite", "gemini/gemini-3.6-flash", "gemini/gemini-3.1-pro"}

Claude == {"anthropic/claude-3-5-haiku-latest", "anthropic/claude-sonnet-4-20250514",
           "anthropic/claude-opus-4-20250514"}

MCModel == Gemini \cup Claude
    \cup {"gpt-4o-mini", "gpt-4o", "o3-mini", "openai/gpt-5", "claude-2",
          "bedrock/anthropic.titan", "custom/local-model"}

MCStartsWith ==
    [m \in MCModel |-> CASE m \in Gemini                  -> {"gemini/"}
                         [] m \in Claude                  -> {"anthropic/"}
                         [] m \in {"gpt-4o-mini", "gpt-4o"} -> {"gpt-"}
                         [] m = "o3-mini"                 -> {"o3"}
                         [] m = "openai/gpt-5"            -> {"openai/"}
                         [] OTHER                         -> {}]

MCContains ==
    [m \in MCModel |-> CASE m \in Gemini                    -> {"gemini"}
                         [] m \in Claude                    -> {"anthropic", "claude"}
                         [] m = "claude-2"                  -> {"claude"}
                         [] m = "bedrock/anthropic.titan"   -> {"anthropic"}
                         [] OTHER                           -> {}]

MCDeployment ==
    {s \in [LLM_PROVIDER : Provider \cup {"unsupported", None},
            keys : SUBSET Provider, LLM_API_KEY : BOOLEAN,
            LLM_MODEL : {"gemini/gemini-3.6-flash", "claude-2", "bedrock/anthropic.titan",
                         "custom/local-model"}] :
        \/ s.LLM_MODEL = "gemini/gemini-3.6-flash"
        \/ s.LLM_PROVIDER = None /\ s.keys = {} /\ s.LLM_API_KEY}

Entry(model_id, tier) == [model_id |-> model_id, tier |-> tier]

PROVIDER_MODELS ==
    [gemini    |-> <<Entry("gemini/gemini-3.5-flash-lite", "fast"),
                     Entry("gemini/gemini-3.6-flash", "balanced"),
                     Entry("gemini/gemini-3.1-pro", "powerful")>>,
     openai    |-> <<Entry("gpt-4o-mini", "fast"), Entry("gpt-4o", "balanced"),
                     Entry("o3-mini", "powerful")>>,
     anthropic |-> <<Entry("anthropic/claude-3-5-haiku-latest", "fast"),
                     Entry("anthropic/claude-sonnet-4-20250514", "balanced"),
                     Entry("anthropic/claude-opus-4-20250514", "powerful")>>]

\* As in tests/test_router_engine.py, a provider without a balanced model;
\* another one without a fast one; and one with two models of its only tier.
MissingTiers ==
    [gemini    |-> <<Entry("gemini/gemini-3.1-pro", "powerful"),
                     Entry("gemini/gemini-3.5-flash-lite", "fast")>>,
     openai    |-> <<Entry("gpt-4o", "balanced"), Entry("o3-mini", "powerful")>>,
     anthropic |-> <<Entry("anthropic/claude-3-5-haiku-latest", "balanced"),
                     Entry("anthropic/claude-sonnet-4-20250514", "balanced")>>]

MCCatalog == {PROVIDER_MODELS, MissingTiers}

MCQuestion ==
    [words : {14, 15, 44, 45, 53}, code : BOOLEAN, question_marks : {1, 2},
     has_numbered_list : {FALSE}, depth : BOOLEAN]
    \cup {[words |-> 0, code |-> FALSE, question_marks |-> 0,
           has_numbered_list |-> FALSE, depth |-> FALSE],
          [words |-> 1, code |-> FALSE, question_marks |-> 0,
           has_numbered_list |-> TRUE, depth |-> TRUE]}
=============================================================================
