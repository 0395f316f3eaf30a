----------------------------- MODULE MCGateway -----------------------------
(***************************************************************************)
(* Gateway for TLC.  The entry of r2 may answer r1 and r3, which cannot    *)
(* answer each other, and no entry may answer r2, whose threshold is above *)
(* the maximum; r3 sets one below the minimum, and overrides the model by  *)
(* one of a provider without a key; r4 has no valid token.                 *)
(***************************************************************************)
EXTENDS Gateway, MCCacheManager

Asked(defect, model, x_cache_threshold) ==
    [defect |-> defect, model |-> model, x_cache_threshold |-> x_cache_threshold]

MCHttp ==
    [r \in Request |-> CASE r = r1 -> Asked(None, None, None)
                         [] r = r2 -> Asked(None, "custom/local-model", 999)
                         [] r = r3 -> Asked(None, "gpt-4o", 400)
                         [] r = r4 -> Asked("token", None, None)]

MCModel == {"gemini/gemini-3.6-flash", "gpt-4o", "custom/local-model"}

MCStartsWith ==
    [m \in MCModel |-> CASE m = "gemini/gemini-3.6-flash" -> {"gemini/"}
                         [] m = "gpt-4o"                  -> {"gpt-"}
                         [] OTHER                         -> {}]

MCContains == [m \in MCModel |-> IF m = "gemini/gemini-3.6-flash" THEN {"gemini"} ELSE {}]

MCProviderSettings ==
    [LLM_PROVIDER |-> None, keys |-> {"gemini"}, LLM_API_KEY |-> FALSE,
     LLM_MODEL |-> "gemini/gemini-3.6-flash"]

MCArgs ==
    [r \in Request |->
        Asks(<<"a">>, CASE r = r1 -> "b:c" [] r = r2 -> "d" [] OTHER -> "c",
             threshold(Http[r].x_cache_threshold))]
=============================================================================
