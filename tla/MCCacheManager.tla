--------------------------- MODULE MCCacheManager ---------------------------
(***************************************************************************)
(* Instances of CacheManager for TLC.  Two tenants whose ids and questions *)
(* are chosen so that "a" asking "b:c" and "a:b" asking "c" have the same  *)
(* query hash; two spellings of one question; and questions close to it    *)
(* and to each other.                                                      *)
(***************************************************************************)
EXTENDS CacheInvariant, TLC

CONSTANTS r1, r2, r3, r4

MCPiece == {"a", "b", "c", "d"}

MCText == {"b:c", " B:C", "c", "d"}

MCNormalize ==
    [q \in MCText |-> CASE q \in {"b:c", " B:C"} -> <<"b", "c">>
                        [] q = "c"               -> <<"c">>
                        [] q = "d"               -> <<"d">>]

\* "d" is close to both others, which are not close to each other: they are
\* just below the least threshold of module MCGateway.
MCSimilarity ==
    [pair \in Norm \X Norm |->
        CASE pair[1] = pair[2]                            -> 1000
          [] {pair[1], pair[2]} = {<<"d">>, <<"b", "c">>} -> 940
          [] {pair[1], pair[2]} = {<<"d">>, <<"c">>}      -> 960
          [] OTHER                                        -> 690]

Asks(tenant, query, threshold) ==
    [tenant_id |-> tenant, query_text |-> query, similarity_threshold |-> threshold]

\* One tenant: the same question twice, and a question close to it.
OneTenant ==
    (r1 :> Asks(<<"a">>, "b:c", 920)) @@ (r2 :> Asks(<<"a">>, " B:C", 999))
        @@ (r3 :> Asks(<<"a">>, "d", 920))

\* One tenant asks one question over and over; the other tenant's question has
\* the same query hash.
HotEntry ==
    [r \in Request |-> IF r = r4 THEN Asks(<<"a", "b">>, "c", 700)
                                  ELSE Asks(<<"a">>, "b:c", 920)]

Symmetry == Permutations(Request \ {r4})
=============================================================================
