--------------------------- MODULE MCPolicyRoutes ---------------------------
(* Short routes with wildcards in every place, and all short request paths. *)
EXTENDS PolicyRoutes

MCUpper == [m \in {"get", "GET", "POST"} |-> IF m = "get" THEN "GET" ELSE m]

MCRoutes ==
    [path : {<<"">>, <<"", "a">>, <<"", "*">>, <<"a", "", "b">>, <<"a", "*">>,
             <<"a", "*", "c">>, <<"*", "b">>, <<"a", "b", "c", "">>},
     methods : {{}, {"get"}, {"GET", "POST"}}]

MCPaths == {<<"", "a", "">>} \cup UNION {[1..n -> {"a", "b", "c"}] : n \in 0..3}
=============================================================================
