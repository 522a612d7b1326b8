--------------------------- MODULE MCAdaptiveTree ---------------------------
(***************************************************************************)
(* Instances of AdaptiveTree with bytes of three bits and keys of three    *)
(* bytes: a root that goes through all node kinds, on two architectures;   *)
(* neighbours, nested prefixes, a default route and a prefix that ends     *)
(* inside a byte; and two writers of two shards.                           *)
(***************************************************************************)
EXTENDS AdaptiveTree

CONSTANTS w1, w2

P(x, y, z, len) == [key |-> <<x, y, z>>, len |-> len]

Fan == {P(b, 0, 0, 3) : b \in Bytes}

Near == {P(1, 2, 3, 9), P(1, 2, 5, 9), P(1, 4, 0, 9), P(1, 2, 0, 6), P(4, 6, 0, 4)}

WithDefault == {P(0, 0, 0, 0), P(1, 2, 3, 9), P(4, 6, 0, 4)}

MCScenarios ==
    {[prefixes |-> Fan, writers |-> {w1}, shards |-> 1, neon |-> FALSE, maxSize |-> 8],
     [prefixes |-> Fan, writers |-> {w1}, shards |-> 1, neon |-> TRUE, maxSize |-> 4],
     [prefixes |-> Near, writers |-> {w1}, shards |-> 1, neon |-> FALSE, maxSize |-> 3],
     [prefixes |-> WithDefault, writers |-> {w1}, shards |-> 1, neon |-> FALSE, maxSize |-> 3],
     [prefixes |-> {P(2, 2, 3, 9), P(2, 4, 0, 6)}, writers |-> {w1, w2},
      shards |-> 2, neon |-> FALSE, maxSize |-> 2]}

MCAddrs == {<<b, 0, 7>> : b \in Bytes}
           \cup {<<1, 2, 3>>, <<1, 2, 5>>, <<1, 4, 0>>, <<2, 2, 3>>, <<2, 4, 1>>, <<4, 6, 0>>}
=============================================================================
