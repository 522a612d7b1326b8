---------------------------- MODULE PolicyRoutes ----------------------------
(***************************************************************************)
(* PolicyState building its trie from the routes of a configuration        *)
(* (policy/src/watcher.rs), and what the trie promises about requests.     *)
(***************************************************************************)
EXTENDS RouteTrie

CONSTANTS Routes,       \* routes a configuration may list: [path, methods]
          Paths,        \* paths of requests, as they arrive
          Methods,      \* methods of requests
          MaxRoutes     \* bound: routes of a configuration

\* paths are sequences of segments, and the absent value is something else
ASSUME ConstantsAssumption ==
    /\ \A route \in Routes : route.path \in Seq(STRING)
    /\ Paths \subseteq Seq(STRING)
    /\ Nil \notin Nat \cup Seq(STRING)
    /\ MaxRoutes \in Nat

VARIABLES routes,       \* the routes inserted so far
          trie          \* the trie under construction

vars == <<routes, trie>>

Init == routes = <<>> /\ trie = EmptyTrie

\* one turn of the loop over rate_limit_routes.routes
AddRoute(route) ==
    /\ Len(routes) < MaxRoutes
    /\ routes' = Append(routes, route)
    /\ trie' = TrieInsert(trie, route, Len(routes) + 1)

Next == \E route \in Routes : AddRoute(route)

Spec == Init /\ [][Next]_vars
----------------------------------------------------------------------------
Segs(i) == SplitPath(routes[i].path)

\* the path has the route's segments, and more only after a final wildcard
Fits(i, path) ==
    LET pattern == Segs(i)
        segs == SplitPath(path)
        n == Len(pattern)
    IN  /\ n <= Len(segs)
        /\ \A k \in 1..n : pattern[k] \in {"*", segs[k]}
        /\ n = Len(segs) \/ (n > 0 /\ pattern[n] = "*")

ForMethod(i, method) == Upper[method] \in MethodKeys(routes[i]) \/ "" \in MethodKeys(routes[i])

Queries == Methods \X Paths

Found(q) == MatchRoute(trie, q[1], q[2])

TypeOK ==
    /\ Len(routes) <= MaxRoutes
    /\ \A n \in DOMAIN trie :
          /\ \A k \in 0..Len(n) : SubSeq(n, 1, k) \in DOMAIN trie
          /\ \A m \in DOMAIN trie[n] : Segs(trie[n][m]) = n

(***************************************************************************)
(* A limiter belongs to the request (match_route, route_trie.rs:67-93):    *)
(* the route whose limiter is used lists the method, and its segments fit  *)
(* the path, whatever fallbacks the walk has taken.                        *)
(***************************************************************************)
MatchSound ==
    \A q \in Queries :
        Found(q) # Nil => Fits(Found(q), q[2]) /\ ForMethod(Found(q), q[1])

(***************************************************************************)
(* "Exact segments take priority over wildcard (`*`) segments"             *)
(* (route_trie.rs:63): a request whose path and method some route spells   *)
(* out is limited by such a route, and by the last of them in the list     *)
(* that names the method.                                                  *)
(***************************************************************************)
ExactRouteWins ==
    \A q \in Queries :
        LET exact == {i \in 1..Len(routes) : Segs(i) = SplitPath(q[2]) /\ ForMethod(i, q[1])}
            named == {i \in exact : Upper[q[1]] \in MethodKeys(routes[i])}
        IN  exact # {} =>
                /\ Found(q) \in exact
                /\ named # {} => Found(q) \in named /\ \A i \in named : i <= Found(q)

\* another route that the walk towards route i may enter
Rivals(i, path) ==
    {j \in 1..Len(routes) : /\ Segs(j) # Segs(i) /\ Segs(j) # <<>>
                            /\ Segs(j)[1] \in {"*", SplitPath(path)[1]}}

(***************************************************************************)
(* "If a wildcard node exists at any level, it is recorded as a fallback"  *)
(* (route_trie.rs:64): a request that a route fits gets a limiter, longer  *)
(* paths than the route's included, if no other route leads the walk away. *)
(***************************************************************************)
LoneRouteFound ==
    \A q \in Queries, i \in 1..Len(routes) :
        Fits(i, q[2]) /\ ForMethod(i, q[1]) /\ Segs(i) # <<>> /\ Rivals(i, q[2]) = {}
            => Found(q) # Nil
=============================================================================
