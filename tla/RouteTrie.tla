------------------------------ MODULE RouteTrie ------------------------------
(***************************************************************************)
(* The trie of per-route limiters (policy/src/route_trie.rs), as operators *)
(* on tries.  A trie is a function from the segment paths of its nodes to  *)
(* their limiter tables, and a table maps method names to limiters; ""     *)
(* stands for every method.  The limiter of the i-th route is i.           *)
(***************************************************************************)
EXTENDS Integers, Sequences

CONSTANTS Upper,    \* to_uppercase, a function on the spellings of methods
          Nil

\* f, and g where f is not defined
Overlay(f, g) == [x \in DOMAIN f \cup DOMAIN g |-> IF x \in DOMAIN f THEN f[x] ELSE g[x]]

\* split_path: a path is the sequence of what stands between its slashes
SplitPath(path) ==
    LET segs[k \in 0..Len(path)] ==
            IF k = 0 THEN <<>>
            ELSE IF path[k] = "" THEN segs[k - 1]
            ELSE Append(segs[k - 1], path[k])
    IN  segs[Len(path)]

EmptyTrie == [n \in {<<>>} |-> <<>>]

\* the keys a route is stored under
MethodKeys(route) ==
    IF route.methods = {} THEN {""} ELSE {Upper[m] : m \in route.methods}

\* Mutant: the first of two limiters for one path and method stays.
TrieInsert_keeps(trie, route, i) ==
    LET segs == SplitPath(route.path)
        made == [n \in {SubSeq(segs, 1, k) : k \in 0..Len(segs)} |-> <<>>]
        whole == Overlay(trie, made)
    IN  [whole EXCEPT ![segs] = Overlay(@, [m \in MethodKeys(route) |-> i])]

\* insert: the nodes on the way are made, the limiter replaces an older one
TrieInsert(trie, route, i) ==
    LET segs == SplitPath(route.path)
        made == [n \in {SubSeq(segs, 1, k) : k \in 0..Len(segs)} |-> <<>>]
        whole == Overlay(trie, made)
    IN  [whole EXCEPT ![segs] = Overlay([m \in MethodKeys(route) |-> i], @)]

\* the loop over the configured routes
BuildTrie(routes) ==
    LET trie[i \in 0..Len(routes)] ==
            IF i = 0 THEN EmptyTrie ELSE TrieInsert(trie[i - 1], routes[i], i)
    IN  trie[Len(routes)]

\* RouteTrieNode::lookup
LimiterAt(trie, node, method) ==
    LET table == trie[node] IN
    CASE method \in DOMAIN table -> table[method]
      [] method \notin DOMAIN table /\ "" \in DOMAIN table -> table[""]
      [] OTHER -> Nil

\* Mutant: a path that leaves the trie ends at the last node it reached.
Descend_short(trie, at, seg) ==
    LET exact == Append(at.node, seg)
        star == Append(at.node, "*")
        wild == IF star \in DOMAIN trie THEN star ELSE at.wild
    IN  CASE exact \in DOMAIN trie -> [at EXCEPT !.node = exact, !.wild = wild]
          [] exact \notin DOMAIN trie /\ star \in DOMAIN trie ->
                 [at EXCEPT !.node = star, !.wild = star]
          [] OTHER -> at

(***************************************************************************)
(* One turn of match_route's loop: the exact child, else the wildcard one, *)
(* else a dead end.  The last wildcard child seen is kept as a fallback.   *)
(***************************************************************************)
Descend(trie, at, seg) ==
    LET exact == Append(at.node, seg)
        star == Append(at.node, "*")
        wild == IF star \in DOMAIN trie THEN star ELSE at.wild
    IN  CASE at.dead -> at
          [] ~at.dead /\ exact \in DOMAIN trie -> [at EXCEPT !.node = exact, !.wild = wild]
          [] ~at.dead /\ exact \notin DOMAIN trie /\ star \in DOMAIN trie ->
                 [at EXCEPT !.node = star, !.wild = star]
          [] OTHER -> [at EXCEPT !.dead = TRUE]

\* where the loop ends
Walk(trie, path) ==
    LET segs == SplitPath(path)
        at[k \in 0..Len(segs)] ==
            IF k = 0 THEN [node |-> <<>>, wild |-> Nil, dead |-> FALSE]
            ELSE Descend(trie, at[k - 1], segs[k])
    IN  at[Len(segs)]

\* Mutant: the fallback is forgotten at a dead end.
MatchRoute_noFallback(trie, method, path) ==
    LET at == Walk(trie, path)
    IN  IF at.dead THEN Nil ELSE LimiterAt(trie, at.node, Upper[method])

\* match_route
MatchRoute(trie, method, path) ==
    LET at == Walk(trie, path)
        terminal == IF at.dead THEN Nil ELSE LimiterAt(trie, at.node, Upper[method])
        fallback == IF at.wild = Nil THEN Nil ELSE LimiterAt(trie, at.wild, Upper[method])
    IN  IF terminal # Nil THEN terminal ELSE fallback
=============================================================================
