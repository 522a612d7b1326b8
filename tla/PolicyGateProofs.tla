-------------------------- MODULE PolicyGateProofs --------------------------
(***************************************************************************)
(* Proofs about requests through the adapters, for any number of requests  *)
(* and reloads, any configurations, addresses and inputs.                  *)
(*                                                                         *)
(* Types says what a request in progress can rely on: an address, a state  *)
(* and, when it is charged, buckets left to charge.  Three arguments rest  *)
(* on it.                                                                  *)
(*                                                                         *)
(* Limits: a token that a bucket gave is either paid for by a request that *)
(* was let through, or lost, or held by a request that still waits for its *)
(* second bucket.  Covered counts these: paid + left + pending <= made.    *)
(* LimitHolds alone is not inductive, since a request that is let through  *)
(* pays for buckets it took tokens from earlier.                           *)
(*                                                                         *)
(* Bans: Held says what still stands between a banned request and an       *)
(* answer other than "blocked": the tracker of its state, or the route in  *)
(* the engine.  A ban has its route there unless its request is still to   *)
(* put it in, or a sweeper has removed it.                                 *)
(*                                                                         *)
(* Addresses: Judged says that the address is what extract_ip finds with   *)
(* the state the request loaded, and a hop in front does not change that.  *)
(***************************************************************************)
EXTENDS PolicyGate, TLAPS

\* A leaf that names no prover is given to Zenon, which keeps the proofs of
\* sets, records and quantifiers apart from the SMT solver's arithmetic.
USE Zenon

\* Where a request can be
Pcs == {"idle", "load", "ban", "block", "limit", "consume", "denied", "insert", "done"}

\* Keys of a limiter: a network, or an address
Keyed == ({"subnet"} \X {Subnet[ip] : ip \in Ips}) \cup ({"exact"} \X Ips)

\* A bucket: the state it belongs to, the limiter, the key
Buckets == Nat \X Nat \X Keyed

\* Requests
Requests ==
    [pc : Pcs, input : Inputs \cup {Nil}, ip : Ips \cup {Nil}, gen : Nat, since : Nat,
     todo : Seq(Buckets), charged : SUBSET Buckets,
     result : {Nil, "probe", "bad", "blocked", "allow", "limited"},
     banned : BOOLEAN, lifted : BOOLEAN]

\* Auto-ban trackers
Trackers ==
    [threshold : Nat, violations : [Ips -> Nat], banned : [Ips -> {"no", "active", "expired"}],
     lift : SUBSET Ips, unblock : SUBSET Ips]

\* PolicyStates
States == [cfg : Configs, tracker : Nat, trie : {Nil} \cup {BuildTrie(c.routes) : c \in Configs}]

(***************************************************************************)
(* Facts about numbers and sets that the invariants carry: every nonempty  *)
(* set of naturals has a least element, and how finite sets are counted.   *)
(* LeastNat and CountingHolds, near the end, prove them.                   *)
(***************************************************************************)
WellOrdered == \A T \in SUBSET Nat : T # {} => \E x \in T : \A y \in T : x <= y

Counting ==
    /\ Cardinality({}) = 0
    /\ \A S : IsFiniteSet(S) => Cardinality(S) \in Nat
    /\ \A T : \A S \in SUBSET T :
          IsFiniteSet(T) => IsFiniteSet(S) /\ Cardinality(S) <= Cardinality(T)
    /\ \A S, x : IsFiniteSet(S) /\ x \notin S =>
          IsFiniteSet(S \cup {x}) /\ Cardinality(S \cup {x}) = Cardinality(S) + 1
    /\ \A S : \A x \in S : IsFiniteSet(S) =>
          IsFiniteSet(S \ {x}) /\ Cardinality(S \ {x}) = Cardinality(S) - 1

(***************************************************************************)
(* The watcher's place and what it has read; the states so far, each with  *)
(* the trie of its own routes or none, and with a tracker that exists.     *)
(***************************************************************************)
Loaded ==
    /\ WellOrdered
    /\ adapter \in Adapters /\ withEngine \in BOOLEAN
    /\ file \in Configs \cup {Nil} /\ wread \in Configs \cup {Nil}
    /\ wpc \in {"idle", "debounce", "store"} /\ (wpc = "store" => wread \in Configs)
    /\ gens \in Seq(States) /\ gens # <<>>
    /\ trackers \in Seq(Trackers)
    /\ \A g \in 1..Len(gens) : /\ gens[g].tracker \in 0..Len(trackers)
                               /\ gens[g].trie \in {Nil, BuildTrie(gens[g].cfg.routes)}
    /\ own \in 0..Len(trackers)

(***************************************************************************)
(* A request that is past its load has an address and a state; one that is *)
(* to be charged has a bucket left.                                        *)
(***************************************************************************)
Served ==
    /\ req \in [Reqs -> Requests]
    /\ \A r \in Reqs :
        /\ req[r].gen \in 0..Len(gens)
        /\ req[r].pc \in {"ban", "block", "limit", "consume", "denied", "insert"} => req[r].ip \in Ips
        /\ req[r].ip # Nil => req[r].gen \in 1..Len(gens) /\ req[r].input \in Inputs
        /\ req[r].pc = "load" => req[r].input \in Inputs /\ req[r].ip = Nil
        /\ req[r].pc = "consume" => req[r].todo # <<>>

\* What every step keeps, and every other argument uses
Types == Loaded /\ Served

----------------------------------------------------------------------------
\* A sequence with one element more.
LEMMA AppendAt ==
    ASSUME NEW S, NEW s \in Seq(S), NEW x \in S
    PROVE  /\ Append(s, x) \in Seq(S) /\ Len(Append(s, x)) = Len(s) + 1 /\ Len(s) \in Nat
           /\ \A i \in 1..Len(s) : Append(s, x)[i] = s[i]
           /\ Append(s, x)[Len(s) + 1] = x
           /\ Append(s, x) # <<>>
  BY SMT

\* Text parses to an address, or it is invalid.
LEMMA ParsedAddress ==
    ASSUME NEW text \in Ips \cup {Bad}
    PROVE  Parsed(text) \in Ips \cup {Invalid}
  BY DEF Parsed

----------------------------------------------------------------------------
\* A nonempty set of positions has a last one.
LEMMA LastIn ==
    ASSUME WellOrdered, NEW n \in Nat, NEW T \in SUBSET (1..n), T # {}
    PROVE  Last(T) \in T /\ \A j \in T : j <= Last(T)
<1>1. PICK D : D = {d \in Nat : \E j \in T : d = n - j}
  OBVIOUS
<1>2. D \in SUBSET Nat /\ D # {}
  <2>1. PICK j \in T : TRUE
    OBVIOUS
  <2>2. j \in 1..n
    OBVIOUS
  <2>3. n - j \in Nat
    BY <2>2, SMT
  <2> QED
    BY <1>1, <2>3
<1>3. PICK d \in D : \A e \in D : d <= e
  BY <1>2 DEF WellOrdered
<1>4. PICK k \in T : d = n - k
  BY <1>1
<1>5. \A j \in T : j <= k
  <2> TAKE j \in T
  <2>1. j \in 1..n /\ k \in 1..n
    OBVIOUS
  <2>2. n - j \in Nat
    BY <2>1, SMT
  <2>3. n - k <= n - j
    BY <1>1, <1>3, <1>4, <2>2
  <2> QED
    BY <2>1, <2>3, SMT
<1> QED
  BY <1>5 DEF Last

(***************************************************************************)
(* A hop put in front of X-Forwarded-For does not change what extract_ip   *)
(* finds, if there is an untrusted hop behind it.                          *)
(***************************************************************************)
LEMMA ForgedHop ==
    ASSUME WellOrdered, NEW in \in Inputs, NEW trusted, NEW hop \in Ips \cup {Bad}, in.xff # Nil,
           NEW k0 \in 1..Len(in.xff), in.xff[k0] \notin trusted
    PROVE  ExtractIp([in EXCEPT !.xff = <<hop>> \o @], trusted) = ExtractIp(in, trusted)
\* With an untrusted hop, extract_ip takes the last one.
<1>LastStop.
      ASSUME NEW h, NEW known, h.xff # Nil, NEW T,
             T = {k \in 1..Len(h.xff) : h.xff[k] \notin known}, T # {}
      PROVE  ExtractIp(h, known) = Parsed(h.xff[Last(T)])
  BY <1>LastStop DEF ExtractIp
\* The greatest element of a set of positions is its last one.
<1>LastIs.
      ASSUME NEW T \in SUBSET Nat, NEW k \in T, \A j \in T : j <= k
      PROVE  Last(T) = k
  <2> USE <1>LastIs
  <2>1. Last(T) \in T /\ \A j \in T : j <= Last(T)
    BY DEF Last
  <2>2. Last(T) \in Nat /\ k \in Nat /\ Last(T) <= k /\ k <= Last(T)
    BY <2>1
  <2> QED
    BY <2>2, SMT
<1>1. PICK s \in Seq(Ips \cup {Bad}) : s = in.xff
  BY ConstantsAssumption
<1>2. PICK z : z = <<hop>> \o s
  OBVIOUS
<1>3. /\ z \in Seq(Ips \cup {Bad}) /\ Len(z) = Len(s) + 1 /\ Len(s) \in Nat
      /\ \A i \in 1..Len(s) : z[i + 1] = s[i]
  BY <1>2, SMT
<1>4. z # Nil
  BY <1>3, ConstantsAssumption
<1>5. PICK h : h = [in EXCEPT !.xff = <<hop>> \o @]
  OBVIOUS
<1>6. h.xff = z
  <2>1. in \in [probe : BOOLEAN, xff : {Nil} \cup Seq(Ips \cup {Bad}),
                real : Ips \cup {Bad, Nil}, remote : Ips \cup {Nil},
                packed : Ips \cup {Bad}, method : DOMAIN Upper, path : Seq(STRING)]
    BY ConstantsAssumption
  <2>2. h = [in EXCEPT !.xff = z]
    BY <1>1, <1>2, <1>5
  <2> QED
    BY <2>1, <2>2
<1>7. PICK T : T = {k \in 1..Len(s) : s[k] \notin trusted}
  OBVIOUS
<1>8. PICK U : U = {k \in 1..Len(z) : z[k] \notin trusted}
  OBVIOUS
<1>9. k0 \in T /\ T \in SUBSET (1..Len(s)) /\ U \in SUBSET Nat
  BY <1>1, <1>3, <1>7, <1>8, SMT
<1>10. PICK k \in T : k = Last(T) /\ \A j \in T : j <= k
  BY <1>3, <1>9, LastIn
<1>11. k \in 1..Len(s) /\ k + 1 \in 1..Len(z) /\ z[k + 1] = s[k]
  BY <1>3, <1>9, SMT
<1>12. k + 1 \in U
  BY <1>7, <1>8, <1>11
<1>13. \A j \in U : j <= k + 1
  <2> TAKE j \in U
  <2>1. j \in 1..(Len(s) + 1) /\ z[j] \notin trusted
    BY <1>3, <1>8
  <2>2. CASE j = 1
    BY <1>11, <2>2, SMT
  <2>3. CASE j # 1
    <3>1. j - 1 \in 1..Len(s) /\ (j - 1) + 1 = j
      BY <1>3, <2>1, <2>3, SMT
    <3>2. s[j - 1] = z[j]
      BY <1>3, <3>1
    <3>3. j - 1 \in T
      BY <1>7, <2>1, <3>1, <3>2
    <3> QED
      BY <1>10, <1>11, <3>1, <3>3, SMT
  <2> QED
    BY <2>2, <2>3
<1>14. Last(U) = k + 1
  BY <1>9, <1>12, <1>13, <1>LastIs
<1>15. ExtractIp(h, trusted) = Parsed(z[k + 1])
  <2>1. h.xff # Nil /\ U # {} /\ U = {i \in 1..Len(h.xff) : h.xff[i] \notin trusted}
    BY <1>4, <1>6, <1>8, <1>12
  <2>2. ExtractIp(h, trusted) = Parsed(h.xff[Last(U)])
    BY <2>1, <1>LastStop
  <2> QED
    BY <1>6, <1>14, <2>2
<1>16. ExtractIp(in, trusted) = Parsed(s[k])
  <2>1. in.xff # Nil /\ T # {} /\ T = {i \in 1..Len(in.xff) : in.xff[i] \notin trusted}
    BY <1>1, <1>7, <1>9
  <2>2. ExtractIp(in, trusted) = Parsed(in.xff[Last(T)])
    BY <2>1, <1>LastStop
  <2> QED
    BY <1>1, <1>10, <2>2
<1> QED
  BY <1>5, <1>11, <1>15, <1>16

----------------------------------------------------------------------------
\* A step of r that keeps its input, address, state and history
Advances(r) ==
    /\ req' \in [Reqs -> Requests]
    /\ \A q \in Reqs : q # r => req'[q] = req[q]
    /\ req'[r].input = req[r].input /\ req'[r].ip = req[r].ip /\ req'[r].gen = req[r].gen
    /\ req'[r].banned = req[r].banned /\ req'[r].lifted = req[r].lifted

\* What Answer changes.
LEMMA AnswerFields ==
    ASSUME req \in [Reqs -> Requests], NEW r \in Reqs,
           NEW result \in {"bad", "blocked", "allow", "limited"}, Answer(r, result)
    PROVE  /\ Advances(r) /\ req'[r].pc = "done" /\ req'[r].result = result
           /\ req'[r].todo = req[r].todo /\ req'[r].charged = req[r].charged
<1>1. PICK k : k = [req[r] EXCEPT !.pc = "done", !.result = result]
  OBVIOUS
<1>2. req[r] \in Requests
  OBVIOUS
<1>3. /\ k \in Requests /\ k.pc = "done" /\ k.result = result
      /\ k.todo = req[r].todo /\ k.charged = req[r].charged
      /\ k.input = req[r].input /\ k.ip = req[r].ip /\ k.gen = req[r].gen
      /\ k.banned = req[r].banned /\ k.lifted = req[r].lifted
  BY <1>1, <1>2 DEF Requests, Pcs
<1>4. req' = [req EXCEPT ![r] = k]
  BY <1>1 DEF Answer
<1>5. req' \in [Reqs -> Requests] /\ req'[r] = k /\ \A q \in Reqs : q # r => req'[q] = req[q]
  BY <1>3, <1>4
<1> QED
  BY <1>3, <1>5 DEF Advances

\* What Go changes.
LEMMA GoFields ==
    ASSUME req \in [Reqs -> Requests], NEW r \in Reqs, NEW p \in Pcs, Go(r, p)
    PROVE  /\ Advances(r) /\ req'[r].pc = p /\ req'[r].result = req[r].result
           /\ req'[r].todo = req[r].todo /\ req'[r].charged = req[r].charged
<1>1. PICK k : k = [req[r] EXCEPT !.pc = p]
  OBVIOUS
<1>2. req[r] \in Requests
  OBVIOUS
<1>3. /\ k \in Requests /\ k.pc = p /\ k.result = req[r].result
      /\ k.todo = req[r].todo /\ k.charged = req[r].charged
      /\ k.input = req[r].input /\ k.ip = req[r].ip /\ k.gen = req[r].gen
      /\ k.banned = req[r].banned /\ k.lifted = req[r].lifted
  BY <1>1, <1>2 DEF Requests
<1>4. req' = [req EXCEPT ![r] = k]
  BY <1>1 DEF Go
<1>5. req' \in [Reqs -> Requests] /\ req'[r] = k /\ \A q \in Reqs : q # r => req'[q] = req[q]
  BY <1>3, <1>4
<1> QED
  BY <1>3, <1>5 DEF Advances

\* A request that arrives is to load its state, or was a probe.
LEMMA ArriveFields ==
    ASSUME req \in [Reqs -> Requests], gens \in Seq(States), NEW r \in Reqs, NEW input \in Inputs,
           Arrive(r, input)
    PROVE  /\ req' \in [Reqs -> Requests] /\ \A q \in Reqs : q # r => req'[q] = req[q]
           /\ req'[r].pc \in {"load", "done"} /\ req'[r].input = input
           /\ req'[r].ip = Nil /\ req'[r].gen = 0 /\ req'[r].banned = FALSE
           /\ \/ req'[r].pc = "load" /\ req'[r].result = Nil
              \/ req'[r].pc = "done" /\ req'[r].result = "probe"
           /\ req'[r].charged = {}
<1>1. /\ Idle \in Requests /\ Idle.ip = Nil /\ Idle.gen = 0 /\ Idle.banned = FALSE
      /\ Idle.result = Nil /\ Idle.charged = {}
  BY SMT DEF Idle, Requests, Pcs
<1>2. PICK x : x = Idle
  OBVIOUS
<1>3. PICK k : k = [x EXCEPT !.pc = "done", !.input = input, !.result = "probe"]
  OBVIOUS
<1>4. PICK l : l = [x EXCEPT !.pc = "load", !.input = input, !.since = Len(gens)]
  OBVIOUS
<1>5. /\ k \in Requests /\ k.pc = "done" /\ k.input = input /\ k.ip = Nil /\ k.gen = 0
      /\ k.banned = FALSE /\ k.result = "probe" /\ k.charged = {}
  BY <1>1, <1>2, <1>3 DEF Requests, Pcs
<1>6. /\ l \in Requests /\ l.pc = "load" /\ l.input = input /\ l.ip = Nil /\ l.gen = 0
      /\ l.banned = FALSE /\ l.result = Nil /\ l.charged = {}
  <2>1. Len(gens) \in Nat
    BY SMT
  <2> QED
    BY <1>1, <1>2, <1>4, <2>1 DEF Requests, Pcs
<1>7. req' = [req EXCEPT ![r] = k] \/ req' = [req EXCEPT ![r] = l]
  <2>1. req' = [req EXCEPT ![r] = IF adapter.probes /\ input.probe THEN k ELSE l]
    BY <1>2, <1>3, <1>4 DEF Arrive
  <2> QED
    BY <2>1
<1> QED
  BY <1>5, <1>6, <1>7

\* A step that excuses the requests about some addresses and changes nothing else of them
Excused(ips) ==
    /\ req' \in [Reqs -> Requests]
    /\ \A r \in Reqs :
        /\ req'[r].pc = req[r].pc /\ req'[r].input = req[r].input /\ req'[r].ip = req[r].ip
        /\ req'[r].gen = req[r].gen /\ req'[r].todo = req[r].todo
        /\ req'[r].charged = req[r].charged /\ req'[r].result = req[r].result
        /\ req'[r].banned = req[r].banned
        /\ (req'[r].lifted <=> req[r].lifted \/ req[r].ip \in ips)

\* Excusing addresses changes nothing else about the requests.
LEMMA ExcuseFields ==
    ASSUME req \in [Reqs -> Requests], NEW ips, Excuse(ips)
    PROVE  Excused(ips)
<1>1. ASSUME NEW r \in Reqs, NEW k, k = [req[r] EXCEPT !.lifted = @ \/ req[r].ip \in ips]
      PROVE  /\ k \in Requests
             /\ k.pc = req[r].pc /\ k.input = req[r].input /\ k.ip = req[r].ip
             /\ k.gen = req[r].gen /\ k.todo = req[r].todo
             /\ k.charged = req[r].charged /\ k.result = req[r].result
             /\ k.banned = req[r].banned
             /\ (k.lifted <=> req[r].lifted \/ req[r].ip \in ips)
  <2>1. req[r] \in Requests
    OBVIOUS
  <2>2. PICK x \in BOOLEAN : x <=> req[r].lifted \/ req[r].ip \in ips
    OBVIOUS
  <2>3. k = [req[r] EXCEPT !.lifted = x]
    BY <1>1, <2>1, <2>2 DEF Requests
  <2> QED
    BY <2>1, <2>2, <2>3 DEF Requests
<1>2. req' = [r \in Reqs |-> [req[r] EXCEPT !.lifted = @ \/ req[r].ip \in ips]]
  BY DEF Excuse
<1>3. \A r \in Reqs : req'[r] = [req[r] EXCEPT !.lifted = @ \/ req[r].ip \in ips]
  BY <1>2
<1>4. \A r \in Reqs : req'[r] \in Requests
  BY <1>1, <1>3
<1>5. req' \in [Reqs -> Requests]
  BY <1>2, <1>4
<1> QED
  BY <1>1, <1>3, <1>5, SMT DEF Excused

----------------------------------------------------------------------------
\* f[k] holds what split_path has collected after k parts
Splits(f, path, n) ==
    f = [k \in 0..n |-> IF k = 0 THEN <<>>
                        ELSE IF path[k] = "" THEN f[k - 1] ELSE Append(f[k - 1], path[k])]

\* f[i] is the trie after i routes
Builds(f, routes, n) ==
    f = [i \in 0..n |-> IF i = 0 THEN EmptyTrie ELSE TrieInsert(f[i - 1], routes[i], i)]

\* f[k] is where match_route is after k segments
Walks(f, trie, segs, n) ==
    f = [k \in 0..n |-> IF k = 0 THEN [node |-> <<>>, wild |-> Nil, dead |-> FALSE]
                        ELSE Descend(trie, f[k - 1], segs[k])]

\* The trie has a root, and its limiters are those of the first n routes
Tables(trie, n) ==
    /\ <<>> \in DOMAIN trie
    /\ \A d \in DOMAIN trie : \A m \in DOMAIN trie[d] : trie[d][m] \in 1..n

\* match_route returns the limiter of one of the routes, or none.
LEMMA MatchRouteIn ==
    ASSUME WellOrdered, NEW Routes, NEW list \in Seq(Routes), NEW verb, NEW url \in Seq(STRING)
    PROVE  MatchRoute(BuildTrie(list), verb, url) \in {Nil} \cup 1..Len(list)
\* Induction, for a set of naturals.
<1>InductionOnSet.
      ASSUME NEW S, 0 \in S, \A n \in Nat : n \in S => n + 1 \in S
      PROVE  \A n \in Nat : n \in S
  <2> USE <1>InductionOnSet
  <2> SUFFICES ASSUME Nat \ S # {} PROVE FALSE
    OBVIOUS
  <2>1. PICK x \in Nat \ S : \A y \in Nat \ S : x <= y
    BY DEF WellOrdered
  <2>2. x - 1 \in Nat /\ x - 1 \notin Nat \ S
    BY <2>1, SMT
  <2> QED
    BY <2>1, <2>2, SMT
\* split_path's loop is defined for every number of parts.
<1>SplitsExists.
      ASSUME NEW path
      PROVE  \A n \in Nat : \E f : Splits(f, path, n)
  <2> PICK S : S = {n \in Nat : \E f : Splits(f, path, n)}
    OBVIOUS
  <2>1. 0 \in S
    <3>0. \A i \in 0..0 : i = 0
      BY SMT
    <3>1. Splits([i \in 0..0 |-> <<>>], path, 0)
      BY <3>0 DEF Splits
    <3> QED
      BY <3>1
  <2>2. ASSUME NEW n \in Nat, n \in S PROVE n + 1 \in S
    <3>1. PICK f : Splits(f, path, n)
      BY <2>2
    <3>2. PICK x : x = (IF path[n + 1] = "" THEN f[n] ELSE Append(f[n], path[n + 1]))
      OBVIOUS
    <3>3. PICK g : g = [i \in 0..(n + 1) |-> IF i = n + 1 THEN x ELSE f[i]]
      OBVIOUS
    <3>4. ASSUME NEW i \in 0..(n + 1)
          PROVE  g[i] = IF i = 0 THEN <<>> ELSE (IF path[i] = "" THEN g[i - 1] ELSE Append(g[i - 1], path[i]))
      <4>1. CASE i = n + 1
        <5>1. i # 0 /\ i - 1 = n /\ n \in 0..(n + 1) /\ n # n + 1
          BY <4>1, SMT
        <5>2. g[i] = x /\ g[i - 1] = f[n]
          BY <3>3, <4>1, <5>1
        <5> QED
          BY <3>2, <4>1, <5>1, <5>2
      <4>2. CASE i # n + 1
        <5>1. i \in 0..n /\ (i # 0 => i - 1 \in 0..n /\ i - 1 \in 0..(n + 1) /\ i - 1 # n + 1)
          BY <4>2, SMT
        <5>2. g[i] = f[i] /\ (i # 0 => g[i - 1] = f[i - 1])
          BY <3>3, <4>2, <5>1
        <5>3. f[i] = IF i = 0 THEN <<>> ELSE (IF path[i] = "" THEN f[i - 1] ELSE Append(f[i - 1], path[i]))
          BY <3>1, <5>1 DEF Splits
        <5> QED
          BY <5>2, <5>3
      <4> QED
        BY <4>1, <4>2
    <3>5. Splits(g, path, n + 1)
      <4>1. g = [i \in 0..(n + 1) |-> g[i]]
        BY <3>3
      <4> QED
        BY <3>4, <4>1 DEF Splits
    <3> QED
      BY <3>5, SMT
  <2>3. \A n \in Nat : n \in S
    BY <2>1, <2>2, <1>InductionOnSet
  <2> QED
    BY <2>3
\* split_path returns a sequence of segments.
<1>SplitPathSeq.
      ASSUME NEW path \in Seq(STRING)
      PROVE  SplitPath(path) \in Seq(STRING)
  <2>0. Len(path) \in Nat
    BY SMT
  <2>1. PICK f : f = (CHOOSE h : Splits(h, path, Len(path)))
    OBVIOUS
  <2>2. SplitPath(path) = f[Len(path)]
    BY <2>1 DEF SplitPath, Splits
  <2>3. Splits(f, path, Len(path))
    BY <2>0, <2>1, <1>SplitsExists
  <2> PICK S : S = {n \in Nat : n <= Len(path) => f[n] \in Seq(STRING)}
    OBVIOUS
  <2>4. 0 \in S
    <3>1. 0 \in 0..Len(path)
      BY <2>0, SMT
    <3>2. f[0] = <<>>
      BY <2>3, <3>1 DEF Splits
    <3>3. <<>> \in Seq(STRING)
      BY SMT
    <3> QED
      BY <3>2, <3>3
  <2>5. ASSUME NEW n \in Nat, n \in S PROVE n + 1 \in S
    <3> SUFFICES ASSUME n + 1 <= Len(path) PROVE f[n + 1] \in Seq(STRING)
      BY SMT
    <3>1. n + 1 \in 0..Len(path) /\ n + 1 # 0 /\ (n + 1) - 1 = n /\ n <= Len(path) /\ n + 1 \in 1..Len(path)
      BY <2>0, SMT
    <3>2. f[n] \in Seq(STRING) /\ path[n + 1] \in STRING
      BY <2>5, <3>1, SMT
    <3>3. f[n + 1] = IF path[n + 1] = "" THEN f[n] ELSE Append(f[n], path[n + 1])
      BY <2>3, <3>1 DEF Splits
    <3>4. Append(f[n], path[n + 1]) \in Seq(STRING)
      BY <3>2, AppendAt
    <3> QED
      BY <3>2, <3>3, <3>4
  <2>6. Len(path) \in S
    BY <2>0, <2>4, <2>5, <1>InductionOnSet
  <2> QED
    BY <2>0, <2>2, <2>6, SMT
\* The loop over the routes is defined for every number of routes.
<1>BuildsExists.
      ASSUME NEW routes
      PROVE  \A n \in Nat : \E f : Builds(f, routes, n)
  <2> PICK S : S = {n \in Nat : \E f : Builds(f, routes, n)}
    OBVIOUS
  <2>1. 0 \in S
    <3>0. \A i \in 0..0 : i = 0
      BY SMT
    <3>1. Builds([i \in 0..0 |-> EmptyTrie], routes, 0)
      BY <3>0 DEF Builds
    <3> QED
      BY <3>1
  <2>2. ASSUME NEW n \in Nat, n \in S PROVE n + 1 \in S
    <3>1. PICK f : Builds(f, routes, n)
      BY <2>2
    <3>2. PICK x : x = TrieInsert(f[n], routes[n + 1], n + 1)
      OBVIOUS
    <3>3. PICK g : g = [i \in 0..(n + 1) |-> IF i = n + 1 THEN x ELSE f[i]]
      OBVIOUS
    <3>4. ASSUME NEW i \in 0..(n + 1)
          PROVE  g[i] = IF i = 0 THEN EmptyTrie ELSE TrieInsert(g[i - 1], routes[i], i)
      <4>1. CASE i = n + 1
        <5>1. i # 0 /\ i - 1 = n /\ n \in 0..(n + 1) /\ n # n + 1
          BY <4>1, SMT
        <5>2. g[i] = x /\ g[i - 1] = f[n]
          BY <3>3, <4>1, <5>1
        <5> QED
          BY <3>2, <4>1, <5>1, <5>2
      <4>2. CASE i # n + 1
        <5>1. i \in 0..n /\ (i # 0 => i - 1 \in 0..n /\ i - 1 \in 0..(n + 1) /\ i - 1 # n + 1)
          BY <4>2, SMT
        <5>2. g[i] = f[i] /\ (i # 0 => g[i - 1] = f[i - 1])
          BY <3>3, <4>2, <5>1
        <5>3. f[i] = IF i = 0 THEN EmptyTrie ELSE TrieInsert(f[i - 1], routes[i], i)
          BY <3>1, <5>1 DEF Builds
        <5> QED
          BY <5>2, <5>3
      <4> QED
        BY <4>1, <4>2
    <3>5. Builds(g, routes, n + 1)
      <4>1. g = [i \in 0..(n + 1) |-> g[i]]
        BY <3>3
      <4> QED
        BY <3>4, <4>1 DEF Builds
    <3> QED
      BY <3>5, SMT
  <2>3. \A n \in Nat : n \in S
    BY <2>1, <2>2, <1>InductionOnSet
  <2> QED
    BY <2>3
\* Where an overlay is defined, and its values.
<1>OverlayAt.
      ASSUME NEW f, NEW g
      PROVE  /\ DOMAIN Overlay(f, g) = DOMAIN f \cup DOMAIN g
             /\ \A x \in DOMAIN f \cup DOMAIN g : Overlay(f, g)[x] = IF x \in DOMAIN f THEN f[x] ELSE g[x]
  BY DEF Overlay
\* Inserting the next route keeps the limiters in range.
<1>InsertTables.
      ASSUME NEW trie, NEW n \in Nat, Tables(trie, n), NEW route
      PROVE  Tables(TrieInsert(trie, route, n + 1), n + 1)
  <2> USE <1>InsertTables
  <2>1. PICK segs : segs = SplitPath(route.path)
    OBVIOUS
  <2>2. PICK made : made = [d \in {SubSeq(segs, 1, k) : k \in 0..Len(segs)} |-> <<>>]
    OBVIOUS
  <2>3. PICK whole : whole = Overlay(trie, made)
    OBVIOUS
  <2>4. PICK keys : keys = [m \in MethodKeys(route) |-> n + 1]
    OBVIOUS
  <2>5. PICK all : all = [whole EXCEPT ![segs] = Overlay(keys, @)]
    OBVIOUS
  <2>6. TrieInsert(trie, route, n + 1) = all
    BY <2>1, <2>2, <2>3, <2>4, <2>5 DEF TrieInsert
  <2>7. 1..n \subseteq 1..(n + 1) /\ n + 1 \in 1..(n + 1)
    BY SMT
  <2>8. \A d \in DOMAIN made : made[d] = <<>>
    BY <2>2
  <2>9. DOMAIN <<>> = {}
    BY SMT
  <2>10. \A d \in DOMAIN whole : \A m \in DOMAIN whole[d] : whole[d][m] \in 1..(n + 1)
    <3> TAKE d \in DOMAIN whole
    <3>1. CASE d \in DOMAIN trie
      <4>1. whole[d] = trie[d]
        BY <2>3, <3>1, <1>OverlayAt
      <4> QED
        BY <2>7, <3>1, <4>1 DEF Tables
    <3>2. CASE d \notin DOMAIN trie
      <4>1. d \in DOMAIN made /\ whole[d] = made[d]
        BY <2>3, <3>2 DEF Overlay
      <4> QED
        BY <2>8, <2>9, <4>1
    <3> QED
      BY <3>1, <3>2
  <2>11. DOMAIN all = DOMAIN whole /\ \A d \in DOMAIN whole : d # segs => all[d] = whole[d]
    BY <2>3, <2>5 DEF Overlay
  <2>12. ASSUME segs \in DOMAIN whole, NEW m \in DOMAIN all[segs] PROVE all[segs][m] \in 1..(n + 1)
    <3>1. all[segs] = Overlay(keys, whole[segs])
      BY <2>5, <2>12
    <3>2. CASE m \in DOMAIN keys
      <4>1. all[segs][m] = keys[m] /\ keys[m] = n + 1
        BY <2>4, <3>1, <3>2 DEF Overlay
      <4> QED
        BY <2>7, <4>1
    <3>3. CASE m \notin DOMAIN keys
      <4>1. m \in DOMAIN whole[segs] /\ all[segs][m] = whole[segs][m]
        BY <2>12, <3>1, <3>3 DEF Overlay
      <4> QED
        BY <2>10, <2>12, <4>1
    <3> QED
      BY <3>2, <3>3
  <2>13. <<>> \in DOMAIN all
    BY <2>3, <2>11, <1>OverlayAt DEF Tables
  <2> QED
    BY <2>6, <2>10, <2>11, <2>12, <2>13 DEF Tables
\* The limiters in a trie are those of its routes.
<1>BuildTables.
      ASSUME NEW S, NEW routes \in Seq(S)
      PROVE  Tables(BuildTrie(routes), Len(routes))
  <2>0. Len(routes) \in Nat
    BY SMT
  <2>1. PICK f : f = (CHOOSE h : Builds(h, routes, Len(routes)))
    OBVIOUS
  <2>2. BuildTrie(routes) = f[Len(routes)]
    BY <2>1 DEF BuildTrie, Builds
  <2>3. Builds(f, routes, Len(routes))
    BY <2>0, <2>1, <1>BuildsExists
  <2> PICK G : G = {n \in Nat : n <= Len(routes) => Tables(f[n], n)}
    OBVIOUS
  <2>4. 0 \in G
    <3>1. 0 \in 0..Len(routes)
      BY <2>0, SMT
    <3>2. f[0] = EmptyTrie
      BY <2>3, <3>1 DEF Builds
    <3>3. Tables(EmptyTrie, 0)
      BY SMT DEF Tables, EmptyTrie
    <3> QED
      BY <3>2, <3>3
  <2>5. ASSUME NEW n \in Nat, n \in G PROVE n + 1 \in G
    <3> SUFFICES ASSUME n + 1 <= Len(routes) PROVE Tables(f[n + 1], n + 1)
      BY SMT
    <3>1. n + 1 \in 0..Len(routes) /\ n + 1 # 0 /\ (n + 1) - 1 = n /\ n <= Len(routes)
      BY <2>0, SMT
    <3>2. Tables(f[n], n)
      BY <2>5, <3>1
    <3>3. f[n + 1] = TrieInsert(f[n], routes[n + 1], n + 1)
      BY <2>3, <3>1 DEF Builds
    <3> QED
      BY <3>2, <3>3, <1>InsertTables
  <2>6. Len(routes) \in G
    BY <2>0, <2>4, <2>5, <1>InductionOnSet
  <2> QED
    BY <2>0, <2>2, <2>6, SMT
\* What a lookup in a node's table returns.
<1>LimiterAtIn.
      ASSUME NEW trie, NEW n, Tables(trie, n), NEW node \in DOMAIN trie, NEW method
      PROVE  LimiterAt(trie, node, method) \in {Nil} \cup 1..n
  BY <1>LimiterAtIn DEF LimiterAt, Tables
\* match_route's loop is defined for every number of segments.
<1>WalksExists.
      ASSUME NEW trie, NEW segs
      PROVE  \A n \in Nat : \E f : Walks(f, trie, segs, n)
  <2> PICK S : S = {n \in Nat : \E f : Walks(f, trie, segs, n)}
    OBVIOUS
  <2>1. 0 \in S
    <3>0. \A i \in 0..0 : i = 0
      BY SMT
    <3>1. Walks([i \in 0..0 |-> [node |-> <<>>, wild |-> Nil, dead |-> FALSE]], trie, segs, 0)
      BY <3>0 DEF Walks
    <3> QED
      BY <3>1
  <2>2. ASSUME NEW n \in Nat, n \in S PROVE n + 1 \in S
    <3>1. PICK f : Walks(f, trie, segs, n)
      BY <2>2
    <3>2. PICK x : x = Descend(trie, f[n], segs[n + 1])
      OBVIOUS
    <3>3. PICK g : g = [i \in 0..(n + 1) |-> IF i = n + 1 THEN x ELSE f[i]]
      OBVIOUS
    <3>4. ASSUME NEW i \in 0..(n + 1)
          PROVE  g[i] = IF i = 0 THEN [node |-> <<>>, wild |-> Nil, dead |-> FALSE] ELSE Descend(trie, g[i - 1], segs[i])
      <4>1. CASE i = n + 1
        <5>1. i # 0 /\ i - 1 = n /\ n \in 0..(n + 1) /\ n # n + 1
          BY <4>1, SMT
        <5>2. g[i] = x /\ g[i - 1] = f[n]
          BY <3>3, <4>1, <5>1
        <5> QED
          BY <3>2, <4>1, <5>1, <5>2
      <4>2. CASE i # n + 1
        <5>1. i \in 0..n /\ (i # 0 => i - 1 \in 0..n /\ i - 1 \in 0..(n + 1) /\ i - 1 # n + 1)
          BY <4>2, SMT
        <5>2. g[i] = f[i] /\ (i # 0 => g[i - 1] = f[i - 1])
          BY <3>3, <4>2, <5>1
        <5>3. f[i] = IF i = 0 THEN [node |-> <<>>, wild |-> Nil, dead |-> FALSE] ELSE Descend(trie, f[i - 1], segs[i])
          BY <3>1, <5>1 DEF Walks
        <5> QED
          BY <5>2, <5>3
      <4> QED
        BY <4>1, <4>2
    <3>5. Walks(g, trie, segs, n + 1)
      <4>1. g = [i \in 0..(n + 1) |-> g[i]]
        BY <3>3
      <4> QED
        BY <3>4, <4>1 DEF Walks
    <3> QED
      BY <3>5, SMT
  <2>3. \A n \in Nat : n \in S
    BY <2>1, <2>2, <1>InductionOnSet
  <2> QED
    BY <2>3
\* match_route's loop stays at nodes of the trie, and so does its fallback.
<1>WalkInTrie.
      ASSUME NEW trie, <<>> \in DOMAIN trie, NEW path \in Seq(STRING)
      PROVE  /\ Walk(trie, path).node \in DOMAIN trie
             /\ Walk(trie, path).wild = Nil \/ Walk(trie, path).wild \in DOMAIN trie
  <2> USE <1>WalkInTrie
  <2>0. PICK segs \in Seq(STRING) : segs = SplitPath(path)
    BY <1>SplitPathSeq
  <2>00. Len(segs) \in Nat
    BY SMT
  <2>1. PICK f : f = (CHOOSE h : Walks(h, trie, segs, Len(segs)))
    OBVIOUS
  <2>2. Walk(trie, path) = f[Len(segs)]
    BY <2>0, <2>1 DEF Walk, Walks
  <2>3. Walks(f, trie, segs, Len(segs))
    BY <2>00, <2>1, <1>WalksExists
  <2> DEFINE In(at) == /\ at.node \in DOMAIN trie /\ (at.wild = Nil \/ at.wild \in DOMAIN trie)
                       /\ DOMAIN at = {"node", "wild", "dead"}
  <2> PICK G : G = {n \in Nat : n <= Len(segs) => In(f[n])}
    OBVIOUS
  <2>4. 0 \in G
    <3>1. 0 \in 0..Len(segs)
      BY <2>00, SMT
    <3>2. f[0] = [node |-> <<>>, wild |-> Nil, dead |-> FALSE]
      BY <2>3, <3>1 DEF Walks
    <3> QED
      BY <3>2, SMT
  <2>5. ASSUME NEW n \in Nat, n \in G PROVE n + 1 \in G
    <3> SUFFICES ASSUME n + 1 <= Len(segs) PROVE In(f[n + 1])
      BY SMT
    <3>1. n + 1 \in 0..Len(segs) /\ n + 1 # 0 /\ (n + 1) - 1 = n /\ n <= Len(segs)
      BY <2>00, SMT
    <3>2. In(f[n])
      BY <2>5, <3>1
    <3>3. f[n + 1] = Descend(trie, f[n], segs[n + 1])
      BY <2>3, <3>1 DEF Walks
    <3>4. PICK at, exact, star, wild :
            /\ at = f[n] /\ exact = Append(at.node, segs[n + 1]) /\ star = Append(at.node, "*")
            /\ wild = IF star \in DOMAIN trie THEN star ELSE at.wild
      OBVIOUS
    <3>5. \/ f[n + 1] = at
          \/ exact \in DOMAIN trie /\ f[n + 1] = [at EXCEPT !.node = exact, !.wild = wild]
          \/ star \in DOMAIN trie /\ f[n + 1] = [at EXCEPT !.node = star, !.wild = star]
          \/ f[n + 1] = [at EXCEPT !.dead = TRUE]
      BY <3>3, <3>4 DEF Descend
    <3> QED
      BY <3>2, <3>4, <3>5
  <2>6. Len(segs) \in G
    BY <2>00, <2>4, <2>5, <1>InductionOnSet
  <2> QED
    BY <2>00, <2>2, <2>6, SMT
<1>1. PICK trie : trie = BuildTrie(list) /\ Tables(trie, Len(list))
  BY <1>BuildTables
<1>2. PICK at : /\ at = Walk(trie, url) /\ at.node \in DOMAIN trie
                /\ at.wild = Nil \/ at.wild \in DOMAIN trie
  BY <1>1, <1>WalkInTrie DEF Tables
<1>3. /\ LimiterAt(trie, at.node, Upper[verb]) \in {Nil} \cup 1..Len(list)
      /\ at.wild # Nil => LimiterAt(trie, at.wild, Upper[verb]) \in {Nil} \cup 1..Len(list)
  BY <1>1, <1>2, <1>LimiterAtIn
<1>4. MatchRoute(trie, verb, url)
        = IF (IF at.dead THEN Nil ELSE LimiterAt(trie, at.node, Upper[verb])) # Nil
          THEN (IF at.dead THEN Nil ELSE LimiterAt(trie, at.node, Upper[verb]))
          ELSE (IF at.wild = Nil THEN Nil ELSE LimiterAt(trie, at.wild, Upper[verb]))
  BY <1>2 DEF MatchRoute
<1> QED
  BY <1>1, <1>3, <1>4

----------------------------------------------------------------------------
\* What a loaded configuration holds.
LEMMA ConfigTypes ==
    ASSUME Loaded, NEW g \in 1..Len(gens)
    PROVE  /\ gens[g] \in States /\ gens[g].cfg \in Configs
           /\ gens[g].cfg.rl \in BOOLEAN /\ gens[g].cfg.bl \in BOOLEAN
           /\ gens[g].cfg.trusted \subseteq Ips /\ gens[g].cfg.limit \in Limits
           /\ gens[g].cfg.routes \in Seq([path : Seq(STRING), methods : SUBSET DOMAIN Upper,
                                          limit : Limits])
<1>1. gens[g] \in States
  BY SMT DEF Loaded
<1>2. gens[g].cfg \in Configs
  BY <1>1 DEF States
<1> QED
  BY <1>1, <1>2, ConstantsAssumption

(***************************************************************************)
(* The limit of the limiter a request is charged to is one of its          *)
(* configuration.                                                          *)
(***************************************************************************)
LEMMA LimitIn ==
    ASSUME Loaded, NEW r \in Reqs, req[r].gen \in 1..Len(gens), req[r].input \in Inputs
    PROVE  /\ Limiter(r) \in Nat
           /\ LimitOf(req[r].gen, Limiter(r)) \in Limits
\* The limiter of a request is the global one or one of its state's routes.
<1>LimiterIn. Limiter(r) \in {0} \cup 1..Len(gens[req[r].gen].cfg.routes)
  <2>1. PICK routes : /\ routes = gens[req[r].gen].cfg.routes
                      /\ routes \in Seq([path : Seq(STRING), methods : SUBSET DOMAIN Upper,
                                         limit : Limits])
    BY ConfigTypes
  <2>2. gens[req[r].gen].trie \in {Nil, BuildTrie(routes)}
    BY <2>1 DEF Loaded
  <2>3. req[r].input.path \in Seq(STRING)
    BY ConstantsAssumption
  <2>4. PICK method : method = IF adapter.method = Nil THEN req[r].input.method ELSE adapter.method
    OBVIOUS
  <2>5. MatchRoute(BuildTrie(routes), method, req[r].input.path) \in {Nil} \cup 1..Len(routes)
    BY <2>1, <2>3, MatchRouteIn DEF Loaded
  <2>6. PICK found : found = IF gens[req[r].gen].trie = Nil \/ adapter.method = "none" THEN Nil
                             ELSE MatchRoute(gens[req[r].gen].trie, method, req[r].input.path)
    OBVIOUS
  <2>7. found \in {Nil} \cup 1..Len(routes)
    BY <2>2, <2>5, <2>6
  <2>8. Limiter(r) = IF found = Nil THEN 0 ELSE found
    BY <2>4, <2>6 DEF Limiter
  <2> QED
    BY <2>1, <2>7, <2>8
<1>1. PICK routes : /\ routes = gens[req[r].gen].cfg.routes
                    /\ routes \in Seq([path : Seq(STRING), methods : SUBSET DOMAIN Upper,
                                       limit : Limits])
  BY ConfigTypes
<1>2. gens[req[r].gen].cfg.limit \in Limits
  BY ConfigTypes
<1>3. Limiter(r) \in {0} \cup 1..Len(routes)
  BY <1>1, <1>LimiterIn
<1>4. \A i \in 1..Len(routes) : routes[i].limit \in Limits /\ i # 0 /\ i \in Nat
  <2> TAKE i \in 1..Len(routes)
  <2>0. PICK R : R = [path : Seq(STRING), methods : SUBSET DOMAIN Upper, limit : Limits]
    OBVIOUS
  <2>00. routes \in Seq(R)
    BY <1>1, <2>0
  <2>01. routes[i] \in R /\ i # 0 /\ i \in Nat
    BY <2>00, SMT
  <2>1. routes[i] \in [path : Seq(STRING), methods : SUBSET DOMAIN Upper, limit : Limits]
    BY <2>0, <2>01
  <2> QED
    BY <2>01, <2>1
<1> QED
  BY <1>1, <1>2, <1>3, <1>4, SMT DEF LimitOf

(***************************************************************************)
(* The buckets allow() charges belong to the state and the limiter of the  *)
(* request, and there is at least one.                                     *)
(***************************************************************************)
LEMMA KeysFields ==
    ASSUME Loaded, NEW r \in Reqs, req[r].gen \in 1..Len(gens), req[r].input \in Inputs,
           req[r].ip \in Ips
    PROVE  /\ Keys(r) \in Seq(Buckets) /\ Keys(r) # <<>>
           /\ \A k \in 1..Len(Keys(r)) : Keys(r)[k][1] = req[r].gen /\ Keys(r)[k][2] = Limiter(r)
<1>1. Limiter(r) \in Nat /\ LimitOf(req[r].gen, Limiter(r)).mode \in {"ip", "subnet", "both"}
  BY LimitIn DEF Limits
<1>2. PICK e, n : e = <<"exact", req[r].ip>> /\ n = SubnetKey(req[r].ip)
  OBVIOUS
<1>3. e \in Keyed /\ n \in Keyed
  BY <1>2 DEF Keyed, SubnetKey
<1>4. PICK keys \in Seq(Keyed) :
        /\ keys # <<>>
        /\ Keys(r) = [k \in 1..Len(keys) |-> <<req[r].gen, Limiter(r), keys[k]>>]
  <2>1. CASE LimitOf(req[r].gen, Limiter(r)).mode = "ip"
    <3>1. Keys(r) = [k \in 1..Len(<<e>>) |-> <<req[r].gen, Limiter(r), <<e>>[k]>>]
      BY <1>2, <2>1 DEF Keys
    <3>2. <<e>> \in Seq(Keyed) /\ <<e>> # <<>>
      BY <1>3, SMT
    <3> QED
      BY <3>1, <3>2
  <2>2. CASE LimitOf(req[r].gen, Limiter(r)).mode = "subnet"
    <3>1. Keys(r) = [k \in 1..Len(<<n>>) |-> <<req[r].gen, Limiter(r), <<n>>[k]>>]
      BY <1>2, <2>2 DEF Keys
    <3>2. <<n>> \in Seq(Keyed) /\ <<n>> # <<>>
      BY <1>3, SMT
    <3> QED
      BY <3>1, <3>2
  <2>3. CASE LimitOf(req[r].gen, Limiter(r)).mode = "both"
    <3>1. Keys(r) = [k \in 1..Len(<<n, e>>) |-> <<req[r].gen, Limiter(r), <<n, e>>[k]>>]
      BY <1>2, <2>3 DEF Keys
    <3>2. <<n, e>> \in Seq(Keyed) /\ <<n, e>> # <<>>
      BY <1>3, SMT
    <3> QED
      BY <3>1, <3>2
  <2> QED
    BY <1>1, <2>1, <2>2, <2>3
<1>5. req[r].gen \in Nat /\ Len(keys) \in Nat /\ Len(keys) # 0
  BY <1>4, SMT DEF Loaded
<1>6. \A k \in 1..Len(keys) : <<req[r].gen, Limiter(r), keys[k]>> \in Buckets
  BY <1>1, <1>5, SMT DEF Buckets
<1>7. Keys(r) \in Seq(Buckets) /\ Len(Keys(r)) = Len(keys)
  BY <1>4, <1>5, <1>6, SMT
<1>8. Keys(r) # <<>>
  BY <1>5, <1>7
<1>9. \A k \in 1..Len(Keys(r)) : Keys(r)[k] = <<req[r].gen, Limiter(r), keys[k]>>
  BY <1>4, <1>7
<1> QED
  BY <1>7, <1>8, <1>9, SMT

\* What choosing the keys changes.
LEMMA ChooseFields ==
    ASSUME Types, NEW r \in Reqs, ChooseKeys(r)
    PROVE  /\ Advances(r) /\ req'[r].pc = "consume" /\ req'[r].result = req[r].result
           /\ req'[r].todo = Keys(r) /\ req'[r].charged = req[r].charged
           /\ req'[r].todo # <<>>
<1>0. req \in [Reqs -> Requests] /\ req[r].pc = "limit"
  BY DEF Types, Served, ChooseKeys
<1>1. req[r].ip \in Ips /\ req[r].gen \in 1..Len(gens) /\ req[r].input \in Inputs
  <2>1. req[r].ip \in Ips
    BY <1>0 DEF Types, Served
  <2>2. req[r].ip # Nil
    BY <2>1, ConstantsAssumption
  <2> QED
    BY <2>1, <2>2 DEF Types, Served
<1>2. Keys(r) \in Seq(Buckets) /\ Keys(r) # <<>>
  BY <1>1, KeysFields DEF Types
<1>3. PICK k, s : s = Keys(r) /\ k = [req[r] EXCEPT !.pc = "consume", !.todo = s]
  OBVIOUS
<1>4. req[r] \in Requests
  BY <1>0
<1>5. /\ k \in Requests /\ k.pc = "consume" /\ k.result = req[r].result
      /\ k.todo = s /\ k.charged = req[r].charged
      /\ k.input = req[r].input /\ k.ip = req[r].ip /\ k.gen = req[r].gen
      /\ k.banned = req[r].banned /\ k.lifted = req[r].lifted
  BY <1>2, <1>3, <1>4 DEF Requests, Pcs
<1>6. req' = [req EXCEPT ![r] = k]
  BY <1>3 DEF ChooseKeys
<1>7. req' \in [Reqs -> Requests] /\ req'[r] = k /\ \A q \in Reqs : q # r => req'[q] = req[q]
  BY <1>0, <1>5, <1>6
<1> QED
  BY <1>2, <1>3, <1>5, <1>7 DEF Advances

(***************************************************************************)
(* What charging a bucket changes: the request is refused at an empty      *)
(* bucket, let through at the last one, and goes on to the next one        *)
(* otherwise.                                                              *)
(***************************************************************************)
LEMMA ConsumeFields ==
    ASSUME Types, NEW r \in Reqs, Consume(r), NEW b, b = Head(req[r].todo)
    PROVE  /\ Advances(r) /\ req[r].pc = "consume" /\ b \in Buckets
           /\ req'[r].charged = req[r].charged \cup {b}
           /\ \/ /\ Tokens(b) = 0 /\ req'[r].pc = "denied" /\ req'[r].result = Nil
              \/ /\ Tokens(b) > 0 /\ Tail(req[r].todo) = <<>>
                 /\ req'[r].pc = "done" /\ req'[r].result = "allow"
              \/ /\ Tokens(b) # 0 /\ ~(Tokens(b) > 0 /\ Tail(req[r].todo) = <<>>)
                 /\ req'[r].pc = "consume" /\ req'[r].result = Nil
           /\ req'[r].todo = Tail(req[r].todo)
<1>0. req \in [Reqs -> Requests] /\ req[r].pc = "consume" /\ req[r].todo # <<>>
  BY DEF Types, Served, Consume
<1>1. req[r] \in Requests
  BY <1>0
<1>2. PICK rest, charged, n, p, x :
        /\ rest = Tail(req[r].todo) /\ charged = req[r].charged \cup {b} /\ n = Tokens(b)
        /\ p = CASE n = 0 -> "denied" [] n > 0 /\ rest = <<>> -> "done" [] OTHER -> "consume"
        /\ x = IF n > 0 /\ rest = <<>> THEN "allow" ELSE Nil
  OBVIOUS
<1>3. b \in Buckets /\ rest \in Seq(Buckets)
  <2>1. req[r].todo \in Seq(Buckets)
    BY <1>1 DEF Requests
  <2>2. PICK q \in Seq(Buckets) : q = req[r].todo /\ q # <<>>
    BY <1>0, <2>1
  <2>3. Head(q) \in Buckets /\ Tail(q) \in Seq(Buckets)
    BY <2>2, SMT
  <2> QED
    BY <1>2, <2>2, <2>3
<1>4. charged \in SUBSET Buckets
  BY <1>1, <1>2, <1>3 DEF Requests
<1>5. \/ n = 0 /\ p = "denied" /\ x = Nil
      \/ n > 0 /\ rest = <<>> /\ p = "done" /\ x = "allow"
      \/ n # 0 /\ ~(n > 0 /\ rest = <<>>) /\ p = "consume" /\ x = Nil
  <2>1. CASE n = 0
    BY <1>2, <2>1, SMT
  <2>2. CASE n # 0 /\ n > 0 /\ rest = <<>>
    BY <1>2, <2>2
  <2>3. CASE n # 0 /\ ~(n > 0 /\ rest = <<>>)
    BY <1>2, <2>3
  <2> QED
    BY <2>1, <2>2, <2>3
<1>6. PICK k : k = [req[r] EXCEPT !.todo = rest, !.charged = charged, !.result = x, !.pc = p]
  OBVIOUS
<1>66. p \in Pcs /\ x \in {Nil, "allow"}
  BY <1>5 DEF Pcs
<1>7. /\ k \in Requests /\ k.pc = p /\ k.result = x /\ k.todo = rest /\ k.charged = charged
      /\ k.input = req[r].input /\ k.ip = req[r].ip /\ k.gen = req[r].gen
      /\ k.banned = req[r].banned /\ k.lifted = req[r].lifted
  BY <1>1, <1>3, <1>4, <1>6, <1>66 DEF Requests
<1>8. req' = [req EXCEPT ![r] = k]
  <2>1. req' = [req EXCEPT ![r] =
                  [req[r] EXCEPT !.todo = rest, !.charged = charged,
                                 !.result = IF n > 0 /\ rest = <<>> THEN "allow" ELSE Nil,
                                 !.pc = CASE n = 0 -> "denied"
                                          [] n > 0 /\ rest = <<>> -> "done"
                                          [] OTHER -> "consume"]]
    BY <1>2 DEF Consume
  <2> QED
    BY <1>2, <1>6, <2>1
<1>9. req' \in [Reqs -> Requests] /\ req'[r] = k /\ \A q \in Reqs : q # r => req'[q] = req[q]
  BY <1>0, <1>7, <1>8
<1> QED
  BY <1>0, <1>2, <1>3, <1>5, <1>7, <1>9 DEF Advances

(***************************************************************************)
(* What loading the state changes: the request fails without an address,   *)
(* or it has the one extract_ip found and knows whether it is banned.      *)
(***************************************************************************)
LEMMA LoadFields ==
    ASSUME Types, NEW r \in Reqs, Load(r)
    PROVE  /\ req' \in [Reqs -> Requests] /\ \A q \in Reqs : q # r => req'[q] = req[q]
           /\ req[r].pc = "load"
           /\ StateFor(r) \in 1..Len(gens) /\ req'[r].gen = StateFor(r)
           /\ req'[r].input = req[r].input /\ req'[r].lifted = req[r].lifted
           /\ req'[r].todo = req[r].todo /\ req'[r].charged = req[r].charged
           /\ \/ /\ req'[r].pc = "done" /\ req'[r].result = "bad" /\ req'[r].ip = req[r].ip
                 /\ req'[r].banned = req[r].banned
              \/ /\ req'[r].pc = IF adapter.checksBan THEN "ban" ELSE "block"
                 /\ req'[r].result = req[r].result
                 /\ req'[r].ip = ClientIp(r) /\ ClientIp(r) \in Ips
                 /\ (req'[r].banned <=> BannedNow(StateFor(r), ClientIp(r)))
\* extract_ip finds an address or fails.
<1>ExtractAddress.
      ASSUME NEW in \in Inputs, NEW trusted
      PROVE  ExtractIp(in, trusted) \in Ips \cup {Invalid}
  <2>0. /\ in.xff \in {Nil} \cup Seq(Ips \cup {Bad}) /\ in.real \in Ips \cup {Bad, Nil}
        /\ in.remote \in Ips \cup {Nil}
    BY ConstantsAssumption
  <2>1. PICK T : T = IF in.xff = Nil THEN {} ELSE {k \in 1..Len(in.xff) : in.xff[k] \notin trusted}
    OBVIOUS
  <2>2. CASE T # {}
    <3>1. in.xff \in Seq(Ips \cup {Bad}) /\ T \in SUBSET (1..Len(in.xff)) /\ Len(in.xff) \in Nat
      BY <2>0, <2>1, <2>2, SMT
    <3>2. Last(T) \in T
      BY <2>2, <3>1, LastIn DEF Types, Loaded
    <3>3. in.xff[Last(T)] \in Ips \cup {Bad}
      <4> PICK k \in 1..Len(in.xff) : k = Last(T)
        BY <3>1, <3>2
      <4>1. in.xff[k] \in Ips \cup {Bad}
        BY <3>1, SMT
      <4> QED
        BY <4>1
    <3>4. ExtractIp(in, trusted) = Parsed(in.xff[Last(T)])
      BY <2>1, <2>2 DEF ExtractIp
    <3> QED
      BY <3>3, <3>4, ParsedAddress
  <2>3. CASE T = {} /\ in.real # Nil
    <3>1. ExtractIp(in, trusted) = Parsed(in.real) /\ in.real \in Ips \cup {Bad}
      BY <2>0, <2>1, <2>3 DEF ExtractIp
    <3> QED
      BY <3>1, ParsedAddress
  <2>4. CASE T = {} /\ in.real = Nil /\ in.remote # Nil
    <3>1. ExtractIp(in, trusted) = in.remote
      BY <2>1, <2>4 DEF ExtractIp
    <3> QED
      BY <2>0, <2>4, <3>1
  <2>5. CASE T = {} /\ in.real = Nil /\ in.remote = Nil
    <3>1. ExtractIp(in, trusted) = Invalid
      BY <2>1, <2>5 DEF ExtractIp
    <3> QED
      BY <3>1
  <2> QED
    BY <2>2, <2>3, <2>4, <2>5
<1>0. req \in [Reqs -> Requests] /\ req[r].pc = "load" /\ req[r].input \in Inputs
  BY DEF Types, Served, Load
<1>1. req[r] \in Requests
  BY <1>0
<1>2. PICK g : g = StateFor(r) /\ g \in 1..Len(gens)
  <2>1. gens \in Seq(States) /\ gens # <<>>
    BY DEF Types, Loaded
  <2>2. Len(gens) \in Nat /\ Len(gens) # 0
    BY <2>1, SMT
  <2> QED
    BY <2>2, SMT DEF StateFor
<1>3. PICK ip : ip = ClientIp(r) /\ ip \in Ips \cup {Invalid}
  <2>1. Parsed(req[r].input.packed) \in Ips \cup {Invalid}
    <3>1. req[r].input.packed \in Ips \cup {Bad}
      BY <1>0, ConstantsAssumption
    <3> QED
      BY <3>1, ParsedAddress
  <2>2. ExtractIp(req[r].input, gens[StateFor(r)].cfg.trusted) \in Ips \cup {Invalid}
    BY <1>0, <1>ExtractAddress
  <2> QED
    BY <2>1, <2>2 DEF ClientIp
<1>4. g \in Nat
  BY <1>2, SMT DEF Types, Loaded
<1>5. PICK banned \in BOOLEAN : banned <=> BannedNow(g, ip)
  OBVIOUS
<1>6. PICK p : p = IF adapter.checksBan THEN "ban" ELSE "block"
  OBVIOUS
<1>7. p \in Pcs
  BY <1>6 DEF Pcs
<1>8. CASE ip = Invalid
  <2>1. PICK k : k = [req[r] EXCEPT !.gen = g, !.pc = "done", !.result = "bad"]
    OBVIOUS
  <2>2. /\ k \in Requests /\ k.pc = "done" /\ k.result = "bad" /\ k.todo = req[r].todo
        /\ k.charged = req[r].charged /\ k.input = req[r].input /\ k.ip = req[r].ip /\ k.gen = g
        /\ k.banned = req[r].banned /\ k.lifted = req[r].lifted
    BY <1>1, <1>4, <2>1 DEF Requests, Pcs
  <2>3. req' = [req EXCEPT ![r] = k]
    BY <1>2, <1>3, <1>8, <2>1 DEF Load
  <2>4. req' \in [Reqs -> Requests] /\ req'[r] = k /\ \A q \in Reqs : q # r => req'[q] = req[q]
    BY <1>0, <2>2, <2>3
  <2> QED
    BY <1>0, <1>2, <2>2, <2>4
<1>9. CASE ip # Invalid
  <2>1. PICK k : k = [req[r] EXCEPT !.gen = g, !.ip = ip, !.banned = banned, !.pc = p]
    OBVIOUS
  <2>2. ip \in Ips
    BY <1>3, <1>9
  <2>3. /\ k \in Requests /\ k.pc = p /\ k.result = req[r].result /\ k.todo = req[r].todo
        /\ k.charged = req[r].charged /\ k.input = req[r].input /\ k.ip = ip /\ k.gen = g
        /\ k.banned = banned /\ k.lifted = req[r].lifted
    BY <1>1, <1>4, <1>7, <2>1, <2>2 DEF Requests
  <2>4. req' = [req EXCEPT ![r] = [req[r] EXCEPT !.gen = g, !.ip = ip,
                                     !.banned = BannedNow(g, ip), !.pc = p]]
    BY <1>2, <1>3, <1>6, <1>9 DEF Load
  <2>5. BannedNow(g, ip) = banned
    BY <1>5 DEF BannedNow
  <2>6. req' = [req EXCEPT ![r] = k]
    BY <2>1, <2>4, <2>5
  <2>7. req' \in [Reqs -> Requests] /\ req'[r] = k /\ \A q \in Reqs : q # r => req'[q] = req[q]
    BY <1>0, <2>3, <2>6
  <2> QED
    BY <1>0, <1>2, <1>3, <1>5, <1>6, <2>2, <2>3, <2>7
<1> QED
  BY <1>8, <1>9

----------------------------------------------------------------------------
\* What a tracker holds.
LEMMA TrackerIn ==
    ASSUME Loaded, NEW t \in 1..Len(trackers)
    PROVE  /\ trackers \in Seq(Trackers) /\ trackers[t] \in Trackers /\ t > 0 /\ t \in Nat
           /\ trackers[t].banned \in [Ips -> {"no", "active", "expired"}]
           /\ trackers[t].violations \in [Ips -> Nat] /\ trackers[t].threshold \in Nat
<1>1. trackers \in Seq(Trackers)
  BY DEF Loaded
<1>2. trackers[t] \in Trackers /\ t > 0 /\ t \in Nat
  BY <1>1, SMT
<1> QED
  BY <1>1, <1>2 DEF Trackers

\* Replacing a tracker changes the bans of that tracker only.
LEMMA TrackerUpdate ==
    ASSUME Loaded, NEW t \in 1..Len(trackers), NEW k \in Trackers,
           trackers' = [trackers EXCEPT ![t] = k]
    PROVE  /\ trackers' \in Seq(Trackers) /\ Len(trackers') = Len(trackers)
           /\ \A i \in Ips : Active(t, i)' <=> k.banned[i] = "active"
           /\ \A u \in 1..Len(trackers), i \in Ips : u # t => (Active(u, i)' <=> Active(u, i))
\* A sequence with one element replaced.
<1>UpdateAt.
      ASSUME NEW S, NEW s \in Seq(S), NEW i \in 1..Len(s), NEW x \in S
      PROVE  /\ [s EXCEPT ![i] = x] \in Seq(S) /\ Len([s EXCEPT ![i] = x]) = Len(s)
             /\ [s EXCEPT ![i] = x][i] = x
             /\ \A j \in 1..Len(s) : j # i => [s EXCEPT ![i] = x][j] = s[j]
  BY SMT
<1>1. trackers \in Seq(Trackers) /\ t > 0
  BY TrackerIn
<1>2. /\ trackers' \in Seq(Trackers) /\ Len(trackers') = Len(trackers) /\ trackers'[t] = k
      /\ \A u \in 1..Len(trackers) : u # t => trackers'[u] = trackers[u]
  BY <1>1, <1>UpdateAt, SMT
<1> QED
  BY <1>1, <1>2 DEF Active

\* The fields of the adapters.
LEMMA AdapterTypes ==
    ASSUME adapter \in Adapters
    PROVE  /\ adapter.probes \in BOOLEAN /\ adapter.watched \in BOOLEAN
           /\ adapter.packed \in BOOLEAN /\ adapter.checksBan \in BOOLEAN
           /\ adapter.always \in BOOLEAN
           /\ adapter.tracker \in {"state", "own", "none"}
           /\ adapter.onBan \in {"blocked", "limited"}
<1> DEFINE Flags == [probes : BOOLEAN, watched : BOOLEAN, packed : BOOLEAN, checksBan : BOOLEAN,
                     method : {"none", "POST", Nil}, always : BOOLEAN,
                     tracker : {"state", "own", "none"}, onBan : {"blocked", "limited"}]
<1>1. Static \in Flags
  BY DEF Static
<1>2. PolicyHandleCheck \in Flags
  BY <1>1 DEF PolicyHandleCheck
<1>3. PolicyHandleCheckRequest \in Flags
  BY <1>2 DEF PolicyHandleCheckRequest
<1>4. AxumWatched \in Flags
  BY <1>1 DEF AxumWatched
<1>5. ActixWatched \in Flags
  BY <1>1 DEF ActixWatched
<1>6. TowerWatched \in Flags
  BY <1>1 DEF TowerWatched
<1>7. GrpcWatchedInterceptor \in Flags
  BY <1>1 DEF GrpcWatchedInterceptor
<1>8. GrpcWatchedService \in Flags
  BY <1>1 DEF GrpcWatchedService
<1>9. adapter \in Flags
  BY <1>1, <1>2, <1>3, <1>4, <1>5, <1>6, <1>7, <1>8
     DEF Adapters, AxumRadixIpService, ActixRadixIpService, TowerRadixIpMiddleware,
         GrpcRadixIpInterceptor, GrpcRadixIpService
<1> QED
  BY <1>9

(***************************************************************************)
(* What a refusal changes: at most a ban of the request's own address is   *)
(* added, and then the request is to put its route into the engine.        *)
(***************************************************************************)
LEMMA DeniedFields ==
    ASSUME Types, NEW r \in Reqs, Denied(r)
    PROVE  /\ Advances(r) /\ req[r].pc = "denied" /\ UNCHANGED <<hosts, stolen>>
           /\ req'[r].todo = req[r].todo /\ req'[r].charged = req[r].charged
           /\ trackers' \in Seq(Trackers) /\ Len(trackers') = Len(trackers)
           /\ \A u \in 1..Len(trackers), i \in Ips : Active(u, i) => Active(u, i)'
           /\ \/ /\ req'[r].pc = "done" /\ req'[r].result \in {"allow", "limited"}
                 /\ \A u \in 1..Len(trackers), i \in Ips : Active(u, i)' <=> Active(u, i)
              \/ /\ req'[r].pc = "insert" /\ req'[r].result = req[r].result
                 /\ \A u \in 1..Len(trackers), i \in Ips :
                        Active(u, i)' => Active(u, i) \/ (u = TrackerFor(r) /\ i = req[r].ip)
<1>0. req \in [Reqs -> Requests] /\ req[r].pc = "denied" /\ req[r].ip \in Ips /\ "insert" \in Pcs
  BY DEF Types, Served, Denied, Pcs
<1>1. PICK t, ip : t = TrackerFor(r) /\ ip = req[r].ip
  OBVIOUS
<1>2. t \in 0..Len(trackers)
  <2>1. req[r].gen \in 1..Len(gens)
    BY <1>0, ConstantsAssumption DEF Types, Served
  <2>2. gens[req[r].gen].tracker \in 0..Len(trackers) /\ own \in 0..Len(trackers)
    BY <2>1 DEF Types, Loaded
  <2>3. adapter.tracker \in {"state", "own", "none"}
    BY AdapterTypes DEF Types, Loaded
  <2>4. 0 \in 0..Len(trackers)
    BY <2>2, SMT DEF Types, Loaded
  <2> QED
    BY <1>1, <2>2, <2>3, <2>4 DEF TrackerFor
<1>3. trackers \in Seq(Trackers)
  BY DEF Types, Loaded
<1>4. /\ UNCHANGED <<hosts, stolen>>
      /\ \/ (Answer(r, "allow") \/ Answer(r, "limited")) /\ UNCHANGED trackers
         \/ /\ t # 0 /\ Answer(r, "limited")
            /\ \E kept \in 0..trackers[t].violations[ip] :
                   trackers' = [trackers EXCEPT ![t].violations[ip] = kept + 1]
         \/ /\ t # 0 /\ Go(r, "insert")
            /\ trackers' = [trackers EXCEPT ![t] =
                              [trackers[t] EXCEPT !.violations[ip] = 0, !.banned[ip] = "active"]]
  BY <1>1 DEF Denied, bans
<1>5. ASSUME Answer(r, "allow") \/ Answer(r, "limited")
      PROVE  /\ Advances(r) /\ req'[r].pc = "done" /\ req'[r].result \in {"allow", "limited"}
             /\ req'[r].todo = req[r].todo /\ req'[r].charged = req[r].charged
  BY <1>0, <1>5, AnswerFields
<1>6. CASE (Answer(r, "allow") \/ Answer(r, "limited")) /\ UNCHANGED trackers
  BY <1>0, <1>3, <1>4, <1>5, <1>6 DEF Active
<1>7. CASE /\ t # 0 /\ Answer(r, "limited")
           /\ \E kept \in 0..trackers[t].violations[ip] :
                  trackers' = [trackers EXCEPT ![t].violations[ip] = kept + 1]
  <2>0. t \in 1..Len(trackers)
    BY <1>2, <1>7, SMT
  <2> PICK kept \in 0..trackers[t].violations[ip] :
           trackers' = [trackers EXCEPT ![t].violations[ip] = kept + 1]
    BY <1>7
  <2>1. PICK k : k = [trackers[t] EXCEPT !.violations =
                        [trackers[t].violations EXCEPT ![ip] = kept + 1]]
    OBVIOUS
  <2>2. k \in Trackers /\ k.banned = trackers[t].banned
    <3>1. /\ trackers[t] \in Trackers /\ trackers[t].violations \in [Ips -> Nat] /\ ip \in Ips
      BY <1>0, <1>1, <2>0, TrackerIn DEF Types
    <3>2. [trackers[t].violations EXCEPT ![ip] = kept + 1] \in [Ips -> Nat]
      BY <3>1, SMT
    <3> QED
      BY <2>1, <3>1, <3>2 DEF Trackers
  <2>3. trackers' = [trackers EXCEPT ![t] = k]
    BY <2>1
  <2>4. /\ trackers' \in Seq(Trackers) /\ Len(trackers') = Len(trackers)
        /\ \A i \in Ips : Active(t, i)' <=> k.banned[i] = "active"
        /\ \A u \in 1..Len(trackers), i \in Ips : u # t => (Active(u, i)' <=> Active(u, i))
    BY <2>0, <2>2, <2>3, TrackerUpdate DEF Types
  <2>5. t > 0
    BY <2>0, SMT
  <2>6. \A u \in 1..Len(trackers), i \in Ips : Active(u, i)' <=> Active(u, i)
    BY <2>2, <2>4, <2>5 DEF Active
  <2> QED
    BY <1>0, <1>4, <1>5, <1>7, <2>4, <2>6
<1>8. CASE /\ t # 0 /\ Go(r, "insert")
           /\ trackers' = [trackers EXCEPT ![t] =
                             [trackers[t] EXCEPT !.violations[ip] = 0, !.banned[ip] = "active"]]
  <2>0. t \in 1..Len(trackers)
    BY <1>2, <1>8, SMT
  <2>1. PICK k : k = [trackers[t] EXCEPT !.violations[ip] = 0, !.banned[ip] = "active"]
    OBVIOUS
  <2>2. /\ k \in Trackers /\ k.banned[ip] = "active"
        /\ \A i \in Ips : i # ip => k.banned[i] = trackers[t].banned[i]
    BY <1>0, <1>1, <2>0, <2>1, TrackerIn DEF Types, Trackers
  <2>3. trackers' = [trackers EXCEPT ![t] = k]
    BY <1>8, <2>1
  <2>4. /\ trackers' \in Seq(Trackers) /\ Len(trackers') = Len(trackers)
        /\ \A i \in Ips : Active(t, i)' <=> k.banned[i] = "active"
        /\ \A u \in 1..Len(trackers), i \in Ips : u # t => (Active(u, i)' <=> Active(u, i))
    BY <2>0, <2>2, <2>3, TrackerUpdate DEF Types
  <2>5. t > 0
    BY <2>0, SMT
  <2>6. \A u \in 1..Len(trackers), i \in Ips :
          /\ Active(u, i) => Active(u, i)'
          /\ Active(u, i)' => Active(u, i) \/ (u = t /\ i = ip)
    BY <2>2, <2>4, <2>5 DEF Active
  <2>7. /\ Advances(r) /\ req'[r].pc = "insert" /\ req'[r].result = req[r].result
        /\ req'[r].todo = req[r].todo /\ req'[r].charged = req[r].charged
    BY <1>0, <1>8, GoFields
  <2> QED
    BY <1>0, <1>1, <1>4, <2>4, <2>6, <2>7
<1> QED
  BY <1>4, <1>6, <1>7, <1>8

\* The route of a ban comes into the engine, and the request has its answer.
LEMMA InsertFields ==
    ASSUME Types, NEW r \in Reqs, InsertBan(r)
    PROVE  /\ Advances(r) /\ req[r].pc = "insert" /\ req'[r].pc = "done"
           /\ req'[r].result \in {"blocked", "limited"}
           /\ req'[r].todo = req[r].todo /\ req'[r].charged = req[r].charged
<1>1. req \in [Reqs -> Requests] /\ adapter.onBan \in {"blocked", "limited"}
  BY AdapterTypes DEF Types, Loaded, Served
<1>2. req[r].pc = "insert" /\ Answer(r, adapter.onBan)
  BY DEF InsertBan
<1> QED
  BY <1>1, <1>2, AnswerFields

\* A ban that runs out ends for that address only.
LEMMA ExpireFields ==
    ASSUME Types, NEW t \in 1..Len(trackers), NEW ip \in Ips, Expire(t, ip)
    PROVE  /\ trackers' \in Seq(Trackers) /\ Len(trackers') = Len(trackers)
           /\ \A u \in 1..Len(trackers), i \in Ips : i # ip => (Active(u, i)' <=> Active(u, i))
           /\ \A u \in 1..Len(trackers), i \in Ips : Active(u, i)' => Active(u, i)
<1>0. trackers[t] \in Trackers /\ trackers[t].banned \in [Ips -> {"no", "active", "expired"}] /\ t > 0
  BY TrackerIn DEF Types
<1>1. PICK k : k = [trackers[t] EXCEPT !.banned = [trackers[t].banned EXCEPT ![ip] = "expired"]]
  OBVIOUS
<1>2. /\ k \in Trackers /\ k.banned[ip] = "expired"
      /\ \A i \in Ips : i # ip => k.banned[i] = trackers[t].banned[i]
  BY <1>0, <1>1 DEF Trackers
<1>3. trackers' = [trackers EXCEPT ![t] = k]
  BY <1>1 DEF Expire
<1>4. /\ trackers' \in Seq(Trackers) /\ Len(trackers') = Len(trackers)
      /\ \A i \in Ips : Active(t, i)' <=> k.banned[i] = "active"
      /\ \A u \in 1..Len(trackers), i \in Ips : u # t => (Active(u, i)' <=> Active(u, i))
  BY <1>2, <1>3, TrackerUpdate DEF Types
<1>5. \A i \in Ips : /\ i # ip => (Active(t, i)' <=> Active(t, i))
                     /\ Active(t, i)' => Active(t, i)
  BY <1>0, <1>2, <1>4 DEF Active
<1> QED
  BY <1>4, <1>5

(***************************************************************************)
(* A step of a sweeper ends no ban and removes no route that still guards, *)
(* except for the addresses it excuses.                                    *)
(***************************************************************************)
Sweeps(ips) ==
    /\ Excused(ips)
    /\ trackers' \in Seq(Trackers) /\ Len(trackers') = Len(trackers)
    /\ \A u \in 1..Len(trackers), i \in Ips :
        /\ Active(u, i)' => Active(u, i)
        /\ i \notin ips /\ Active(u, i) => Active(u, i)'
        /\ Active(u, i)' /\ i \in hosts => i \in hosts' \/ i \in stolen'
    /\ stolen \subseteq stolen' /\ stolen' \subseteq stolen \cup ips

\* Every step of a sweeper is of this kind.
LEMMA SweepFields ==
    ASSUME Types, NEW t \in 1..Len(trackers), Sweep(t)
    PROVE  (\E ips : Sweeps(ips)) /\ UNCHANGED <<fixed, watch, limits>>
<1>0. /\ trackers[t] \in Trackers /\ trackers[t].banned \in [Ips -> {"no", "active", "expired"}]
      /\ t > 0
  BY TrackerIn DEF Types
<1>1. CASE Collect(t)
  <2>1. PICK k : k = [trackers[t] EXCEPT !.lift = Over(t), !.unblock = Over(t)]
    OBVIOUS
  <2>2. k \in Trackers /\ k.banned = trackers[t].banned
    BY <1>0, <2>1 DEF Trackers, Over
  <2>3. trackers' = [trackers EXCEPT ![t] = k] /\ UNCHANGED <<hosts, stolen, req>>
    BY <1>1, <2>1 DEF Collect
  <2>4. /\ trackers' \in Seq(Trackers) /\ Len(trackers') = Len(trackers)
        /\ \A i \in Ips : Active(t, i)' <=> k.banned[i] = "active"
        /\ \A u \in 1..Len(trackers), i \in Ips : u # t => (Active(u, i)' <=> Active(u, i))
    BY <2>2, <2>3, TrackerUpdate DEF Types
  <2>5. \A i \in Ips : Active(t, i)' <=> Active(t, i)
    BY <1>0, <2>2, <2>4 DEF Active
  <2>6. Excused({})
    BY <2>3 DEF Excused, Types, Served
  <2>7. Sweeps({})
    BY <2>3, <2>4, <2>5, <2>6 DEF Sweeps
  <2> QED
    BY <1>1, <2>7 DEF Collect
<1>2. ASSUME NEW ip \in Ips, Lift(t, ip)
      PROVE  (\E ips : Sweeps(ips)) /\ UNCHANGED <<fixed, watch, limits>>
  <2>0. PICK B, L : B = [trackers[t].banned EXCEPT ![ip] = "no"] /\ L = trackers[t].lift \ {ip}
    OBVIOUS
  <2>1. PICK k : k = [trackers[t] EXCEPT !.banned = B, !.lift = L]
    OBVIOUS
  <2>2. /\ k \in Trackers /\ k.banned[ip] = "no"
        /\ \A i \in Ips : i # ip => k.banned[i] = trackers[t].banned[i]
    <3>1. /\ B \in [Ips -> {"no", "active", "expired"}] /\ B[ip] = "no"
          /\ \A i \in Ips : i # ip => B[i] = trackers[t].banned[i]
      BY <1>0, <2>0
    <3>2. L \in SUBSET Ips
      BY <1>0, <2>0 DEF Trackers
    <3>3. k \in Trackers /\ k.banned = B
      BY <1>0, <2>1, <3>1, <3>2 DEF Trackers
    <3> QED
      BY <3>1, <3>3
  <2>3. trackers' = [trackers EXCEPT ![t] = k] /\ UNCHANGED <<hosts, stolen>>
    BY <1>2, <2>0, <2>1 DEF Lift
  <2>4. /\ trackers' \in Seq(Trackers) /\ Len(trackers') = Len(trackers)
        /\ \A i \in Ips : Active(t, i)' <=> k.banned[i] = "active"
        /\ \A u \in 1..Len(trackers), i \in Ips : u # t => (Active(u, i)' <=> Active(u, i))
    BY <2>2, <2>3, TrackerUpdate DEF Types
  <2>5. \A i \in Ips : /\ i # ip => (Active(t, i)' <=> Active(t, i))
                       /\ Active(t, i)' => Active(t, i)
    BY <1>0, <2>2, <2>4 DEF Active
  <2>6. PICK ips : ips = IF Active(t, ip) THEN {ip} ELSE {}
    OBVIOUS
  <2>7. Excused(ips)
    BY <1>2, <2>6, ExcuseFields DEF Lift, Types, Served
  <2>8. \A i \in Ips : i \notin ips /\ Active(t, i) => Active(t, i)'
    BY <2>5, <2>6
  <2>9. Sweeps(ips)
    BY <2>3, <2>4, <2>5, <2>7, <2>8 DEF Sweeps
  <2> QED
    BY <1>2, <2>9 DEF Lift
<1>3. ASSUME NEW ip \in Ips, Unblock(t, ip)
      PROVE  (\E ips : Sweeps(ips)) /\ UNCHANGED <<fixed, watch, limits>>
  <2>1. PICK k : k = [trackers[t] EXCEPT !.unblock = trackers[t].unblock \ {ip}]
    OBVIOUS
  <2>2. k \in Trackers /\ k.banned = trackers[t].banned
    BY <1>0, <2>1 DEF Trackers
  <2>3. trackers' = [trackers EXCEPT ![t] = k] /\ hosts' = hosts \ {ip}
    BY <1>3, <2>1 DEF Unblock
  <2>4. /\ trackers' \in Seq(Trackers) /\ Len(trackers') = Len(trackers)
        /\ \A i \in Ips : Active(t, i)' <=> k.banned[i] = "active"
        /\ \A u \in 1..Len(trackers), i \in Ips : u # t => (Active(u, i)' <=> Active(u, i))
    BY <2>2, <2>3, TrackerUpdate DEF Types
  <2>5. \A u \in 1..Len(trackers), i \in Ips : Active(u, i)' <=> Active(u, i)
    BY <1>0, <2>2, <2>4 DEF Active
  <2>6. stolen' = IF \E u \in 1..Len(trackers) : Active(u, ip) THEN stolen \cup {ip} ELSE stolen
    BY <1>3 DEF Unblock
  <2>7. PICK ips : ips = stolen' \cap {ip}
    OBVIOUS
  <2>8. Excused(ips)
    <3>1. Excuse(ips)
      BY <1>3, <2>7 DEF Unblock, Excuse
    <3> QED
      BY <3>1, ExcuseFields DEF Types, Served
  <2>9. stolen \subseteq stolen' /\ stolen' \subseteq stolen \cup ips
    BY <2>6, <2>7
  <2>10. \A u \in 1..Len(trackers), i \in Ips :
            Active(u, i)' /\ i \in hosts => i \in hosts' \/ i \in stolen'
    BY <2>3, <2>5, <2>6
  <2>11. Sweeps(ips)
    BY <2>4, <2>5, <2>8, <2>9, <2>10 DEF Sweeps
  <2> QED
    BY <1>3, <2>11 DEF Unblock
<1> QED
  BY <1>1, <1>2, <1>3 DEF Sweep

\* A new tracker has no bans.
LEMMA NewTrackerIn ==
    ASSUME NEW c \in Configs
    PROVE  NewTracker(c) \in Trackers /\ \A ip \in Ips : NewTracker(c).banned[ip] = "no"
  BY ConstantsAssumption DEF NewTracker, Trackers

(***************************************************************************)
(* A reload adds a state at the end and perhaps a tracker without bans;    *)
(* the replaced states and trackers stay as they were.                     *)
(***************************************************************************)
LEMMA StoreFields ==
    ASSUME Loaded, StoreState
    PROVE  /\ gens' \in Seq(States) /\ Len(gens') = Len(gens) + 1 /\ Len(gens) \in Nat
           /\ gens' # <<>>
           /\ \A g \in 1..Len(gens) : gens'[g] = gens[g]
           /\ trackers' \in Seq(Trackers) /\ Len(trackers) \in Nat
           /\ Len(trackers') \in {Len(trackers), Len(trackers) + 1}
           /\ \A u \in 1..Len(trackers), i \in Ips : Active(u, i)' <=> Active(u, i)
           /\ \A u \in 1..Len(trackers'), i \in Ips : Active(u, i)' => u \in 1..Len(trackers)
           /\ \A g \in 1..Len(gens') : /\ gens'[g].tracker \in 0..Len(trackers')
                                       /\ gens'[g].trie \in {Nil, BuildTrie(gens'[g].cfg.routes)}
<1>0. /\ wread \in Configs /\ gens \in Seq(States) /\ trackers \in Seq(Trackers)
      /\ Len(gens) \in Nat /\ Len(trackers) \in Nat
  BY SMT DEF Loaded, StoreState
<1>1. PICK s : s = NewState(wread, Len(trackers))
  OBVIOUS
<1>2. /\ s \in States /\ s.cfg = wread /\ s.trie \in {Nil, BuildTrie(s.cfg.routes)}
      /\ s.tracker = IF HasTracker(wread) THEN Len(trackers) + 1 ELSE 0
  BY <1>0, <1>1, SMT DEF NewState, States
<1>3. gens' = Append(gens, s)
  BY <1>1 DEF StoreState
<1>4. /\ gens' \in Seq(States) /\ Len(gens') = Len(gens) + 1 /\ gens' # <<>>
      /\ gens'[Len(gens) + 1] = s
      /\ \A g \in 1..Len(gens) : gens'[g] = gens[g]
  BY <1>0, <1>2, <1>3, AppendAt, SMT
<1>5. \A g \in 1..Len(gens') : g \in 1..Len(gens) \/ g = Len(gens) + 1
  BY <1>0, <1>4, SMT
<1>6. CASE HasTracker(wread)
  <2>1. PICK k : k = NewTracker(wread) /\ k \in Trackers /\ \A ip \in Ips : k.banned[ip] = "no"
    BY <1>0, NewTrackerIn
  <2>2. trackers' = Append(trackers, k)
    BY <1>6, <2>1 DEF StoreState
  <2>3. /\ trackers' \in Seq(Trackers) /\ Len(trackers') = Len(trackers) + 1
        /\ \A u \in 1..Len(trackers) : trackers'[u] = trackers[u]
        /\ trackers'[Len(trackers) + 1] = k
    BY <1>0, <2>1, <2>2, AppendAt, SMT
  <2>4. \A u \in 1..Len(trackers') : u \in 1..Len(trackers) \/ u = Len(trackers) + 1
    BY <1>0, <2>3, SMT
  <2>5. \A u \in 1..Len(trackers), i \in Ips : Active(u, i)' <=> Active(u, i)
    BY <2>3 DEF Active
  <2>6. \A u \in 1..Len(trackers'), i \in Ips : Active(u, i)' => u \in 1..Len(trackers)
    BY <2>1, <2>3, <2>4 DEF Active
  <2>7. 0..Len(trackers) \subseteq 0..Len(trackers') /\ s.tracker \in 0..Len(trackers')
    BY <1>0, <1>2, <1>6, <2>3, SMT
  <2>8. \A g \in 1..Len(gens') : /\ gens'[g].tracker \in 0..Len(trackers')
                                 /\ gens'[g].trie \in {Nil, BuildTrie(gens'[g].cfg.routes)}
    BY <1>2, <1>4, <1>5, <2>7 DEF Loaded
  <2> QED
    BY <1>0, <1>4, <2>3, <2>5, <2>6, <2>8
<1>7. CASE ~HasTracker(wread)
  <2>1. trackers' = trackers
    BY <1>7 DEF StoreState
  <2>2. s.tracker \in 0..Len(trackers)
    BY <1>0, <1>2, <1>7, SMT
  <2>3. \A g \in 1..Len(gens') : /\ gens'[g].tracker \in 0..Len(trackers')
                                 /\ gens'[g].trie \in {Nil, BuildTrie(gens'[g].cfg.routes)}
    BY <1>2, <1>4, <1>5, <2>1, <2>2 DEF Loaded
  <2>4. \A u \in 1..Len(trackers), i \in Ips : Active(u, i)' <=> Active(u, i)
    BY <2>1 DEF Active
  <2> QED
    BY <1>0, <1>4, <2>1, <2>3, <2>4
<1> QED
  BY <1>6, <1>7

\* A request that is past its load has an address, a state and an input.
LEMMA InProgress ==
    ASSUME Types, NEW r \in Reqs, req[r].pc \in {"ban", "block", "limit", "consume", "denied", "insert"}
    PROVE  req[r].ip \in Ips /\ req[r].gen \in 1..Len(gens) /\ req[r].input \in Inputs
<1>1. req[r].ip \in Ips
  BY DEF Types, Served
<1>2. req[r].ip # Nil
  BY <1>1, ConstantsAssumption
<1> QED
  BY <1>1, <1>2 DEF Types, Served

\* What the two checks change, and what the request has passed when it goes on.
LEMMA CheckFields ==
    ASSUME Types, NEW r \in Reqs, CheckBan(r) \/ CheckBlock(r)
    PROVE  /\ Advances(r) /\ req[r].pc \in {"ban", "block"}
           /\ req'[r].todo = req[r].todo /\ req'[r].charged = req[r].charged
           /\ \/ /\ req[r].pc = "ban" /\ req'[r].pc = "block" /\ req'[r].result = req[r].result
                 /\ ~Active(gens[req[r].gen].tracker, req[r].ip)
              \/ /\ req[r].pc = "block" /\ req'[r].pc = "limit" /\ req'[r].result = req[r].result
                 /\ ~(Cfg(r).bl /\ Hit(req[r].ip))
              \/ req'[r].pc = "done" /\ req'[r].result = "blocked"
              \/ /\ req[r].pc = "block" /\ req'[r].pc = "done" /\ req'[r].result = "allow"
                 /\ ~(Cfg(r).bl /\ Hit(req[r].ip))
<1>0. req \in [Reqs -> Requests] /\ "block" \in Pcs /\ "limit" \in Pcs
  BY DEF Types, Served, Pcs
<1>1. CASE CheckBan(r)
  <2>1. CASE Active(gens[req[r].gen].tracker, req[r].ip)
    <3>1. req[r].pc = "ban" /\ Answer(r, "blocked")
      BY <1>1, <2>1 DEF CheckBan
    <3> QED
      BY <1>0, <3>1, AnswerFields
  <2>2. CASE ~Active(gens[req[r].gen].tracker, req[r].ip)
    <3>1. req[r].pc = "ban" /\ Go(r, "block")
      BY <1>1, <2>2 DEF CheckBan
    <3> QED
      BY <1>0, <2>2, <3>1, GoFields
  <2> QED
    BY <2>1, <2>2
<1>2. CASE CheckBlock(r)
  <2>0. req[r].pc = "block"
    BY <1>2 DEF CheckBlock
  <2>1. CASE Cfg(r).bl /\ Hit(req[r].ip)
    <3>1. Answer(r, "blocked")
      BY <1>2, <2>1 DEF CheckBlock
    <3> QED
      BY <1>0, <2>0, <3>1, AnswerFields
  <2>2. CASE ~(Cfg(r).bl /\ Hit(req[r].ip))
    <3>1. Answer(r, "allow") \/ Go(r, "limit")
      BY <1>2, <2>2 DEF CheckBlock
    <3> QED
      BY <1>0, <2>0, <2>2, <3>1, AnswerFields, GoFields
  <2> QED
    BY <2>1, <2>2
<1> QED
  BY <1>1, <1>2

----------------------------------------------------------------------------
\* Accounts of a bucket: tokens made, requests paid for
Entries == [made : Nat, paid : Nat]

\* A bucket of a limiter of one of the states
Valid(b) == b \in Buckets /\ b[1] \in 1..Len(gens) /\ Capacity(b) \in Nat

\* The buckets there can be
Stock == {b \in Buckets : Valid(b)}

(***************************************************************************)
(* Every bucket has an account and at most its capacity, and the buckets a *)
(* request is still to be charged belong to a limiter of one of the        *)
(* states.                                                                 *)
(***************************************************************************)
Stocked ==
    /\ \A b \in DOMAIN ledger : ledger[b] \in Entries
    /\ DOMAIN buckets \subseteq DOMAIN ledger
    /\ \A b \in DOMAIN buckets : Valid(b) /\ buckets[b] \in 0..Capacity(b)
    /\ \A r \in Reqs : req[r].pc = "consume" =>
                          \A k \in 1..Len(req[r].todo) : req[r].todo[k] \in Stock

\* The account of a bucket, also before its first use.
LEMMA EntryIn ==
    ASSUME Stocked, NEW b
    PROVE  /\ Entry(b) \in Entries /\ Entry(b).made \in Nat /\ Entry(b).paid \in Nat
           /\ b \notin DOMAIN ledger => Entry(b).made = 0 /\ Entry(b).paid = 0
           /\ b \in DOMAIN ledger => Entry(b) = ledger[b]
  BY DEF Stocked, Entry, Entries

\* The bucket a request is charged next.
LEMMA HeadValid ==
    ASSUME Types, Stocked, NEW r \in Reqs, Consume(r)
    PROVE  Valid(Head(req[r].todo))
<1>1. req[r].pc = "consume" /\ req[r].todo # <<>> /\ req[r].todo \in Seq(Buckets)
  BY DEF Consume, Types, Served, Requests
<1>2. PICK s \in Seq(Buckets) : s = req[r].todo /\ s # <<>>
  BY <1>1
<1>3. 1 \in 1..Len(s) /\ Head(s) = s[1]
  BY <1>2, SMT
<1> QED
  BY <1>1, <1>2, <1>3 DEF Stocked, Stock

(***************************************************************************)
(* What charging b does to the account of any bucket c: b may have been    *)
(* made, and if the request is let through it pays for every bucket it     *)
(* charged.                                                                *)
(***************************************************************************)
LEMMA ConsumeEntry ==
    ASSUME Types, Stocked, NEW r \in Reqs, Consume(r), NEW b, b = Head(req[r].todo),
           NEW c \in DOMAIN ledger'
    PROVE  /\ ledger'[c] \in Entries
           /\ c = b /\ b \notin DOMAIN buckets => ledger'[c].made = Entry(c).made + Capacity(b)
           /\ ~(c = b /\ b \notin DOMAIN buckets) => ledger'[c].made = Entry(c).made
           /\ c \in req[r].charged \cup {b} /\ Tokens(b) > 0 /\ Tail(req[r].todo) = <<>>
                => ledger'[c].paid = Entry(c).paid + 1
           /\ ~(c \in req[r].charged \cup {b} /\ Tokens(b) > 0 /\ Tail(req[r].todo) = <<>>)
                => ledger'[c].paid = Entry(c).paid
\* Making a bucket adds its capacity to the tokens made.
<1>CreditIn.
      ASSUME NEW a, Valid(a)
      PROVE  /\ Credit(a) \in Entries /\ Credit(a).paid = Entry(a).paid
             /\ a \in DOMAIN buckets => Credit(a).made = Entry(a).made
             /\ a \notin DOMAIN buckets => Credit(a).made = Entry(a).made + Capacity(a)
  <2> USE <1>CreditIn
  <2>1. Entry(a) \in Entries /\ Capacity(a) \in Nat
    BY EntryIn DEF Valid
  <2>2. PICK n \in Nat : n = IF a \in DOMAIN buckets THEN 0 ELSE Capacity(a)
    BY <2>1
  <2>3. PICK e \in Entries : e = Entry(a)
    BY <2>1
  <2>4. Credit(a) = [e EXCEPT !.made = @ + n]
    BY <2>2, <2>3 DEF Credit
  <2>5. [e EXCEPT !.made = @ + n] \in Entries
    BY SMT DEF Entries
  <2> QED
    BY <2>2, <2>3, <2>4, <2>5, SMT DEF Entries
<1>1. Valid(b)
  BY HeadValid
<1>3. PICK charged, admitted, n :
        /\ charged = req[r].charged \cup {b} /\ n = Tokens(b)
        /\ admitted = (n > 0 /\ Tail(req[r].todo) = <<>>)
  OBVIOUS
<1>5. PICK h : h = [d \in charged |-> [(IF d = b THEN Credit(b) ELSE Entry(d)) EXCEPT
                                          !.paid = IF admitted THEN @ + 1 ELSE @]]
  OBVIOUS
<1>7. ledger' = Overlay(h, ledger)
  BY <1>3, <1>5 DEF Consume
<1>9. DOMAIN h = charged
  BY <1>5
<1>10. /\ DOMAIN ledger' = charged \cup DOMAIN ledger
       /\ \A d \in DOMAIN ledger' : ledger'[d] = IF d \in charged THEN h[d] ELSE ledger[d]
  BY <1>7, <1>9 DEF Overlay
<1>11. /\ ledger'[c] \in Entries
       /\ c = b /\ b \notin DOMAIN buckets => ledger'[c].made = Entry(c).made + Capacity(b)
       /\ ~(c = b /\ b \notin DOMAIN buckets) => ledger'[c].made = Entry(c).made
       /\ c \in charged /\ admitted => ledger'[c].paid = Entry(c).paid + 1
       /\ ~(c \in charged /\ admitted) => ledger'[c].paid = Entry(c).paid
  <2>0. Entry(c) \in Entries /\ Entry(c).made \in Nat /\ Entry(c).paid \in Nat
    BY EntryIn
  <2>1. CASE c \notin charged
    <3>1. ledger'[c] = Entry(c) /\ c # b
      BY <1>3, <1>10, <2>1, EntryIn
    <3> QED
      BY <2>0, <2>1, <3>1
  <2>2. CASE c \in charged
    <3>1. PICK e : e = IF c = b THEN Credit(b) ELSE Entry(c)
      OBVIOUS
    <3>2. /\ e \in Entries /\ e.paid = Entry(c).paid
          /\ c = b /\ b \notin DOMAIN buckets => e.made = Entry(c).made + Capacity(b)
          /\ ~(c = b /\ b \notin DOMAIN buckets) => e.made = Entry(c).made
      <4>1. CASE c = b
        BY <1>1, <3>1, <4>1, <1>CreditIn
      <4>2. CASE c # b
        BY <2>0, <3>1, <4>2
      <4> QED
        BY <4>1, <4>2
    <3>3. ledger'[c] = [e EXCEPT !.paid = IF admitted THEN @ + 1 ELSE @]
      BY <1>5, <1>10, <2>2, <3>1
    <3>4. ledger'[c] \in Entries /\ ledger'[c].made = e.made
          /\ ledger'[c].paid = IF admitted THEN e.paid + 1 ELSE e.paid
      BY <3>2, <3>3, SMT DEF Entries
    <3> QED
      BY <2>0, <2>2, <3>2, <3>4
  <2> QED
    BY <2>1, <2>2
<1>12. admitted <=> Tokens(b) > 0 /\ Tail(req[r].todo) = <<>>
  BY <1>3
<1> QED
  BY <1>3, <1>11, <1>12

\* What charging a bucket does to the buckets.
LEMMA ConsumeBuckets ==
    ASSUME Types, Stocked, NEW r \in Reqs, Consume(r), NEW b, b = Head(req[r].todo)
    PROVE  /\ Valid(b) /\ Tokens(b) \in Nat /\ Tokens(b) <= Capacity(b) /\ Capacity(b) \in Nat
           /\ \A c : c \in DOMAIN buckets' <=> c \in DOMAIN buckets \cup {b}
           /\ buckets'[b] = IF Tokens(b) > 0 THEN Tokens(b) - 1 ELSE 0
           /\ \A c \in DOMAIN buckets : c # b => buckets'[c] = buckets[c]
           /\ DOMAIN ledger' = DOMAIN ledger \cup req[r].charged \cup {b}
\* A bucket has between no token and its capacity.
<1>TokensIn.
      ASSUME NEW a, Valid(a)
      PROVE  Tokens(a) \in Nat /\ Tokens(a) <= Capacity(a) /\ Capacity(a) \in Nat
  <2> USE <1>TokensIn
  <2>1. CASE a \in DOMAIN buckets
    BY <2>1, SMT DEF Stocked, Tokens, Valid
  <2>2. CASE a \notin DOMAIN buckets
    BY <2>2, SMT DEF Tokens, Valid
  <2> QED
    BY <2>1, <2>2
<1>1. Valid(b)
  BY HeadValid
<1>2. Tokens(b) \in Nat /\ Tokens(b) <= Capacity(b) /\ Capacity(b) \in Nat
  BY <1>1, <1>TokensIn
<1>3. PICK charged, admitted, n :
        /\ charged = req[r].charged \cup {b} /\ n = Tokens(b)
        /\ admitted = (n > 0 /\ Tail(req[r].todo) = <<>>)
  OBVIOUS
<1>4. PICK f : f = [c \in {b} |-> IF n > 0 THEN n - 1 ELSE 0]
  OBVIOUS
<1>5. PICK h : h = [c \in charged |-> [(IF c = b THEN Credit(b) ELSE Entry(c)) EXCEPT
                                          !.paid = IF admitted THEN @ + 1 ELSE @]]
  OBVIOUS
<1>6. buckets' = Overlay(f, buckets)
  BY <1>3, <1>4 DEF Consume
<1>7. ledger' = Overlay(h, ledger)
  BY <1>3, <1>5 DEF Consume
<1>8. /\ DOMAIN buckets' = {b} \cup DOMAIN buckets
      /\ buckets'[b] = IF n > 0 THEN n - 1 ELSE 0
      /\ \A c \in DOMAIN buckets : c # b => buckets'[c] = buckets[c]
  <2>1. DOMAIN f = {b} /\ f[b] = IF n > 0 THEN n - 1 ELSE 0
    BY <1>4
  <2> QED
    BY <1>6, <2>1 DEF Overlay
<1>9. DOMAIN h = charged
  BY <1>5
<1>10. DOMAIN ledger' = charged \cup DOMAIN ledger
  BY <1>7, <1>9 DEF Overlay
<1>11. DOMAIN ledger' = DOMAIN ledger \cup req[r].charged \cup {b}
  BY <1>3, <1>10
<1> QED
  BY <1>1, <1>2, <1>3, <1>8, <1>11

----------------------------------------------------------------------------
\* Before a request has been charged
Early == {"load", "ban", "block", "limit"}

\* A step that charges no bucket and begins no charge
Quiet ==
    /\ UNCHANGED limits
    /\ \A q \in Reqs :
        /\ req'[q].pc = "consume" => /\ req[q].pc = "consume" /\ req'[q].todo = req[q].todo
                                     /\ req'[q].charged = req[q].charged
        /\ req'[q].pc \in Early => \/ req'[q].charged = {}
                                   \/ req[q].pc \in Early /\ req'[q].charged = req[q].charged

(***************************************************************************)
(* Every step keeps Types, and only choosing keys, charging, refilling and *)
(* evicting concern the buckets.                                           *)
(***************************************************************************)
LEMMA NextTypes ==
    ASSUME Types, Stocked, [Next]_vars
    PROVE  /\ Types'
           /\ \/ Quiet
              \/ \E r \in Reqs : ChooseKeys(r) \/ Consume(r)
              \/ \E b \in DOMAIN buckets : Refill(b) \/ Evict(b)
\* Steps that leave the watcher and the trackers alone.
<1>LoadedSame.
      ASSUME Types, UNCHANGED <<fixed, watch, trackers>>
      PROVE  Loaded' /\ UNCHANGED gens
  BY <1>LoadedSame DEF Types, Loaded, fixed, watch
\* Steps that concern neither requests nor states.
<1>ServedSame. ASSUME Served, UNCHANGED <<req, gens>> PROVE Served'
  BY <1>ServedSame DEF Served
\* Steps that concern neither buckets nor requests.
<1>QuietSame. ASSUME UNCHANGED <<limits, req>> PROVE Quiet
  BY <1>QuietSame DEF Quiet
\* Writes of the file, lost notifications, and the watcher up to its reload.
<1>WatchTypes.
      ASSUME \/ \E c \in Configs \cup {Nil}, note \in Notes : Write(c, note)
             \/ \E k \in 1..Len(events) : LoseEvent(k)
             \/ HandleEvent \/ ReadFile
      PROVE  Types' /\ Quiet
  <2> USE <1>WatchTypes
  <2>1. /\ UNCHANGED <<adapter, withEngine, own, gens, trackers, req>> /\ UNCHANGED limits
    BY DEF Write, LoseEvent, HandleEvent, ReadFile, fixed, bans, limits
  <2>2. /\ file' \in Configs \cup {Nil} /\ wread' \in Configs \cup {Nil}
        /\ wpc' \in {"idle", "debounce", "store"} /\ (wpc' = "store" => wread' \in Configs)
    <3>1. CASE ReadFile
      BY <3>1 DEF Types, Loaded, ReadFile, FromFile
    <3>2. CASE \E c \in Configs \cup {Nil}, note \in Notes : Write(c, note)
      BY <3>2 DEF Types, Loaded, Write
    <3>3. CASE \E k \in 1..Len(events) : LoseEvent(k)
      BY <3>3 DEF Types, Loaded, LoseEvent
    <3>4. CASE HandleEvent
      BY <3>4 DEF Types, Loaded, HandleEvent
    <3> QED
      BY <3>1, <3>2, <3>3, <3>4
  <2>3. Loaded'
    BY <2>1, <2>2 DEF Types, Loaded
  <2>4. Served'
    BY <2>1, <1>ServedSame DEF Types
  <2> QED
    BY <2>1, <2>3, <2>4, <1>QuietSame DEF Types
\* A reload.
<1>StoreTypes.
      ASSUME StoreState
      PROVE Types' /\ Quiet
  <2> USE <1>StoreTypes
  \* A reload leaves the requests the states they have.
  <2>StoreServed. Served'
    <3>1. Len(gens') = Len(gens) + 1 /\ Len(gens) \in Nat
      BY StoreFields DEF Types
    <3>2. 0..Len(gens) \subseteq 0..Len(gens') /\ 1..Len(gens) \subseteq 1..Len(gens')
      BY <3>1, SMT
    <3>3. req' = req
      BY DEF StoreState
    <3> QED
      BY <3>2, <3>3 DEF Types, Served
  <2>1. /\ gens' \in Seq(States) /\ gens' # <<>> /\ trackers' \in Seq(Trackers)
        /\ Len(trackers') \in {Len(trackers), Len(trackers) + 1} /\ Len(trackers) \in Nat
        /\ \A g \in 1..Len(gens') : /\ gens'[g].tracker \in 0..Len(trackers')
                                    /\ gens'[g].trie \in {Nil, BuildTrie(gens'[g].cfg.routes)}
    BY StoreFields DEF Types
  <2>2. /\ UNCHANGED <<adapter, withEngine, own, file, req>> /\ UNCHANGED limits
        /\ wpc' = "idle" /\ wread' = Nil
    BY DEF StoreState, fixed
  <2>3. own \in 0..Len(trackers')
    <3>1. own \in 0..Len(trackers)
      BY DEF Types, Loaded
    <3> QED
      BY <2>1, <3>1, SMT
  <2>4. Loaded'
    BY <2>1, <2>2, <2>3 DEF Types, Loaded
  <2>5. Served'
    BY <2>StoreServed
  <2> QED
    BY <2>2, <2>4, <2>5, <1>QuietSame DEF Types
\* A step of a request.
<1>ServeTypes.
      ASSUME NEW r \in Reqs, Serve(r) \/ \E input \in Inputs : Arrive(r, input)
      PROVE  Types' /\ (Quiet \/ ChooseKeys(r) \/ Consume(r))
  <2> USE <1>ServeTypes
  \* A request that advances past its load keeps what it relies on.
  <2>ServedAdvance.
        ASSUME Served, UNCHANGED gens, Advances(r), req[r].ip \in Ips,
               req'[r].pc # "load", req'[r].pc = "consume" => req'[r].todo # <<>>
        PROVE  Served'
    <3> USE <2>ServedAdvance
    <3>1. \A q \in Reqs : q # r => req'[q] = req[q]
      BY DEF Advances
    <3>2. /\ req'[r].gen = req[r].gen /\ req'[r].ip = req[r].ip /\ req'[r].input = req[r].input
          /\ req' \in [Reqs -> Requests]
      BY DEF Advances
    <3>3. ASSUME NEW q \in Reqs
          PROVE  /\ req'[q].gen \in 0..Len(gens')
                 /\ req'[q].pc \in {"ban", "block", "limit", "consume", "denied", "insert"} => req'[q].ip \in Ips
                 /\ req'[q].ip # Nil => req'[q].gen \in 1..Len(gens') /\ req'[q].input \in Inputs
                 /\ req'[q].pc = "load" => req'[q].input \in Inputs /\ req'[q].ip = Nil
                 /\ req'[q].pc = "consume" => req'[q].todo # <<>>
      <4>1. CASE q = r
        BY <3>2, <4>1 DEF Served
      <4>2. CASE q # r
        BY <3>1, <4>2 DEF Served
      <4> QED
        BY <4>1, <4>2
    <3> QED
      BY <3>2, <3>3 DEF Served
  \* Loading gives the request an address and a state.
  <2>LoadServed.
        ASSUME UNCHANGED gens, Load(r)
        PROVE  Served'
    <3> USE <2>LoadServed
    <3>1. /\ req' \in [Reqs -> Requests] /\ \A q \in Reqs : q # r => req'[q] = req[q]
          /\ req[r].pc = "load" /\ req'[r].gen \in 1..Len(gens)
          /\ req'[r].input = req[r].input
          /\ \/ req'[r].pc = "done" /\ req'[r].ip = req[r].ip
             \/ req'[r].pc \in {"ban", "block"} /\ req'[r].ip \in Ips
      BY LoadFields
    <3>2. req[r].input \in Inputs /\ req[r].ip = Nil /\ req'[r].gen \in 0..Len(gens)
      BY <3>1, SMT DEF Types, Served, Loaded
    <3>3. ASSUME NEW q \in Reqs
          PROVE  /\ req'[q].gen \in 0..Len(gens')
                 /\ req'[q].pc \in {"ban", "block", "limit", "consume", "denied", "insert"} => req'[q].ip \in Ips
                 /\ req'[q].ip # Nil => req'[q].gen \in 1..Len(gens') /\ req'[q].input \in Inputs
                 /\ req'[q].pc = "load" => req'[q].input \in Inputs /\ req'[q].ip = Nil
                 /\ req'[q].pc = "consume" => req'[q].todo # <<>>
      <4>1. CASE q = r
        BY <3>1, <3>2, <4>1
      <4>2. CASE q # r
        BY <3>1, <4>2 DEF Types, Served
      <4> QED
        BY <4>1, <4>2
    <3> QED
      BY <3>1, <3>3 DEF Served
  \* A request that arrives has an input.
  <2>ArriveServed.
        ASSUME UNCHANGED gens, NEW input \in Inputs, Arrive(r, input)
        PROVE  Served'
    <3> USE <2>ArriveServed
    <3>1. /\ req' \in [Reqs -> Requests] /\ \A q \in Reqs : q # r => req'[q] = req[q]
          /\ req'[r].pc \in {"load", "done"} /\ req'[r].input = input
          /\ req'[r].ip = Nil /\ req'[r].gen = 0
      BY ArriveFields DEF Types, Served, Loaded
    <3>2. 0 \in 0..Len(gens)
      BY SMT DEF Types, Loaded
    <3>3. ASSUME NEW q \in Reqs
          PROVE  /\ req'[q].gen \in 0..Len(gens')
                 /\ req'[q].pc \in {"ban", "block", "limit", "consume", "denied", "insert"} => req'[q].ip \in Ips
                 /\ req'[q].ip # Nil => req'[q].gen \in 1..Len(gens') /\ req'[q].input \in Inputs
                 /\ req'[q].pc = "load" => req'[q].input \in Inputs /\ req'[q].ip = Nil
                 /\ req'[q].pc = "consume" => req'[q].todo # <<>>
      <4>1. CASE q = r
        BY <3>1, <3>2, <4>1
      <4>2. CASE q # r
        BY <3>1, <4>2 DEF Types, Served
      <4> QED
        BY <4>1, <4>2
    <3> QED
      BY <3>1, <3>3 DEF Served
  \* A step of a request that is not charged.
  <2>QuietAdvance.
        ASSUME UNCHANGED limits, \A q \in Reqs : q # r => req'[q] = req[q],
               req'[r].pc # "consume",
               req'[r].pc \in Early => \/ req'[r].charged = {}
                                       \/ req[r].pc \in Early /\ req'[r].charged = req[r].charged
        PROVE  Quiet
    <3> USE <2>QuietAdvance
    <3>1. ASSUME NEW q \in Reqs
          PROVE  /\ req'[q].pc = "consume" => /\ req[q].pc = "consume" /\ req'[q].todo = req[q].todo
                                              /\ req'[q].charged = req[q].charged
                 /\ req'[q].pc \in Early => \/ req'[q].charged = {}
                                            \/ req[q].pc \in Early /\ req'[q].charged = req[q].charged
      <4>1. CASE q = r
        BY <4>1
      <4>2. CASE q # r
        BY <4>2
      <4> QED
        BY <4>1, <4>2
    <3> QED
      BY <3>1 DEF Quiet
  <2>1. CASE \E input \in Inputs : Arrive(r, input)
    <3>1. PICK input \in Inputs : Arrive(r, input)
      BY <2>1
    <3>2. Loaded' /\ UNCHANGED gens /\ UNCHANGED limits
      BY <3>1, <1>LoadedSame DEF Arrive, bans
    <3>3. Served'
      BY <3>1, <3>2, <2>ArriveServed
    <3>4. Quiet
      <4>1. /\ \A q \in Reqs : q # r => req'[q] = req[q]
            /\ req'[r].pc \in {"load", "done"} /\ req'[r].charged = {}
        BY <3>1, ArriveFields DEF Types, Served, Loaded
      <4> QED
        BY <3>2, <4>1, <2>QuietAdvance
    <3> QED
      BY <3>2, <3>3, <3>4 DEF Types
  <2>2. CASE Load(r)
    <3>2. Loaded' /\ UNCHANGED gens /\ UNCHANGED limits
      BY <2>2, <1>LoadedSame DEF Load, bans
    <3>3. Served'
      BY <2>2, <3>2, <2>LoadServed
    <3>4. Quiet
      <4>1. /\ \A q \in Reqs : q # r => req'[q] = req[q]
            /\ req'[r].pc \in {"ban", "block", "done"} /\ req'[r].charged = req[r].charged
            /\ req[r].pc = "load"
        BY <2>2, LoadFields
      <4> QED
        BY <3>2, <4>1, <2>QuietAdvance DEF Early
    <3> QED
      BY <3>2, <3>3, <3>4 DEF Types
  <2>3. CASE CheckBan(r) \/ CheckBlock(r)
    <3>2. Loaded' /\ UNCHANGED gens /\ UNCHANGED limits
      BY <2>3, <1>LoadedSame DEF CheckBan, CheckBlock, bans
    <3>1. /\ Advances(r) /\ req[r].pc \in {"ban", "block"}
          /\ req'[r].charged = req[r].charged /\ req'[r].pc \in {"block", "limit", "done"}
      BY <2>3, CheckFields
    <3>3. Served'
      BY <3>1, <3>2, InProgress, <2>ServedAdvance DEF Types
    <3>4. Quiet
      BY <3>1, <3>2, <2>QuietAdvance DEF Early, Advances
    <3> QED
      BY <3>2, <3>3, <3>4 DEF Types
  <2>4. CASE ChooseKeys(r)
    <3>2. Loaded' /\ UNCHANGED gens
      BY <2>4, <1>LoadedSame DEF ChooseKeys, bans
    <3>1. /\ Advances(r) /\ req[r].pc = "limit" /\ req'[r].pc = "consume" /\ req'[r].todo # <<>>
      BY <2>4, ChooseFields DEF ChooseKeys
    <3>3. Served'
      BY <3>1, <3>2, InProgress, <2>ServedAdvance DEF Types
    <3> QED
      BY <2>4, <3>2, <3>3 DEF Types
  <2>5. CASE Consume(r)
    <3>2. Loaded' /\ UNCHANGED gens
      BY <2>5, <1>LoadedSame DEF Consume, bans
    <3>0. PICK b : b = Head(req[r].todo)
      OBVIOUS
    <3>1. /\ Advances(r) /\ req[r].pc = "consume" /\ req'[r].todo = Tail(req[r].todo)
          /\ \/ req'[r].pc \in {"denied", "done"}
             \/ Tokens(b) # 0 /\ ~(Tokens(b) > 0 /\ Tail(req[r].todo) = <<>>)
      BY <2>5, <3>0, ConsumeFields
    <3>4. Tokens(b) \in Nat
      BY <2>5, <3>0, ConsumeBuckets
    <3>5. Tokens(b) # 0 => Tokens(b) > 0
      BY <3>4, SMT
    <3>6. req'[r].pc # "load" /\ (req'[r].pc = "consume" => req'[r].todo # <<>>)
      <4>1. CASE req'[r].pc \in {"denied", "done"}
        BY <4>1
      <4>2. CASE Tokens(b) # 0 /\ ~(Tokens(b) > 0 /\ Tail(req[r].todo) = <<>>)
        <5>1. req'[r].pc # "load"
          BY <2>5, <3>0, ConsumeFields
        <5> QED
          BY <3>1, <3>5, <4>2, <5>1
      <4> QED
        BY <3>1, <4>1, <4>2
    <3>3. Served'
      BY <3>1, <3>2, <3>6, InProgress, <2>ServedAdvance DEF Types
    <3> QED
      BY <2>5, <3>2, <3>3 DEF Types
  <2>6. CASE Denied(r)
    <3>1. /\ Advances(r) /\ req[r].pc = "denied" /\ req'[r].pc \in {"done", "insert"}
          /\ trackers' \in Seq(Trackers) /\ Len(trackers') = Len(trackers)
      BY <2>6, DeniedFields
    <3>2. /\ UNCHANGED <<adapter, withEngine, own, gens, file, wread, wpc>> /\ UNCHANGED limits
      BY <2>6 DEF Denied, fixed, watch
    <3>3. Loaded'
      BY <3>1, <3>2 DEF Types, Loaded
    <3>4. Served'
      BY <3>1, <3>2, InProgress, <2>ServedAdvance DEF Types
    <3>5. Quiet
      BY <3>1, <3>2, <2>QuietAdvance DEF Early, Advances
    <3> QED
      BY <3>3, <3>4, <3>5 DEF Types
  <2>7. CASE InsertBan(r)
    <3>2. Loaded' /\ UNCHANGED gens /\ UNCHANGED limits
      BY <2>7, <1>LoadedSame DEF InsertBan
    <3>1. Advances(r) /\ req[r].pc = "insert" /\ req'[r].pc = "done"
      BY <2>7, InsertFields
    <3>3. Served'
      BY <3>1, <3>2, InProgress, <2>ServedAdvance DEF Types
    <3>4. Quiet
      BY <3>1, <3>2, <2>QuietAdvance DEF Early, Advances
    <3> QED
      BY <3>2, <3>3, <3>4 DEF Types
  <2> QED
    BY <2>1, <2>2, <2>3, <2>4, <2>5, <2>6, <2>7 DEF Serve
\* Tokens, evictions, expiries and sweeps.
<1>TickTypes.
      ASSUME \/ \E b \in DOMAIN buckets : Refill(b) \/ Evict(b)
             \/ \E t \in 1..Len(trackers) : Sweep(t) \/ \E ip \in Ips : Expire(t, ip)
      PROVE  Types' /\ (Quiet \/ \E b \in DOMAIN buckets : Refill(b) \/ Evict(b))
  <2> USE <1>TickTypes
  \* Excused requests keep what they rely on.
  <2>ExcuseServed.
        ASSUME UNCHANGED gens, NEW ips, Excused(ips)
        PROVE  Served'
    BY <2>ExcuseServed DEF Types, Served, Excused
  \* Excusing requests charges none.
  <2>QuietExcuse.
        ASSUME UNCHANGED limits, NEW ips, Excused(ips)
        PROVE Quiet
    BY <2>QuietExcuse DEF Excused, Quiet
  <2>1. CASE \E b \in DOMAIN buckets : Refill(b) \/ Evict(b)
    <3>1. UNCHANGED <<fixed, watch, bans, req>>
      BY <2>1 DEF Refill, Evict
    <3>2. Loaded' /\ UNCHANGED gens
      BY <3>1, <1>LoadedSame DEF bans
    <3> QED
      BY <2>1, <3>1, <3>2, <1>ServedSame DEF Types
  <2>2. ASSUME NEW t \in 1..Len(trackers), NEW ips, Excused(ips), UNCHANGED <<fixed, watch, limits>>,
               trackers' \in Seq(Trackers), Len(trackers') = Len(trackers)
        PROVE  Types' /\ Quiet
    <3>1. UNCHANGED <<adapter, withEngine, own, gens, file, wread, wpc>> /\ UNCHANGED limits
      BY <2>2 DEF fixed, watch
    <3>2. Loaded'
      BY <2>2, <3>1 DEF Types, Loaded
    <3> QED
      BY <2>2, <3>1, <3>2, <2>ExcuseServed, <2>QuietExcuse DEF Types
  <2>3. CASE \E t \in 1..Len(trackers) : Sweep(t)
    <3>1. PICK t \in 1..Len(trackers) : Sweep(t)
      BY <2>3
    <3>2. PICK ips : Sweeps(ips)
      BY <3>1, SweepFields
    <3>3. UNCHANGED <<fixed, watch, limits>>
      BY <3>1, SweepFields
    <3> QED
      BY <2>2, <3>2, <3>3 DEF Sweeps
  <2>4. CASE \E t \in 1..Len(trackers), ip \in Ips : Expire(t, ip)
    <3>1. PICK t \in 1..Len(trackers), ip \in Ips : Expire(t, ip)
      BY <2>4
    <3>2. trackers' \in Seq(Trackers) /\ Len(trackers') = Len(trackers)
      BY <3>1, ExpireFields
    <3>3. Excused({ip}) /\ UNCHANGED <<fixed, watch, limits>>
      BY <3>1, ExcuseFields DEF Expire, Types, Served
    <3> QED
      BY <2>2, <3>2, <3>3
  <2> QED
    BY <2>1, <2>3, <2>4
<1>1. CASE UNCHANGED vars
  <2>1. UNCHANGED <<fixed, watch, trackers>> /\ UNCHANGED req /\ UNCHANGED limits
    BY <1>1 DEF vars, bans
  <2> QED
    BY <2>1, <1>LoadedSame, <1>ServedSame, <1>QuietSame DEF Types
<1>2. CASE \/ \E c \in Configs \cup {Nil}, note \in Notes : Write(c, note)
           \/ \E k \in 1..Len(events) : LoseEvent(k)
           \/ HandleEvent \/ ReadFile
  BY <1>2, <1>WatchTypes
<1>3. CASE StoreState
  BY <1>3, <1>StoreTypes
<1>4. CASE \E r \in Reqs : Serve(r) \/ \E input \in Inputs : Arrive(r, input)
  BY <1>4, <1>ServeTypes
<1>5. CASE \/ \E b \in DOMAIN buckets : Refill(b) \/ Evict(b)
           \/ \E t \in 1..Len(trackers) : Sweep(t) \/ \E ip \in Ips : Expire(t, ip)
  BY <1>5, <1>TickTypes
<1> QED
  BY <1>1, <1>2, <1>3, <1>4, <1>5 DEF Next, Watch

\* States are never changed once they are there, nor is the adapter.
LEMMA StatesStay ==
    ASSUME Types, [Next]_vars
    PROVE  /\ Len(gens) \in Nat /\ Len(gens') \in Nat /\ Len(gens) <= Len(gens')
           /\ \A g \in 1..Len(gens) : gens'[g] = gens[g]
           /\ UNCHANGED <<adapter, withEngine, own>>
<1>1. Len(gens) \in Nat
  BY SMT DEF Types, Loaded
<1>2. CASE StoreState
  <2>1. /\ Len(gens') = Len(gens) + 1 /\ Len(gens) \in Nat
        /\ \A g \in 1..Len(gens) : gens'[g] = gens[g]
    BY <1>2, StoreFields DEF Types
  <2>2. UNCHANGED <<adapter, withEngine, own>>
    BY <1>2 DEF StoreState, fixed
  <2> QED
    BY <2>1, <2>2, SMT
<1>3. CASE UNCHANGED <<fixed, gens>>
  BY <1>1, <1>3, SMT DEF fixed
<1>4. StoreState \/ UNCHANGED <<fixed, gens>>
  <2>1. ASSUME NEW r \in Reqs, Serve(r) PROVE UNCHANGED <<fixed, gens>>
    BY <2>1 DEF Serve, Load, CheckBan, CheckBlock, ChooseKeys, Consume, Denied, InsertBan, watch
  <2>2. ASSUME NEW r \in Reqs, NEW input \in Inputs, Arrive(r, input)
        PROVE  UNCHANGED <<fixed, gens>>
    BY <2>2 DEF Arrive, watch
  <2>3. ASSUME HandleEvent \/ ReadFile PROVE UNCHANGED <<fixed, gens>>
    BY <2>3 DEF HandleEvent, ReadFile
  <2>4. ASSUME NEW c, NEW note, Write(c, note) PROVE UNCHANGED <<fixed, gens>>
    BY <2>4 DEF Write
  <2>5. ASSUME NEW k, LoseEvent(k) PROVE UNCHANGED <<fixed, gens>>
    BY <2>5 DEF LoseEvent
  <2>6. ASSUME NEW b, Refill(b) \/ Evict(b) PROVE UNCHANGED <<fixed, gens>>
    BY <2>6 DEF Refill, Evict, watch
  <2>7. ASSUME NEW t, NEW ip, Sweep(t) \/ Expire(t, ip) PROVE UNCHANGED <<fixed, gens>>
    BY <2>7 DEF Sweep, Collect, Lift, Unblock, Expire, watch
  <2>8. UNCHANGED vars => UNCHANGED <<fixed, gens>>
    BY DEF vars, watch
  <2> QED
    BY <2>1, <2>2, <2>3, <2>4, <2>5, <2>6, <2>7, <2>8 DEF Next, Watch
<1> QED
  BY <1>2, <1>3, <1>4

\* Every step keeps the buckets within their capacity and on account.
LEMMA StockedNext ==
    ASSUME Types, Stocked, [Next]_vars
    PROVE  Stocked'
\* Buckets stay valid, with the capacity they have.
<1>ValidStays.
      ASSUME NEW b, Valid(b)
      PROVE  Valid(b)' /\ Capacity(b)' = Capacity(b)
  <2> USE <1>ValidStays
  <2>1. /\ Len(gens) \in Nat /\ Len(gens') \in Nat /\ Len(gens) <= Len(gens')
        /\ \A g \in 1..Len(gens) : gens'[g] = gens[g]
    BY StatesStay
  <2>2. b \in Buckets /\ b[1] \in 1..Len(gens) /\ Capacity(b) \in Nat
    BY DEF Valid
  <2>3. gens'[b[1]] = gens[b[1]] /\ b[1] \in 1..Len(gens')
    BY <2>1, <2>2, SMT
  <2>4. Capacity(b)' = Capacity(b)
    BY <2>3 DEF Capacity, LimitOf
  <2>5. Buckets' = Buckets
    BY DEF Buckets, Keyed
  <2> QED
    BY <2>2, <2>3, <2>4, <2>5 DEF Valid
\* The keys a request chooses are buckets of its state.
<1>KeysValid.
      ASSUME NEW r \in Reqs, ChooseKeys(r)
      PROVE  \A k \in 1..Len(Keys(r)) : Keys(r)[k] \in Stock
  <2> USE <1>KeysValid
  <2>1. req[r].ip \in Ips /\ req[r].gen \in 1..Len(gens) /\ req[r].input \in Inputs
    BY InProgress DEF ChooseKeys
  <2>2. /\ Keys(r) \in Seq(Buckets)
        /\ \A k \in 1..Len(Keys(r)) : Keys(r)[k][1] = req[r].gen /\ Keys(r)[k][2] = Limiter(r)
    BY <2>1, KeysFields DEF Types
  <2>3. LimitOf(req[r].gen, Limiter(r)) \in Limits
    BY <2>1, LimitIn DEF Types
  <2>4. LimitOf(req[r].gen, Limiter(r)).capacity \in Nat
    BY <2>3 DEF Limits
  <2> SUFFICES ASSUME NEW k \in 1..Len(Keys(r)) PROVE Keys(r)[k] \in Stock
    OBVIOUS
  <2>5. PICK s \in Seq(Buckets) : s = Keys(r)
    BY <2>2
  <2>6. PICK b : b = s[k] /\ b \in Buckets
    BY <2>5, SMT
  <2>7. b[1] = req[r].gen /\ b[2] = Limiter(r)
    BY <2>2, <2>5, <2>6
  <2>8. Capacity(b) \in Nat
    BY <2>4, <2>7 DEF Capacity
  <2> QED
    BY <2>1, <2>5, <2>6, <2>7, <2>8 DEF Valid, Stock
\* What is left to charge after a bucket is still in stock.
<1>TodoValid.
      ASSUME NEW r \in Reqs, Consume(r)
      PROVE  \A k \in 1..Len(Tail(req[r].todo)) : Tail(req[r].todo)[k] \in Stock
  <2> USE <1>TodoValid
  <2>1. req[r].pc = "consume" /\ req[r].todo # <<>> /\ req[r].todo \in Seq(Buckets)
    BY DEF Consume, Types, Served, Requests
  <2>2. PICK s \in Seq(Buckets) : s = req[r].todo /\ s # <<>>
    BY <2>1
  <2>3. \A k \in 1..Len(Tail(s)) : Tail(s)[k] = s[k + 1] /\ k + 1 \in 1..Len(s)
    BY <2>2, SMT
  <2>4. \A k \in 1..Len(s) : s[k] \in Stock
    BY <2>1, <2>2 DEF Stocked
  <2> QED
    BY <2>2, <2>3, <2>4
<1>0. /\ \A b \in DOMAIN ledger : ledger[b] \in Entries
      /\ DOMAIN buckets \subseteq DOMAIN ledger
      /\ \A b \in DOMAIN buckets : Valid(b) /\ buckets[b] \in 0..Capacity(b)
      /\ \A r \in Reqs : req[r].pc = "consume" =>
                          \A k \in 1..Len(req[r].todo) : req[r].todo[k] \in Stock
  BY DEF Stocked
<1>1. \A b : Valid(b) => Valid(b)' /\ Capacity(b)' = Capacity(b)
  BY <1>ValidStays
<1>d. Stock \subseteq Stock'
  <2>1. Buckets' = Buckets
    BY DEF Buckets, Keyed
  <2> QED
    BY <1>1, <2>1 DEF Stock
<1>a. ASSUME UNCHANGED ledger PROVE \A b \in DOMAIN ledger' : ledger'[b] \in Entries'
  BY <1>0, <1>a DEF Entries
<1>b. ASSUME UNCHANGED buckets
      PROVE  \A b \in DOMAIN buckets' : Valid(b)' /\ buckets'[b] \in 0..Capacity(b)'
  BY <1>0, <1>1, <1>b
<1>c. ASSUME UNCHANGED req
      PROVE  \A r \in Reqs : req'[r].pc = "consume" =>
                          \A k \in 1..Len(req'[r].todo) : req'[r].todo[k] \in Stock'
  BY <1>0, <1>d, <1>c
<1>2. CASE Quiet
  <2>1. UNCHANGED <<ledger, buckets>>
    BY <1>2 DEF Quiet, limits
  <2>2. ASSUME NEW r \in Reqs, req'[r].pc = "consume", NEW k \in 1..Len(req'[r].todo)
        PROVE  req'[r].todo[k] \in Stock'
    <3>1. req[r].pc = "consume" /\ req'[r].todo = req[r].todo
      BY <1>2, <2>2 DEF Quiet
    <3>2. PICK b : b = req[r].todo[k] /\ b = req'[r].todo[k] /\ b \in Stock
      BY <1>0, <2>2, <3>1
    <3> QED
      BY <1>d, <3>2
  <2> QED
    BY <1>0, <1>a, <1>b, <2>1, <2>2 DEF Stocked
<1>3. ASSUME NEW r \in Reqs, ChooseKeys(r) PROVE Stocked'
  <2>1. UNCHANGED <<ledger, buckets>>
    BY <1>3 DEF ChooseKeys, limits
  <2>2. Advances(r) /\ req'[r].todo = Keys(r)
    BY <1>3, ChooseFields
  <2>3. ASSUME NEW q \in Reqs, req'[q].pc = "consume", NEW k \in 1..Len(req'[q].todo)
        PROVE  req'[q].todo[k] \in Stock'
    <3>1. PICK b : b = req'[q].todo[k]
      OBVIOUS
    <3>2. b \in Stock
      <4>1. CASE q = r
        BY <1>3, <2>2, <2>3, <3>1, <4>1, <1>KeysValid
      <4>2. CASE q # r
        BY <1>0, <2>2, <2>3, <3>1, <4>2 DEF Advances
      <4> QED
        BY <4>1, <4>2
    <3> QED
      BY <1>d, <3>1, <3>2
  <2> QED
    BY <1>0, <1>a, <1>b, <2>1, <2>3 DEF Stocked
<1>4. ASSUME NEW r \in Reqs, Consume(r) PROVE Stocked'
  <2>0. PICK b : b = Head(req[r].todo)
    OBVIOUS
  <2>1. /\ Valid(b) /\ Tokens(b) \in Nat /\ Tokens(b) <= Capacity(b)
        /\ \A c : c \in DOMAIN buckets' <=> c \in DOMAIN buckets \cup {b}
        /\ buckets'[b] = IF Tokens(b) > 0 THEN Tokens(b) - 1 ELSE 0
        /\ \A c \in DOMAIN buckets : c # b => buckets'[c] = buckets[c]
        /\ DOMAIN ledger' = DOMAIN ledger \cup req[r].charged \cup {b}
    BY <1>4, <2>0, ConsumeBuckets
  <2>7. \A c \in DOMAIN ledger' : ledger'[c] \in Entries
    BY <1>4, <2>0, ConsumeEntry
  <2>2. Advances(r) /\ req'[r].todo = Tail(req[r].todo)
    BY <1>4, <2>0, ConsumeFields
  <2>3. ASSUME NEW q \in Reqs, req'[q].pc = "consume", NEW k \in 1..Len(req'[q].todo)
        PROVE  req'[q].todo[k] \in Stock'
    <3>1. PICK c : c = req'[q].todo[k]
      OBVIOUS
    <3>2. c \in Stock
      <4>1. CASE q = r
        BY <1>4, <2>2, <2>3, <3>1, <4>1, <1>TodoValid
      <4>2. CASE q # r
        BY <1>0, <2>2, <2>3, <3>1, <4>2 DEF Advances
      <4> QED
        BY <4>1, <4>2
    <3> QED
      BY <1>d, <3>1, <3>2
  <2>4. ASSUME NEW c \in DOMAIN buckets'
        PROVE  Valid(c)' /\ buckets'[c] \in 0..Capacity(c)'
    <3>1. CASE c = b
      <4>1. Capacity(b) \in Nat /\ Capacity(b)' = Capacity(b) /\ Valid(b)'
        BY <1>1, <2>1 DEF Valid
      <4>2. PICK n \in Nat : n = Tokens(b)
        BY <2>1
      <4>3. buckets'[b] \in 0..Capacity(b)
        BY <2>1, <4>1, <4>2, SMT
      <4> QED
        BY <3>1, <4>1, <4>3
    <3>2. CASE c # b
      BY <1>0, <1>1, <2>1, <3>2
    <3> QED
      BY <3>1, <3>2
  <2>5. DOMAIN buckets' \subseteq DOMAIN ledger'
    BY <1>0, <2>1
  <2>6. Entries' = Entries
    BY DEF Entries
  <2> QED
    BY <2>3, <2>4, <2>5, <2>6, <2>7 DEF Stocked
<1>5. ASSUME NEW b \in DOMAIN buckets, Refill(b) PROVE Stocked'
  <2>1. /\ buckets' = [buckets EXCEPT ![b] = @ + 1] /\ buckets[b] < Capacity(b)
        /\ ledger' = [ledger EXCEPT ![b].made = @ + 1] /\ UNCHANGED req
    BY <1>5 DEF Refill
  <2>2. b \in DOMAIN ledger /\ ledger[b] \in Entries /\ Capacity(b) \in Nat
        /\ buckets[b] \in 0..Capacity(b)
    BY <1>0 DEF Valid
  <2>3. PICK e : e = [ledger[b] EXCEPT !.made = @ + 1]
    OBVIOUS
  <2>4. e \in Entries
    BY <2>2, <2>3, SMT DEF Entries
  <2>5. ledger' = [ledger EXCEPT ![b] = e]
    BY <2>1, <2>3
  <2>6. DOMAIN ledger' = DOMAIN ledger /\ \A c \in DOMAIN ledger' : ledger'[c] \in Entries'
    <3>1. Entries' = Entries
      BY DEF Entries
    <3> QED
      BY <1>0, <2>4, <2>5, <3>1
  <2>7. buckets[b] + 1 \in 0..Capacity(b)
    BY <2>1, <2>2, SMT
  <2>8. DOMAIN buckets' = DOMAIN buckets
    BY <2>1
  <2>9. \A c \in DOMAIN buckets' : Valid(c)' /\ buckets'[c] \in 0..Capacity(c)'
    BY <1>0, <1>1, <2>1, <2>7
  <2> QED
    BY <1>0, <1>c, <2>1, <2>6, <2>8, <2>9 DEF Stocked
<1>6. ASSUME NEW b \in DOMAIN buckets, Evict(b) PROVE Stocked'
  <2>1. /\ buckets' = [c \in DOMAIN buckets \ {b} |-> buckets[c]]
        /\ UNCHANGED ledger /\ UNCHANGED req
    BY <1>6 DEF Evict
  <2>2. \A c \in DOMAIN buckets' : Valid(c)' /\ buckets'[c] \in 0..Capacity(c)'
    BY <1>0, <1>1, <2>1
  <2>3. DOMAIN buckets' \subseteq DOMAIN ledger'
    BY <1>0, <2>1
  <2> QED
    BY <1>a, <1>c, <2>1, <2>2, <2>3 DEF Stocked
<1> QED
  BY <1>2, <1>3, <1>4, <1>5, <1>6, NextTypes

----------------------------------------------------------------------------
\* Tokens in a bucket, none if it is not in the cache
Have(b) == IF b \in DOMAIN buckets THEN buckets[b] ELSE 0

\* Requests that have taken a token of b and wait for their next bucket
Pending(b) == {r \in Reqs : req[r].pc = "consume" /\ b \in req[r].charged}

(***************************************************************************)
(* Every token made is paid for, left in the bucket, held by a request     *)
(* that waits for its next bucket, or lost.                                *)
(***************************************************************************)
Covered ==
    /\ Counting
    /\ \A r \in Reqs : req[r].pc \in Early => req[r].charged = {}
    /\ \A r \in Reqs : req[r].pc = "consume" => req[r].charged \subseteq DOMAIN ledger
    /\ \A b \in DOMAIN ledger :
          ledger[b].paid + Have(b) + Cardinality(Pending(b)) <= ledger[b].made

\* Finitely many requests are pending.
LEMMA PendingIn ==
    ASSUME Counting, NEW b
    PROVE  IsFiniteSet(Pending(b)) /\ Cardinality(Pending(b)) \in Nat
<1>1. Pending(b) \in SUBSET Reqs /\ IsFiniteSet(Reqs)
  BY ConstantsAssumption DEF Pending
<1>2. IsFiniteSet(Pending(b))
  BY <1>1 DEF Counting
<1> QED
  BY <1>2 DEF Counting

\* Finitely many requests are pending after the step.
LEMMA PendingNextIn ==
    ASSUME Counting, NEW b
    PROVE  IsFiniteSet(Pending(b)') /\ Cardinality(Pending(b)') \in Nat
<1>1. Pending(b)' \in SUBSET Reqs /\ IsFiniteSet(Reqs)
  BY ConstantsAssumption DEF Pending
<1>2. IsFiniteSet(Pending(b)')
  BY <1>1 DEF Counting
<1> QED
  BY <1>2 DEF Counting

\* The balance holds also of a bucket that was never used.
LEMMA Balance ==
    ASSUME Stocked, Covered, NEW b
    PROVE  /\ Entry(b).paid + Have(b) + Cardinality(Pending(b)) <= Entry(b).made
           /\ Entry(b).paid \in Nat /\ Entry(b).made \in Nat /\ Have(b) \in Nat
           /\ Cardinality(Pending(b)) \in Nat
\* Tokens are counted by naturals.
<1>HaveIn. Have(b) \in Nat
  <2>1. CASE b \in DOMAIN buckets
    <3>1. Capacity(b) \in Nat /\ buckets[b] \in 0..Capacity(b)
      BY <2>1 DEF Stocked, Valid
    <3> QED
      BY <2>1, <3>1, SMT DEF Have
  <2>2. CASE b \notin DOMAIN buckets
    BY <2>2 DEF Have
  <2> QED
    BY <2>1, <2>2
<1>1. /\ Entry(b).paid \in Nat /\ Entry(b).made \in Nat /\ Have(b) \in Nat
      /\ Cardinality(Pending(b)) \in Nat
  BY EntryIn, <1>HaveIn, PendingIn DEF Covered
<1>2. CASE b \in DOMAIN ledger
  <2>1. Entry(b) = ledger[b]
    BY <1>2, EntryIn
  <2> QED
    BY <1>1, <1>2, <2>1 DEF Covered
<1>3. CASE b \notin DOMAIN ledger
  <2>1. Entry(b).paid = 0 /\ Entry(b).made = 0
    BY <1>3, EntryIn
  <2>2. Have(b) = 0
    BY <1>3 DEF Have, Stocked
  <2>3. Pending(b) = {}
    BY <1>3 DEF Pending, Covered
  <2>4. Cardinality(Pending(b)) = 0
    BY <2>3 DEF Counting, Covered
  <2> QED
    BY <2>1, <2>2, <2>4, SMT
<1> QED
  BY <1>1, <1>2, <1>3

\* Every step keeps the balance.
LEMMA CoveredNext ==
    ASSUME Types, Stocked, Covered, [Next]_vars
    PROVE  Covered'
\* A step that charges no bucket leaves the balance.
<1>QuietCovered.
      ASSUME UNCHANGED limits,
             \A q \in Reqs : req'[q].pc = "consume" =>
                 \/ req'[q].charged = {}
                 \/ req[q].pc = "consume" /\ req'[q].charged = req[q].charged
      PROVE  /\ \A r \in Reqs : req'[r].pc = "consume" => req'[r].charged \subseteq DOMAIN ledger'
             /\ \A b \in DOMAIN ledger' :
                   ledger'[b].paid + Have(b)' + Cardinality(Pending(b)') <= ledger'[b].made
  <2> USE <1>QuietCovered
  \* Fewer pending requests count less.
  <2>FewerPending.
        ASSUME NEW b, Pending(b)' \subseteq Pending(b)
        PROVE  Cardinality(Pending(b)') <= Cardinality(Pending(b))
    <3> USE <2>FewerPending
    <3>1. PICK S, T : S = Pending(b) /\ T = Pending(b)'
      OBVIOUS
    <3>2. IsFiniteSet(S) /\ T \in SUBSET S
      BY <3>1, PendingIn DEF Covered
    <3>3. Cardinality(T) <= Cardinality(S)
      BY <3>2 DEF Counting, Covered
    <3> QED
      BY <3>1, <3>3
  <2>1. UNCHANGED <<ledger, buckets>>
    BY DEF limits
  <2>2. \A r \in Reqs : req'[r].pc = "consume" => req'[r].charged \subseteq DOMAIN ledger'
    BY <2>1 DEF Covered
  <2>3. ASSUME NEW b \in DOMAIN ledger'
        PROVE  ledger'[b].paid + Have(b)' + Cardinality(Pending(b)') <= ledger'[b].made
    <3>1. Have(b)' = Have(b)
      BY <2>1 DEF Have
    <3>2. Pending(b)' \subseteq Pending(b)
      BY DEF Pending
    <3>3. Cardinality(Pending(b)') <= Cardinality(Pending(b)) /\ Cardinality(Pending(b)') \in Nat
      BY <3>2, <2>FewerPending, PendingNextIn DEF Covered
    <3>4. Entry(b) = ledger'[b]
      BY <2>1 DEF Entry
    <3>5. PICK paid \in Nat, made \in Nat, have \in Nat, n \in Nat, m \in Nat :
            /\ paid = ledger'[b].paid /\ made = ledger'[b].made /\ have = Have(b)'
            /\ n = Cardinality(Pending(b)) /\ m = Cardinality(Pending(b)')
            /\ paid + have + n <= made /\ m <= n
      BY <3>1, <3>3, <3>4, Balance
    <3>6. paid + have + m <= made
      BY <3>5, SMT
    <3> QED
      BY <3>5, <3>6
  <2> QED
    BY <2>2, <2>3
\* A request that was not charged holds no token.
<1>EarlyCharges.
      ASSUME \A q \in Reqs : req'[q].pc \in Early =>
                 \/ req'[q].charged = {}
                 \/ req[q].pc \in Early /\ req'[q].charged = req[q].charged
      PROVE  \A q \in Reqs : req'[q].pc \in Early => req'[q].charged = {}
  BY <1>EarlyCharges DEF Covered
\* Charging a bucket keeps the balance: the token it takes is pending, paid for
\* or lost.
<1>ConsumeCovered.
      ASSUME NEW r \in Reqs, Consume(r)
      PROVE  \A c \in DOMAIN ledger' :
                ledger'[c].paid + Have(c)' + Cardinality(Pending(c)') <= ledger'[c].made
  <2> USE <1>ConsumeCovered
  \* How charging b changes the number of requests pending on any bucket c: by one
  \* more on b at most, and by one less on what is paid for.
  <2>ConsumePending.
        ASSUME NEW b, b = Head(req[r].todo), NEW c
        PROVE  /\ Cardinality(Pending(c)') \in Nat /\ Cardinality(Pending(c)) \in Nat
               /\ Cardinality(Pending(c)') <= Cardinality(Pending(c)) + 1
               /\ c # b \/ req'[r].pc # "consume"
                    => Cardinality(Pending(c)') <= Cardinality(Pending(c))
               /\ c \in req[r].charged /\ req'[r].pc # "consume"
                    => Cardinality(Pending(c)') <= Cardinality(Pending(c)) - 1
    <3> USE <2>ConsumePending
    <3>1. /\ \A q \in Reqs : q # r => req'[q] = req[q]
          /\ req[r].pc = "consume" /\ req'[r].charged = req[r].charged \cup {b}
      BY ConsumeFields DEF Advances
    <3>2. PICK P, Q : P = Pending(c) /\ Q = Pending(c)'
      OBVIOUS
    <3>3. /\ IsFiniteSet(P) /\ IsFiniteSet(Q) /\ Cardinality(P) \in Nat /\ Cardinality(Q) \in Nat
      BY <3>2, PendingIn, PendingNextIn DEF Covered
    <3>4. \A q : q \in Q => q \in P \/ q = r
      BY <3>1, <3>2 DEF Pending
    <3>5. Cardinality(Q) <= Cardinality(P) + 1
      <4>1. Q \in SUBSET (P \cup {r})
        BY <3>4
      <4>2. /\ r \in P => P \cup {r} = P
            /\ r \notin P => IsFiniteSet(P \cup {r}) /\ Cardinality(P \cup {r}) = Cardinality(P) + 1
        BY <3>3 DEF Counting, Covered
      <4>3. IsFiniteSet(P \cup {r})
        BY <3>3, <4>2
      <4>4. Cardinality(Q) <= Cardinality(P \cup {r})
        BY <4>1, <4>3 DEF Counting, Covered
      <4> QED
        BY <3>3, <4>2, <4>4, SMT
    <3>6. ASSUME c # b \/ req'[r].pc # "consume" PROVE Cardinality(Q) <= Cardinality(P)
      <4>1. r \in Q => r \in P
        BY <3>1, <3>2, <3>6 DEF Pending
      <4>2. Q \in SUBSET P
        BY <3>4, <4>1
      <4> QED
        BY <3>3, <4>2 DEF Counting, Covered
    <3>7. ASSUME c \in req[r].charged, req'[r].pc # "consume"
          PROVE  Cardinality(Q) <= Cardinality(P) - 1
      <4>1. r \notin Q /\ r \in P
        BY <3>1, <3>2, <3>7 DEF Pending
      <4>2. Q \in SUBSET (P \ {r})
        BY <3>4, <4>1
      <4>3. IsFiniteSet(P \ {r}) /\ Cardinality(P \ {r}) = Cardinality(P) - 1
        BY <3>3, <4>1 DEF Counting, Covered
      <4> QED
        <5>1. Cardinality(Q) <= Cardinality(P \ {r})
          BY <4>2, <4>3 DEF Counting, Covered
        <5> QED
          BY <4>3, <5>1
    <3> QED
      BY <3>2, <3>3, <3>5, <3>6, <3>7
  <2>0. PICK b : b = Head(req[r].todo)
    OBVIOUS
  <2> SUFFICES ASSUME NEW c \in DOMAIN ledger'
               PROVE  ledger'[c].paid + Have(c)' + Cardinality(Pending(c)') <= ledger'[c].made
    OBVIOUS
  <2>1. Valid(b) /\ Tokens(b) \in Nat /\ Capacity(b) \in Nat
    BY <2>0, ConsumeBuckets
  <2>2. /\ \A d : d \in DOMAIN buckets' <=> d \in DOMAIN buckets \cup {b}
        /\ buckets'[b] = IF Tokens(b) > 0 THEN Tokens(b) - 1 ELSE 0
        /\ \A d \in DOMAIN buckets : d # b => buckets'[d] = buckets[d]
    BY <2>0, ConsumeBuckets
  <2>3. /\ c = b /\ b \notin DOMAIN buckets => ledger'[c].made = Entry(c).made + Capacity(b)
        /\ ~(c = b /\ b \notin DOMAIN buckets) => ledger'[c].made = Entry(c).made
    BY <2>0, ConsumeEntry
  <2>4. /\ c \in req[r].charged \cup {b} /\ Tokens(b) > 0 /\ Tail(req[r].todo) = <<>>
             => ledger'[c].paid = Entry(c).paid + 1
        /\ ~(c \in req[r].charged \cup {b} /\ Tokens(b) > 0 /\ Tail(req[r].todo) = <<>>)
             => ledger'[c].paid = Entry(c).paid
    BY <2>0, ConsumeEntry
  <2>5. /\ Entry(c).paid + Have(c) + Cardinality(Pending(c)) <= Entry(c).made
        /\ Entry(c).paid \in Nat /\ Entry(c).made \in Nat /\ Have(c) \in Nat
    BY Balance
  <2>6. /\ Cardinality(Pending(c)') \in Nat /\ Cardinality(Pending(c)) \in Nat
        /\ Cardinality(Pending(c)') <= Cardinality(Pending(c)) + 1
        /\ c # b \/ req'[r].pc # "consume"
             => Cardinality(Pending(c)') <= Cardinality(Pending(c))
        /\ c \in req[r].charged /\ req'[r].pc # "consume"
             => Cardinality(Pending(c)') <= Cardinality(Pending(c)) - 1
    BY <2>0, <2>ConsumePending
  <2>7. \/ Tokens(b) = 0 /\ req'[r].pc = "denied"
        \/ Tokens(b) > 0 /\ Tail(req[r].todo) = <<>> /\ req'[r].pc = "done"
        \/ /\ Tokens(b) # 0 /\ ~(Tokens(b) > 0 /\ Tail(req[r].todo) = <<>>)
           /\ req'[r].pc = "consume"
    BY <2>0, ConsumeFields
  <2>8. PICK n \in Nat, paid \in Nat, made \in Nat, have \in Nat, m \in Nat, k \in Nat :
          /\ n = Tokens(b) /\ paid = Entry(c).paid /\ made = Entry(c).made /\ have = Have(c)
          /\ m = Cardinality(Pending(c)) /\ k = Cardinality(Pending(c)')
    BY <2>1, <2>5, <2>6
  <2>9. paid + have + m <= made
    BY <2>5, <2>8
  <2>10. CASE c = b
    <3>1. Have(c)' = IF n > 0 THEN n - 1 ELSE 0
      BY <2>2, <2>8, <2>10 DEF Have
    <3>2. PICK more \in Nat : /\ ledger'[c].made = made + more /\ have + more = n
      <4>1. CASE b \in DOMAIN buckets
        BY <2>3, <2>8, <2>10, <4>1, SMT DEF Have, Tokens
      <4>2. CASE b \notin DOMAIN buckets
        BY <2>1, <2>3, <2>8, <2>10, <4>2, SMT DEF Have, Tokens
      <4> QED
        BY <4>1, <4>2
    <3>3. CASE n = 0
      <4>1. ledger'[c].paid = paid /\ k <= m
        BY <2>4, <2>6, <2>7, <2>8, <3>3, SMT
      <4>2. paid + 0 + k <= made + more
        BY <2>9, <3>2, <3>3, <4>1, SMT
      <4> QED
        BY <2>8, <3>1, <3>2, <3>3, <4>1, <4>2, SMT
    <3>4. CASE n > 0 /\ Tail(req[r].todo) = <<>>
      <4>1. ledger'[c].paid = paid + 1 /\ k <= m
        BY <2>4, <2>6, <2>7, <2>8, <2>10, <3>4
      <4>2. (paid + 1) + (n - 1) + k <= made + more
        BY <2>9, <3>2, <3>4, <4>1, SMT
      <4> QED
        BY <2>8, <3>1, <3>2, <3>4, <4>1, <4>2
    <3>5. CASE n > 0 /\ Tail(req[r].todo) # <<>>
      <4>1. ledger'[c].paid = paid /\ k <= m + 1
        BY <2>4, <2>6, <2>8, <3>5
      <4>2. paid + (n - 1) + k <= made + more
        BY <2>9, <3>2, <3>5, <4>1, SMT
      <4> QED
        BY <2>8, <3>1, <3>2, <3>5, <4>1, <4>2
    <3> QED
      BY <3>3, <3>4, <3>5, SMT
  <2>11. CASE c # b
    <3>1. Have(c)' = have /\ ledger'[c].made = made
      BY <2>2, <2>3, <2>8, <2>11 DEF Have
    <3>2. k <= m
      BY <2>6, <2>8, <2>11
    <3>3. CASE c \in req[r].charged /\ n > 0 /\ Tail(req[r].todo) = <<>>
      <4>1. ledger'[c].paid = paid + 1
        BY <2>4, <2>8, <3>3
      <4>2. req'[r].pc # "consume"
        BY <2>7, <2>8, <3>3
      <4>3. k <= m - 1
        BY <2>6, <2>8, <3>3, <4>2
      <4> QED
        BY <2>8, <2>9, <3>1, <4>1, <4>3, SMT
    <3>4. CASE ~(c \in req[r].charged /\ n > 0 /\ Tail(req[r].todo) = <<>>)
      <4>1. ledger'[c].paid = paid
        BY <2>4, <2>8, <2>11, <3>4
      <4> QED
        BY <2>8, <2>9, <3>1, <3>2, <4>1, SMT
    <3> QED
      BY <3>3, <3>4
  <2> QED
    BY <2>10, <2>11
\* A refill makes the token it adds; an eviction loses tokens.
<1>TickCovered.
      ASSUME NEW b \in DOMAIN buckets, Refill(b) \/ Evict(b)
      PROVE  Covered'
  <2> USE <1>TickCovered
  <2>0. UNCHANGED req /\ DOMAIN ledger' = DOMAIN ledger
    BY DEF Refill, Evict
  <2>1. /\ \A r \in Reqs : req'[r].pc \in Early' => req'[r].charged = {}
        /\ \A r \in Reqs : req'[r].pc = "consume" => req'[r].charged \subseteq DOMAIN ledger'
    BY <2>0 DEF Covered, Early
  <2>2. b \in DOMAIN ledger /\ buckets[b] \in Nat /\ ledger[b] \in Entries
    <3>1. Capacity(b) \in Nat /\ buckets[b] \in 0..Capacity(b)
      BY DEF Stocked, Valid
    <3> QED
      BY <3>1, SMT DEF Stocked
  <2>3. ASSUME NEW c \in DOMAIN ledger'
        PROVE  ledger'[c].paid + Have(c)' + Cardinality(Pending(c)') <= ledger'[c].made
    <3>1. Pending(c)' = Pending(c)
      BY <2>0 DEF Pending
    <3>2. /\ Entry(c).paid + Have(c) + Cardinality(Pending(c)) <= Entry(c).made
          /\ Entry(c).paid \in Nat /\ Entry(c).made \in Nat /\ Have(c) \in Nat
          /\ Cardinality(Pending(c)) \in Nat
      BY Balance
    <3>3. Entry(c) = ledger[c] /\ ledger[c] \in Entries
      BY <2>0, EntryIn
    <3>4. PICK paid \in Nat, made \in Nat, have \in Nat, n \in Nat :
            /\ paid = ledger[c].paid /\ made = ledger[c].made /\ have = Have(c)
            /\ n = Cardinality(Pending(c)) /\ paid + have + n <= made
      BY <3>2, <3>3
    <3>5. CASE Evict(b)
      <4>1. ledger' = ledger
        BY <3>5 DEF Evict
      <4>2. Have(c)' \in {have, 0}
        BY <3>4, <3>5 DEF Have, Evict
      <4>3. paid + 0 + n <= made
        BY <3>4, SMT
      <4> QED
        BY <3>1, <3>4, <4>1, <4>2, <4>3
    <3>6. CASE Refill(b)
      <4>1. /\ buckets' = [buckets EXCEPT ![b] = @ + 1]
            /\ ledger' = [ledger EXCEPT ![b].made = @ + 1]
        BY <3>6 DEF Refill
      <4>2. CASE c = b
        <5>1. Have(c)' = have + 1
          BY <3>4, <4>1, <4>2 DEF Have
        <5>2. PICK e : e = [ledger[b] EXCEPT !.made = @ + 1]
          OBVIOUS
        <5>3. e.made = made + 1 /\ e.paid = paid
          BY <3>3, <3>4, <4>2, <5>2 DEF Entries
        <5>4. ledger'[c] = e
          BY <2>2, <4>1, <4>2, <5>2
        <5>5. paid + (have + 1) + n <= made + 1
          BY <3>4, SMT
        <5> QED
          BY <3>1, <3>4, <5>1, <5>3, <5>4, <5>5
      <4>3. CASE c # b
        <5>1. Have(c)' = have /\ ledger'[c] = ledger[c]
          BY <2>0, <3>4, <4>1, <4>3 DEF Have
        <5> QED
          BY <3>1, <3>4, <5>1
      <4> QED
        BY <4>2, <4>3
    <3> QED
      BY <3>5, <3>6
  <2> QED
    BY <2>1, <2>3 DEF Covered
<1>0. Early' = Early
  BY DEF Early
<1>1. CASE Quiet
  <2>1. /\ \A r \in Reqs : req'[r].pc = "consume" => req'[r].charged \subseteq DOMAIN ledger'
        /\ \A b \in DOMAIN ledger' :
              ledger'[b].paid + Have(b)' + Cardinality(Pending(b)') <= ledger'[b].made
    BY <1>1, <1>QuietCovered DEF Quiet
  <2>2. \A q \in Reqs : req'[q].pc \in Early => req'[q].charged = {}
    BY <1>1, <1>EarlyCharges DEF Quiet
  <2> QED
    BY <1>0, <2>1, <2>2 DEF Covered
<1>2. ASSUME NEW r \in Reqs, ChooseKeys(r) PROVE Covered'
  <2>1. /\ UNCHANGED limits /\ \A q \in Reqs : q # r => req'[q] = req[q]
        /\ req[r].pc = "limit" /\ req'[r].pc = "consume" /\ req'[r].charged = req[r].charged
    BY <1>2, ChooseFields DEF ChooseKeys, Advances
  <2>2. req'[r].charged = {}
    BY <2>1 DEF Covered, Early
  <2>3. \A q \in Reqs : req'[q].pc = "consume" =>
               \/ req'[q].charged = {}
               \/ req[q].pc = "consume" /\ req'[q].charged = req[q].charged
    BY <2>1, <2>2
  <2>4. /\ \A q \in Reqs : req'[q].pc = "consume" => req'[q].charged \subseteq DOMAIN ledger'
        /\ \A b \in DOMAIN ledger' :
              ledger'[b].paid + Have(b)' + Cardinality(Pending(b)') <= ledger'[b].made
    BY <2>1, <2>3, <1>QuietCovered
  <2>5. \A q \in Reqs : req'[q].pc \in Early => req'[q].charged = {}
    BY <2>1, <2>2 DEF Covered
  <2> QED
    BY <1>0, <2>4, <2>5 DEF Covered
<1>3. ASSUME NEW r \in Reqs, Consume(r) PROVE Covered'
  <2>0. PICK b : b = Head(req[r].todo)
    OBVIOUS
  <2>1. /\ \A q \in Reqs : q # r => req'[q] = req[q]
        /\ req'[r].charged = req[r].charged \cup {b} /\ req'[r].pc \notin Early
    BY <1>3, <2>0, ConsumeFields DEF Advances, Early
  <2>2. DOMAIN ledger' = DOMAIN ledger \cup req[r].charged \cup {b}
    BY <1>3, <2>0, ConsumeBuckets
  <2>3. \A q \in Reqs : req'[q].pc \in Early => req'[q].charged = {}
    BY <2>1 DEF Covered
  <2>4. \A q \in Reqs : req'[q].pc = "consume" => req'[q].charged \subseteq DOMAIN ledger'
    BY <2>1, <2>2 DEF Covered
  <2>5. \A c \in DOMAIN ledger' :
              ledger'[c].paid + Have(c)' + Cardinality(Pending(c)') <= ledger'[c].made
    BY <1>3, <1>ConsumeCovered
  <2> QED
    BY <1>0, <2>3, <2>4, <2>5 DEF Covered
<1>4. ASSUME NEW b \in DOMAIN buckets, Refill(b) \/ Evict(b) PROVE Covered'
  BY <1>4, <1>TickCovered
<1> QED
  BY <1>1, <1>2, <1>3, <1>4, NextTypes

\* The balance gives the limit.
LEMMA CoveredLimits ==
    ASSUME Stocked, Covered PROVE LimitHolds
<1> SUFFICES ASSUME NEW b \in DOMAIN ledger
             PROVE  ledger[b].paid + (IF b \in DOMAIN buckets THEN buckets[b] ELSE 0) <= ledger[b].made
  BY DEF LimitHolds
<1>1. /\ Entry(b).paid + Have(b) + Cardinality(Pending(b)) <= Entry(b).made
      /\ Entry(b).paid \in Nat /\ Entry(b).made \in Nat /\ Have(b) \in Nat
      /\ Cardinality(Pending(b)) \in Nat
  BY Balance
<1>2. Entry(b) = ledger[b]
  BY EntryIn
<1>3. ledger[b].paid + Have(b) <= ledger[b].made
  BY <1>1, <1>2, SMT
<1> QED
  BY <1>3 DEF Have

----------------------------------------------------------------------------
\* The address is banned by some tracker, its route is there and state g looks
Routed(g, ip) ==
    /\ gens[g].cfg.bl /\ ip \in hosts /\ ip \notin stolen
    /\ \E t \in 1..Len(trackers) : Active(t, ip)

\* The address is banned by the tracker of state g
Own(g, ip) == Active(gens[g].tracker, ip)

\* A banned request is before the check that will block it, or was blocked.
Guarded(r) ==
    req[r].banned /\ ~req[r].lifted =>
        /\ req[r].pc \in {"ban", "block", "done"}
        /\ req[r].pc = "ban" => \/ Routed(req[r].gen, req[r].ip)
                                \/ adapter.checksBan /\ Own(req[r].gen, req[r].ip)
        /\ req[r].pc = "block" => Routed(req[r].gen, req[r].ip)
        /\ req[r].result \notin {"allow", "limited"}

\* An active ban has its route in the engine, unless a sweeper took it or the route is
\* still to come
RoutesKept ==
    \A t \in 1..Len(trackers), ip \in Ips :
        Active(t, ip) => ip \in hosts \/ ip \in stolen \/ Inserting(t, ip)

(***************************************************************************)
(* Every banned request is guarded, and requests are done when they have   *)
(* their answer.                                                           *)
(***************************************************************************)
Held ==
    /\ \A r \in Reqs : req[r].pc = "done" <=> req[r].result # Nil
    /\ RoutesKept
    /\ \A r \in Reqs : Guarded(r)

\* A request that the step does not serve stays guarded, unless it is excused.
LEMMA GuardStays ==
    ASSUME Types, NEW q \in Reqs, Guarded(q), UNCHANGED adapter,
           Len(trackers') \in Nat, Len(trackers) <= Len(trackers'),
           \A g \in 1..Len(gens) : gens'[g] = gens[g],
           req'[q].pc = req[q].pc, req'[q].ip = req[q].ip, req'[q].gen = req[q].gen,
           req'[q].banned = req[q].banned, req'[q].result = req[q].result,
           req[q].lifted => req'[q].lifted,
           ~req'[q].lifted =>
               \A u \in 1..Len(trackers) : Active(u, req[q].ip) =>
                   /\ Active(u, req[q].ip)'
                   /\ req[q].ip \in hosts \ stolen => req[q].ip \in hosts' \ stolen'
    PROVE  Guarded(q)'
\* Bans that stay active and keep their route still guard.
<1>BanStays.
      ASSUME NEW g \in 1..Len(gens), NEW ip \in Ips, gens'[g] = gens[g],
             \A u \in 1..Len(trackers) : Active(u, ip) =>
                 Active(u, ip)' /\ (ip \in hosts \ stolen => ip \in hosts' \ stolen')
      PROVE  /\ Routed(g, ip) => Routed(g, ip)'
             /\ Own(g, ip) => Own(g, ip)'
  <2> USE <1>BanStays
  <2>1. Len(trackers) \in Nat
    BY SMT DEF Types, Loaded
  <2>2. ASSUME Routed(g, ip) PROVE Routed(g, ip)'
    <3>1. PICK t \in 1..Len(trackers) : Active(t, ip)
      BY <2>2 DEF Routed
    <3>2. t \in 1..Len(trackers')
      BY <2>1, SMT
    <3>3. \E u \in 1..Len(trackers') : Active(u, ip)'
      BY <3>1, <3>2
    <3>4. gens'[g].cfg.bl /\ ip \in hosts' /\ ip \notin stolen'
      BY <2>2, <3>1 DEF Routed
    <3> QED
      BY <3>3, <3>4 DEF Routed
  <2>3. ASSUME Own(g, ip) PROVE Own(g, ip)'
    <3>1. PICK t : t = gens[g].tracker /\ t = gens'[g].tracker
      OBVIOUS
    <3>2. t \in 0..Len(trackers)
      BY <3>1 DEF Types, Loaded
    <3>3. Active(t, ip)
      BY <2>3, <3>1 DEF Own
    <3>4. t \in 1..Len(trackers)
      BY <2>1, <3>2, <3>3, SMT DEF Active
    <3>5. Active(t, ip)'
      BY <3>3, <3>4
    <3> QED
      BY <3>1, <3>5 DEF Own, Active
  <2> QED
    BY <2>2, <2>3
<1> SUFFICES ASSUME req'[q].banned, ~req'[q].lifted
             PROVE  /\ req'[q].pc \in {"ban", "block", "done"}
                    /\ req'[q].pc = "ban" => \/ Routed(req[q].gen, req[q].ip)'
                                             \/ adapter'.checksBan /\ Own(req[q].gen, req[q].ip)'
                    /\ req'[q].pc = "block" => Routed(req[q].gen, req[q].ip)'
                    /\ req'[q].result \notin {"allow", "limited"}
  BY DEF Guarded
<1>1. /\ req[q].pc \in {"ban", "block", "done"}
      /\ req[q].pc = "ban" => \/ Routed(req[q].gen, req[q].ip)
                              \/ adapter.checksBan /\ Own(req[q].gen, req[q].ip)
      /\ req[q].pc = "block" => Routed(req[q].gen, req[q].ip)
      /\ req[q].result \notin {"allow", "limited"}
  BY DEF Guarded
<1>2. CASE req[q].pc = "done"
  BY <1>1, <1>2
<1>3. CASE req[q].pc \in {"ban", "block"}
  <2>1. req[q].ip \in Ips /\ req[q].gen \in 1..Len(gens)
    BY <1>3, InProgress
  <2>2. PICK g \in 1..Len(gens), ip \in Ips : g = req[q].gen /\ ip = req[q].ip
    BY <2>1
  <2>3. \A u \in 1..Len(trackers) : Active(u, ip) =>
            Active(u, ip)' /\ (ip \in hosts \ stolen => ip \in hosts' \ stolen')
    BY <2>2 DEF Active
  <2>4. /\ Routed(g, ip) => Routed(g, ip)'
        /\ Own(g, ip) => Own(g, ip)'
    BY <2>3, <1>BanStays
  <2>5. g = req'[q].gen /\ ip = req'[q].ip
    BY <2>2
  <2>6. Routed(g, ip)' => Routed(req[q].gen, req[q].ip)'
    BY <2>5 DEF Routed, Active
  <2>7. Own(g, ip)' => Own(req[q].gen, req[q].ip)'
    BY <2>5 DEF Own, Active
  <2> QED
    BY <1>1, <2>2, <2>4, <2>6, <2>7
<1> QED
  BY <1>1, <1>2, <1>3

\* A route that is still to come stays so until its request puts it there.
LEMMA InsertingStays ==
    ASSUME Types, NEW t, NEW ip \in Ips, Inserting(t, ip), UNCHANGED <<adapter, own>>,
           \A g \in 1..Len(gens) : gens'[g] = gens[g],
           \A q \in Reqs : req[q].pc = "insert" /\ req[q].ip = ip =>
               /\ req'[q].pc = "insert" /\ req'[q].ip = req[q].ip
               /\ req'[q].gen = req[q].gen
    PROVE  Inserting(t, ip)'
<1>1. PICK q \in Reqs : req[q].pc = "insert" /\ req[q].ip = ip /\ TrackerFor(q) = t
  BY DEF Inserting
<1>2. req[q].gen \in 1..Len(gens)
  BY <1>1, InProgress
<1>3. req'[q].pc = "insert" /\ req'[q].ip = ip /\ req'[q].gen = req[q].gen
  BY <1>1
<1>4. TrackerFor(q)' = TrackerFor(q)
  BY <1>2, <1>3 DEF TrackerFor
<1> QED
  BY <1>1, <1>3, <1>4 DEF Inserting

\* Every step keeps banned requests guarded.
LEMMA HeldNext ==
    ASSUME Types, Held, [Next]_vars
    PROVE  Held'
\* Answers are not Nil.
<1>Strings. Nil \notin {"probe", "bad", "blocked", "allow", "limited"}
  BY ConstantsAssumption DEF Results
\* A step of r that leaves states and bans alone.
<1>HeldServe.
      ASSUME UNCHANGED <<adapter, own, gens, trackers, hosts, stolen>>, NEW r \in Reqs,
             \A q \in Reqs : q # r => req'[q] = req[q], req[r].pc # "insert",
             req'[r].pc = "done" <=> req'[r].result # Nil, Guarded(r)'
      PROVE  Held'
  <2> USE <1>HeldServe
  <2>1. \A q \in Reqs : req'[q].pc = "done" <=> req'[q].result # Nil
    <3> TAKE q \in Reqs
    <3>1. CASE q = r
      BY <3>1
    <3>2. CASE q # r
      BY <3>2 DEF Held
    <3> QED
      BY <3>1, <3>2
  <2>2. RoutesKept'
    <3>1. ASSUME NEW t, NEW ip \in Ips, Inserting(t, ip) PROVE Inserting(t, ip)'
      BY <3>1, InsertingStays
    <3> QED
      BY <3>1 DEF Held, RoutesKept, Active
  <2>3. ASSUME NEW q \in Reqs, q # r PROVE Guarded(q)'
    <3>1. req'[q] = req[q] /\ Guarded(q)
      BY <2>3 DEF Held
    <3> QED
      BY <3>1 DEF Guarded, Routed, Own, Active
  <2>4. \A q \in Reqs : Guarded(q)'
    <3> TAKE q \in Reqs
    <3>1. CASE q = r
      BY <3>1
    <3>2. CASE q # r
      BY <2>3, <3>2
    <3> QED
      BY <3>1, <3>2
  <2> QED
    BY <2>1, <2>2, <2>4 DEF Held
\* A request that arrives is not banned yet.
<1>ArriveHeld.
      ASSUME NEW r \in Reqs, NEW input \in Inputs, Arrive(r, input)
      PROVE  Held'
  <2> USE <1>ArriveHeld
  <2>1. /\ \A q \in Reqs : q # r => req'[q] = req[q]
        /\ req'[r].pc \in {"load", "done"} /\ req'[r].banned = FALSE
        /\ \/ req'[r].pc = "load" /\ req'[r].result = Nil
           \/ req'[r].pc = "done" /\ req'[r].result = "probe"
    BY ArriveFields DEF Types, Served, Loaded
  <2>5. req[r].pc # "insert"
    BY DEF Arrive, Free
  <2>2. UNCHANGED <<adapter, own, gens, trackers, hosts, stolen>>
    BY DEF Arrive, fixed, watch, bans
  <2>3. Guarded(r)'
    BY <2>1 DEF Guarded
  <2>4. req'[r].pc = "done" <=> req'[r].result # Nil
    BY <2>1, <1>Strings
  <2> QED
    BY <2>1, <2>2, <2>3, <2>4, <2>5, <1>HeldServe
\* Loading finds out whether the request is banned, and the ban is then in force.
<1>LoadHeld.
      ASSUME NEW r \in Reqs, Load(r)
      PROVE  Held'
  <2> USE <1>LoadHeld
  <2>1. /\ \A q \in Reqs : q # r => req'[q] = req[q]
        /\ req[r].pc = "load" /\ req'[r].gen = StateFor(r) /\ req'[r].lifted = req[r].lifted
        /\ \/ /\ req'[r].pc = "done" /\ req'[r].result = "bad" /\ req'[r].banned = req[r].banned
           \/ /\ req'[r].pc = IF adapter.checksBan THEN "ban" ELSE "block"
              /\ req'[r].result = req[r].result /\ req'[r].ip = ClientIp(r)
              /\ (req'[r].banned <=> BannedNow(StateFor(r), ClientIp(r))) /\ ClientIp(r) \in Ips
    BY LoadFields
  <2>2. UNCHANGED <<adapter, own, gens, trackers, hosts, stolen>>
    BY DEF Load, fixed, watch, bans
  <2>3. req[r].result = Nil /\ (req[r].banned => req[r].lifted)
    BY <2>1 DEF Held, Guarded
  <2>4. CASE req'[r].pc = "done"
    <3>1. req'[r].result = "bad" /\ req'[r].banned = req[r].banned
      BY <2>1, <2>4
    <3>2. Guarded(r)'
      BY <2>1, <2>3, <2>4, <3>1 DEF Guarded
    <3>3. req'[r].result # Nil
      BY <3>1, <1>Strings
    <3> QED
      BY <2>1, <2>2, <2>4, <3>2, <3>3, <1>HeldServe
  <2>5. CASE req'[r].pc # "done"
    <3>0. /\ req'[r].pc = IF adapter.checksBan THEN "ban" ELSE "block"
          /\ req'[r].result = Nil /\ req'[r].ip = ClientIp(r) /\ ClientIp(r) \in Ips
          /\ (req'[r].banned <=> BannedNow(StateFor(r), ClientIp(r)))
      BY <2>1, <2>3, <2>5
    <3>1. PICK g, ip : g = StateFor(r) /\ ip = ClientIp(r)
      OBVIOUS
    <3>2. req'[r].gen = g /\ req'[r].ip = ip
      BY <2>1, <3>0, <3>1
    <3>3. BannedNow(g, ip) => Routed(g, ip) \/ (adapter.checksBan /\ Own(g, ip))
      <4>1. ASSUME NEW t \in 1..Len(trackers), Active(t, ip), ~Inserting(t, ip), ip \notin stolen
            PROVE  ip \in hosts
        BY <3>0, <3>1, <4>1 DEF Held, RoutesKept
      <4> QED
        BY <4>1 DEF BannedNow, Routed, Own
    <3>4. req'[r].banned => Routed(g, ip) \/ (adapter.checksBan /\ Own(g, ip))
      BY <3>0, <3>1, <3>3
    <3>5. Routed(g, ip) => Routed(req[r].gen, req[r].ip)'
      BY <2>2, <3>2 DEF Routed, Active
    <3>6. Own(g, ip) => Own(req[r].gen, req[r].ip)'
      BY <2>2, <3>2 DEF Own, Active
    <3>7. /\ req'[r].pc \in {"ban", "block"}
          /\ req'[r].pc = "block" => ~adapter.checksBan
      BY <3>0
    <3>8. req'[r].result \notin {"allow", "limited"}
      BY <3>0, <1>Strings
    <3>9. Guarded(r)'
      BY <2>2, <3>4, <3>5, <3>6, <3>7, <3>8 DEF Guarded
    <3> QED
      BY <2>1, <2>2, <2>5, <3>0, <3>9, <1>HeldServe
  <2> QED
    BY <2>4, <2>5
\* The check that a ban guards blocks the request.
<1>CheckHeld.
      ASSUME NEW r \in Reqs, CheckBan(r) \/ CheckBlock(r)
      PROVE  Held'
  <2> USE <1>CheckHeld
  <2>1. /\ \A q \in Reqs : q # r => req'[q] = req[q]
        /\ req'[r].ip = req[r].ip /\ req'[r].gen = req[r].gen
        /\ req'[r].banned = req[r].banned /\ req'[r].lifted = req[r].lifted
        /\ req[r].pc \in {"ban", "block"}
        /\ \/ /\ req[r].pc = "ban" /\ req'[r].pc = "block" /\ req'[r].result = req[r].result
              /\ ~Active(gens[req[r].gen].tracker, req[r].ip)
           \/ /\ req[r].pc = "block" /\ req'[r].pc = "limit" /\ req'[r].result = req[r].result
              /\ ~(Cfg(r).bl /\ Hit(req[r].ip))
           \/ req'[r].pc = "done" /\ req'[r].result = "blocked"
           \/ /\ req[r].pc = "block" /\ req'[r].pc = "done" /\ req'[r].result = "allow"
              /\ ~(Cfg(r).bl /\ Hit(req[r].ip))
    BY CheckFields DEF Advances
  <2>2. UNCHANGED <<adapter, own, gens, trackers, hosts, stolen>>
    BY DEF CheckBan, CheckBlock, fixed, watch, bans
  <2>3. req[r].result = Nil
    BY <2>1 DEF Held
  <2>4. req'[r].pc = "done" <=> req'[r].result # Nil
    BY <2>1, <2>3, <1>Strings
  <2>5. Guarded(r)'
    <3> SUFFICES ASSUME req[r].banned, ~req[r].lifted PROVE Guarded(r)'
      BY <2>1 DEF Guarded
    <3>1. /\ req[r].pc = "ban" => \/ Routed(req[r].gen, req[r].ip)
                                  \/ adapter.checksBan /\ Own(req[r].gen, req[r].ip)
          /\ req[r].pc = "block" => Routed(req[r].gen, req[r].ip)
      BY DEF Held, Guarded
    <3>2. CASE req[r].pc = "block"
      <4>1. Routed(req[r].gen, req[r].ip) /\ req[r].ip \in Ips
        BY <3>1, <3>2, InProgress
      <4>2. Cfg(r).bl /\ Hit(req[r].ip)
        BY <4>1 DEF Routed, Cfg, Hit
      <4>3. req'[r].pc = "done" /\ req'[r].result = "blocked"
        BY <2>1, <3>2, <4>2
      <4> QED
        BY <4>3 DEF Guarded
    <3>3. CASE req[r].pc = "ban" /\ req'[r].pc = "block"
      <4>1. Routed(req[r].gen, req[r].ip)
        BY <2>1, <3>1, <3>3 DEF Own
      <4>2. Routed(req[r].gen, req[r].ip)'
        BY <2>1, <2>2, <4>1 DEF Routed, Active
      <4>3. req'[r].result \notin {"allow", "limited"}
        BY <2>1, <2>3, <3>3, <1>Strings
      <4> QED
        BY <3>3, <4>2, <4>3 DEF Guarded
    <3>4. CASE req[r].pc = "ban" /\ req'[r].pc # "block"
      <4>1. req'[r].pc = "done" /\ req'[r].result = "blocked"
        BY <2>1, <3>4
      <4> QED
        BY <4>1 DEF Guarded
    <3> QED
      BY <2>1, <3>2, <3>3, <3>4
  <2> QED
    BY <2>1, <2>2, <2>4, <2>5, <1>HeldServe
\* A request past the checks was not banned or is excused.
<1>PassedHeld.
      ASSUME NEW r \in Reqs, ChooseKeys(r) \/ Consume(r)
      PROVE  Held'
  <2> USE <1>PassedHeld
  <2>0. PICK b : b = Head(req[r].todo)
    OBVIOUS
  <2>1. /\ Advances(r) /\ req[r].pc \in {"limit", "consume"}
        /\ \/ req'[r].pc = "consume" /\ req'[r].result \in {Nil, req[r].result}
           \/ req'[r].pc = "denied" /\ req'[r].result = Nil
           \/ req'[r].pc = "done" /\ req'[r].result = "allow"
    <3>1. CASE ChooseKeys(r)
      BY <3>1, ChooseFields DEF ChooseKeys
    <3>2. CASE Consume(r)
      BY <2>0, <3>2, ConsumeFields
    <3> QED
      BY <3>1, <3>2
  <2>2. UNCHANGED <<adapter, own, gens, trackers, hosts, stolen>>
    BY DEF ChooseKeys, Consume, fixed, watch, bans
  <2>3. req[r].result = Nil /\ (req[r].banned => req[r].lifted)
    BY <2>1 DEF Held, Guarded
  <2>4. Guarded(r)'
    BY <2>1, <2>3 DEF Guarded, Advances
  <2>5. req'[r].pc = "done" <=> req'[r].result # Nil
    BY <2>1, <2>3, <1>Strings
  <2> QED
    BY <2>1, <2>2, <2>4, <2>5, <1>HeldServe DEF Advances
\* A refused request was not banned or is excused, and the others stay guarded.
<1>RefusedHeld.
      ASSUME NEW r \in Reqs, Advances(r), req[r].pc \in {"denied", "insert"}, RoutesKept',
             req'[r].pc = "done" <=> req'[r].result # Nil,
             UNCHANGED <<adapter, gens>>, Len(trackers') = Len(trackers),
             \A u \in 1..Len(trackers), i \in Ips : Active(u, i) => Active(u, i)',
             hosts \subseteq hosts', stolen' \subseteq stolen
      PROVE  Held'
  <2> USE <1>RefusedHeld
  <2>1. Len(trackers') \in Nat /\ Len(trackers) <= Len(trackers')
    BY SMT DEF Types, Loaded
  <2>2. \A q \in Reqs : req'[q].pc = "done" <=> req'[q].result # Nil
    <3> TAKE q \in Reqs
    <3>1. CASE q = r
      BY <3>1
    <3>2. CASE q # r
      BY <3>2 DEF Held, Advances
    <3> QED
      BY <3>1, <3>2
  <2>3. Guarded(r)'
    <3>1. req[r].banned => req[r].lifted
      BY DEF Held, Guarded
    <3> QED
      BY <3>1 DEF Guarded, Advances
  <2>4. ASSUME NEW q \in Reqs, q # r PROVE Guarded(q)'
    <3>1. req'[q] = req[q] /\ Guarded(q)
      BY <2>4 DEF Held, Advances
    <3>2. CASE req[q].pc \in {"ban", "block"}
      <4>1. req[q].ip \in Ips
        BY <3>2, InProgress
      <4>2. PICK ip \in Ips : ip = req[q].ip /\ ip = req'[q].ip
        BY <3>1, <4>1
      <4>3. \A u \in 1..Len(trackers) : Active(u, ip) =>
               Active(u, ip)' /\ (ip \in hosts \ stolen => ip \in hosts' \ stolen')
        OBVIOUS
      <4>4. \A u \in 1..Len(trackers) : Active(u, req[q].ip) =>
               /\ Active(u, req[q].ip)'
               /\ req[q].ip \in hosts \ stolen => req[q].ip \in hosts' \ stolen'
        BY <4>2, <4>3 DEF Active
      <4>5. \A g \in 1..Len(gens) : gens'[g] = gens[g]
        OBVIOUS
      <4> QED
        BY <2>1, <3>1, <4>4, <4>5, GuardStays
    <3>3. CASE req[q].pc \notin {"ban", "block"}
      BY <3>1, <3>3 DEF Guarded
    <3> QED
      BY <3>2, <3>3
  <2> QED
    BY <2>2, <2>3, <2>4 DEF Held
\* A refusal adds a ban only, and its route is to come.
<1>DeniedHeld.
      ASSUME NEW r \in Reqs, Denied(r)
      PROVE  Held'
  <2> USE <1>DeniedHeld
  <2>1. /\ Advances(r) /\ req[r].pc = "denied" /\ UNCHANGED <<hosts, stolen>>
        /\ Len(trackers') = Len(trackers)
        /\ \A u \in 1..Len(trackers), i \in Ips : Active(u, i) => Active(u, i)'
        /\ \/ /\ req'[r].pc = "done" /\ req'[r].result \in {"allow", "limited"}
              /\ \A u \in 1..Len(trackers), i \in Ips : Active(u, i)' <=> Active(u, i)
           \/ /\ req'[r].pc = "insert" /\ req'[r].result = req[r].result
              /\ \A u \in 1..Len(trackers), i \in Ips :
                     Active(u, i)' => Active(u, i) \/ (u = TrackerFor(r) /\ i = req[r].ip)
    BY DeniedFields
  <2>2. UNCHANGED <<adapter, own, gens>>
    BY DEF Denied, fixed, watch
  <2>3. req'[r].pc = "done" <=> req'[r].result # Nil
    BY <2>1, <1>Strings DEF Held
  <2>4. RoutesKept'
    <3>1. ASSUME NEW t \in 1..Len(trackers'), NEW ip \in Ips, Active(t, ip)'
          PROVE  ip \in hosts' \/ ip \in stolen' \/ Inserting(t, ip)'
      <4>1. t \in 1..Len(trackers)
        BY <2>1
      <4>2. CASE Active(t, ip)
        <5>1. ip \in hosts \/ ip \in stolen \/ Inserting(t, ip)
          BY <4>1, <4>2 DEF Held, RoutesKept
        <5>2. Inserting(t, ip) => Inserting(t, ip)'
          <6>1. \A q \in Reqs : req[q].pc = "insert" => q # r /\ req'[q] = req[q]
            BY <2>1 DEF Advances
          <6> QED
            BY <2>2, <6>1, InsertingStays
        <5> QED
          BY <2>1, <5>1, <5>2
      <4>3. CASE req'[r].pc = "insert" /\ t = TrackerFor(r) /\ ip = req[r].ip
        <5>1. req'[r].ip = ip /\ req'[r].gen = req[r].gen
          BY <2>1, <4>3 DEF Advances
        <5>2. TrackerFor(r)' = t
          BY <2>2, <4>3, <5>1 DEF TrackerFor
        <5> QED
          BY <4>3, <5>1, <5>2 DEF Inserting
      <4> QED
        BY <2>1, <3>1, <4>1, <4>2, <4>3
    <3> QED
      BY <3>1 DEF RoutesKept
  <2> QED
    BY <2>1, <2>2, <2>3, <2>4, <1>RefusedHeld
\* The route of a ban is put into the engine.
<1>InsertHeld.
      ASSUME NEW r \in Reqs, InsertBan(r)
      PROVE  Held'
  <2> USE <1>InsertHeld
  <2>1. /\ Advances(r) /\ req[r].pc = "insert" /\ req'[r].pc = "done"
        /\ req'[r].result \in {"blocked", "limited"}
    BY InsertFields
  <2>2. /\ UNCHANGED <<adapter, own, gens, trackers>>
        /\ hosts' = hosts \cup {req[r].ip} /\ stolen' = stolen \ {req[r].ip}
    BY DEF InsertBan, fixed, watch
  <2>3. req'[r].pc = "done" <=> req'[r].result # Nil
    BY <2>1, <1>Strings
  <2>4. RoutesKept'
    <3>1. ASSUME NEW t \in 1..Len(trackers'), NEW ip \in Ips, Active(t, ip)', ip # req[r].ip
          PROVE  ip \in hosts' \/ ip \in stolen' \/ Inserting(t, ip)'
      <4>1. ip \in hosts \/ ip \in stolen \/ Inserting(t, ip)
        BY <2>2, <3>1 DEF Held, RoutesKept, Active
      <4>2. Inserting(t, ip) => Inserting(t, ip)'
        <5>1. \A q \in Reqs : req[q].ip = ip => req'[q] = req[q]
          BY <2>1, <3>1 DEF Advances
        <5> QED
          BY <2>2, <5>1, InsertingStays
      <4> QED
        BY <2>2, <3>1, <4>1, <4>2
    <3>2. req[r].ip \in hosts'
      BY <2>2
    <3> QED
      BY <3>1, <3>2 DEF RoutesKept
  <2>5. \A u \in 1..Len(trackers), i \in Ips : Active(u, i) => Active(u, i)'
    BY <2>2 DEF Active
  <2> QED
    BY <2>1, <2>2, <2>3, <2>4, <2>5, <1>RefusedHeld
\* Bans that end, and routes that are removed, excuse the requests they concern.
<1>ExcuseHeld.
      ASSUME UNCHANGED <<adapter, own, gens>>, NEW ips, Sweeps(ips)
      PROVE  Held'
  <2> USE <1>ExcuseHeld
  <2>1. \A r \in Reqs :
                  /\ req'[r].pc = req[r].pc /\ req'[r].ip = req[r].ip
                  /\ req'[r].gen = req[r].gen /\ req'[r].result = req[r].result
                  /\ req'[r].banned = req[r].banned
                  /\ (req'[r].lifted <=> req[r].lifted \/ req[r].ip \in ips)
    BY DEF Sweeps, Excused
  <2>2. \A q \in Reqs : req'[q].pc = "done" <=> req'[q].result # Nil
    BY <2>1 DEF Held
  <2>3. Len(trackers') \in Nat /\ Len(trackers) <= Len(trackers') /\ Len(trackers') = Len(trackers)
    BY SMT DEF Types, Loaded, Sweeps
  <2>4. \A g \in 1..Len(gens) : gens'[g] = gens[g]
    OBVIOUS
  <2>5. ASSUME NEW q \in Reqs PROVE Guarded(q)'
    <3>1. Guarded(q)
      BY DEF Held
    <3>2. CASE req[q].pc \in {"ban", "block"} /\ ~req'[q].lifted
      <4>1. req[q].ip \in Ips /\ req[q].ip \notin ips
        BY <2>1, <3>2, InProgress
      <4>2. PICK ip \in Ips : ip = req[q].ip /\ ip = req'[q].ip /\ ip \notin ips
        BY <2>1, <4>1
      <4>3. \A u \in 1..Len(trackers) : Active(u, ip) =>
                Active(u, ip)' /\ (ip \in hosts \ stolen => ip \in hosts' \ stolen')
        BY <4>2 DEF Sweeps
      <4>4. \A u \in 1..Len(trackers) : Active(u, req[q].ip) =>
                /\ Active(u, req[q].ip)'
                /\ req[q].ip \in hosts \ stolen => req[q].ip \in hosts' \ stolen'
        BY <4>2, <4>3 DEF Active
      <4> QED
        BY <2>1, <2>3, <2>4, <3>1, <4>4, GuardStays
    <3>3. CASE req[q].pc \notin {"ban", "block"} \/ req'[q].lifted
      BY <2>1, <3>1, <3>3 DEF Guarded
    <3> QED
      BY <3>2, <3>3
  <2>6. RoutesKept'
    <3>1. ASSUME NEW t \in 1..Len(trackers'), NEW ip \in Ips, Active(t, ip)'
          PROVE  ip \in hosts' \/ ip \in stolen' \/ Inserting(t, ip)'
      <4>1. t \in 1..Len(trackers)
        BY <2>3
      <4>2. Active(t, ip) /\ (ip \in hosts \cup stolen => ip \in hosts' \/ ip \in stolen')
        BY <3>1, <4>1 DEF Sweeps
      <4>3. ip \in hosts \cup stolen \/ Inserting(t, ip)
        BY <4>1, <4>2 DEF Held, RoutesKept
      <4>4. Inserting(t, ip) => Inserting(t, ip)'
        BY <2>1, <2>4, InsertingStays
      <4> QED
        BY <4>2, <4>3, <4>4
    <3> QED
      BY <3>1 DEF RoutesKept
  <2> QED
    BY <2>2, <2>5, <2>6 DEF Held
\* A ban runs out.
<1>ExpireHeld.
      ASSUME NEW t \in 1..Len(trackers), NEW ip \in Ips, Expire(t, ip)
      PROVE  Held'
  <2> USE <1>ExpireHeld
  <2>1. /\ trackers' \in Seq(Trackers) /\ Len(trackers') = Len(trackers)
        /\ \A u \in 1..Len(trackers), i \in Ips : i # ip => (Active(u, i)' <=> Active(u, i))
        /\ \A u \in 1..Len(trackers), i \in Ips : Active(u, i)' => Active(u, i)
    BY ExpireFields
  <2>2. /\ UNCHANGED <<adapter, own, gens>> /\ UNCHANGED <<hosts, stolen>> /\ Excuse({ip})
    BY DEF Expire, fixed, watch
  <2>3. Excused({ip})
    BY <2>2, ExcuseFields DEF Types, Served
  <2>4. Sweeps({ip})
    BY <2>1, <2>2, <2>3 DEF Sweeps
  <2> QED
    BY <2>2, <2>4, <1>ExcuseHeld
\* A sweeper removes routes of bans of other trackers, which count as stolen.
<1>SweepHeld.
      ASSUME NEW t \in 1..Len(trackers), Sweep(t)
      PROVE  Held'
  <2>1. PICK ips : Sweeps(ips)
    BY <1>SweepHeld, SweepFields
  <2>2. UNCHANGED <<adapter, own, gens>>
    BY <1>SweepHeld, SweepFields DEF fixed, watch
  <2> QED
    BY <2>1, <2>2, <1>ExcuseHeld
\* A reload leaves the old states their trackers.
<1>StoreHeld.
      ASSUME StoreState
      PROVE  Held'
  <2> USE <1>StoreHeld
  <2>1. /\ \A g \in 1..Len(gens) : gens'[g] = gens[g]
        /\ trackers' \in Seq(Trackers) /\ Len(trackers) \in Nat
        /\ Len(trackers') \in {Len(trackers), Len(trackers) + 1}
        /\ \A u \in 1..Len(trackers), i \in Ips : Active(u, i)' <=> Active(u, i)
        /\ \A u \in 1..Len(trackers'), i \in Ips : Active(u, i)' => u \in 1..Len(trackers)
    BY StoreFields DEF Types
  <2>2. UNCHANGED <<adapter, own, req>> /\ UNCHANGED <<hosts, stolen>>
    BY DEF StoreState, fixed
  <2>3. Len(trackers') \in Nat /\ Len(trackers) <= Len(trackers')
    BY <2>1, SMT
  <2>4. RoutesKept'
    <3>1. ASSUME NEW u \in 1..Len(trackers'), NEW i \in Ips, Active(u, i)'
          PROVE  i \in hosts' \/ i \in stolen' \/ Inserting(u, i)'
      <4>1. u \in 1..Len(trackers) /\ Active(u, i)
        BY <2>1, <3>1
      <4>2. i \in hosts \/ i \in stolen \/ Inserting(u, i)
        BY <4>1 DEF Held, RoutesKept
      <4>3. Inserting(u, i) => Inserting(u, i)'
        BY <2>1, <2>2, InsertingStays
      <4> QED
        BY <2>2, <4>2, <4>3
    <3> QED
      BY <3>1 DEF RoutesKept
  <2>5. ASSUME NEW q \in Reqs PROVE Guarded(q)'
    <3>1. Guarded(q) /\ req'[q] = req[q]
      BY <2>2 DEF Held
    <3>2. CASE req[q].pc \in {"ban", "block"}
      <4>1. req[q].ip \in Ips
        BY <3>2, InProgress
      <4>2. PICK ip \in Ips : ip = req[q].ip /\ ip = req'[q].ip
        BY <3>1, <4>1
      <4>3. \A u \in 1..Len(trackers) : Active(u, ip) => Active(u, ip)'
        BY <2>1
      <4>4. \A u \in 1..Len(trackers) : Active(u, req[q].ip) =>
               /\ Active(u, req[q].ip)'
               /\ req[q].ip \in hosts \ stolen => req[q].ip \in hosts' \ stolen'
        BY <2>2, <4>2, <4>3 DEF Active
      <4> QED
        BY <2>1, <2>2, <2>3, <3>1, <4>4, GuardStays
    <3>3. CASE req[q].pc \notin {"ban", "block"}
      BY <3>1, <3>3 DEF Guarded
    <3> QED
      BY <3>2, <3>3
  <2>6. \A q \in Reqs : req'[q].pc = "done" <=> req'[q].result # Nil
    BY <2>2 DEF Held
  <2> QED
    BY <2>4, <2>5, <2>6 DEF Held
\* Steps that concern neither requests nor bans.
<1>ElseHeld.
      ASSUME UNCHANGED <<adapter, own, gens, trackers, hosts, stolen, req>>
      PROVE  Held'
  <2> USE <1>ElseHeld
  <2>1. RoutesKept'
    <3>1. ASSUME NEW t, NEW ip \in Ips, Inserting(t, ip) PROVE Inserting(t, ip)'
      BY <3>1, InsertingStays
    <3> QED
      BY <3>1 DEF Held, RoutesKept, Active
  <2>2. \A q \in Reqs : Guarded(q)'
    BY DEF Held, Guarded, Routed, Own, Active
  <2> QED
    BY <2>1, <2>2 DEF Held
<1>1. CASE UNCHANGED <<adapter, own, gens, trackers, hosts, stolen, req>>
  BY <1>1, <1>ElseHeld
<1>2. CASE \E r \in Reqs : Serve(r) \/ \E input \in Inputs : Arrive(r, input)
  BY <1>2, <1>ArriveHeld, <1>LoadHeld, <1>CheckHeld, <1>PassedHeld, <1>DeniedHeld,
     <1>InsertHeld DEF Serve
<1>3. CASE \E t \in 1..Len(trackers) : Sweep(t) \/ \E ip \in Ips : Expire(t, ip)
  BY <1>3, <1>SweepHeld, <1>ExpireHeld
<1>4. CASE StoreState
  BY <1>4, <1>StoreHeld
<1>5. \/ UNCHANGED <<adapter, own, gens, trackers, hosts, stolen, req>>
      \/ \E r \in Reqs : Serve(r) \/ \E input \in Inputs : Arrive(r, input)
      \/ \E t \in 1..Len(trackers) : Sweep(t) \/ \E ip \in Ips : Expire(t, ip)
      \/ StoreState
  BY DEF Next, Watch, vars, fixed, watch, bans, Write, LoseEvent, HandleEvent, ReadFile, Refill, Evict
<1> QED
  BY <1>1, <1>2, <1>3, <1>4, <1>5

----------------------------------------------------------------------------
\* The address of a request is what extract_ip found with the state it loaded.
Judged ==
    \A r \in Reqs : req[r].ip # Nil /\ ~adapter.packed =>
        req[r].ip = ExtractIp(req[r].input, gens[req[r].gen].cfg.trusted)

\* Every step keeps the address the one extract_ip found.
LEMMA JudgedNext ==
    ASSUME Types, Judged, [Next]_vars
    PROVE  Judged'
\* A request has the address, input and state it had, or none, or loads them.
<1>AddressStays.
      ASSUME NEW q \in Reqs
      PROVE  \/ req'[q].ip = req[q].ip /\ req'[q].input = req[q].input /\ req'[q].gen = req[q].gen
             \/ req'[q].ip = Nil
             \/ Load(q)
  <2>1. CASE UNCHANGED req
    BY <2>1
  <2>2. ASSUME NEW r \in Reqs, Serve(r) \/ \E input \in Inputs : Arrive(r, input)
        PROVE  \/ /\ req'[q].ip = req[q].ip /\ req'[q].input = req[q].input
                  /\ req'[q].gen = req[q].gen
               \/ req'[q].ip = Nil
               \/ Load(q)
    <3>1. CASE \E input \in Inputs : Arrive(r, input)
      <4>1. PICK input \in Inputs : Arrive(r, input)
        BY <3>1
      <4>2. req'[r].ip = Nil /\ \A p \in Reqs : p # r => req'[p] = req[p]
        BY <4>1, ArriveFields DEF Types, Served, Loaded
      <4> QED
        BY <4>2
    <3>2. CASE Load(r)
      <4>1. \A p \in Reqs : p # r => req'[p] = req[p]
        BY <3>2, LoadFields
      <4> QED
        BY <3>2, <4>1
    <3>3. CASE CheckBan(r) \/ CheckBlock(r) \/ ChooseKeys(r) \/ Consume(r) \/ Denied(r)
               \/ InsertBan(r)
      <4>0. PICK b : b = Head(req[r].todo)
        OBVIOUS
      <4>1. Advances(r)
        BY <3>3, <4>0, CheckFields, ChooseFields, ConsumeFields, DeniedFields,
           InsertFields
      <4> QED
        BY <4>1 DEF Advances
    <3> QED
      BY <2>2, <3>1, <3>2, <3>3 DEF Serve
  <2>3. CASE \E t \in 1..Len(trackers) : Sweep(t) \/ \E ip \in Ips : Expire(t, ip)
    <3>1. PICK ips : Excused(ips)
      <4>1. ASSUME NEW t \in 1..Len(trackers), Sweep(t) PROVE \E ips : Excused(ips)
        BY <4>1, SweepFields DEF Sweeps
      <4>2. ASSUME NEW t, NEW ip, Expire(t, ip) PROVE Excused({ip})
        BY <4>2, ExcuseFields DEF Expire, Types, Served
      <4> QED
        BY <2>3, <4>1, <4>2
    <3> QED
      BY <3>1 DEF Excused
  <2>4. \/ UNCHANGED req
        \/ \E r \in Reqs : Serve(r) \/ \E input \in Inputs : Arrive(r, input)
        \/ \E t \in 1..Len(trackers) : Sweep(t) \/ \E ip \in Ips : Expire(t, ip)
    BY DEF Next, Watch, vars, Write, LoseEvent, HandleEvent, ReadFile, StoreState, Refill, Evict
  <2> QED
    BY <2>1, <2>2, <2>3, <2>4
<1> SUFFICES ASSUME NEW q \in Reqs, req'[q].ip # Nil, ~adapter'.packed
             PROVE  req'[q].ip = ExtractIp(req'[q].input, gens'[req'[q].gen].cfg.trusted)
  BY DEF Judged
<1>1. /\ UNCHANGED adapter /\ \A g \in 1..Len(gens) : gens'[g] = gens[g]
  BY StatesStay
<1>2. CASE req'[q].ip = req[q].ip /\ req'[q].input = req[q].input /\ req'[q].gen = req[q].gen
  <2>1. req[q].gen \in 1..Len(gens)
    BY <1>2 DEF Types, Served
  <2> QED
    BY <1>1, <1>2, <2>1 DEF Judged
<1>3. CASE Load(q)
  <2>1. /\ req[q].pc = "load" /\ StateFor(q) \in 1..Len(gens) /\ req'[q].gen = StateFor(q)
        /\ req'[q].input = req[q].input /\ req'[q].ip \in {req[q].ip, ClientIp(q)}
    BY <1>3, LoadFields
  <2>2. req[q].ip = Nil
    BY <2>1 DEF Types, Served
  <2>3. req'[q].ip = ExtractIp(req[q].input, gens[StateFor(q)].cfg.trusted)
    BY <1>1, <2>1, <2>2 DEF ClientIp
  <2>4. gens'[StateFor(q)] = gens[StateFor(q)]
    BY <1>1, <2>1
  <2>5. PICK g : g = StateFor(q) /\ g = req'[q].gen /\ gens'[g] = gens[g]
    BY <2>1, <2>4
  <2> QED
    BY <2>1, <2>3, <2>5
<1> QED
  BY <1>2, <1>3, <1>AddressStays

\* Then a hop in front would not have changed it.
LEMMA JudgedForged ==
    ASSUME Types, Judged PROVE ForgedHopsIgnored
<1> SUFFICES ASSUME NEW r \in Reqs, req[r].ip # Nil, ~adapter.packed, req[r].input.xff # Nil,
                    NEW k \in 1..Len(req[r].input.xff),
                    req[r].input.xff[k] \notin gens[req[r].gen].cfg.trusted,
                    NEW hop \in Ips \cup gens[req[r].gen].cfg.trusted \cup {Bad}
             PROVE  ExtractIp([req[r].input EXCEPT !.xff = <<hop>> \o @],
                              gens[req[r].gen].cfg.trusted) = req[r].ip
  BY DEF ForgedHopsIgnored
<1>1. req[r].input \in Inputs /\ req[r].gen \in 1..Len(gens)
  BY DEF Types, Served
<1>2. PICK in, trusted : in \in Inputs /\ in = req[r].input /\ trusted = gens[req[r].gen].cfg.trusted
  BY <1>1
<1>3. trusted \subseteq Ips
  BY <1>1, <1>2, ConfigTypes DEF Types
<1>4. hop \in Ips \cup {Bad} /\ in.xff # Nil /\ k \in 1..Len(in.xff) /\ in.xff[k] \notin trusted
  BY <1>2, <1>3
<1>5. ExtractIp([in EXCEPT !.xff = <<hop>> \o @], trusted) = ExtractIp(in, trusted)
  BY <1>2, <1>4, ForgedHop DEF Types, Loaded
<1>6. ExtractIp(in, trusted) = req[r].ip
  BY <1>2 DEF Judged
<1> QED
  BY <1>2, <1>5, <1>6

----------------------------------------------------------------------------
\* The facts of the library that the invariants carry.
Library == INSTANCE FiniteSetTheorems

\* A nonempty set of naturals has a least element.
LEMMA LeastNat == WellOrdered
<1> SUFFICES ASSUME NEW T \in SUBSET Nat, T # {}
             PROVE  \E x \in T : \A y \in T : x <= y
  BY DEF WellOrdered
<1> DEFINE Less == {ss \in Nat \X Nat : ss[1] < ss[2]}
<1>1. Library!IsWellFoundedOn(Less, Nat)
  BY Library!NatLessThanWellFounded DEF Library!OpToRel
<1> HIDE DEF Less
<1>2. PICK x \in T : \A y \in T : ~ (<<y, x>> \in Less)
  BY <1>1, Library!WFMin
<1>3. \A y \in T : x <= y
  <2> TAKE y \in T
  <2>1. ~ (<<y, x>> \in Less)
    BY <1>2
  <2> QED
    BY <2>1, SMT DEF Less
<1> QED
  BY <1>3

(***************************************************************************)
(* The size of finite sets.                                                *)
(***************************************************************************)
LEMMA CountingHolds == Counting
<1>1. /\ \A S : IsFiniteSet(S) <=> Library!IsFiniteSet(S)
      /\ \A S : Cardinality(S) = Library!Cardinality(S)
  BY DEF Cardinality, Library!Cardinality, IsFiniteSet, Library!IsFiniteSet
<1>2. Cardinality({}) = 0
  BY <1>1, Library!FS_EmptySet
<1>3. \A S : IsFiniteSet(S) => Cardinality(S) \in Nat
  BY <1>1, Library!FS_CardinalityType
<1>4. \A T : \A S \in SUBSET T :
          IsFiniteSet(T) => IsFiniteSet(S) /\ Cardinality(S) <= Cardinality(T)
  BY <1>1, Library!FS_Subset
<1>5. \A S, x : IsFiniteSet(S) /\ x \notin S =>
          IsFiniteSet(S \cup {x}) /\ Cardinality(S \cup {x}) = Cardinality(S) + 1
  BY <1>1, Library!FS_AddElement
<1>6. \A S : \A x \in S : IsFiniteSet(S) =>
          IsFiniteSet(S \ {x}) /\ Cardinality(S \ {x}) = Cardinality(S) - 1
  BY <1>1, Library!FS_RemoveElement
<1> QED
  BY <1>2, <1>3, <1>4, <1>5, <1>6 DEF Counting

\* The invariants hold at first.
LEMMA InitAll ==
    ASSUME Init PROVE Types /\ Stocked /\ Covered /\ Held /\ Judged
\* The first state.
<1>InitLoaded. Loaded
  <2>1. /\ adapter \in Adapters /\ withEngine \in BOOLEAN /\ file \in Configs
        /\ gens = <<NewState(file, 0)>> /\ wpc = "idle" /\ wread = Nil
        /\ own = IF adapter.tracker = "own" /\ file.ban THEN gens[1].tracker + 1 ELSE 0
        /\ trackers = [t \in 1..(IF own > 0 THEN own ELSE gens[1].tracker) |-> NewTracker(file)]
    BY DEF Init
  <2>2. PICK s : s = NewState(file, 0)
    OBVIOUS
  <2>3. /\ s \in States /\ s.cfg = file /\ s.tracker \in {0, 1}
        /\ s.trie \in {Nil, BuildTrie(s.cfg.routes)}
    BY <2>1, <2>2, SMT DEF NewState, States
  <2>4. gens = <<s>> /\ gens \in Seq(States) /\ Len(gens) = 1 /\ gens[1] = s /\ gens # <<>>
    BY <2>1, <2>2, <2>3, SMT
  <2>5. PICK n : n = IF own > 0 THEN own ELSE gens[1].tracker
    OBVIOUS
  <2>6. own \in {0, s.tracker + 1} /\ n \in Nat /\ own \in 0..n /\ s.tracker \in 0..n
    <3>1. own \in {0, s.tracker + 1}
      BY <2>1, <2>4
    <3> QED
      BY <2>3, <2>4, <2>5, <3>1, SMT
  <2>7. trackers = [t \in 1..n |-> NewTracker(file)] /\ NewTracker(file) \in Trackers
    BY <2>1, <2>5, NewTrackerIn
  <2>8. trackers \in Seq(Trackers) /\ Len(trackers) = n
    BY <2>6, <2>7, SMT
  <2>9. \A g \in 1..Len(gens) : /\ gens[g].tracker \in 0..Len(trackers)
                                /\ gens[g].trie \in {Nil, BuildTrie(gens[g].cfg.routes)}
    BY <2>3, <2>4, <2>6, <2>8, SMT
  <2> QED
    BY <2>1, <2>4, <2>6, <2>8, <2>9, LeastNat DEF Loaded
<1>1. Loaded
  BY <1>InitLoaded
<1>2. /\ Idle \in Requests /\ Idle.pc = "idle" /\ Idle.ip = Nil /\ Idle.gen = 0
      /\ Idle.banned = FALSE /\ Idle.result = Nil /\ Idle.charged = {}
  BY SMT DEF Idle, Requests, Pcs
<1>3. /\ req = [r \in Reqs |-> Idle] /\ hosts = {}
      /\ buckets = <<>> /\ ledger = <<>>
  BY DEF Init
<1>4. req \in [Reqs -> Requests] /\ \A r \in Reqs : req[r] = Idle
  BY <1>2, <1>3
<1>5. Nil \notin Ips
  BY ConstantsAssumption
<1>6. Served
  <2>1. 0 \in 0..Len(gens)
    BY <1>1, SMT DEF Loaded
  <2> QED
    BY <1>2, <1>4, <1>5, <2>1 DEF Served
<1>7. DOMAIN buckets = {} /\ DOMAIN ledger = {}
  BY <1>3, SMT
<1>8. Stocked
  BY <1>2, <1>4, <1>7 DEF Stocked
<1>9. Covered
  BY <1>2, <1>4, <1>7, CountingHolds DEF Covered, Early
<1>10. Judged
  BY <1>2, <1>4 DEF Judged
<1>11. RoutesKept
  <2>1. ASSUME NEW t \in 1..Len(trackers), NEW ip \in Ips, Active(t, ip) PROVE FALSE
    <3>1. PICK n : trackers = [u \in 1..n |-> NewTracker(file)] /\ file \in Configs
      BY DEF Init
    <3>2. trackers \in Seq(Trackers)
      BY <1>1 DEF Loaded
    <3>3. DOMAIN trackers = 1..Len(trackers)
      BY <3>2, SMT
    <3>4. trackers[t] = NewTracker(file)
      BY <3>1, <3>3
    <3>5. NewTracker(file).banned[ip] = "no"
      BY <3>1, NewTrackerIn
    <3> QED
      BY <2>1, <3>4, <3>5 DEF Active
  <2> QED
    BY <2>1 DEF RoutesKept
<1>12. \A r \in Reqs : Guarded(r) /\ (req[r].pc = "done" <=> req[r].result # Nil)
  BY <1>2, <1>4 DEF Guarded
<1> QED
  BY <1>1, <1>6, <1>8, <1>9, <1>10, <1>11, <1>12 DEF Types, Held

----------------------------------------------------------------------------
\* Types and Stocked hold in every state.
LEMMA InductiveTypes == Spec => [](Types /\ Stocked)
<1>1. Init => Types /\ Stocked
  BY InitAll
<1>2. Types /\ Stocked /\ [Next]_vars => (Types /\ Stocked)'
  BY NextTypes, StockedNext
<1> QED
  BY <1>1, <1>2, PTL DEF Spec

(***************************************************************************)
(* No limiter lets more requests through than the tokens its bucket was    *)
(* given: its capacity each time it is made, and the refills. This holds   *)
(* across reloads, evictions, and concurrent requests charged on two       *)
(* buckets.                                                                *)
(***************************************************************************)
THEOREM LimitsHold == Spec => []LimitHolds
<1>1. Init => Covered
  BY InitAll
<1>2. Types /\ Stocked /\ Covered /\ [Next]_vars => Covered'
  BY CoveredNext
<1>3. Stocked /\ Covered => LimitHolds
  BY CoveredLimits
<1> QED
  BY <1>1, <1>2, <1>3, InductiveTypes, PTL DEF Spec

(***************************************************************************)
(* A request that found its address banned when it loaded its state is     *)
(* blocked, by the tracker or by the route in the engine, unless the ban   *)
(* ran out, or a sweeper took its entry or its route away, while it was    *)
(* served.  A ban whose route is still to come counts only if the adapter  *)
(* asks the tracker of its state.                                          *)
(***************************************************************************)
THEOREM BansHold == Spec => []BanHolds
<1>1. Init => Held
  BY InitAll
<1>2. Types /\ Held /\ [Next]_vars => Held'
  BY HeldNext
<1>3. Held => BanHolds
  BY DEF Held, Guarded, BanHolds
<1> QED
  BY <1>1, <1>2, <1>3, InductiveTypes, PTL DEF Spec

(***************************************************************************)
(* Hops that a client puts in front of X-Forwarded-For do not change the   *)
(* address its request is judged by.                                       *)
(***************************************************************************)
THEOREM ForgeriesIgnored == Spec => []ForgedHopsIgnored
<1>1. Init => Judged
  BY InitAll
<1>2. Types /\ Judged /\ [Next]_vars => Judged'
  BY JudgedNext
<1>3. Types /\ Judged => ForgedHopsIgnored
  BY JudgedForged
<1> QED
  BY <1>1, <1>2, <1>3, InductiveTypes, PTL DEF Spec

(***************************************************************************)
(* The types of the gate: requests are done when they have an answer,      *)
(* buckets hold at most their capacity, states have trackers that exist.   *)
(***************************************************************************)
THEOREM GateTyped == Spec => []TypeOK
<1>1. Init => Held
  BY InitAll
<1>2. Types /\ Held /\ [Next]_vars => Held'
  BY HeldNext
<1>3. Types /\ Stocked /\ Held => TypeOK
  <2> SUFFICES ASSUME Types, Stocked, Held PROVE TypeOK
    OBVIOUS
  <2>1. /\ adapter \in Adapters /\ wread \in Configs \cup {Nil}
        /\ wpc \in {"idle", "debounce", "store"}
        /\ \A i \in 1..Len(gens) : gens[i].tracker \in 0..Len(trackers)
    BY DEF Types, Loaded
  <2>2. DOMAIN buckets \subseteq DOMAIN ledger /\ \A b \in DOMAIN buckets : buckets[b] \in 0..Capacity(b)
    BY DEF Stocked
  <2>3. \A r \in Reqs : /\ req[r].ip \in Ips \cup {Nil} /\ req[r].gen \in 0..Len(gens)
                        /\ req[r].pc = "done" <=> req[r].result # Nil
    BY DEF Types, Served, Requests, Held
  <2> QED
    BY <2>1, <2>2, <2>3 DEF TypeOK
<1> QED
  BY <1>1, <1>2, <1>3, InductiveTypes, PTL DEF Spec
=============================================================================
