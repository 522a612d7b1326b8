------------------------- MODULE LookupCacheProofs -------------------------
(***************************************************************************)
(* Invalidation is complete, the cache keeps its limit and in Rust the hash radixip:entries is the engine's    *)
(* durable copy: for any routes, addresses, cache size, number of threads, *)
(* failing commands and crashes.                                           *)
(*                                                                         *)
(* FreshUnlessRaced is inductive on top of the types.  The heart of it is  *)
(* that writing one prefix leaves the longest match of every address       *)
(* outside it alone, so the addresses a write may outdate are exactly the  *)
(* ones its invalidation will drop.  SaveInv, further down, carries each   *)
(* write from the engine to the hash.                                      *)
(***************************************************************************)
EXTENDS LookupCache, FiniteSetTheorems, TLAPS

(***************************************************************************)
(* A nonempty set of naturals has a least element.                         *)
(***************************************************************************)
LEMMA LeastNat ==
    ASSUME NEW T \in SUBSET Nat, T # {}
    PROVE  \E x \in T : \A y \in T : x <= y
<1> DEFINE Less == {ss \in Nat \X Nat : ss[1] < ss[2]}
<1>1. IsWellFoundedOn(Less, Nat)
  BY NatLessThanWellFounded DEF OpToRel
<1> HIDE DEF Less
<1>2. PICK x \in T : \A y \in T : ~ (<<y, x>> \in Less)
  BY <1>1, WFMin
<1>3. \A y \in T : x <= y
  <2> TAKE y \in T
  <2>1. ~ (<<y, x>> \in Less)
    BY <1>2
  <2> QED
    BY <2>1 DEF Less
<1> QED
  BY <1>3

(***************************************************************************)
(* Best returns a stored route containing the address, and no stored route *)
(* containing it is longer (longest_prefix_match_entries).                 *)
(***************************************************************************)
LEMMA BestIsLongest ==
    ASSUME NEW table, NEW ip, Len(ip.bits) \in Nat,
           \A p \in Prefixes : Len(p.bits) \in Nat,
           Ref!Matches(table, ip) # {}
    PROVE  /\ Ref!Best(table, ip) \in Ref!Matches(table, ip)
           /\ \A q \in Ref!Matches(table, ip) : Len(q.bits) <= Len(Ref!Best(table, ip).bits)
<1> DEFINE M == Ref!Matches(table, ip)
           Slack(p) == Len(ip.bits) - Len(p.bits)
           T == {Slack(p) : p \in M}
<1>1. \A p \in M : Len(p.bits) \in Nat /\ Slack(p) \in Nat
  BY DEF Ref!Matches, Ref!Present, Ref!Covers
<1> HIDE DEF M
<1>2. M # {}
  BY DEF M
<1>3. T \in SUBSET Nat /\ T # {}
  BY <1>1, <1>2
<1>4. PICK x \in T : \A y \in T : x <= y
  BY <1>3, LeastNat
<1>5. PICK p \in M : x = Slack(p)
  BY <1>4
<1>6. \A q \in M : Len(q.bits) <= Len(p.bits)
  <2> TAKE q \in M
  <2>1. Slack(p) <= Slack(q)
    BY <1>4, <1>5
  <2> QED
    BY <2>1, <1>1
<1>7. \E r \in M : \A q \in M : Len(q.bits) <= Len(r.bits)
  BY <1>6
<1>8. Ref!Best(table, ip) = CHOOSE r \in M : \A q \in M : Len(q.bits) <= Len(r.bits)
  BY <1>2 DEF Ref!Best, M
<1> QED
  BY <1>7, <1>8 DEF M

(***************************************************************************)
(* If some route contains the address, Best is one of those that do.       *)
(***************************************************************************)
LEMMA BestMatches ==
    ASSUME NEW table, NEW ip \in Ips, Ref!Matches(table, ip) # {}
    PROVE  Ref!Best(table, ip) \in Ref!Matches(table, ip)
<1>1. Len(ip.bits) \in Nat /\ \A p \in Prefixes : Len(p.bits) \in Nat
  BY PrefixAssumption
<1> QED
  BY <1>1, BestIsLongest

(***************************************************************************)
(* An answer of the engine is stored metadata or nothing.                  *)
(***************************************************************************)
LEMMA MatchType ==
    ASSUME NEW table \in [Prefixes -> Meta \cup {Nil}], NEW ip \in Ips
    PROVE  Match(table, ip) \in Meta \cup {Nil}
<1>1. CASE Ref!Matches(table, ip) = {}
  BY <1>1 DEF Match, Ref!Best
<1>2. CASE Ref!Matches(table, ip) # {}
  <2>1. Ref!Best(table, ip) \in Prefixes
    BY <1>2, BestMatches DEF Ref!Matches, Ref!Present
  <2> QED
    BY <2>1 DEF Match
<1> QED
  BY <1>1, <1>2

(***************************************************************************)
(* Tables that agree on the prefixes containing an address answer alike.   *)
(***************************************************************************)
LEMMA MatchUnaffected ==
    ASSUME NEW s, NEW t, NEW ip \in Ips,
           \A q \in Prefixes : Ref!Covers(q, ip) => s[q] = t[q]
    PROVE  Match(s, ip) = Match(t, ip)
<1>1. Ref!Matches(s, ip) = Ref!Matches(t, ip)
  BY DEF Ref!Matches, Ref!Present
<1>2. Ref!Best(s, ip) = Ref!Best(t, ip)
  BY <1>1 DEF Ref!Best
<1>3. CASE Ref!Matches(s, ip) = {}
  BY <1>1, <1>3 DEF Match, Ref!Best
<1>4. CASE Ref!Matches(s, ip) # {}
  <2>1. Ref!Best(s, ip) \in Ref!Matches(s, ip)
    BY <1>4, BestMatches
  <2>2. s[Ref!Best(s, ip)] = t[Ref!Best(s, ip)]
    BY <2>1 DEF Ref!Matches, Ref!Present
  <2> QED
    BY <1>2, <2>2 DEF Match
<1> QED
  BY <1>3, <1>4
----------------------------------------------------------------------------
(***************************************************************************)
(* The initial state has the types.                                        *)
(***************************************************************************)
LEMMA InitTypeOK == Init => TypeOK
  BY DEF Init, TypeOK, Idle

(***************************************************************************)
(* Every step of a call, of the clock and of a restart keeps the types.    *)
(***************************************************************************)
LEMMA NextTypeOK == TypeOK /\ [Next]_vars => TypeOK'
<1> SUFFICES ASSUME TypeOK, [Next]_vars PROVE TypeOK'
  OBVIOUS
<1> lang' = lang
  BY DEF Next, vars
<1> USE DEF At, Goto, Return, Idle
<1>1. ASSUME NEW t \in Threads, NEW w \in Written, NEW v \in Vals, Insert(t, w, v)
      PROVE  TypeOK'
  BY <1>1, PrefixAssumption DEF Insert, Begin, Unsaved, TypeOK, Meta
<1>2. ASSUME NEW t \in Threads, NEW w \in Written, Remove(t, w)
      PROVE  TypeOK'
  BY <1>2, PrefixAssumption DEF Remove, Begin, Unsaved, TypeOK
<1>3. ASSUME NEW t \in Threads, HSet(t)
      PROVE  TypeOK'
  <2>1. th[t].w.net \in Prefixes /\ th[t].m \in Meta
    BY <1>3, PrefixAssumption DEF HSet, TypeOK
  <2>2. unsaved' \subseteq Prefixes /\ \A f \in DOMAIN entries' : entries'[f] \in Meta
    BY <1>3, <2>1 DEF HSet, Unsaved, TypeOK, Put
  <2>3. /\ th'[t] = [th[t] EXCEPT !.pc = "invalidate", !.m = Nil]
        /\ DOMAIN th' = Threads /\ \A u \in Threads : u # t => th'[u] = th[u]
        /\ th' = [u \in Threads |-> th'[u]]
    BY <1>3 DEF HSet, TypeOK
  <2> QED
    BY <1>3, <2>2, <2>3 DEF HSet, TypeOK
<1>4. ASSUME NEW t \in Threads, HDel(t)
      PROVE  TypeOK'
  BY <1>4, PrefixAssumption DEF HDel, Unsaved, TypeOK, Without
<1>5. ASSUME NEW t \in Threads, Invalidate(t)
      PROVE  TypeOK'
  BY <1>5 DEF Invalidate, TypeOK, Without
<1>6. ASSUME NEW t \in Threads, Clear(t)
      PROVE  TypeOK'
  BY <1>6 DEF Clear, Unsaved, TypeOK
<1>7. ASSUME NEW t \in Threads, ClearCache(t)
      PROVE  TypeOK'
  BY <1>7 DEF ClearCache, TypeOK
<1>8. ASSUME NEW t \in Threads, NEW ip \in Ips, Lookup(t, ip)
      PROVE  TypeOK'
  BY <1>8 DEF Lookup, TypeOK
<1>9. ASSUME NEW t \in Threads, Hit(t) \/ Miss(t) \/ SeeExpired(t)
      PROVE  TypeOK'
  BY <1>9 DEF Hit, Miss, SeeExpired, TypeOK
<1>10. ASSUME NEW t \in Threads, EngineLookup(t)
      PROVE  TypeOK'
  <2>1. Match(engine, th[t].ip) \in Meta \cup {Nil}
    BY <1>10, MatchType DEF EngineLookup, TypeOK
  <2> QED
    BY <1>10, <2>1 DEF EngineLookup, TypeOK
<1>11. ASSUME NEW t \in Threads, GetShared(t)
      PROVE  TypeOK'
  BY <1>11 DEF GetShared, TypeOK
<1>12. ASSUME NEW t \in Threads, Store(t)
      PROVE  TypeOK'
  <2>1. PICK rest \in Evicted : cache' = Put(rest, th[t].ip, th[t].m)
    BY <1>12 DEF Store
  <2>2. th[t].ip \in Ips /\ th[t].m \in Meta \cup {Nil}
    BY <1>12 DEF Store, TypeOK
  <2>3. DOMAIN rest \subseteq Ips /\ \A ip \in DOMAIN rest : rest[ip] \in Meta \cup {Nil}
    <3>1. rest = cache \/ \E key \in DOMAIN cache : rest = Without(cache, {key})
      BY DEF Evicted
    <3> QED
      BY <3>1 DEF Without, TypeOK
  <2>4. /\ DOMAIN cache' \subseteq Ips
        /\ \A ip \in DOMAIN cache' : cache'[ip] \in Meta \cup {Nil}
    BY <2>1, <2>2, <2>3 DEF Put
  <2>5. expired' \subseteq DOMAIN cache' /\ raced' \subseteq Ips /\ lock' \in Threads \cup {Nil}
    BY <1>12, <2>2 DEF Store, TypeOK
  <2>6. UNCHANGED <<engine, entries, shared, unsaved>>
    BY <1>12 DEF Store
  <2>7. \/ th' = [th EXCEPT ![t].pc = "set"]
        \/ th' = [th EXCEPT ![t] = [pc |-> "idle", w |-> Nil, ip |-> Nil, m |-> Nil]]
    BY <1>12 DEF Store
  <2> QED
    BY <2>2, <2>4, <2>5, <2>6, <2>7 DEF TypeOK
<1>13. ASSUME NEW t \in Threads, SetShared(t)
      PROVE  TypeOK'
  BY <1>13 DEF SetShared, TypeOK
<1>14. ASSUME NEW ip \in Ips, Expire(ip)
      PROVE  TypeOK'
  BY <1>14 DEF Expire, TypeOK
<1>15. ASSUME NEW t \in Threads, DeleteExpired(t)
      PROVE  TypeOK'
  BY <1>15 DEF DeleteExpired, Without, TypeOK
<1>16. CASE Restart
  <2>1. ASSUME NEW p \in Prefixes, NEW m \in BootLoad(p) PROVE m \in Meta \cup {Nil}
    BY <2>1 DEF BootLoad, FieldsOf, TypeOK
  <2>2. engine' \in [Prefixes -> Meta \cup {Nil}] /\ unsaved' \subseteq Prefixes
    <3>1. CASE engine' \in BootLoads
      BY <1>16, <2>1, <3>1 DEF Restart, Unsaved, BootLoads, TypeOK
    <3>2. CASE engine' \notin BootLoads
      BY <1>16, <3>2 DEF Restart, Unsaved, TypeOK
    <3> QED
      BY <3>1, <3>2
  <2> QED
    BY <1>16, <2>2 DEF Restart, TypeOK
<1>17. CASE UNCHANGED vars
  BY <1>17 DEF vars, TypeOK
<1> QED
  BY <1>1, <1>2, <1>3, <1>4, <1>5, <1>6, <1>7, <1>8, <1>9, <1>10, <1>11, <1>12, <1>13,
     <1>14, <1>15, <1>16, <1>17
     DEF Next, LookupWithCache, GoLookupWithCache, Write, GoWrite
----------------------------------------------------------------------------
IInv == TypeOK /\ FreshUnlessRaced

(***************************************************************************)
(* A step of one thread that keeps its pending invalidation, if it has     *)
(* one, keeps every pending invalidation.                                  *)
(***************************************************************************)
LEMMA PendingStays ==
    ASSUME NEW t \in Threads, NEW ip,
           \A u \in Threads : u # t => th'[u] = th[u],
           \/ th[t].pc \notin {"hset", "hdel", "invalidate", "clear"}
           \/ th[t].pc \in {"hset", "hdel"} /\ th'[t].pc = "invalidate" /\ th'[t].w = th[t].w,
           Pending(ip)
    PROVE  Pending(ip)'
  BY DEF Pending, Ref!Covers

(***************************************************************************)
(* A step that leaves the engine, the entries and the history alone keeps  *)
(* freshness when it keeps the pending invalidations.                      *)
(***************************************************************************)
LEMMA FreshFrame ==
    ASSUME FreshUnlessRaced, UNCHANGED <<engine, cache, raced>>,
           \A ip \in DOMAIN cache : Pending(ip) => Pending(ip)'
    PROVE  FreshUnlessRaced'
<1> SUFFICES ASSUME NEW ip \in DOMAIN cache
             PROVE  cache[ip] = Match(engine, ip)' \/ ip \in raced \/ Pending(ip)'
  BY DEF FreshUnlessRaced
<1>1. Match(engine, ip)' = Match(engine, ip)
  BY DEF Match, Ref!Best, Ref!Matches, Ref!Present, Ref!Covers
<1> QED
  BY <1>1 DEF FreshUnlessRaced

(***************************************************************************)
(* Changing one prefix outdates only addresses that prefix contains.       *)
(***************************************************************************)
LEMMA FreshWrite ==
    ASSUME TypeOK, FreshUnlessRaced, NEW t \in Threads, NEW w \in Written, NEW x,
           engine' = [engine EXCEPT ![w.net] = x],
           UNCHANGED <<cache, raced>>,
           th[t].pc = "idle",
           \A u \in Threads : u # t => th'[u] = th[u],
           th'[t].pc \in {"hset", "hdel", "invalidate"}, th'[t].w = w
    PROVE  FreshUnlessRaced'
<1> SUFFICES ASSUME NEW ip \in DOMAIN cache
             PROVE  cache[ip] = Match(engine', ip) \/ ip \in raced \/ Pending(ip)'
  BY DEF FreshUnlessRaced, Match, Ref!Best, Ref!Matches, Ref!Present, Ref!Covers
<1>1. CASE Ref!Covers(w.net, ip)
  BY <1>1 DEF Pending, Ref!Covers
<1>2. CASE ~Ref!Covers(w.net, ip)
  <2>1. Match(engine', ip) = Match(engine, ip)
    <3>1. ip \in Ips
      BY DEF TypeOK
    <3>2. \A q \in Prefixes : Ref!Covers(q, ip) => engine'[q] = engine[q]
      BY <1>2 DEF TypeOK
    <3>3. \A s : (\A q \in Prefixes : Ref!Covers(q, ip) => s[q] = engine[q])
                   => Match(s, ip) = Match(engine, ip)
      BY <3>1, MatchUnaffected
    <3> QED
      BY <3>2, <3>3
  <2>2. Pending(ip) => Pending(ip)'
    BY PendingStays
  <2> QED
    BY <2>1, <2>2 DEF FreshUnlessRaced
<1> QED
  BY <1>1, <1>2

(***************************************************************************)
(* Dropping the entries of some addresses and forgetting invalidations of  *)
(* those addresses only keeps freshness.                                   *)
(***************************************************************************)
LEMMA FreshDrop ==
    ASSUME FreshUnlessRaced, NEW S, cache' = Without(cache, S), UNCHANGED <<engine, raced>>,
           \A ip \in DOMAIN cache \ S : Pending(ip) => Pending(ip)'
    PROVE  FreshUnlessRaced'
<1> SUFFICES ASSUME NEW ip \in DOMAIN cache \ S
             PROVE  cache[ip] = Match(engine, ip)' \/ ip \in raced \/ Pending(ip)'
  BY DEF FreshUnlessRaced, Without
<1>1. Match(engine, ip)' = Match(engine, ip)
  BY DEF Match, Ref!Best, Ref!Matches, Ref!Present, Ref!Covers
<1> QED
  BY <1>1 DEF FreshUnlessRaced

(***************************************************************************)
(* Every step keeps freshness.                                             *)
(***************************************************************************)
LEMMA NextFresh == IInv /\ [Next]_vars => FreshUnlessRaced'
<1> SUFFICES ASSUME TypeOK, FreshUnlessRaced, [Next]_vars PROVE FreshUnlessRaced'
  BY DEF IInv
<1> USE DEF At, Goto, Return, Idle
<1>1. ASSUME NEW t \in Threads, NEW w \in Written, NEW v \in Vals, Insert(t, w, v)
      PROVE  FreshUnlessRaced'
  <2>1. /\ th[t].pc = "idle"
        /\ \A u \in Threads : u # t => th'[u] = th[u]
        /\ th'[t].pc \in {"hset", "hdel", "invalidate"}
        /\ th'[t].w = w
    BY <1>1 DEF Insert, TypeOK
  <2> QED
    BY <1>1, <2>1, FreshWrite DEF Insert
<1>2. ASSUME NEW t \in Threads, NEW w \in Written, Remove(t, w)
      PROVE  FreshUnlessRaced'
  <2>1. /\ th[t].pc = "idle"
        /\ \A u \in Threads : u # t => th'[u] = th[u]
        /\ th'[t].pc \in {"hset", "hdel", "invalidate"}
        /\ th'[t].w = w
    BY <1>2 DEF Remove, Begin, TypeOK
  <2> QED
    BY <1>2, <2>1, FreshWrite DEF Remove
<1>3. ASSUME NEW t \in Threads, HSet(t) \/ HDel(t)
      PROVE  FreshUnlessRaced'
  <2>1. /\ \A u \in Threads : u # t => th'[u] = th[u]
        /\ th[t].pc \in {"hset", "hdel"} /\ th'[t].pc = "invalidate" /\ th'[t].w = th[t].w
    BY <1>3 DEF HSet, HDel, TypeOK
  <2>2. \A ip \in DOMAIN cache : Pending(ip) => Pending(ip)'
    BY <2>1, PendingStays
  <2> QED
    BY <1>3, <2>2, FreshFrame DEF HSet, HDel
<1>4. ASSUME NEW t \in Threads, Invalidate(t)
      PROVE  FreshUnlessRaced'
  <2> DEFINE S == {ip \in Ips : Ref!Covers(th[t].w.net, ip)}
  <2>1. \A u \in Threads : u # t => th'[u] = th[u]
    BY <1>4 DEF Invalidate, TypeOK
  <2>2. \A ip \in DOMAIN cache \ S : Pending(ip) => Pending(ip)'
    <3> SUFFICES ASSUME NEW ip \in DOMAIN cache \ S, Pending(ip) PROVE Pending(ip)'
      OBVIOUS
    <3>1. th[t].pc = "invalidate" /\ ip \in Ips /\ ~Ref!Covers(th[t].w.net, ip)
      BY <1>4 DEF Invalidate, At, TypeOK
    <3>2. PICK u \in Threads :
            \/ th[u].pc \in {"hset", "hdel", "invalidate"} /\ Ref!Covers(th[u].w.net, ip)
            \/ th[u].pc = "clear"
      BY DEF Pending
    <3>3. th'[u] = th[u]
      BY <2>1, <3>1, <3>2
    <3> QED
      BY <3>2, <3>3 DEF Pending, Ref!Covers
  <2>3. cache' = Without(cache, S) /\ UNCHANGED <<engine, raced>>
    BY <1>4 DEF Invalidate
  <2> HIDE DEF S
  <2> QED
    BY <2>2, <2>3, FreshDrop
<1>5. ASSUME NEW t \in Threads, Clear(t)
      PROVE  FreshUnlessRaced'
  <2>1. th'[t].pc = "clear" /\ UNCHANGED <<cache, raced>>
    BY <1>5 DEF Clear, TypeOK
  <2>2. \A ip : Pending(ip)'
    BY <2>1 DEF Pending
  <2> QED
    BY <2>2 DEF FreshUnlessRaced
<1>6. ASSUME NEW t \in Threads, ClearCache(t)
      PROVE  FreshUnlessRaced'
  BY <1>6 DEF ClearCache, FreshUnlessRaced
<1>7. ASSUME NEW t \in Threads,
             (\E ip \in Ips : Lookup(t, ip)) \/ Hit(t) \/ Miss(t) \/ SeeExpired(t) \/ EngineLookup(t)
                 \/ GetShared(t) \/ SetShared(t)
      PROVE  FreshUnlessRaced'
  <2>1. /\ \A u \in Threads : u # t => th'[u] = th[u]
        /\ th[t].pc \notin {"hset", "hdel", "invalidate", "clear"}
    BY <1>7 DEF Lookup, Hit, Miss, SeeExpired, EngineLookup, GetShared, SetShared, TypeOK
  <2>2. \A x \in DOMAIN cache : Pending(x) => Pending(x)'
    BY <2>1, PendingStays
  <2> QED
    BY <1>7, <2>2, FreshFrame
       DEF Lookup, Hit, Miss, SeeExpired, EngineLookup, GetShared, SetShared
<1>8. ASSUME NEW t \in Threads, Store(t)
      PROVE  FreshUnlessRaced'
  <2>1. /\ \A u \in Threads : u # t => th'[u] = th[u]
        /\ th[t].pc \notin {"hset", "hdel", "invalidate", "clear"}
    BY <1>8 DEF Store, TypeOK
  <2>2. \A x : Pending(x) => Pending(x)'
    BY <2>1, PendingStays
  <2>3. PICK rest \in Evicted : cache' = Put(rest, th[t].ip, th[t].m)
    BY <1>8 DEF Store
  <2>4. DOMAIN rest \subseteq DOMAIN cache /\ \A x \in DOMAIN rest : rest[x] = cache[x]
    <3>1. rest = cache \/ \E key \in DOMAIN cache : rest = Without(cache, {key})
      BY DEF Evicted
    <3> QED
      BY <3>1 DEF Without
  <2>5. raced' = IF th[t].m = Match(engine, th[t].ip) THEN raced \ {th[t].ip}
                 ELSE raced \cup {th[t].ip}
    BY <1>8 DEF Store
  <2>6. ASSUME NEW x \in DOMAIN cache'
        PROVE  cache'[x] = Match(engine, x) \/ x \in raced' \/ Pending(x)'
    <3>1. CASE x = th[t].ip
      BY <2>3, <2>5, <3>1 DEF Put
    <3>2. CASE x # th[t].ip
      <4>1. x \in DOMAIN cache /\ cache'[x] = cache[x]
        BY <2>3, <2>4, <3>2 DEF Put
      <4>2. x \in raced => x \in raced'
        BY <2>5, <3>2
      <4> QED
        BY <4>1, <4>2, <2>2 DEF FreshUnlessRaced
    <3> QED
      BY <3>1, <3>2
  <2>7. \A x : Match(engine, x)' = Match(engine, x)
    <3>1. engine' = engine
      BY <1>8 DEF Store
    <3> QED
      BY <3>1 DEF Match, Ref!Best, Ref!Matches, Ref!Present, Ref!Covers
  <2> QED
    BY <2>6, <2>7 DEF FreshUnlessRaced
<1>9. ASSUME NEW ip \in Ips, Expire(ip)
      PROVE  FreshUnlessRaced'
  <2>1. \A x \in DOMAIN cache : Pending(x) => Pending(x)'
    BY <1>9 DEF Expire, Pending, Ref!Covers
  <2> QED
    BY <1>9, <2>1, FreshFrame DEF Expire
<1>10. ASSUME NEW t \in Threads, DeleteExpired(t)
       PROVE  FreshUnlessRaced'
  <2>1. /\ \A u \in Threads : u # t => th'[u] = th[u]
        /\ th[t].pc \notin {"hset", "hdel", "invalidate", "clear"}
    BY <1>10 DEF DeleteExpired, TypeOK
  <2>2. \A x : Pending(x) => Pending(x)'
    BY <2>1, PendingStays
  <2> QED
    BY <1>10, <2>2, FreshDrop DEF DeleteExpired
<1>11. CASE Restart
  BY <1>11 DEF Restart, FreshUnlessRaced
<1>12. CASE UNCHANGED vars
  <2>1. \A x \in DOMAIN cache : Pending(x) => Pending(x)'
    BY <1>12 DEF vars, Pending, Ref!Covers
  <2> QED
    BY <1>12, <2>1, FreshFrame DEF vars
<1> QED
  BY <1>1, <1>2, <1>3, <1>4, <1>5, <1>6, <1>7, <1>8, <1>9, <1>10, <1>11, <1>12
     DEF Next, LookupWithCache, GoLookupWithCache, Write, GoWrite

(***************************************************************************)
(* The types hold throughout every behaviour.                              *)
(***************************************************************************)
THEOREM TypesHold == Spec => []TypeOK
  BY InitTypeOK, NextTypeOK, PTL DEF Spec

(***************************************************************************)
(* Invalidation is complete (cache.rs:104-108): a result that was right    *)
(* when stored is served only while it still is, or while the write that   *)
(* outdated it is on its way to the cache.                                 *)
(***************************************************************************)
THEOREM FreshUnlessRacedHolds == Spec => []FreshUnlessRaced
<1>1. Init => IInv
  BY InitTypeOK DEF IInv, Init, FreshUnlessRaced
<1>2. IInv /\ [Next]_vars => IInv'
  BY NextTypeOK, NextFresh DEF IInv
<1> QED
  BY <1>1, <1>2, PTL DEF Spec, IInv
----------------------------------------------------------------------------
\* a thread carries a prefix exactly while it writes it
Writing == \A t \in Threads :
    th[t].w # Nil => th[t].pc \in {"hset", "hdel", "invalidate"}

Alone(p) == \A t, u \in Threads : Writes(t, p) /\ Writes(u, p) => t = u

Saved(p) == BootLoad(p) = {engine[p]}

\* the writer of p has the engine's value and will save it in the only field, or has done so
OnItsWay(t, p) ==
    /\ th[t].pc = "hset" => engine[p] = th[t].m /\ FieldsOf(p) \subseteq {th[t].w}
    /\ th[t].pc = "hdel" => engine[p] = Nil /\ FieldsOf(p) \subseteq {th[t].w}
    /\ th[t].pc = "invalidate" => Saved(p)

SaveInv ==
    /\ Writing
    /\ \A p \in Prefixes \ unsaved :
        /\ Alone(p)
        /\ (\A t \in Threads : ~Writes(t, p)) => Saved(p)
        /\ \A t \in Threads : Writes(t, p) => OnItsWay(t, p)

Durable == Redis /\ lang = "rust"
----------------------------------------------------------------------------
\* steps that change neither the hash, the engine nor who writes what
LEMMA SaveFrame ==
    ASSUME SaveInv, UNCHANGED <<engine, entries, unsaved>>,
           \A t \in Threads : \/ th'[t].w = th[t].w /\ th'[t].pc = th[t].pc /\ th'[t].m = th[t].m
                              \/ th[t].w = Nil /\ th'[t].w = Nil
    PROVE  SaveInv'
<1>1. Writing'
  BY DEF SaveInv, Writing
<1>2. \A p \in Prefixes : FieldsOf(p)' = FieldsOf(p) /\ (Saved(p)' <=> Saved(p))
  BY DEF Saved, BootLoad, FieldsOf
<1>3. ASSUME NEW p \in Prefixes \ unsaved
      PROVE  /\ Alone(p)'
             /\ (\A t \in Threads : ~Writes(t, p)') => Saved(p)'
             /\ \A t \in Threads : Writes(t, p)' => OnItsWay(t, p)'
  <2>1. \A t \in Threads : Writes(t, p)' <=> Writes(t, p)
    BY DEF Writes
  <2>2. Alone(p)'
    BY <2>1 DEF SaveInv, Alone
  <2>3. (\A t \in Threads : ~Writes(t, p)') => Saved(p)'
    BY <2>1, <1>2 DEF SaveInv
  <2>4. ASSUME NEW t \in Threads, Writes(t, p)' PROVE OnItsWay(t, p)'
    <3>1. OnItsWay(t, p) /\ th'[t].w = th[t].w /\ th'[t].pc = th[t].pc /\ th'[t].m = th[t].m
      BY <2>1, <2>4 DEF SaveInv, Writes
    <3> QED
      BY <3>1, <1>2 DEF OnItsWay
  <2> QED
    BY <2>2, <2>3, <2>4
<1> QED
  BY <1>1, <1>3 DEF SaveInv

\* the first step of insert and remove: the engine has the new value
LEMMA SaveBegin ==
    ASSUME TypeOK, Durable, SaveInv, NEW t \in Threads, NEW w \in Written, NEW m,
           th[t].w = Nil, engine' = [engine EXCEPT ![w.net] = m], Begin(w), UNCHANGED entries,
           \A u \in Threads : u # t => th'[u] = th[u],
           th'[t].w = w,
           \/ th'[t].pc = "hset" /\ th'[t].m = m
           \/ th'[t].pc = "hdel" /\ m = Nil
    PROVE  SaveInv'
<1>0. PICK p \in Prefixes : p = w.net
  BY PrefixAssumption
<1>1. Writing'
  BY DEF SaveInv, Writing
<1>2. w # Nil /\ engine'[p] = m /\ \A q \in Prefixes : q # p => engine'[q] = engine[q]
  BY <1>0, PrefixAssumption DEF TypeOK
<1>3. \A q \in Prefixes : FieldsOf(q)' = FieldsOf(q) /\ (q # p => (Saved(q)' <=> Saved(q)))
  BY <1>2 DEF Saved, BootLoad, FieldsOf
<1>4. \/ unsaved' = unsaved \cup {p}
      \/ /\ unsaved' = unsaved \ {p}
         /\ \A u \in Threads : ~Writes(u, p)
         /\ FieldsOf(p) \subseteq {w}
  BY <1>0 DEF Begin, Unsaved, Durable
<1>5. \A q \in Prefixes : /\ Writes(t, q)' <=> q = p
                           /\ ~Writes(t, q)
                           /\ \A u \in Threads : u # t => (Writes(u, q)' <=> Writes(u, q))
  BY <1>0, <1>2 DEF Writes
<1>6. ASSUME NEW q \in Prefixes \ unsaved'
      PROVE  /\ Alone(q)'
             /\ (\A u \in Threads : ~Writes(u, q)') => Saved(q)'
             /\ \A u \in Threads : Writes(u, q)' => OnItsWay(u, q)'
  <2>1. CASE q = p
    <3>1. (\A u \in Threads : ~Writes(u, p)) /\ FieldsOf(p) \subseteq {w}
      BY <2>1, <1>4, <1>6
    <3>2. \A u \in Threads : Writes(u, p)' => u = t
      BY <3>1, <1>5 DEF Writes
    <3>3. OnItsWay(t, p)'
      BY <1>2, <1>3, <3>1 DEF OnItsWay
    <3> QED
      <4>1. Writes(t, p)' /\ Alone(p)'
        BY <3>2, <1>5 DEF Alone, Writes
      <4> QED
        BY <2>1, <3>2, <3>3, <4>1 DEF Writes
  <2>2. CASE q # p
    <3>1. q \notin unsaved
      BY <2>2, <1>4, <1>6
    <3>2. \A u \in Threads : Writes(u, q)' <=> Writes(u, q)
      BY <2>2, <1>5 DEF Writes
    <3>3. Alone(q)' /\ ((\A u \in Threads : ~Writes(u, q)') => Saved(q)')
      BY <3>1, <3>2, <2>2, <1>3 DEF SaveInv, Alone
    <3>4. ASSUME NEW u \in Threads, Writes(u, q)' PROVE OnItsWay(u, q)'
      <4>1. OnItsWay(u, q) /\ th'[u] = th[u]
        BY <3>1, <3>2, <3>4, <1>5 DEF SaveInv
      <4> QED
        BY <4>1, <2>2, <1>2, <1>3 DEF OnItsWay
    <3> QED
      BY <3>3, <3>4
  <2> QED
    BY <2>1, <2>2
<1> QED
  BY <1>1, <1>6 DEF SaveInv

\* hset and hdel: the hash gets what the engine has, or the failure is noted
LEMMA SaveCommand ==
    ASSUME TypeOK, Durable, SaveInv, NEW t \in Threads, HSet(t) \/ HDel(t), UNCHANGED lang
    PROVE  SaveInv'
<1>0. PICK w : w = th[t].w
  OBVIOUS
<1>1. PICK p : p = w.net
  OBVIOUS
<1>2. /\ UNCHANGED engine /\ w \in Written /\ w # Nil /\ p \in Prefixes
      /\ \A u \in Threads : u # t => th'[u] = th[u]
      /\ th'[t].w = w /\ th'[t].pc = "invalidate"
      /\ th[t].pc \in {"hset", "hdel"}
  BY <1>0, <1>1, PrefixAssumption DEF TypeOK, HSet, HDel, At, Goto
<1>3. /\ \A u \in Threads, q \in Prefixes : Writes(u, q)' <=> Writes(u, q)
      /\ \A q \in Prefixes : Writes(t, q) <=> q = p
  BY <1>0, <1>1, <1>2 DEF Writes
<1>4. Writing'
  BY <1>0, <1>2 DEF SaveInv, Writing
<1>5. ASSUME NEW q \in Prefixes, q # p
      PROVE  FieldsOf(q)' = FieldsOf(q) /\ BootLoad(q)' = BootLoad(q)
  <2>1. ASSUME NEW f, f # w
        PROVE  (f \in DOMAIN entries' <=> f \in DOMAIN entries) /\ (f \in DOMAIN entries => entries'[f] = entries[f])
    BY <1>0, <2>1 DEF HSet, HDel, Put, Without, Field, RustField, Durable
  <2>2. \A f \in Written : f.net = q => f # w
    BY <1>1, <1>5
  <2>3. FieldsOf(q)' = FieldsOf(q)
    BY <2>1, <2>2 DEF FieldsOf
  <2>4. \A f \in FieldsOf(q) : entries'[f] = entries[f]
    BY <2>1, <2>2 DEF FieldsOf
  <2> QED
    BY <2>3, <2>4 DEF BootLoad
<1>6. p \notin unsaved' => unsaved' = unsaved /\ BootLoad(p)' = {engine[p]}
  <2> SUFFICES ASSUME p \notin unsaved' PROVE unsaved' = unsaved /\ BootLoad(p)' = {engine[p]}
    OBVIOUS
  <2>0. p \notin unsaved => OnItsWay(t, p)
    BY <1>2, <1>3 DEF SaveInv
  <2>1. CASE HSet(t)
    <3>1. unsaved' = unsaved /\ entries' = Put(entries, w, th[t].m)
      BY <1>0, <1>1, <2>1 DEF HSet, Field, RustField, Durable, Unsaved
    <3>2. engine[p] = th[t].m /\ FieldsOf(p) \subseteq {w}
      BY <1>0, <2>0, <2>1, <3>1 DEF OnItsWay, HSet, At
    <3>3. FieldsOf(p)' = {w} /\ entries'[w] = th[t].m
      BY <1>1, <1>2, <3>1, <3>2 DEF FieldsOf, Put
    <3> QED
      BY <3>1, <3>2, <3>3 DEF BootLoad
  <2>2. CASE HDel(t)
    <3>1. unsaved' = unsaved /\ entries' = Without(entries, {w})
      BY <1>0, <1>1, <2>2 DEF HDel, Field, RustField, Durable, Unsaved
    <3>2. engine[p] = Nil /\ FieldsOf(p) \subseteq {w}
      BY <1>0, <2>0, <2>2, <3>1 DEF OnItsWay, HDel, At
    <3>3. FieldsOf(p)' = {}
      BY <3>1, <3>2 DEF FieldsOf, Without
    <3> QED
      BY <3>1, <3>2, <3>3 DEF BootLoad
  <2> QED
    BY <2>1, <2>2
<1>7. unsaved \subseteq unsaved'
  BY DEF HSet, HDel, Unsaved
<1>8. ASSUME NEW q \in Prefixes \ unsaved'
      PROVE  /\ Alone(q)'
             /\ (\A u \in Threads : ~Writes(u, q)') => Saved(q)'
             /\ \A u \in Threads : Writes(u, q)' => OnItsWay(u, q)'
  <2>1. Alone(q)' /\ Alone(q) /\ q \notin unsaved
    BY <1>3, <1>7 DEF SaveInv, Alone
  <2>2. CASE q = p
    <3>1. Saved(p)' /\ \A u \in Threads : Writes(u, p)' => u = t
      BY <1>2, <1>3, <1>6, <2>1, <2>2 DEF Saved, Alone
    <3> QED
      BY <1>2, <2>1, <2>2, <3>1 DEF OnItsWay
  <2>3. CASE q # p
    <3>1. (Saved(q)' <=> Saved(q)) /\ FieldsOf(q)' = FieldsOf(q) /\ ~Writes(t, q)
      BY <1>2, <1>3, <1>5, <2>3 DEF Saved
    <3>2. (\A u \in Threads : ~Writes(u, q)') => Saved(q)'
      BY <1>3, <2>1, <3>1 DEF SaveInv
    <3>3. ASSUME NEW u \in Threads, Writes(u, q)' PROVE OnItsWay(u, q)'
      <4>1. OnItsWay(u, q) /\ th'[u] = th[u]
        BY <1>2, <1>3, <2>1, <3>1, <3>3 DEF SaveInv
      <4> QED
        BY <1>2, <3>1, <4>1 DEF OnItsWay
    <3> QED
      BY <2>1, <3>2, <3>3
  <2> QED
    BY <2>2, <2>3
<1> QED
  BY <1>4, <1>8 DEF SaveInv

\* the last step of insert and remove: what the writer left is saved
LEMMA SaveReturn ==
    ASSUME TypeOK, SaveInv, NEW t \in Threads, Invalidate(t) PROVE SaveInv'
<1>1. /\ UNCHANGED <<engine, entries, unsaved>> /\ th[t].pc = "invalidate"
      /\ th'[t].w = Nil /\ \A u \in Threads : u # t => th'[u] = th[u]
  BY DEF TypeOK, Invalidate, At, Return, Idle
<1>2. Writing'
  BY <1>1 DEF SaveInv, Writing
<1>3. \A p \in Prefixes : FieldsOf(p)' = FieldsOf(p) /\ (Saved(p)' <=> Saved(p))
  BY <1>1 DEF Saved, BootLoad, FieldsOf
<1>4. ASSUME NEW p \in Prefixes \ unsaved
      PROVE  /\ Alone(p)'
             /\ (\A u \in Threads : ~Writes(u, p)') => Saved(p)'
             /\ \A u \in Threads : Writes(u, p)' => OnItsWay(u, p)'
  <2>1. ~Writes(t, p)' /\ \A u \in Threads : u # t => (Writes(u, p)' <=> Writes(u, p))
    BY <1>1 DEF Writes
  <2>2. Alone(p)'
    BY <2>1 DEF SaveInv, Alone
  <2>3. ASSUME \A u \in Threads : ~Writes(u, p)' PROVE Saved(p)'
    <3>1. CASE Writes(t, p)
      BY <1>1, <1>3, <3>1 DEF SaveInv, OnItsWay
    <3>2. CASE ~Writes(t, p)
      BY <2>1, <1>3, <2>3, <3>2 DEF SaveInv
    <3> QED
      BY <3>1, <3>2
  <2>4. ASSUME NEW u \in Threads, Writes(u, p)' PROVE OnItsWay(u, p)'
    <3>1. OnItsWay(u, p) /\ th'[u] = th[u]
      BY <1>1, <2>1, <2>4 DEF SaveInv
    <3> QED
      BY <1>1, <1>3, <3>1 DEF OnItsWay
  <2> QED
    BY <2>2, <2>3, <2>4
<1> QED
  BY <1>1, <1>2, <1>4 DEF SaveInv
\* every step, and every crash, leaves the saved prefixes saved
LEMMA NextSave ==
    ASSUME TypeOK, Durable, SaveInv, [Next]_vars PROVE SaveInv'
<1>1. ASSUME NEW t \in Threads, NEW w \in Written, NEW v \in Vals, Insert(t, w, v),
             UNCHANGED lang
      PROVE  SaveInv'
  <2>1. /\ th[t].pc = "idle" /\ th'[t].w = w /\ th'[t].pc = "hset"
        /\ th'[t].m = [p |-> w.net, v |-> v]
        /\ \A u \in Threads : u # t => th'[u] = th[u]
    BY <1>1 DEF Insert, At, TypeOK, Idle, Durable
  <2>2. th[t].w = Nil
    BY <2>1 DEF SaveInv, Writing
  <2> QED
    BY <1>1, <2>1, <2>2, SaveBegin DEF Insert
<1>2. ASSUME NEW t \in Threads, NEW w \in Written, Remove(t, w), UNCHANGED lang
      PROVE  SaveInv'
  <2>1. /\ th[t].pc = "idle" /\ th'[t].w = w /\ th'[t].pc = "hdel"
        /\ \A u \in Threads : u # t => th'[u] = th[u]
    BY <1>2 DEF Remove, At, TypeOK, Idle, Durable
  <2>2. th[t].w = Nil
    BY <2>1 DEF SaveInv, Writing
  <2> QED
    BY <1>2, <2>1, <2>2, SaveBegin DEF Remove
<1>3. ASSUME NEW t \in Threads, HSet(t) \/ HDel(t), UNCHANGED lang PROVE SaveInv'
  BY <1>3, SaveCommand
<1>4. ASSUME NEW t \in Threads, Invalidate(t) PROVE SaveInv'
  BY <1>4, SaveReturn
<1>5. ASSUME NEW t \in Threads, Clear(t) PROVE SaveInv'
  <2>1. th[t].w = Nil
    BY <1>5 DEF Clear, At, SaveInv, Writing
  <2>2. Writing' /\ unsaved' = Prefixes
    BY <1>5, <2>1 DEF Clear, Goto, SaveInv, Writing, TypeOK, Unsaved, Durable
  <2> QED
    BY <2>2 DEF SaveInv
<1>6. ASSUME NEW t \in Threads,
             \/ ClearCache(t) \/ (\E ip \in Ips : Lookup(t, ip)) \/ Hit(t) \/ Miss(t)
             \/ EngineLookup(t) \/ GetShared(t) \/ Store(t) \/ SetShared(t)
             \/ SeeExpired(t) \/ DeleteExpired(t)
      PROVE  SaveInv'
  <2>1. /\ UNCHANGED <<engine, entries, unsaved>>
        /\ th[t].pc \notin {"hset", "hdel", "invalidate"}
    BY <1>6 DEF ClearCache, Lookup, Hit, Miss, EngineLookup, GetShared, Store, SetShared,
                SeeExpired, DeleteExpired, At
  <2>2. th[t].w = Nil
    BY <2>1 DEF SaveInv, Writing
  <2>3. th'[t].w = Nil /\ \A u \in Threads : u # t => th'[u] = th[u]
    <3>1. CASE ClearCache(t) \/ Hit(t) \/ SetShared(t)
      BY <3>1 DEF TypeOK, ClearCache, Hit, SetShared, Return, Idle
    <3>2. CASE Miss(t) \/ SeeExpired(t) \/ DeleteExpired(t)
      BY <3>2, <2>2 DEF TypeOK, Miss, SeeExpired, DeleteExpired, Goto
    <3>3. CASE \E ip \in Ips : Lookup(t, ip)
      BY <3>3 DEF TypeOK, Lookup, Idle
    <3>4. CASE EngineLookup(t)
      BY <3>4, <2>2 DEF TypeOK, EngineLookup
    <3>5. CASE GetShared(t)
      BY <3>5, <2>2 DEF TypeOK, GetShared, Goto
    <3>6. CASE Store(t)
      BY <3>6, <2>2 DEF TypeOK, Store, Goto, Return, Idle
    <3> QED
      BY <1>6, <3>1, <3>2, <3>3, <3>4, <3>5, <3>6
  <2> QED
    BY <2>1, <2>2, <2>3, SaveFrame
<1>7. ASSUME NEW ip \in Ips, Expire(ip) PROVE SaveInv'
  BY <1>7, SaveFrame DEF Expire
<1>8. CASE Restart
  <2>1. \A t \in Threads : th'[t].w = Nil
    BY <1>8 DEF Restart, Idle
  <2>2. ASSUME NEW p \in Prefixes \ unsaved' PROVE Saved(p)'
    <3>1. BootLoad(p)' = BootLoad(p)
      BY <1>8 DEF Restart, BootLoad, FieldsOf
    <3>2. BootLoad(p) = {engine'[p]}
      BY <1>8, <2>2 DEF Restart, Unsaved, Durable
    <3> QED
      BY <3>1, <3>2 DEF Saved
  <2> QED
    BY <2>1, <2>2 DEF SaveInv, Writing, Alone, Writes
<1>9. CASE UNCHANGED vars
  BY <1>9, SaveFrame DEF vars
<1> QED
  BY <1>1, <1>2, <1>3, <1>4, <1>5, <1>6, <1>7, <1>8, <1>9
     DEF Next, LookupWithCache, GoLookupWithCache, Write, GoWrite
----------------------------------------------------------------------------
(***************************************************************************)
(* A completed insert or remove survives crashes in Rust (cache.rs:42-53,  *)
(* 143-149): for any threads, prefixes, spellings of them, failures of     *)
(* Redis and orders of boot-loading, a prefix is loaded as the engine has  *)
(* it if its last write had the prefix to itself, Redis did not fail it,   *)
(* no clear() came after it, and the hash did not have the prefix under    *)
(* another spelling.                                                       *)
(***************************************************************************)
THEOREM SavedUnlessDisturbedHolds == Spec => []SavedUnlessDisturbed
<1> DEFINE Inv == TypeOK /\ (Durable => SaveInv)
<1>1. Init => Inv
  <2> SUFFICES ASSUME Init PROVE SaveInv
    BY InitTypeOK
  <2>1. \A t \in Threads : th[t].w = Nil
    BY DEF Init, Idle
  <2>2. \A p \in Prefixes : Saved(p)
    BY DEF Init, Saved, BootLoad, FieldsOf
  <2> QED
    BY <2>1, <2>2 DEF SaveInv, Writing, Alone, Writes
<1>2. Inv /\ [Next]_vars => Inv'
  <2> SUFFICES ASSUME Inv, [Next]_vars, Durable' PROVE SaveInv'
    BY NextTypeOK
  <2>1. Durable
    BY DEF Durable, Next, vars
  <2> QED
    BY <2>1, NextSave
<1>3. Inv => SavedUnlessDisturbed
  BY DEF SaveInv, SavedUnlessDisturbed, Saved, Durable
<1> QED
  BY <1>1, <1>2, <1>3, PTL DEF Spec
----------------------------------------------------------------------------
Bounded == IsFiniteSet(DOMAIN cache) /\ CacheBounded

\* dropping entries keeps the limit
LEMMA BoundedDrop ==
    ASSUME MaxEntries \in Nat, Bounded, DOMAIN cache' \subseteq DOMAIN cache PROVE Bounded'
<1>1. /\ IsFiniteSet(DOMAIN cache') /\ Cardinality(DOMAIN cache') <= Cardinality(DOMAIN cache)
      /\ Cardinality(DOMAIN cache') \in Nat /\ Cardinality(DOMAIN cache) \in Nat
  BY FS_Subset, FS_CardinalityType DEF Bounded
<1> QED
  BY <1>1 DEF Bounded, CacheBounded

\* lookup_with_cache makes room before it adds, also with max_entries = 0
LEMMA BoundedStore ==
    ASSUME MaxEntries \in Nat, TypeOK, Bounded, NEW t \in Threads, Store(t) PROVE Bounded'
<1>1. PICK rest \in Evicted : cache' = Put(rest, th[t].ip, th[t].m)
  BY DEF Store
<1>2. DOMAIN cache' = DOMAIN rest \cup {th[t].ip}
  BY <1>1 DEF Put
<1> DEFINE n == Cardinality(DOMAIN cache)
<1>3. IsFiniteSet(DOMAIN cache) /\ n \in Nat /\ n <= IF MaxEntries = 0 THEN 1 ELSE MaxEntries
  BY FS_CardinalityType DEF Bounded, CacheBounded
<1>4. /\ IsFiniteSet(DOMAIN rest) /\ Cardinality(DOMAIN rest) \in Nat
      /\ Cardinality(DOMAIN rest) < IF MaxEntries = 0 THEN 1 ELSE MaxEntries
  <2>1. CASE n < MaxEntries
    <3>1. rest = cache
      BY <1>1, <2>1 DEF Evicted
    <3> QED
      BY <3>1, <2>1, <1>3
  <2>2. CASE cache = <<>>
    <3>1. DOMAIN rest = {}
      BY <1>1, <2>2 DEF Evicted
    <3> QED
      BY <3>1, FS_EmptySet
  <2>3. CASE ~(n < MaxEntries) /\ cache # <<>>
    <3>1. PICK key \in DOMAIN cache : rest = Without(cache, {key})
      BY <1>1, <2>3 DEF Evicted
    <3>2. DOMAIN rest = DOMAIN cache \ {key}
      BY <3>1 DEF Without
    <3>3. IsFiniteSet(DOMAIN rest) /\ Cardinality(DOMAIN rest) = n - 1 /\ Cardinality(DOMAIN rest) \in Nat
      BY <1>3, <3>1, <3>2, FS_RemoveElement, FS_CardinalityType
    <3> QED
      BY <1>3, <3>3
  <2> QED
    BY <2>1, <2>2, <2>3
<1>5. /\ IsFiniteSet(DOMAIN cache')
      /\ Cardinality(DOMAIN cache') \in {Cardinality(DOMAIN rest), Cardinality(DOMAIN rest) + 1}
  BY <1>2, <1>4, FS_AddElement
<1> QED
  BY <1>4, <1>5 DEF Bounded, CacheBounded

(***************************************************************************)
(* The cache never holds more than max_entries results, or one if that is  *)
(* zero (cache.rs:84-90), whatever the threads, the expiry and crashes.    *)
(***************************************************************************)
THEOREM CacheBoundedHolds ==
    ASSUME MaxEntries \in Nat PROVE Spec => []CacheBounded
<1> DEFINE Inv == TypeOK /\ Bounded
<1>1. Init => Inv
  <2> SUFFICES ASSUME Init PROVE Bounded
    BY InitTypeOK
  <2>1. DOMAIN cache = {}
    BY DEF Init
  <2> QED
    BY <2>1, FS_EmptySet DEF Bounded, CacheBounded
<1>2. Inv /\ [Next]_vars => Inv'
  <2> SUFFICES ASSUME Inv, [Next]_vars PROVE Bounded'
    BY NextTypeOK
  <2>1. ASSUME NEW t \in Threads, Store(t) PROVE Bounded'
    BY <2>1, BoundedStore
  <2>2. ASSUME NEW t \in Threads,
               Invalidate(t) \/ ClearCache(t) \/ DeleteExpired(t) PROVE Bounded'
    <3>1. DOMAIN cache' \subseteq DOMAIN cache
      BY <2>2 DEF Invalidate, ClearCache, DeleteExpired, Without
    <3> QED
      BY <3>1, BoundedDrop
  <2>3. CASE Restart
    <3>1. DOMAIN cache' \subseteq DOMAIN cache
      BY <2>3 DEF Restart
    <3> QED
      BY <3>1, BoundedDrop
  <2>4. CASE UNCHANGED cache
    BY <2>4, BoundedDrop
  <2> QED
    BY <2>1, <2>2, <2>3, <2>4
       DEF Next, LookupWithCache, GoLookupWithCache, Write, GoWrite, Insert, Remove, HSet, HDel,
           Clear, Lookup, Hit, Miss, EngineLookup, GetShared, SetShared, SeeExpired, Expire, vars
<1>3. Inv => CacheBounded
  BY DEF Bounded
<1> QED
  BY <1>1, <1>2, <1>3, PTL DEF Spec
=============================================================================
